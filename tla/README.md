# Verification of capi-k8s-release

TLA+ specifications of the Go programs of this repository, model-checked with
TLC and, where it says so, proved with TLAPS. `PROJECT.json` lists the runs,
the mutants that show that each property can be broken, the source lines behind
each definition, the findings and the hazards.

## 1. The system

capi-k8s-release runs Cloud Controller (CC, the CF API) on Kubernetes. CC is a
Ruby program of another repository; here are the Go programs around it, their
templates and their builds. Paths are relative to the repository's root.

| Part | State it keeps | Operations | What makes it correct |
|---|---|---|---|
| **Route sync** `src/cf-api-controllers/controllers/periodic_sync_controller.go` | none but the locals of one reconcile; the `PeriodicSync` resource's status | list CC's routes, list the Route resources, update / create / delete one by one, report | a write is a repair; "Completed" is true; other people's resources are left alone; Kubernetes converges to CC |
| **Requeueing of syncs** same file, `apis/.../periodicsync_types.go` | queue key, timer, status with a time stamp | requeue after the period, after an error, on an event | never forgotten; ends with the resource; keeps the period |
| **Route translation** `cf/kubernetes/route_translator.go` | none | CC route -> Route resource; compare specs | a resource routes as its CC route says; edits are noticed |
| **Build controller** `controllers/build_controller.go` | work queue | filter kpack's build events, fetch the image's config, PATCH the CC build | reports are true, arrive, and are not repeated for ever |
| **Image controller** `controllers/image_controller.go` | work queue | put an image rebuilt for a new stack into StatefulSet and droplet | the pair (source, droplet) stays; the update arrives |
| **CF API client** `cf/` | cached UAA token (library) | three calls, each with a token | an error for anything but a 200 |
| **Manager** `main.go`, `config.go` | configuration, read once | start three controllers, one worker each, one replica | restart loses no work |
| **registry-buddy** `src/registry-buddy` (sidecar of API server and workers, two replicas and more) | none; HTTP requests in flight, a goroutine per upload | upload a package as an image, delete an image, health, shutdown | a deleted image is gone or an error; an uploaded one is whole; no stuck request; a process that cuts requests off says so |
| **backup-metadata-generator** `src/backup-metadata-generator` (command run by velero's hook) | none | list orgs, spaces, apps, users; print or compare | totals and summary agree, failures are visible |
| templates, builds, CI, fakes, generated code | none | | |

**How they interact.** The three controllers share a process and nothing else.
Each has a work queue fed by an informer (controller-runtime): events of kpack
builds, kpack images and the PeriodicSync resource become keys; one worker per
controller takes a key, reads the object from the informer's *cache*, and calls
CC, the registry or the API server. Cloud Controller itself writes its
database and the Route resources in two steps (decisions/0004). kpack, Eirini,
users and operators change the same resources. `controllers_deployment.yml`
runs one replica with `maxSurge: 0`, so there is one manager at a time.

**What is hard.** Two lists taken one after the other and then used in a long
row of calls; caches that lag; updates refused by their resourceVersion and
deletes that carry none; calls that take effect and whose answer is lost;
restarts that drop queues; requeues by result, by timer and by the
controller's own writes; a goroutine that shares a pipe, a channel and a zip file
with a handler; a shutdown with a deadline among requests; four lists, of
several pages each, of an installation that changes meanwhile; one object with two
writers, read between their writes; reports of several builds for one GUID; rolling
deployments that begin under the worker's hands. `PROJECT.json` "hazards"
has them line by line, the ones without a property included.

## 2. The modules

| Module | Models |
|---|---|
| `RouteTranslator` | `TranslateRoute`, `CompareRoutes` as operators, with Go 1.14's one loop variable per loop |
| `MCRouteTranslator` | one route edited in CC and synced, for TLC |
| `RouteSync`, `MCRouteSync` | one sync after another against CC's requests, operators, a lagging cache, faults; EXTENDS `RouteTranslator` |
| `PeriodicSync` | when a sync runs: queue key, timer, events, status, seconds |
| `Workqueue` | the work queue as the other controllers use it (external); instantiated by both |
| `BuildController`, `MCBuildController` | events -> filter -> queue -> reconcile -> PATCH, with kpack and CC around it |
| `ImageController` | the same for stack updates, with kpack, CC's droplets and Eirini's StatefulSets |
| `ImageDeleter` | registry-buddy's `DELETE /images` with both deleters, against three kinds of registry |
| `TarStream` | package `archive`: the goroutine that writes a tar from a zip or a `TarBuilder`, its pipe, its reader and `Close` |
| `RegistryBuddy`, `MCRegistryBuddy` | the registry-buddy's process: start, `POST /packages` and `GET /healthz`, signal, shutdown; EXTENDS `TarStream` |
| `BackupMetadata`, `MCBackupMetadata` | the backup-metadata-generator: a report and a comparison, in an installation that changes |
| `StagingReports` | abstract specification: what the Build controller promises to CC. `BuildController` implements it |
| `RouteMirror` | abstract specification: what a sync of the routes promises. `RouteSync` implements it |
| `PackageService` | abstract specification: what the registry-buddy promises to clients and kubelet. `RegistryBuddy` implements it |
| `RouteTranslatorProofs`, `RouteSyncProofs`, `PeriodicSyncProofs`, `BuildControllerProofs`, `ImageControllerProofs`, `ImageDeleterProofs`, `RegistryBuddyProofs`, `BackupMetadataProofs` | the theorems |

### RouteSync

A route's CC row is `cc[r]`, its resource `k8s[r]`; `lag[r]` holds the versions
the informer has yet to leave, so that `Cached(r)` is an old one. A user's
request (`CCBegin`) leaves CC two writes, `CCWriteRow` and `CCWriteResource`, in
either order, and `CCAbort` ends it in between. A sync is `ListRoutes`,
`ListK8s`, then one `Update`, `Create` or `Delete` per route in the three loops'
order, then `Report`; each is one call and may fail before or after it took
effect (`Call`). `pc`, `listed`, `snap`, `todo`, `ok` are the reconcile's locals
(`ccRouteMap`, `k8sRouteMap`, what is left of the loops,
`reconciledSuccessfully`). `ToUpdate`, `ToCreate`, `ToDelete` are the loops'
conditions. `ccMoved` and `k8sMoved` are what others wrote since the lists;
the second decides also whether an Update's resourceVersion is current.

* `SuccessMeansSynced`: a sync about to say Completed has left every route
  in sync that nobody disturbed.
* `WritesRepair`: every write makes resource and row agree, unless the row was
  written after CC was listed. It holds however old the cache is, because an
  update is refused, a create finds the name taken, and a delete of a route
  that CC does not have is right whatever it hits.
* `UnmanagedUntouched`: a resource without the managed-by label changes only if
  it lost the label behind the sync's back.
* `ImplementsMirror`: the module implements `RouteMirror`, where a sync looks at all
  rows at one moment (`LookAtRows`), then at the resources, some of which it sees as
  they no longer are (`LookAtResources`), makes resources what the rows said, one by
  one and each at most once (`Mirror`), and completes or gives up. A resource is
  replaced only as it was seen, and only a managed one, but that of a route without a
  row goes in any case; `Complete` needs the resources that nobody else touched to be
  what the rows said. The refinement mapping is the identity on rows, resources, the
  sync's position, the listed rows and the status; `k8sMoved` is `touched`, and `Tried`
  the routes whose call is no longer in `todo`. Cache, informer, requests, the order
  of the loops, refused and lost calls are hidden. `Versioned` is what the
  resourceVersion of an update adds: without it the promise is broken.
* `Converges`, `StatusBecomesTrue`: after the last disturbance.
* `LiveRoutesStay`: violated, see findings.

### PeriodicSync

`obj` is the resource and `lag` its versions on the way to the cache. A
reconcile is `Start` (the cached Get), then `SyncSucceeds` or `SyncFails`, which
write the status (accepted, refused as stale, or failed on either way) and
leave a requeue in `dirty` or `timer`. Every version of the resource is an event
(`Inform`), the status writes included. Time is `Tick`, a second, the resolution
of LastTransitionTime: a second status write in the same second with the same
reason creates no version, and that is what ends the chain of self-started
syncs. `since` remembers when the last undisturbed sync was reported.

* `NoLostWakeup`: while there is a resource with a positive period, the worker,
  the queue, a timer or an event has it.
* `KeepsSyncing`, `DeletedComesToRest`; `PeriodKept` is violated, see findings.

### BuildController

`phase` and `deleted` are kpack's builds, `seen` the informer's view (it may skip
versions), `cc[g]` the CC build and the kpack build its state came from. `Guid`
and `Reason` are the label and the annotation that the filter reads. A reconcile
is `Start`, `FetchImageConfig` for a successful build, `UpdateBuild`. CC accepts a
report for a staging build; for one in a final state it may accept or refuse
(`FinalAnswers`), for a deleted one it refuses. `Restart` drops queue and worker.

* `ReportsHonest`: a CC build is staged or failed only by a kpack build of its own
  with that outcome.
* `NoReportLost`, `Reported`: a finished build's report waits somewhere, and arrives.
* `ComesToRest`: the retries end, unless CC goes on refusing (the code says so in
  a TODO).
* `ImplementsReports`: the module implements `StagingReports`, which has neither
  queue nor cache nor retries: CC learns of an end in one step (`Report`), once the
  build has had it, and a CC build that is gone stays gone. The refinement mapping
  is the identity on kpack's and CC's builds; everything else is hidden.

### ImageController

An image reference is (source droplet, number of stack updates). `image[i]` is the
kpack image, which has two writers: CC, which sets the label and the source of a new
droplet (`StageDroplet`), and kpack, which writes the status when it starts a build
and when it ends one (`StartBuild`, `FinishBuild`). `built` is the droplet of kpack's
last build. Until kpack has caught up, label and status of a version do not belong
together, and neither the filter nor `Reconcile` can tell. The end of a droplet's
build reaches CC in a step of its own (`ReportBuild`, in the code the Build
controller's), maybe after a stack update of the same image. `droplets` and `app` are
CC's, `sets` the StatefulSets (`Names` bounds them: two allow a rolling
deployment). The manager is down at first and after a `Crash`; `LoadConfigFails` and
`StartManager` are `main`, and the create events of the new informer refill the
queue (`Relisted`). While it is down kpack, CC and Eirini go on. The worker lists
(`ListStatefulSets`: none, one, several), updates
(`UpdateStatefulSet`, refused if `moved`) and patches (`UpdateDroplet`). Only images
with the label of an app are modelled, so that part of the filter is left out.

Four histories name what the code does not do right or gives up on: `missed`, the
images of which the List found no StatefulSet (a comment in the code says so);
`early`, those whose rebuild was sent to CC under the label of a droplet that was not
staged yet; `mixed`, the pairs of an image and a droplet whose label the worker took
together with the status of the droplet before; `overtaken`, the images one of whose
StatefulSets was started behind the List.

* `DropletKeepsSource`: a droplet never gets the image of another source, unless it is
  in `mixed`. With the exception left out the property is false of this code: CC
  relabels an image that is Ready with the reason STACK, the worker takes that version
  (`image_controller.go:69`) and PATCHes the new droplet with the old one's image
  (line 113). That a relabelling before or after that moment does no harm, also while the
  worker waits or tries again, is the property.
* `NoDropletLost`: a rebuilt droplet is not forgotten, but for the `missed` and the
  `early`.
* `NoRebaseLost` is violated, see findings; `OnlyOvertakenLost` is what is true of
  it: only a StatefulSet started behind the List (`overtaken`) can be left behind.
* `Arrives`: unless missed, early, overtaken or met by a rolling deployment, the rebuild
  gets into StatefulSet and droplet.

### ImageDeleter

One repository: `tag` is the image that its tag names, `manifests` its images. A
job of CC (`Request`, `Retry`, external) asks a registry-buddy to delete a `ref`,
the tag or a digest; `pc` is the call its request is at. `GetDescriptor`,
`DeleteTag`, `DeleteManifest` are `NewGenericDeleter`'s calls, `GetAuthorizationToken`
and `DeleteRepo` `NewDockerhubDeleter`'s; `AfterGet`, `AfterTag`, `AfterRefusal` say
which errors end the request and which are ignored. The kinds of registry are
those that the code's comments and README name. `Fail` is a failed call, a lost
answer or the end of the process (`handleServerShutdown` gives up after 25
seconds); in all of them the handler goes no further. Registries that delete
later than they answer are not modelled.

* `NothingLeftBehind`: an untagged image is in the hands of a deletion by tag, or
  is in `spared` for one of three reasons: a push replaced it; it was pushed
  between another deletion's get and delete of the tag; a deletion failed after
  the tag was gone, and its retry takes the 404 for success.
* `AcceptedIsGone`: what a 202 means, with other deletions and pushes around it.
* `DeletionEnds`: repeated deletions are answered 202, unless the registry holds a
  tagged image against a deletion by digest.

### TarStream and RegistryBuddy

A stream is one goroutine (`gen`, where it is; `result`, what its function has come
to), the write end of a pipe (`pipe`) and a reader. A pipe has no buffer, so a
header or a content that is written is one that is read (`tar`). `OpenZip`,
`EntryFails`, `WriteHeader`, `WriteContent`, `ContentFails`, `WriteFails`, `LastEntry`
are the steps of `WriteZipToTar` with its errors and panics, `CloseTar` and
`ClosePipe` the end of the goroutine; `send` is the result on the unbuffered
channel, which `Rendezvous` hands to a `Close`. An entry has what the header is made
from: a kind, a mode, a time stamp and whether its file system is FAT. A wrong
checksum is noticed after a file's last byte, when entry and trailer are still written
(`ContentFails`); a tar writer adds no trailer after an entry that is unfinished.
`Close` of a reader that is closed already changes nothing and is no step.

In `RegistryBuddy` a request of `POST /packages` is in flight with its first byte
(`Arrive`), reads its body as slowly as its client sends it, also while the server
drains (`ReadBody`), and then such a stream (`Upload`, `LayerRead`, `RemoteWrite`); other users of the package may read and close one, also
from a `TarBuilder` (`OtherReader`). `main`, `handling` and `signalled` are the main
goroutine, `handleServerShutdown` and the signal's channel. The shutdown's context
expires after 25 seconds, a request may take 60, so `DeadlineExceeded` may come at
any moment of any request.

* `EndMeansWhole`: the reader meets the end of the file only after the whole tar.
  It needs `CloseWithError` with the error, and `tw.Close` without a trailer after
  one; `HashMeansPushed` takes it to the client.
* `Reproducible`: zips that differ in time stamps give the same tar. A symlink that
  cannot be opened is the exception: its target becomes empty, and no error is made.
* `ZipReleased`, `TarsEnd`, `CloseReturns`: the zip file is closed when the request is
  answered; the tar ends; `Close` returns unless the goroutine panicked. An upload
  never calls `Close`, so each leaves a goroutine at its channel for good.
* `SignalEnds`: after a signal the process ends. `CleanEnd`, that 0 means that no
  request was cut off, is proved; the run has it as part of `ImplementsService`.
* `ImplementsService`: the module implements `PackageService`, which opens and closes
  once, gives each request that it takes in one answer, stores a package whole or not
  at all, and ends with 0 only when closed and with nothing left to answer. `Phase`
  maps the positions of `main` and `handleServerShutdown`, `InFlight` the requests it is
  working at, `Stored` a pushed tar to a package, or to a part of one, which
  `PackageService` does not know. Goroutines, pipes, other readers and signals are hidden.

### BackupMetadata

`cf` is what the installation holds, by GUID; `Name` gives one name to several GUIDs,
as a restored org has. The command is `Start` (environment and arguments),
`ReadInput` when it compares, `Connect`, four lists, then `PrintMetadata` or
`PrintComparison`. A list is one `ReadPage` after another, or ends in `ListFails` on any
of its pages; others `Create` and `Delete` at any time, also between two pages. The rows
that were on the pages read so far are `Passed`. A page is a range of positions, so the
deletion of such a row moves the first of the next page to a page that nobody reads
again: `Shift` puts it into `skipped`. A new row comes last.
`OrgsSummary` is the report, built from the maps of the source. The summaries are
sets: the order of a list is the CF API's, which may be another once something was
created (`reordered`), and then the same things may be reported as different.

* `NothingDropped`: what is counted has its place in the summary, whatever is deleted
  between the lists or during one, because orgs are listed before spaces and spaces
  before apps; but for the children of exactly those orgs and spaces that were
  `skipped`. The code does drop these (`client.go:49`): a live org is in no page, and its
  spaces count in the totals without a place. Where nothing is deleted, nothing is
  skipped.
* `ComparisonTrue`: "no difference" means the same names and number of users, and is
  said of them unless reordered.
* `FailureShows`: a failed list goes without an error, as an empty one with exit code
  0; a comparison says "no difference" only if the backup has none of the kind either.

## 3. The runs

| Run | Instance | Shows |
|---|---|---|
| `translate` | 2 hosts, spaces, domains, ports, apps; up to 2 destinations, also of one app | which edits a sync notices: all but space transfers and the ports of all destinations but the last |
| `translate_ports` (violation) | same | the port bug |
| `route_sync` | 2 routes, 2 contents, no drifted spec, 1 request or edit, 1 fault, page of 2 | safety, the refinement of `RouteMirror`, and liveness from every initial disagreement; 2 routes are needed for a failure of one not to hide the other's |
| `route_sync_page` (violation) | page of 1 | live routes beyond the page are deleted |
| `requeue` | periods 0..2 s, delays 0..2 s, 3 edits or restarts, lag up to 3 | safety and liveness of the requeueing |
| `requeue_period` (violation) | same | a sync starts itself again |
| `builds` | 3 builds (CONFIG, BUILDPACK, STACK) of 1 CC build, accept and refuse, 1 fault | truth, no loss, arrival, rest, and the refinement of `StagingReports` |
| `images` | 1 app that may stop, 2 StatefulSets, 2 droplets, 1 stack update, 3 operations, 1 fault | pairing of source and droplet but for `mixed`, nothing dropped but knowingly or overtaken, the update arrives |
| `images_race` (violation) | as `images`, no stops | the rolling deployment's race |
| `deletions` | 2 deletions, 2 images, 2 pushes, 2 faults, each kind of registry | all three properties; 2 images tell the one a deletion has read from the one the tag names by then |
| `uploads` | 1 stream, 1 health check, zips of up to 2 entries | TarStream's and RegistryBuddy's properties, among them the refinement of `PackageService` |
| `backup_metadata` | 3 orgs, 3 spaces and 3 apps, some of one name, 2 users, pages of 1 row, 2 operations, 1 fault | reports and comparisons, one after another |

**Bounds.** The counters `ops`, `faults`, `edits` end histories, not
behaviours of the code: one or two disturbances per sync are enough to meet a
call at each point, and several syncs fit in a history. The proofs have no
bounds. Streams do not touch each other, so one is enough for `uploads`; its zips
have an entry before and after a file and a symlink, and the failures are not
bounded. In `images` one stack update is enough to tell a rebuild from what it replaces (an
instance with 2 updates and 2 operations passes as well); three operations stop an
app, start it again and choose its droplet under the worker's hands. In
`backup_metadata` pages of one row and three orgs are the least at which a
deletion between two pages skips a row and the list still goes on; two operations let
something be deleted and another of the same name come in its place (three pass as
well, in four minutes); one failed list is enough, as lists fail independently. In
`translate` no definition tells the members of a set apart, so all of them are
symmetric.
A lag is as long as the writes allow (`MaxLag` guards the writes of
`PeriodicSync`). Contents of routes are two or one: the sync compares for equality
only. `CHECK_DEADLOCK FALSE` is set where everything may come to rest (all
builds reported, all images handled or deleted, the process ended); `RouteSync` and `PeriodicSync` never stop.

**Fairness.** Informers, timers and rate limiters are goroutines that run: weak
fairness of `Inform`, `ExpireDelay`, `Fire`, `Tick`. The worker goes on with what it
has: weak fairness of its next step, which says that calls are answered (the
code sets no timeout, see hazards). It takes each key in its turn: strong
fairness of `Start(key)`, because the queue is first-in first-out while `Start` is
disabled whenever the worker is busy. CC's requests end, one way or another, and
its deletion jobs ask again after a failure.
The kubelet starts the manager as often as it takes (`StartManager`). In
`RegistryBuddy` the goroutines run and the deadline passes; neither registries nor
clients are assumed to answer, nor that a reader is closed: an upload may wait for
its registry for ever. `BackupMetadata` states no liveness and no fairness: the
command makes a fixed row of calls.
Faults are bounded, so they end; nothing is assumed of users, operators, kpack.

## 4. The proofs

For every value of the constants that the named assumptions (`...Assumption` of each
module) admit: the bounds are natural numbers, `None` and `Off` differ from real
values, and the sets that the code counts (StatefulSets of an app; orgs, spaces, apps)
are finite. Other premises stand in the theorems. Each inductive invariant is made of
named parts, was checked with TLC first, and is preserved action by action.

* `RouteTranslatorProofs`: `NoticesRoutingEdits`, for destinations of any number:
  two lists are translated alike exactly when they differ in nothing but the ports of
  all destinations but the last (`TranslatedAlike`, `SpecsAlike`), and the spec stays
  the translation of the route it was written from (`SpecTranslated`).
  `EqualPortsPreserved`: with one port for all destinations nothing is lost.
* `RouteSyncProofs`: `TypeCorrect`, `CompletedIsHonest`, `SyncRepairs`,
  `LiveRoutesAreSafe`, `UnmanagedIsSafe`, `Refinement`. `SuccessMeansSynced` is not
  inductive. `LoopsInv` says what the loops rely on, however much was listed of the CF
  API: the resources that the sync has yet to write are as it listed them, but for
  those that others wrote (`SnapCurrent`, `SnapManaged`), and a route out of the loops' way
  is what the listed row asks for unless a call failed (`DoneAsListed`); this is enough
  for unmanaged resources. `ListedCurrent` ties the listed rows to the CF API. It
  needs the premise `OnePage`, that one page holds all routes, and so do the other four;
  the violation run of `LiveRoutesStay` shows what happens otherwise.
* `PeriodicSyncProofs`: `TypeCorrect`, `NeverForgotten`. The strengthening is that a
  copy with the current version has the current period (`ReadIsCurrent`).
* `BuildControllerProofs`: `TypeCorrect`, `Honest`, `NothingLost`, `Refinement`
  (every step is one of `StagingReports` or a stutter). The strengthening:
  the informer's view is never ahead of a build (`SeenBehind`), the queue holds
  only filtered builds that were seen to end (`QueueFiltered`), and the worker's
  step fits the build it has (`StepFits`).
* `ImageControllerProofs`: `TypeCorrect`, `RightDroplet`, `DropletArrivesOrIsPending`,
  `OnlyTheOvertakenAreLost`, `OneStatefulSetIsReached`. Every version of an image, those
  on their way to the informer included, holds the source of kpack's last build, once
  that has ended (`VersionsSound`). A droplet that is being staged has no image, and
  what a droplet has of another source is older than what kpack has (`DropletsSound`). The
  worker's copy is a sound version, and in `mixed` if its label is not the droplet
  of that build (`WorkerSound`); so `RightDroplet` says that this one moment is the only
  one at which a foreign image gets to a droplet. The copy may
  be out of date only while the image is to come to the queue again or is no longer
  of interest (`CopyCurrent`); otherwise the worker has seen all StatefulSets but those started
  behind its List (`SetsInHand`), and what it drops has arrived (`OffTheWay`).
  `OneStatefulSetIsReached` is the violated `NoRebaseLost` where it holds: one
  StatefulSet per app, none stopped.
* `ImageDeleterProofs`: `TypeCorrect`, `NoLeftovers`, `AcceptedIsTrue`.
  `NothingLeftBehind` needs that only deletions by tag delete tags
  (`TagStepHasTag`); `AcceptedIsGone` that a reference by digest is resolved to itself
  (`DigestIsRef`, `TargetIsRef`) and that a tag which still names what a job is to
  remove was read as that (`ReadIsTarget`).
* `RegistryBuddyProofs`: `TypeCorrect`, `EndIsWhole`, `SameTar`, `HashIsTrue`,
  `ZipIsReleased`, `EndIsClean`, `Refinement`. `IInv` says where goroutine, pipe and reader are in
  relation to each other (`Positions`), that a function which returned without an
  error has written everything and its trailer has been read unless the reader was
  gone (`Written`), that what was read are the headers of the entries (`Normal`), how
  far a request and its stream are (`Answered`), and that nothing is accepted once
  the shutdown has begun (`Closed`). A stream's step leaves the others alone
  (`OthersStay`), so the invariant is shown for one stream. The refinement needs
  besides that a request is done when it has its answer and that nothing touches the
  reader of a stored package (`Settled`), so that what is stored is whole (`StoredWhole`).
* `BackupMetadataProofs`: `TypeCorrect`, `EverythingHasItsPlace`, `VerdictIsTrue`,
  `DroppedErrorShows`. `IInv`: the installation has unique names and no orphans
  (`Consistent`), nothing is listed before its turn (`InTurn`), a list that has ended
  has passed what is still there of its kind and the parents of what was listed after
  it (`ParentsListed`: passed, that is listed or skipped), and holds exactly what is there,
  with nothing skipped, if nothing changed (`ListedCurrent`), and
  input, backup and output are what they are said to be (`InputIsBackup`, `ExactBackup`,
  `ReportPrinted`, `VerdictPrinted`). `HasPlace` and `SummaryIsTree` are the lemmas about
  the summary; `AlikeReports` says that two installations with equal trees of names and
  as many users have equal reports, since a tree with unique names has as many orgs,
  spaces and apps as names of them (`CountByKey`, `TreeCounts`).

Only model-checked: the liveness properties `Converges`, `StatusBecomesTrue`,
`KeepsSyncing`, `DeletedComesToRest`, `Reported`, `ComesToRest`, `Arrives`, `DeletionEnds`,
`SignalEnds`, `CloseReturns` and `TarsEnd`, because fairness and ENABLED are beyond the
prover. Every other property of a passing run is proved. Of the violated
ones, `LiveRoutesStay`, `NoRebaseLost` and `PortsPreserved` are proved under the premise
that the code would need; `PeriodKept` has no such premise.

## 5. Findings

1. **Ports** (`route_translator.go:30`): `&dest.Port` of the range variable. All
   destinations of a route get the last one's port.
2. **One page** (`cf/client.go:109`): routes beyond the first 5000 are taken for
   deleted and their resources are deleted.
3. **Period** (`periodic_sync_controller.go:231`): the status write starts the
   next sync at once; syncs repeat until two fall into one second.
4. **Rolling deployment** (`image_controller.go:92`): the check for several
   StatefulSets is stale when the Update is made.

Two more things that the code does contradict no line of the repository, so they are
not listed as findings: a droplet that gets the image of another source
(`image_controller.go:69,113`) and an org or space that a deletion moves off the
pages (`client.go:49`). The models have both, the properties except them by name
(`mixed`, `skipped`), and without the exception TLC finds each of them.

## 6. Not modelled, and the plan

Not modelled for good: tokens, TLS and encoding (a call that fails covers
them), error texts and log lines, process types of a build, leader election (off in
the deployment), templates, builds, CI, fakes and generated deep copies;
StatefulSets without an `opi` container; contents and names of a zip's entries and
the file filter, which lets everything pass in production; `TarBuilder.WriteToPath`,
which writes to a file instead of a pipe; connections (a response body that is not closed) and calls that are never answered.
`StagingReports`, `RouteMirror`, `PackageService` and the properties model no code and have no lines in
the map.

To do, in this order:

1. An abstract specification of image deletions: a reference is there, or gone for
   good, behind the calls of `ImageDeleter`, checked by `deletions` and proved from
   `ImageDeleterProofs`' invariant.
2. The composition of `RouteSync` and `PeriodicSync`: the assumption "a sync is always
   due again" of the one is the liveness property of the other. It is an argument
   between two liveness properties, for TLC alone.

Runs are few on purpose: safety and liveness of a module share one where the state
space allows it.

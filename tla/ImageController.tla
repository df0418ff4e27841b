-------------------------- MODULE ImageController --------------------------
(***************************************************************************)
(* controllers/image_controller.go: when kpack has rebuilt an app's image  *)
(* for a new stack, the new image is put into the app's StatefulSet and    *)
(* into the CC droplet, in this order.                                     *)
(*                                                                         *)
(* Around it, all external: CC stages new droplets, which relabels the     *)
(* kpack image, and picks the app's current one; kpack builds images and   *)
(* writes their status, later than CC the label; Eirini starts, changes    *)
(* and stops StatefulSets from the current droplet.                        *)
(*                                                                         *)
(* An image reference is the droplet whose source it holds and the number  *)
(* of stack updates it has been through.                                   *)
(***************************************************************************)
EXTENDS Naturals, Sequences, FiniteSets

CONSTANTS
    Images,      \* kpack images, one per app
    Names,       \* names of an app's StatefulSets: more than one allow a
                 \* rolling deployment
    MayStop,     \* whether apps are stopped altogether
    MaxDroplets, \* bound: droplets of an app
    MaxStacks,   \* bound: stack updates of a droplet
    MaxOps,      \* bound: actions of CC's users and of Eirini
    MaxFaults,   \* bound: failed calls and restarts
    None

Droplets == 1..MaxDroplets
References == [source: Droplets, stacks: 0..MaxStacks]

ASSUME ImageControllerAssumption ==
    /\ None \notin Images /\ None \notin Names /\ None \notin References
    /\ IsFiniteSet(Names)
    /\ MayStop \in BOOLEAN
    /\ MaxDroplets \in Nat \ {0}
    /\ MaxStacks \in Nat /\ MaxOps \in Nat /\ MaxFaults \in Nat

VARIABLES
    dirty, delayed, active,  \* the queue of image names
    image,     \* the kpack images, or None when deleted
    lag,       \* older versions of each that the informer has yet to leave
    droplets,  \* per app, the image of each droplet, or None before staging
    staging,   \* apps one of whose droplets is being staged
    app,       \* per app, its current droplet
    sets,      \* per app, the image of each StatefulSet, or None
    step,      \* what the worker's reconcile does next
    copy,      \* its copy of the kpack image
    target,    \* the StatefulSet it listed
    moved,     \* whether others have written that StatefulSet since
    missed,    \* history: images whose last handling found no StatefulSet
    overtaken, \* history: images one of whose StatefulSets was started after
               \* the List of their handling
    early,     \* history: images whose last handling sent CC a rebuild under the
               \* label of a droplet that was not staged yet
    mixed,     \* history: images and droplets that the worker took for each
               \* other: CC had relabelled the image since its last build
    up,        \* the manager runs
    ops, faults

INSTANCE Workqueue WITH Keys <- Images

queue == <<dirty, delayed, active>>
kpack == <<image, lag>>
platform == <<droplets, staging, app, sets>>
worker == <<step, copy, target>>
history == <<missed, overtaken, early, mixed>>
vars == <<queue, kpack, platform, worker, moved, history, up, ops, faults>>

\* Its status, the label of the droplet it is for, and the droplet that kpack's
\* last build of it was for.
KpackImages == [ready: {"True", "False", "Unknown"}, reason: {"CONFIG", "STACK"},
                latest: References, droplet: Droplets, built: Droplets]

TypeOK ==
    /\ QueueTypeOK
    /\ image \in [Images -> KpackImages \cup {None}]
    /\ lag \in [Images -> Seq(KpackImages \cup {None})]
    /\ droplets \in [Images -> [Droplets -> References \cup {None}]]
    /\ staging \subseteq Images
    /\ app \in [Images -> Droplets]
    /\ sets \in [Images -> [Names -> References \cup {None}]]
    /\ step \in {"none", "list", "update", "patch"}
    /\ copy \in KpackImages \cup {None}
    /\ target \in Names \cup {None}
    /\ moved \in BOOLEAN
    /\ missed \subseteq Images
    /\ overtaken \subseteq Images
    /\ early \subseteq Images
    /\ mixed \subseteq Images \X Droplets
    /\ up \in BOOLEAN
    /\ ops \in 0..MaxOps
    /\ faults \in 0..MaxFaults

First == [source |-> 1, stacks |-> 0]
Running(i) == {n \in Names : sets[i][n] # None}

\* Every app runs its first droplet in one StatefulSet; the manager is yet to start.
Init ==
    /\ dirty = {} /\ delayed = {} /\ active = None
    /\ image = [i \in Images |-> [ready |-> "True", reason |-> "CONFIG",
                                  latest |-> First, droplet |-> 1, built |-> 1]]
    /\ lag = [i \in Images |-> <<>>]
    /\ droplets = [i \in Images |-> [d \in Droplets |-> IF d = 1 THEN First ELSE None]]
    /\ staging = {}
    /\ app = [i \in Images |-> 1]
    /\ \E n \in Names :
          sets = [i \in Images |-> [m \in Names |-> IF m = n THEN First ELSE None]]
    /\ step = "none" /\ copy = None /\ target = None /\ moved = FALSE
    /\ missed = {} /\ overtaken = {} /\ early = {} /\ mixed = {} /\ up = FALSE
    /\ ops = 0 /\ faults = 0

-----------------------------------------------------------------------------
(* kpack, Cloud Controller, Eirini and the informer.                       *)

SetImage(i, new) ==
    /\ image' = [image EXCEPT ![i] = new]
    /\ lag' = IF up THEN [lag EXCEPT ![i] = Append(@, image[i])] ELSE lag

\* CC stages a new droplet, one of an app at a time: it writes the label and the
\* source of the kpack image, whose status is that of the last build for a while.
StageDroplet(i) ==
    /\ image[i] # None
    /\ i \notin staging
    /\ image[i].droplet < MaxDroplets
    /\ SetImage(i, [image[i] EXCEPT !.droplet = @ + 1])
    /\ staging' = staging \cup {i}
    /\ UNCHANGED <<queue, droplets, app, sets, worker, moved, history, up, ops, faults>>

\* kpack starts a build: for a new droplet, or of the last one for a new stack.
StartBuild(i) ==
    /\ image[i] # None
    /\ \/ /\ image[i].ready # "Unknown"
          /\ image[i].built # image[i].droplet
          /\ SetImage(i, [image[i] EXCEPT !.ready = "Unknown", !.reason = "CONFIG",
                                          !.built = image[i].droplet])
       \/ /\ image[i].ready = "True"
          /\ image[i].built = image[i].droplet
          /\ image[i].latest.stacks < MaxStacks
          /\ SetImage(i, [image[i] EXCEPT !.ready = "Unknown", !.reason = "STACK"])
    /\ UNCHANGED <<queue, platform, worker, moved, history, up, ops, faults>>

Built(img) ==
    IF img.reason = "STACK" THEN [img.latest EXCEPT !.stacks = @ + 1]
                            ELSE [source |-> img.built, stacks |-> 0]

FinishBuild(i) ==
    /\ image[i] # None
    /\ image[i].ready = "Unknown"
    /\ \/ /\ SetImage(i, [image[i] EXCEPT !.ready = "True", !.latest = Built(image[i])])
          /\ IF image[i].reason = "STACK"
             THEN /\ missed' = missed \ {i}
                  /\ overtaken' = overtaken \ {i}
                  /\ early' = early \ {i}
                  /\ UNCHANGED mixed
             ELSE UNCHANGED history
       \/ /\ SetImage(i, [image[i] EXCEPT !.ready = "False"])
          /\ UNCHANGED history
    /\ UNCHANGED <<queue, platform, worker, moved, up, ops, faults>>

\* The end of a droplet's build is reported, maybe much later (BuildController):
\* the droplet is staged, with the image of that build, or has failed.
ReportBuild(i) ==
    /\ image[i] # None
    /\ i \in staging
    /\ image[i].built = image[i].droplet
    /\ image[i].ready = "Unknown" => image[i].reason = "STACK"
    /\ staging' = staging \ {i}
    /\ IF image[i].latest.source = image[i].droplet
       THEN droplets' = [droplets EXCEPT ![i][image[i].droplet] =
                                            [source |-> image[i].droplet, stacks |-> 0]]
       ELSE UNCHANGED droplets
    /\ UNCHANGED <<queue, kpack, app, sets, worker, moved, history, up, ops, faults>>

Op == ops < MaxOps /\ ops' = ops + 1

DeleteImage(i) ==
    /\ Op
    /\ image[i] # None
    /\ MayStop
    /\ SetImage(i, None)
    /\ UNCHANGED <<queue, platform, worker, moved, history, up, faults>>

\* Others write a StatefulSet of app i: a copy of it is out of date.
WriteSet(i, n, reference) ==
    /\ sets' = [sets EXCEPT ![i][n] = reference]
    /\ moved' = (moved \/ (active = i /\ target = n))

SetCurrentDroplet(i) ==
    /\ Op
    /\ \E d \in Droplets \ {app[i]} :
          /\ droplets[i][d] # None
          /\ app' = [app EXCEPT ![i] = d]
    /\ UNCHANGED <<queue, kpack, droplets, staging, sets, worker, moved, history, up, faults>>

StartStatefulSet(i, n) ==
    /\ Op
    /\ sets[i][n] = None
    /\ WriteSet(i, n, droplets[i][app[i]])
    /\ overtaken' = IF active = i /\ step \in {"update", "patch"}
                    THEN overtaken \cup {i} ELSE overtaken
    /\ UNCHANGED <<queue, kpack, droplets, staging, app, worker, missed, early, mixed, up, faults>>

\* The app is scaled, or its StatefulSet's status changes.
TouchStatefulSet(i, n) ==
    /\ Op
    /\ sets[i][n] # None
    /\ WriteSet(i, n, sets[i][n])
    /\ UNCHANGED <<queue, kpack, droplets, staging, app, worker, history, up, faults>>

StopStatefulSet(i, n) ==
    /\ Op
    /\ sets[i][n] # None
    /\ MayStop \/ Running(i) # {n}
    /\ WriteSet(i, n, None)
    /\ UNCHANGED <<queue, kpack, droplets, staging, app, worker, history, up, faults>>

Version(i) == IF lag[i] = <<>> THEN image[i] ELSE Head(lag[i])
NextVersion(i) == IF Len(lag[i]) = 1 THEN image[i] ELSE lag[i][2]

\* imageFilter, applied to the object of a create or update event; the images of
\* other namespaces' builds, which lack the label of an app, are left out.
ImageFilter(img) == img # None /\ img.ready # "Unknown"

\* The informer takes in the next version; delete events are filtered.
Inform(i) ==
    /\ lag[i] # <<>>
    /\ lag' = [lag EXCEPT ![i] = Tail(@)]
    /\ dirty' = IF ImageFilter(NextVersion(i)) THEN dirty \cup {i} ELSE dirty
    /\ UNCHANGED <<delayed, active, image, platform, worker, moved, history, up, ops, faults>>

ExpireDelay(i) ==
    /\ Expire(i)
    /\ UNCHANGED <<kpack, platform, worker, moved, history, up, ops, faults>>

-----------------------------------------------------------------------------
(* The reconciler.                                                         *)

Fault == faults < MaxFaults /\ faults' = faults + 1

\* The reconcile of the active image returns.
Return == step' = "none" /\ copy' = None /\ target' = None /\ moved' = FALSE
Forget == Return /\ DoneAndForget
Requeue == Return /\ DoneAndRequeue(active)

\* Only images that kpack rebuilt for a new stack are of interest.
Rebased(img) == img.ready = "True" /\ img.reason = "STACK"

Start(i) ==
    /\ Take(i)
    /\ Version(i) # None
    /\ \/ /\ Rebased(Version(i))
          /\ active' = i /\ step' = "list" /\ copy' = Version(i)
          /\ mixed' = IF Version(i).built # Version(i).droplet
                      THEN mixed \cup {<<i, Version(i).droplet>>} ELSE mixed
          /\ UNCHANGED target
       \/ /\ ~Rebased(Version(i))
          /\ UNCHANGED <<active, worker, mixed>>
    /\ UNCHANGED <<delayed, kpack, platform, moved, missed, overtaken, early, up, ops, faults>>

\* An image that is gone from the cache is an error like any other.
StartFails(i) ==
    /\ Take(i)
    /\ \/ Version(i) = None /\ UNCHANGED faults
       \/ Version(i) # None /\ Fault
    /\ delayed' = delayed \cup {i}
    /\ UNCHANGED <<active, kpack, platform, worker, moved, history, up, ops>>

\* The List is live.  No StatefulSet: nothing to do, for good; several: a
\* deployment is under way, try again later.
ListStatefulSets ==
    /\ step = "list"
    /\ \/ /\ Cardinality(Running(active)) = 0
          /\ missed' = missed \cup {active}
          /\ Forget
          /\ UNCHANGED faults
       \/ /\ Cardinality(Running(active)) > 1
          /\ Requeue
          /\ UNCHANGED <<missed, faults>>
       \/ /\ Cardinality(Running(active)) = 1
          /\ step' = "update"
          /\ target' \in Running(active)
          /\ moved' = FALSE
          /\ UNCHANGED <<copy, delayed, active, missed, faults>>
       \/ /\ Fault
          /\ Requeue
          /\ UNCHANGED missed
    /\ UNCHANGED <<dirty, kpack, platform, overtaken, early, mixed, up, ops>>

\* Mutants of NewImage and UpdateResult: the reference is read from a field
\* that is not set; the error of the Update is logged only.
UnsetImage == [source |-> 0, stacks |-> 0]
ForgetUpdate == Forget

\* The image that StatefulSet and droplet get: the copy's Status.LatestImage.
NewImage == copy.latest

\* What a failed Update of the StatefulSet leads to.
UpdateResult == Requeue

\* The update carries the listed resourceVersion: refused unless it is current.
UpdateStatefulSet ==
    LET Accept == /\ ~moved
                  /\ sets' = [sets EXCEPT ![active][target] = NewImage]
    IN  /\ step = "update"
        /\ \/ /\ Accept
              /\ step' = "patch"
              /\ UNCHANGED <<delayed, active, copy, target, moved, faults>>
           \/ /\ moved
              /\ UpdateResult
              /\ UNCHANGED <<sets, faults>>
           \/ /\ Fault
              /\ UpdateResult
              /\ Accept \/ UNCHANGED sets
        /\ UNCHANGED <<dirty, kpack, droplets, staging, app, history, up, ops>>

\* Mutant of DropletResult: the error of the PATCH is logged only.
ForgetDroplet == Forget

\* What a failed PATCH of the droplet leads to.
DropletResult == Requeue

\* Mutant of NamedDroplet: the label is read again.
CurrentLabel == IF image[active] = None THEN copy.droplet ELSE image[active].droplet

\* The droplet to PATCH: the one that the copy's label names.
NamedDroplet == copy.droplet

\* UpdateDroplet: CC takes the PATCH of a droplet that is not staged yet to no
\* lasting effect, or refuses it like one that fails.
UpdateDroplet ==
    LET Staged == droplets[active][NamedDroplet] # None
        Accept == IF Staged THEN droplets' = [droplets EXCEPT ![active][NamedDroplet] = NewImage]
                            ELSE UNCHANGED droplets
    IN  /\ step = "patch"
        /\ \/ /\ Accept
              /\ early' = IF Staged THEN early ELSE early \cup {active}
              /\ Forget
              /\ UNCHANGED faults
           \/ /\ Fault
              /\ DropletResult
              /\ Accept \/ UNCHANGED droplets
              /\ UNCHANGED early
        /\ UNCHANGED <<dirty, kpack, staging, app, sets, missed, overtaken, mixed, up, ops>>

\* Mutant of Relisted: create events are ignored.
RelistedNone == {}

\* The images that the create events of a starting informer put in the queue.
Relisted == {i \in Images : ImageFilter(image[i])}

\* The manager ends: queue, cache and the worker's locals are gone.
Crash ==
    /\ up /\ up' = FALSE
    /\ Fault
    /\ Return
    /\ dirty' = {} /\ delayed' = {} /\ active' = None
    /\ lag' = [i \in Images |-> <<>>]
    /\ UNCHANGED <<image, platform, history, ops>>

\* The kubelet starts it again: it reads its configuration, sets the controllers
\* up and starts them.
StartManager ==
    /\ ~up /\ up' = TRUE
    /\ dirty' = Relisted
    /\ UNCHANGED <<delayed, active, kpack, platform, worker, moved, history, ops, faults>>

\* A variable is not set or the secret's file cannot be read: main exits.
LoadConfigFails ==
    /\ ~up
    /\ Fault
    /\ UNCHANGED <<queue, kpack, platform, worker, moved, history, up, ops>>

Next ==
    \/ \E i \in Images :
          \/ StageDroplet(i) \/ StartBuild(i) \/ FinishBuild(i) \/ ReportBuild(i)
          \/ DeleteImage(i) \/ SetCurrentDroplet(i)
          \/ \E n \in Names :
                StartStatefulSet(i, n) \/ TouchStatefulSet(i, n) \/ StopStatefulSet(i, n)
          \/ Inform(i) \/ ExpireDelay(i) \/ Start(i) \/ StartFails(i)
    \/ ListStatefulSets \/ UpdateStatefulSet \/ UpdateDroplet
    \/ Crash \/ StartManager \/ LoadConfigFails

Spec == Init /\ [][Next]_vars

\* Informer, rate limiter and worker go on (see BuildController); the kubelet starts
\* the manager as often as it takes.
Fairness ==
    /\ \A i \in Images : WF_vars(Inform(i)) /\ WF_vars(ExpireDelay(i)) /\ SF_vars(Start(i))
    /\ WF_vars(ListStatefulSets)
    /\ WF_vars(UpdateStatefulSet)
    /\ WF_vars(UpdateDroplet)
    /\ WF_vars(StartManager)

FairSpec == Spec /\ Fairness

-----------------------------------------------------------------------------
(* Properties.                                                             *)

\* A droplet holds an image of its own source, whatever was staged, failed or was
\* relabelled since the worker read the label that names it; unless the worker
\* took the image in the state between CC's write of the label and kpack's of the
\* status, which nothing in Reconcile tells from the state before (UpdateDroplet).
DropletKeepsSource ==
    \A i \in Images, d \in Droplets :
        droplets[i][d] # None /\ <<i, d>> \notin mixed => droplets[i][d].source = d

\* What a stack update has yet to reach: StatefulSets that run the rebuilt
\* source in an older build, and the droplet of that source.
Older(a, b) == a.source = b.source /\ a.stacks < b.stacks
SetsBehind(i) ==
    /\ image[i] # None /\ Rebased(image[i])
    /\ \E n \in Running(i) : Older(sets[i][n], image[i].latest)
DropletBehind(i) ==
    /\ image[i] # None /\ Rebased(image[i])
    /\ droplets[i][image[i].latest.source] # image[i].latest
OnItsWay(i) == Pending(i) \/ lag[i] # <<>> \/ ~up

\* What the code drops for good: the rebuild of an app that the worker finds without
\* a StatefulSet (handleRebasedImage says so in a comment), and one that reaches CC
\* under the label of a droplet that is not staged yet: because its own report is
\* late, or because CC has relabelled the image for the next one.
Dropped == missed \cup early

\* The droplet's rebuild is not lost, also while StatefulSets come and go under
\* the worker, unless it is dropped as above.
NoDropletLost == \A i \in Images \ Dropped : DropletBehind(i) => OnItsWay(i)

\* A running app's rebuild is not lost: while a StatefulSet runs an older build
\* of the source, the update is on its way, also when a rolling deployment
\* holds it up (Requeue in handleRebasedImage, and its test).
NoRebaseLost == \A i \in Images \ Dropped : SetsBehind(i) => OnItsWay(i)

\* ... what is true of it: only a StatefulSet that was started while the worker
\* was past its List can be left behind.
OnlyOvertakenLost ==
    \A i \in Images \ (Dropped \cup overtaken) : SetsBehind(i) => OnItsWay(i)

\* The update of a running app arrives, in the StatefulSet and in the droplet,
\* whatever calls fail and conflict on the way: unless a rolling deployment is
\* met, which may never end, or the update is dropped or overtaken as above.
Rolling(i) == Cardinality(Running(i)) > 1
Arrives ==
    \A i \in Images :
        SetsBehind(i) \/ DropletBehind(i)
            ~> \/ ~SetsBehind(i) /\ ~DropletBehind(i)
               \/ Rolling(i) \/ i \in Dropped \cup overtaken
=============================================================================

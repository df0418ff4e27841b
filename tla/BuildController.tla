-------------------------- MODULE BuildController --------------------------
(***************************************************************************)
(* controllers/build_controller.go and cf/client.go: what becomes of       *)
(* kpack's builds is reported to the builds of Cloud Controller with PATCH *)
(* requests.  Events pass a filter into a work queue; a reconcile reads    *)
(* the build from the informer's cache, fetches the image's config from    *)
(* the registry, and patches.                                              *)
(*                                                                         *)
(* kpack copies the labels of an image to its builds, so a CC build GUID   *)
(* may be on several builds: the one that CC asked for and later ones that *)
(* kpack starts by itself, as for new buildpacks or a new stack.           *)
(***************************************************************************)
EXTENDS Integers

CONSTANTS
    Builds,        \* kpack builds (names, which kpack never uses twice)
    Guids,         \* GUIDs of CC builds
    Guid,          \* per build, the label with the CC build's GUID, or None
    Reason,        \* per build, the reason annotation, or None
    FinalAnswers,  \* what CC may answer to a PATCH of a build in a final
                   \* state: a subset of {"accept", "refuse"}
    MaxFaults,     \* bound: failed calls and restarts
    None

ASSUME BuildControllerAssumption ==
    /\ None \notin Builds
    /\ Guid \in [Builds -> Guids \cup {None}]
    /\ None \notin Guids
    /\ FinalAnswers \subseteq {"accept", "refuse"}
    /\ MaxFaults \in Nat

VARIABLES
    dirty, delayed, active,  \* the queue of build names
    phase,      \* the Succeeded condition of each build: "running" if there is
                \* none or it is Unknown, "absent" before the build exists
    deleted,    \* builds that were deleted
    seen,       \* the informer's view: a phase, or "deleted"
    step,       \* what the worker's reconcile does next
    cc,         \* the CC builds: their state, and the kpack build it came from
    unfetched,  \* history: builds whose image config could not be fetched
    faults

INSTANCE Workqueue WITH Keys <- Builds

queue == <<dirty, delayed, active>>
kpack == <<phase, deleted>>
vars == <<queue, kpack, seen, step, cc, unfetched, faults>>

Phases == {"absent", "running", "succeeded", "failed"}
Steps == {"none", "config", "STAGED", "FAILED"}
States == {"STAGING", "STAGED", "FAILED", "gone"}

TypeOK ==
    /\ QueueTypeOK
    /\ phase \in [Builds -> Phases]
    /\ deleted \subseteq Builds
    /\ seen \in [Builds -> Phases \cup {"deleted"}]
    /\ step \in Steps
    /\ cc \in [Guids -> [state: States, by: Builds \cup {None}]]
    /\ unfetched \subseteq Builds
    /\ faults \in 0..MaxFaults

\* CC has its builds before kpack has any with their GUIDs.
Init ==
    /\ dirty = {} /\ delayed = {} /\ active = None
    /\ phase = [b \in Builds |-> "absent"]
    /\ deleted = {}
    /\ seen = [b \in Builds |-> "absent"]
    /\ step = "none"
    /\ cc = [g \in Guids |-> [state |-> "STAGING", by |-> None]]
    /\ unfetched = {}
    /\ faults = 0

-----------------------------------------------------------------------------
(* kpack, Cloud Controller's users and the informer.                       *)

KpackStart(b) ==
    /\ phase[b] = "absent"
    /\ phase' = [phase EXCEPT ![b] = "running"]
    /\ UNCHANGED <<queue, deleted, seen, step, cc, unfetched, faults>>

KpackFinish(b) ==
    /\ phase[b] = "running"
    /\ b \notin deleted
    /\ \E outcome \in {"succeeded", "failed"} : phase' = [phase EXCEPT ![b] = outcome]
    /\ UNCHANGED <<queue, deleted, seen, step, cc, unfetched, faults>>

\* kpack keeps a limited history of builds, and an image's go with it.
KpackDelete(b) ==
    /\ phase[b] # "absent"
    /\ b \notin deleted
    /\ deleted' = deleted \cup {b}
    /\ UNCHANGED <<queue, phase, seen, step, cc, unfetched, faults>>

CCDelete(g) ==
    /\ cc[g].state # "gone"
    /\ cc' = [cc EXCEPT ![g] = [state |-> "gone", by |-> None]]
    /\ UNCHANGED <<queue, kpack, seen, step, unfetched, faults>>

View(b) == IF b \in deleted THEN "deleted" ELSE phase[b]

\* Mutant of Reportable: builds for a new stack pass.
ReportableWithoutReason(b) == Guid[b] # None

\* A build that CC asked for, or kpack for it, and not the Image controller's.
Reportable(b) == Guid[b] # None /\ Reason[b] \notin {None, "STACK"}

\* Mutant of BuildFilter: the Succeeded condition is not looked at.
LabelFilter(b, view) == Reportable(b)

\* buildFilter, applied to the object of a create or update event.
BuildFilter(b, view) == Reportable(b) /\ view \in {"succeeded", "failed"}

\* The informer catches up with a build; delete events are filtered.
Inform(b) ==
    /\ seen[b] # View(b)
    /\ seen' = [seen EXCEPT ![b] = View(b)]
    /\ dirty' = IF BuildFilter(b, View(b)) THEN dirty \cup {b} ELSE dirty
    /\ UNCHANGED <<delayed, active, kpack, step, cc, unfetched, faults>>

ExpireDelay(b) ==
    /\ Expire(b)
    /\ UNCHANGED <<kpack, seen, step, cc, unfetched, faults>>

-----------------------------------------------------------------------------
(* The reconciler.                                                         *)

Fault == faults < MaxFaults /\ faults' = faults + 1

\* Mutant of ErrorResult: the error is logged and not returned.
SwallowError == DoneAndForget

\* A reconcile of the active build that returns an error (next to which
\* Result{Requeue: true} counts for nothing).
ErrorResult == DoneAndRequeue(active)

\* Mutant of NotFoundResult: the error is returned.
NotFoundIsError(b) == delayed' = delayed \cup {b} /\ UNCHANGED active

\* A build that is gone from the cache is forgotten.
NotFoundResult(b) == UNCHANGED <<delayed, active>>

Start(b) ==
    /\ Take(b)
    /\ \/ /\ seen[b] \in {"absent", "deleted"}
          /\ NotFoundResult(b)
          /\ UNCHANGED step
       \/ /\ seen[b] \notin {"absent", "deleted"}
          /\ active' = b
          /\ step' = IF seen[b] = "succeeded" THEN "config" ELSE "FAILED"
          /\ UNCHANGED delayed
    /\ UNCHANGED <<kpack, seen, cc, unfetched, faults>>

\* The Get of the build fails otherwise.
StartFails(b) ==
    /\ Take(b)
    /\ Fault
    /\ delayed' = delayed \cup {b}
    /\ UNCHANGED <<active, kpack, seen, step, cc, unfetched>>

\* The reference, the service account's keychain, the image or its config cannot
\* be read: whichever it is, the CC build fails.
ConfigUnreadable ==
    /\ Fault
    /\ step' = "FAILED"
    /\ unfetched' = unfetched \cup {active}

\* extractProcessTypes.
FetchImageConfig ==
    /\ step = "config"
    /\ \/ step' = "STAGED" /\ UNCHANGED <<unfetched, faults>>
       \/ ConfigUnreadable
    /\ UNCHANGED <<queue, kpack, seen, cc>>

\* How CC may answer a PATCH of its build g (external).
MayAccept(g) == \/ cc[g].state = "STAGING"
                \/ cc[g].state \in {"STAGED", "FAILED"} /\ "accept" \in FinalAnswers
MayRefuse(g) == \/ cc[g].state = "gone"
                \/ cc[g].state \in {"STAGED", "FAILED"} /\ "refuse" \in FinalAnswers

\* Mutant of Report: the state is not sent.
ReportUnchanged(state) == [state |-> "", by |-> active]

\* The body of the PATCH; the image is the active build's.
Report(state) == [state |-> state, by |-> active]

\* UpdateBuild: the token, the request and its answer.  Anything but a 200 is
\* an error, and so is an answer that never comes.
Accept == /\ MayAccept(Guid[active])
          /\ cc' = [cc EXCEPT ![Guid[active]] = Report(step)]
Patch == /\ step \in {"STAGED", "FAILED"}
         /\ step' = "none"
         /\ UNCHANGED <<dirty, kpack, seen, unfetched>>
PatchAccepted == Patch /\ Accept /\ DoneAndForget /\ UNCHANGED faults
PatchRefused ==
    Patch /\ MayRefuse(Guid[active]) /\ ErrorResult /\ UNCHANGED <<cc, faults>>
\* Without a token from UAA, or a connection, CC is not called.
NotCalled == UNCHANGED cc
PatchFails == Patch /\ Fault /\ ErrorResult /\ (NotCalled \/ Accept)
UpdateBuild == PatchAccepted \/ PatchRefused \/ PatchFails

\* Mutant of Relisted: create events are not for builds that are done.
RelistedRunning == {}

\* The builds that the create events of a starting informer put in the queue.
Relisted == {b \in Builds : BuildFilter(b, View(b))}

Restart ==
    /\ Fault
    /\ dirty' = Relisted
    /\ delayed' = {}
    /\ active' = None
    /\ seen' = [b \in Builds |-> View(b)]
    /\ step' = "none"
    /\ UNCHANGED <<kpack, cc, unfetched>>

Next ==
    \/ \E b \in Builds : \/ KpackStart(b) \/ KpackFinish(b) \/ KpackDelete(b)
                         \/ Inform(b) \/ ExpireDelay(b) \/ Start(b) \/ StartFails(b)
    \/ \E g \in Guids : CCDelete(g)
    \/ FetchImageConfig
    \/ UpdateBuild
    \/ Restart

Spec == Init /\ [][Next]_vars

\* The informer and the rate limiter go on; the worker goes on with what it
\* has and takes every key in its turn (the queue is first-in first-out).
Fairness ==
    /\ \A b \in Builds : WF_vars(Inform(b)) /\ WF_vars(ExpireDelay(b)) /\ SF_vars(Start(b))
    /\ WF_vars(FetchImageConfig)
    /\ WF_vars(UpdateBuild)

FairSpec == Spec /\ Fairness

-----------------------------------------------------------------------------
(* Properties.                                                             *)

\* A CC build is STAGED only by a build of its own, not a stack update's, that
\* succeeded, and FAILED only by one that failed or whose image config could
\* not be fetched: whatever is retried, repeated after a restart or read late.
ReportsHonest ==
    \A g \in Guids : cc[g].state \in {"STAGED", "FAILED"} =>
        LET b == cc[g].by
        IN  /\ b \in Builds
            /\ Guid[b] = g /\ Reason[b] \notin {None, "STACK"}
            /\ cc[g].state = "STAGED" => phase[b] = "succeeded"
            /\ cc[g].state = "FAILED" => phase[b] = "failed" \/ b \in unfetched

\* No report is lost: a finished build whose CC build is still staging is on
\* its way, at every moment, unless kpack deleted it first.
Awaited(b) ==
    /\ Reportable(b)
    /\ phase[b] \in {"succeeded", "failed"}
    /\ b \notin deleted
    /\ cc[Guid[b]].state = "STAGING"
NoReportLost == \A b \in Builds : Awaited(b) => Pending(b) \/ seen[b] # View(b)

\* ... and so it arrives.
Reported == \A b \in Builds : Awaited(b) ~> ~Awaited(b)

\* The controller comes to rest, provided that CC does not go on refusing what it
\* is told: retries end, also those for builds that were deleted.
ComesToRest ==
    <>[][~PatchRefused]_vars => <>[](dirty = {} /\ delayed = {} /\ active = None)

\* Behind queue, cache and retries, CC learns the outcome of a build in one step,
\* when the build has had it, and a CC build that is gone stays gone.
Reports == INSTANCE StagingReports
              WITH Counting <- {b \in Builds : Guid[b] # None /\ Reason[b] \notin {None, "STACK"}}
ImplementsReports == Reports!Spec
=============================================================================

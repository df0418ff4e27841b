---------------------------- MODULE PeriodicSync ----------------------------
(***************************************************************************)
(* controllers/periodic_sync_controller.go, the other half: WHEN a sync    *)
(* runs.  A worker takes the PeriodicSync resource's key from a work queue *)
(* (controller-runtime, external), reads the resource from the informer's  *)
(* cache, syncs the routes (RouteSync; here only: it takes a while and     *)
(* succeeds or fails), writes the resource's status and asks for a requeue.*)
(* Every version of the resource, the status writes of the reconciler      *)
(* included, is an event that puts the key back into the queue.            *)
(*                                                                         *)
(* Time passes in seconds, the unit of period_seconds and the resolution   *)
(* of LastTransitionTime.                                                  *)
(***************************************************************************)
EXTENDS Integers, Sequences

CONSTANTS
    Periods,     \* values of period_seconds that users write
    MaxPeriod,   \* the longest of them
    MaxBackoff,  \* bound: longest delay of the rate limiter, in seconds
    MaxEdits,    \* bound: writes of the resource by users, and restarts
    MaxLag,      \* bound: versions the informer may be behind
    None,        \* no resource
    Off          \* no timer

ASSUME PeriodicSyncAssumption ==
    /\ Periods \subseteq Int
    /\ MaxPeriod \in Nat
    /\ \A p \in Periods : p <= MaxPeriod
    /\ MaxBackoff \in Nat
    /\ MaxEdits \in Nat
    /\ MaxLag \in Nat
    /\ Off \notin Int

\* `written' tells whether LastTransitionTime is in the current second.
Resources == [period: Periods, reason: {"None", "Completed", "Failed"},
              written: {"now", "earlier"}]

ASSUME NoneIsNoResource == None \notin Resources

VARIABLES
    obj,      \* the PeriodicSync resource
    lag,      \* its older versions that the informer has yet to leave
    dirty,    \* the key is in the queue, or will be when the worker is done
    timer,    \* seconds until the delaying queue adds the key
    pc,       \* the worker
    read,     \* the reconciler's copy of the resource
    current,  \* whether the copy has the resource's resourceVersion
    since,    \* history: seconds since the last sync, if it was reported
              \* Completed and no user has written the resource since
    edits     \* writes by users and restarts so far

vars == <<obj, lag, dirty, timer, pc, read, current, since, edits>>

Seconds == Nat \cup {Off}

TypeOK ==
    /\ obj \in Resources \cup {None}
    /\ lag \in Seq(Resources \cup {None})
    /\ dirty \in BOOLEAN
    /\ timer \in Seconds
    /\ pc \in {"idle", "running"}
    /\ read \in Resources \cup {None}
    /\ current \in BOOLEAN
    /\ since \in Seconds
    /\ edits \in 0..MaxEdits

\* The manager starts: the initial list of the informer is one event per
\* resource.
Init ==
    /\ obj \in {o \in Resources : o.written = "earlier"} \cup {None}
    /\ lag = <<>>
    /\ dirty = (obj # None)
    /\ timer = Off
    /\ pc = "idle"
    /\ read = None
    /\ current = FALSE
    /\ since = Off
    /\ edits = 0

-----------------------------------------------------------------------------
(* The queue, the informer and time.                                       *)

\* AddAfter: a delay of no length adds at once; the key has one timer, and the
\* earlier of two wins.  `queued' is what else has happened to dirty.
AddAfter(seconds, queued) ==
    IF seconds <= 0
    THEN dirty' = TRUE /\ UNCHANGED timer
    ELSE /\ dirty' = queued
         /\ timer' = IF timer # Off /\ timer < seconds THEN timer ELSE seconds

\* AddRateLimited, whose delay depends on the failures so far.
AddRateLimited(queued) == \E d \in 0..MaxBackoff : AddAfter(d, queued)

Cached == IF lag = <<>> THEN obj ELSE Head(lag)

\* Every event enqueues the key: there are no predicates (SetupWithManager).
Inform ==
    /\ lag # <<>>
    /\ lag' = Tail(lag)
    /\ dirty' = TRUE
    /\ UNCHANGED <<obj, timer, pc, read, current, since, edits>>

Fire ==
    /\ timer = 0
    /\ timer' = Off
    /\ dirty' = TRUE
    /\ UNCHANGED <<obj, lag, pc, read, current, since, edits>>

Age(o) == IF o = None THEN None ELSE [o EXCEPT !.written = "earlier"]

\* A second passes; the history counts no further than the longest period.
Tick ==
    /\ timer' = IF timer = Off \/ timer = 0 THEN timer ELSE timer - 1
    /\ since' = IF since = Off \/ since = MaxPeriod THEN since ELSE since + 1
    /\ obj' = Age(obj)
    /\ lag' = [i \in DOMAIN lag |-> Age(lag[i])]
    /\ read' = Age(read)
    /\ UNCHANGED <<dirty, pc, current, edits>>

\* A new version of the resource; writing the same again makes none.
Write(o) ==
    /\ obj' = o
    /\ lag' = IF o = obj THEN lag ELSE Append(lag, obj)

\* A user creates, edits or deletes the resource.
Edit ==
    /\ edits < MaxEdits
    /\ Len(lag) < MaxLag
    /\ edits' = edits + 1
    /\ \/ /\ obj = None
          /\ \E p \in Periods :
                Write([period |-> p, reason |-> "None", written |-> "earlier"])
       \/ /\ obj # None
          /\ \E p \in Periods \ {obj.period} : Write([obj EXCEPT !.period = p])
       \/ /\ obj # None
          /\ Write(None)
    /\ current' = FALSE
    /\ since' = Off
    /\ UNCHANGED <<dirty, timer, pc, read>>

\* The process restarts: queue, timers and a running sync are gone.
Restart ==
    /\ edits < MaxEdits
    /\ edits' = edits + 1
    /\ lag' = <<>>
    /\ dirty' = (obj # None)
    /\ timer' = Off
    /\ pc' = "idle"
    /\ read' = None
    /\ current' = FALSE
    /\ since' = Off
    /\ UNCHANGED obj

-----------------------------------------------------------------------------
(* The reconciler.                                                         *)

\* Mutant of NotFoundResult: the error is returned.
RetryNotFound == AddRateLimited(FALSE)

\* What a reconcile of a resource that is gone leaves in the queue: nothing,
\* NotFound is not an error (client.IgnoreNotFound).
NotFoundResult == dirty' = FALSE /\ UNCHANGED timer

Start ==
    /\ pc = "idle"
    /\ dirty
    /\ \/ /\ Cached = None
          /\ NotFoundResult
          /\ UNCHANGED <<pc, read, current>>
       \/ /\ Cached # None
          /\ dirty' = FALSE
          /\ pc' = "running"
          /\ read' = Cached
          /\ current' = (lag = <<>>)
          /\ UNCHANGED timer
    /\ UNCHANGED <<obj, lag, since, edits>>

\* The Get fails otherwise; the status of an empty resource is written in vain.
GetFails ==
    /\ pc = "idle"
    /\ dirty
    /\ AddRateLimited(FALSE)
    /\ since' = Off
    /\ UNCHANGED <<obj, lag, pc, read, current, edits>>

\* Mutant of SetStatus: the condition's type is written as its reason.
SetStatusType(reason) == [read EXCEPT !.reason = "Synced", !.written = "now"]

\* setPeriodicSyncStatus stamps LastTransitionTime whatever the old status was.
SetStatus(reason) == [read EXCEPT !.reason = reason, !.written = "now"]

\* Status().Update: refused if the copy's version is not the resource's.
StatusAccepted(reason) == current /\ Write(SetStatus(reason))
StatusRejected == ~current /\ UNCHANGED <<obj, lag>>

\* The call fails on its way there or on its way back.
StatusFails(reason) == UNCHANGED <<obj, lag>> \/ StatusAccepted(reason)

Return ==
    /\ pc' = "idle"
    /\ read' = None
    /\ current' = FALSE
    /\ UNCHANGED edits

\* Mutant of RequeueAfterPeriod: the result asks for no requeue.
NoRequeue(period) == dirty' = dirty /\ UNCHANGED timer

\* Mutant of ErrorResult: the error of the status update is dropped.
ErrorDropped == dirty' = dirty /\ UNCHANGED timer

\* A reconcile that returns an error.
ErrorResult == AddRateLimited(dirty)

\* The result {RequeueAfter: period}; a period of no length is no request.
RequeueAfterPeriod(period) ==
    IF period > 0 THEN AddAfter(period, dirty) ELSE UNCHANGED <<dirty, timer>>

SyncSucceeds ==
    /\ pc = "running"
    /\ Len(lag) < MaxLag
    /\ \/ /\ StatusAccepted("Completed")
          /\ RequeueAfterPeriod(read.period)
          /\ since' = 0
       \/ /\ StatusRejected \/ StatusFails("Completed")
          /\ ErrorResult
          /\ since' = Off
    /\ Return

\* Whatever comes of the status update, the sync's error is returned.
SyncFails ==
    /\ pc = "running"
    /\ Len(lag) < MaxLag
    /\ StatusAccepted("Failed") \/ StatusRejected \/ StatusFails("Failed")
    /\ ErrorResult
    /\ since' = Off
    /\ Return

Work == Start \/ GetFails \/ SyncSucceeds \/ SyncFails

Next == Work \/ Inform \/ Fire \/ Tick \/ Edit \/ Restart

Spec == Init /\ [][Next]_vars

\* Time passes, the timer goroutine and the informer run, and the worker, whose
\* calls are assumed to answer, goes on; a reconcile does not fail to read its
\* cache for ever (the cache is in memory).
Fairness ==
    /\ WF_vars(Tick)
    /\ WF_vars(Fire)
    /\ WF_vars(Inform)
    /\ SF_vars(Start)
    /\ WF_vars(SyncSucceeds \/ SyncFails)

FairSpec == Spec /\ Fairness

-----------------------------------------------------------------------------
(* Properties.                                                             *)

\* While there is a resource with a period, something will bring the worker
\* back to it: no order of edits, stale reads, refused status updates and
\* results makes the controller forget it.
NoLostWakeup ==
    obj # None /\ obj.period > 0 =>
        pc = "running" \/ dirty \/ timer # Off \/ lag # <<>>

\* ... and so syncs never cease while the resource exists with a period.
KeepsSyncing ==
    <>[](obj # None /\ obj.period > 0) => []<>(pc = "running")

\* A deleted resource comes to rest: no timer and no retry revives it.
DeletedComesToRest ==
    <>[](obj = None) => <>[](pc = "idle" /\ ~dirty /\ timer = Off)

\* After a sync reported as Completed the next one starts when the period of
\* the resource has passed, unless a user wrote the resource meanwhile.
PeriodKept ==
    [][Start /\ pc' = "running" => since = Off \/ since >= obj.period]_vars
=============================================================================

--------------------------- MODULE StagingReports ---------------------------
(***************************************************************************)
(* What the Build controller promises to Cloud Controller, without queue,  *)
(* cache, worker and retries: a CC build learns, in one step and only once *)
(* it is so, how a kpack build of its own has ended.                       *)
(***************************************************************************)
CONSTANTS
    Builds, Guids, Guid,
    Counting,   \* the builds that count for the CC build whose GUID they carry
    None

VARIABLES
    phase, deleted,  \* kpack's builds
    unfetched,       \* builds whose image config cannot be fetched
    cc               \* CC's builds

Outcomes == {"succeeded", "failed"}

Init ==
    /\ phase = [b \in Builds |-> "absent"]
    /\ deleted = {}
    /\ unfetched = {}
    /\ cc = [g \in Guids |-> [state |-> "STAGING", by |-> None]]

\* A build starts, ends once and is deleted.
Run(b) ==
    /\ \/ phase[b] = "absent" /\ phase' = [phase EXCEPT ![b] = "running"]
       \/ /\ phase[b] = "running" /\ b \notin deleted
          /\ \E outcome \in Outcomes : phase' = [phase EXCEPT ![b] = outcome]
    /\ UNCHANGED <<deleted, unfetched, cc>>

Delete(b) ==
    /\ phase[b] # "absent"
    /\ deleted' = deleted \cup {b}
    /\ UNCHANGED <<phase, unfetched, cc>>

Unfetchable(b) ==
    /\ b \in Counting /\ phase[b] = "succeeded"
    /\ unfetched' = unfetched \cup {b}
    /\ UNCHANGED <<phase, deleted, cc>>

\* CC takes a report, also one for a build in a final state, but not for one that
\* is gone.
Report(b, state) ==
    /\ b \in Counting
    /\ cc[Guid[b]].state # "gone"
    /\ state = "STAGED" => phase[b] = "succeeded"
    /\ state = "FAILED" => phase[b] = "failed" \/ b \in unfetched
    /\ cc' = [cc EXCEPT ![Guid[b]] = [state |-> state, by |-> b]]
    /\ UNCHANGED <<phase, deleted, unfetched>>

Remove(g) ==
    /\ cc' = [cc EXCEPT ![g] = [state |-> "gone", by |-> None]]
    /\ UNCHANGED <<phase, deleted, unfetched>>

Next ==
    \/ \E b \in Builds : Run(b) \/ Delete(b) \/ Unfetchable(b)
    \/ \E b \in Builds, state \in {"STAGED", "FAILED"} : Report(b, state)
    \/ \E g \in Guids : Remove(g)

Spec == Init /\ [][Next]_<<phase, deleted, unfetched, cc>>
=============================================================================

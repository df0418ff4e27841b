----------------------- MODULE BuildControllerProofs -----------------------
(***************************************************************************)
(* Proofs about BuildController, for every set of kpack builds, CC builds, *)
(* labels, reasons, answers of CC and number of faults.                    *)
(*                                                                         *)
(* ReportsHonest and NoReportLost follow from one inductive invariant: the *)
(* informer's view of a build that has ended is the end itself, every      *)
(* build in the queue may be reported and has ended, and the worker's step *)
(* fits the build that it has.                                             *)
(***************************************************************************)
EXTENDS BuildController, TLAPS

Final == {"succeeded", "failed"}

\* The informer's view is never ahead of the build.
SeenBehind ==
    \A b \in Builds : /\ seen[b] \in Final => phase[b] = seen[b]
                      /\ seen[b] = "deleted" => b \in deleted

\* Only builds that pass the filter get into the queue, and the informer has
\* seen them end.
QueueFiltered ==
    \A b \in dirty \cup delayed : Reportable(b) /\ seen[b] \in Final \cup {"deleted"}

\* What the worker is about to do is right for the build that it has.
StepFits ==
    /\ step = "none" <=> active = None
    /\ active # None => Reportable(active) /\ seen[active] \in Final \cup {"deleted"}
    /\ step \in {"config", "STAGED"} => phase[active] = "succeeded"
    /\ step = "FAILED" => phase[active] = "failed" \/ active \in unfetched

IInv == /\ TypeOK /\ SeenBehind /\ QueueFiltered /\ StepFits
        /\ ReportsHonest /\ NoReportLost

LEMMA InitIInv == Init => IInv
<1>1. SUFFICES ASSUME Init PROVE IInv
  OBVIOUS
<1>2. TypeOK
  BY <1>1, BuildControllerAssumption DEF Init, TypeOK, QueueTypeOK, Phases, Steps, States
<1>3. SeenBehind /\ QueueFiltered /\ StepFits
  BY <1>1 DEF Init, SeenBehind, QueueFiltered, StepFits, Final
<1>4. ReportsHonest /\ NoReportLost
  BY <1>1 DEF Init, ReportsHonest, NoReportLost, Awaited
<1>5. QED
  BY <1>2, <1>3, <1>4 DEF IInv

-----------------------------------------------------------------------------
(* The environment: builds go on, are deleted and are seen.                *)

\* What a report says of its build stays true when the build's phase, once
\* final, stays and CC's record does not change.
LEMMA HonestyLasts ==
  ASSUME TypeOK, ReportsHonest, UNCHANGED cc, unfetched \subseteq unfetched',
         \A b \in Builds : phase[b] \in Final => phase'[b] = phase[b]
  PROVE  ReportsHonest'
<1>1. SUFFICES ASSUME NEW g \in Guids, cc[g].state \in {"STAGED", "FAILED"}
               PROVE  LET b == cc[g].by
                      IN  /\ b \in Builds
                          /\ Guid[b] = g /\ Reason[b] \notin {None, "STACK"}
                          /\ cc[g].state = "STAGED" => phase'[b] = "succeeded"
                          /\ cc[g].state = "FAILED" => phase'[b] = "failed" \/ b \in unfetched'
  BY DEF ReportsHonest
<1>2. QED
  BY <1>1 DEF ReportsHonest, Final

LEMMA KpackKeeps ==
  ASSUME IInv, NEW b \in Builds, KpackStart(b) \/ KpackFinish(b) \/ KpackDelete(b)
  PROVE  IInv'
<1>1. /\ UNCHANGED <<queue, seen, step, cc, unfetched, faults>>
      /\ deleted \subseteq deleted' /\ deleted' \subseteq Builds
      /\ phase' \in [Builds -> Phases]
      /\ \A c \in Builds : phase[c] \in Final => phase'[c] = phase[c]
  BY DEF IInv, TypeOK, KpackStart, KpackFinish, KpackDelete, Phases, Final
<1>2. TypeOK'
  BY <1>1 DEF IInv, TypeOK, QueueTypeOK, queue
<1>3. SeenBehind'
  BY <1>1 DEF IInv, SeenBehind
<1>4. QueueFiltered'
  BY <1>1 DEF IInv, QueueFiltered, Reportable, queue
<1>5. StepFits'
  BY <1>1 DEF IInv, StepFits, TypeOK, QueueTypeOK, Reportable, Final, queue
<1>6. ReportsHonest'
  BY <1>1, HonestyLasts DEF IInv
<1>7. NoReportLost'
  <2>1. SUFFICES ASSUME NEW c \in Builds, Awaited(c)'
                 PROVE  (Pending(c) \/ seen[c] # View(c))'
    BY DEF NoReportLost
  <2>2. CASE phase[c] \in Final
    <3>1. Awaited(c) /\ View(c)' = View(c)
      BY <1>1, <2>1, <2>2 DEF Awaited, Reportable, View, Final
    <3>2. QED
      BY <1>1, <3>1 DEF IInv, NoReportLost, Pending, queue
  <2>3. CASE phase[c] \notin Final
    <3>1. seen[c] # phase'[c]
      BY <2>1, <2>3 DEF IInv, SeenBehind, Awaited, Final
    <3>2. View(c)' = phase'[c]
      BY <2>1 DEF Awaited, View
    <3>3. QED
      BY <1>1, <3>1, <3>2
  <2>4. QED
    BY <2>2, <2>3
<1>8. QED
  BY <1>2, <1>3, <1>4, <1>5, <1>6, <1>7 DEF IInv

LEMMA CCDeleteKeeps ==
  ASSUME IInv, NEW g \in Guids, CCDelete(g)
  PROVE  IInv'
<1>1. /\ UNCHANGED <<queue, kpack, seen, step, unfetched, faults>>
      /\ cc' = [cc EXCEPT ![g] = [state |-> "gone", by |-> None]]
  BY DEF CCDelete
<1>2. TypeOK'
  BY <1>1 DEF IInv, TypeOK, QueueTypeOK, queue, kpack, States
<1>3. SeenBehind' /\ QueueFiltered' /\ StepFits'
  BY <1>1 DEF IInv, SeenBehind, QueueFiltered, StepFits, Reportable, queue, kpack
<1>4. ReportsHonest'
  <2>1. \A h \in Guids : cc'[h] = IF h = g THEN [state |-> "gone", by |-> None] ELSE cc[h]
    BY <1>1 DEF IInv, TypeOK
  <2>2. QED
    BY <1>1, <2>1 DEF IInv, ReportsHonest, kpack
<1>5. NoReportLost'
  <2>1. \A h \in Guids : cc'[h].state = "STAGING" => cc[h].state = "STAGING"
    BY <1>1 DEF IInv, TypeOK
  <2>2. \A c \in Builds : Awaited(c)' => Guid[c] \in Guids
    BY BuildControllerAssumption DEF Awaited, Reportable
  <2>3. \A c \in Builds : Awaited(c)' => Awaited(c)
    BY <1>1, <2>1, <2>2 DEF Awaited, Reportable, kpack
  <2>4. QED
    BY <1>1, <2>3 DEF IInv, NoReportLost, Pending, View, queue, kpack
<1>6. QED
  BY <1>2, <1>3, <1>4, <1>5 DEF IInv

LEMMA InformKeeps ==
  ASSUME IInv, NEW b \in Builds, Inform(b)
  PROVE  IInv'
<1>1. /\ UNCHANGED <<delayed, active, kpack, step, cc, unfetched, faults>>
      /\ seen' = [seen EXCEPT ![b] = View(b)]
      /\ dirty' = IF BuildFilter(b, View(b)) THEN dirty \cup {b} ELSE dirty
      /\ seen[b] # View(b)
  BY DEF Inform
<1>2. \A c \in Builds : seen'[c] = IF c = b THEN View(b) ELSE seen[c]
  BY <1>1 DEF IInv, TypeOK
<1>3. View(b) \in Phases \cup {"deleted"} /\ (View(b) # "deleted" => View(b) = phase[b])
  BY DEF IInv, TypeOK, View, Phases
<1>4. TypeOK'
  BY <1>1, <1>3 DEF IInv, TypeOK, QueueTypeOK, kpack
<1>5. SeenBehind'
  <2>1. View(b) = "deleted" => b \in deleted
    BY <1>3 DEF IInv, TypeOK, View, Phases
  <2>2. QED
    BY <1>1, <1>2, <1>3, <2>1 DEF IInv, SeenBehind, Final, kpack
<1>6. \A c \in Builds : seen[c] \in Final \cup {"deleted"} => seen'[c] \in Final \cup {"deleted"}
  BY <1>2, <1>3 DEF IInv, SeenBehind, View, Final
<1>7. QueueFiltered'
  <2>1. \A c \in dirty' \cup delayed' :
           c \in dirty \cup delayed \/ (c = b /\ BuildFilter(b, View(b)))
    BY <1>1
  <2>2. QED
    BY <1>2, <1>6, <2>1 DEF IInv, QueueFiltered, TypeOK, QueueTypeOK, BuildFilter, Reportable, Final
<1>8. StepFits'
  BY <1>1, <1>6 DEF IInv, StepFits, TypeOK, QueueTypeOK, Reportable, kpack
<1>9. ReportsHonest'
  BY <1>1, HonestyLasts DEF IInv, kpack
<1>10. NoReportLost'
  <2>1. SUFFICES ASSUME NEW c \in Builds, Awaited(c)'
                 PROVE  (Pending(c) \/ seen[c] # View(c))'
    BY DEF NoReportLost
  <2>2. Awaited(c) /\ View(c)' = View(c)
    BY <1>1, <2>1 DEF Awaited, Reportable, View, kpack
  <2>3. CASE c = b
    BY <1>1, <2>2, <2>3 DEF Awaited, View, BuildFilter, Pending
  <2>4. CASE c # b
    BY <1>1, <1>2, <2>2, <2>4 DEF IInv, NoReportLost, Pending
  <2>5. QED
    BY <2>3, <2>4
<1>11. QED
  BY <1>4, <1>5, <1>7, <1>8, <1>9, <1>10 DEF IInv

LEMMA ExpireKeeps ==
  ASSUME IInv, NEW b \in Builds, ExpireDelay(b)
  PROVE  IInv'
<1>1. /\ UNCHANGED <<active, kpack, seen, step, cc, unfetched, faults>>
      /\ b \in delayed
      /\ dirty' = dirty \cup {b}
      /\ delayed' = delayed \ {b}
  BY DEF ExpireDelay, Expire
<1>2. TypeOK'
  BY <1>1 DEF IInv, TypeOK, QueueTypeOK, kpack
<1>3. SeenBehind' /\ QueueFiltered' /\ StepFits'
  BY <1>1 DEF IInv, SeenBehind, QueueFiltered, StepFits, Reportable, kpack
<1>4. ReportsHonest'
  BY <1>1, HonestyLasts DEF IInv, kpack
<1>5. NoReportLost'
  BY <1>1 DEF IInv, NoReportLost, Awaited, Reportable, Pending, View, kpack
<1>6. QED
  BY <1>2, <1>3, <1>4, <1>5 DEF IInv

-----------------------------------------------------------------------------
(* The worker.                                                             *)

\* The worker has no build while it takes one, and what it takes was filtered.
LEMMA Taken ==
  ASSUME IInv, NEW b \in Builds, Take(b)
  PROVE  /\ active = None /\ step = "none"
         /\ Reportable(b)
         /\ seen[b] \in Final \cup {"deleted"}
         /\ dirty' = dirty \ {b}
BY DEF IInv, Take, StepFits, QueueFiltered

LEMMA StartKeeps ==
  ASSUME IInv, NEW b \in Builds, Start(b)
  PROVE  IInv'
<1>1. /\ active = None /\ step = "none"
      /\ Reportable(b)
      /\ seen[b] \in Final \cup {"deleted"}
      /\ dirty' = dirty \ {b}
      /\ delayed' = delayed
      /\ UNCHANGED <<kpack, seen, cc, unfetched, faults>>
  BY Taken DEF Start, NotFoundResult
<1>2. b # None
  BY BuildControllerAssumption
<1>3. CASE seen[b] = "deleted"
  <2>1. UNCHANGED <<active, step>>
    BY <1>3 DEF Start, NotFoundResult
  <2>2. TypeOK' /\ SeenBehind' /\ QueueFiltered' /\ StepFits'
    BY <1>1, <2>1
       DEF IInv, TypeOK, QueueTypeOK, SeenBehind, QueueFiltered, StepFits, Reportable, kpack
  <2>3. ReportsHonest'
    BY <1>1, HonestyLasts DEF IInv, kpack
  <2>4. NoReportLost'
    <3>1. ~Awaited(b)
      BY <1>3 DEF IInv, SeenBehind, Awaited
    <3>2. QED
      BY <1>1, <2>1, <3>1
         DEF IInv, NoReportLost, Awaited, Reportable, Pending, View, kpack
  <2>5. QED
    BY <2>2, <2>3, <2>4 DEF IInv
<1>4. CASE seen[b] \in Final
  <2>1. /\ active' = b
        /\ step' = IF seen[b] = "succeeded" THEN "config" ELSE "FAILED"
    BY <1>4 DEF Start, Final
  <2>2. TypeOK'
    BY <1>1, <2>1 DEF IInv, TypeOK, QueueTypeOK, Steps, kpack
  <2>3. SeenBehind' /\ QueueFiltered'
    BY <1>1 DEF IInv, SeenBehind, QueueFiltered, Reportable, kpack
  <2>4. StepFits'
    BY <1>1, <1>2, <1>4, <2>1 DEF IInv, SeenBehind, StepFits, Reportable, Final, kpack
  <2>5. ReportsHonest'
    BY <1>1, HonestyLasts DEF IInv, kpack
  <2>6. NoReportLost'
    <3>1. \A c \in Builds : Pending(c) => Pending(c)'
      BY <1>1, <2>1, BuildControllerAssumption DEF Pending
    <3>2. QED
      BY <1>1, <3>1 DEF IInv, NoReportLost, Awaited, Reportable, View, kpack
  <2>7. QED
    BY <2>2, <2>3, <2>4, <2>5, <2>6 DEF IInv
<1>5. QED
  BY <1>1, <1>3, <1>4

LEMMA StartFailsKeeps ==
  ASSUME IInv, NEW b \in Builds, StartFails(b)
  PROVE  IInv'
<1>1. /\ Reportable(b)
      /\ seen[b] \in Final \cup {"deleted"}
      /\ dirty' = dirty \ {b}
      /\ delayed' = delayed \cup {b}
      /\ UNCHANGED <<active, kpack, seen, step, cc, unfetched>>
      /\ Fault
  BY Taken DEF StartFails
<1>2. TypeOK'
  BY <1>1, BuildControllerAssumption DEF IInv, TypeOK, QueueTypeOK, Fault, kpack
<1>3. SeenBehind' /\ QueueFiltered' /\ StepFits'
  BY <1>1 DEF IInv, SeenBehind, QueueFiltered, StepFits, Reportable, kpack
<1>4. ReportsHonest'
  BY <1>1, HonestyLasts DEF IInv, kpack
<1>5. NoReportLost'
  BY <1>1 DEF IInv, NoReportLost, Awaited, Reportable, Pending, View, kpack
<1>6. QED
  BY <1>2, <1>3, <1>4, <1>5 DEF IInv

LEMMA FetchKeeps ==
  ASSUME IInv, FetchImageConfig
  PROVE  IInv'
<1>1. /\ step = "config"
      /\ UNCHANGED <<queue, kpack, seen, cc>>
      /\ \/ step' = "STAGED" /\ UNCHANGED <<unfetched, faults>>
         \/ Fault /\ step' = "FAILED" /\ unfetched' = unfetched \cup {active}
  BY DEF FetchImageConfig, ConfigUnreadable
<1>2. active \in Builds
  BY <1>1 DEF IInv, TypeOK, QueueTypeOK, StepFits
<1>3. TypeOK'
  BY <1>1, <1>2, BuildControllerAssumption
     DEF IInv, TypeOK, QueueTypeOK, Fault, Steps, queue, kpack
<1>4. SeenBehind' /\ QueueFiltered'
  BY <1>1 DEF IInv, SeenBehind, QueueFiltered, Reportable, queue, kpack
<1>5. StepFits'
  BY <1>1 DEF IInv, StepFits, Reportable, queue, kpack
<1>6. ReportsHonest'
  BY <1>1, HonestyLasts DEF IInv, kpack
<1>7. NoReportLost'
  BY <1>1 DEF IInv, NoReportLost, Awaited, Reportable, Pending, View, queue, kpack
<1>8. QED
  BY <1>3, <1>4, <1>5, <1>6, <1>7 DEF IInv

LEMMA UpdateKeeps ==
  ASSUME IInv, UpdateBuild
  PROVE  IInv'
<1> DEFINE g == Guid[active]
           Sent == cc' = [cc EXCEPT ![g] = Report(step)]
<1>1. /\ step \in {"STAGED", "FAILED"}
      /\ step' = "none" /\ active' = None
      /\ UNCHANGED <<dirty, kpack, seen, unfetched>>
      /\ \/ Sent /\ delayed' = delayed /\ UNCHANGED faults
         \/ delayed' = delayed \cup {active} /\ UNCHANGED <<cc, faults>>
         \/ Fault /\ delayed' = delayed \cup {active} /\ (UNCHANGED cc \/ Sent)
  BY DEF UpdateBuild, PatchAccepted, PatchRefused, PatchFails, NotCalled, Patch, Accept,
         DoneAndForget, ErrorResult, DoneAndRequeue
<1>2. /\ active \in Builds /\ Reportable(active) /\ g \in Guids
      /\ seen[active] \in Final \cup {"deleted"}
  BY <1>1, BuildControllerAssumption DEF IInv, TypeOK, QueueTypeOK, StepFits, Reportable
<1>3. UNCHANGED cc \/ Sent
  BY <1>1
<1>4. \A h \in Guids : cc'[h] = cc[h] \/ (h = g /\ cc'[h] = Report(step))
  BY <1>3 DEF IInv, TypeOK
<1>5. TypeOK'
  <2>1. cc' \in [Guids -> [state: States, by: Builds \cup {None}]]
    BY <1>1, <1>2, <1>3 DEF IInv, TypeOK, Report, States
  <2>2. QED
    BY <1>1, <1>2, <2>1, BuildControllerAssumption
       DEF IInv, TypeOK, QueueTypeOK, Fault, Steps, kpack
<1>6. SeenBehind' /\ QueueFiltered'
  BY <1>1, <1>2 DEF IInv, SeenBehind, QueueFiltered, Reportable, kpack
<1>7. StepFits'
  BY <1>1 DEF StepFits
<1>8. ReportsHonest'
  <2>1. SUFFICES ASSUME NEW h \in Guids, cc'[h].state \in {"STAGED", "FAILED"}
                 PROVE  LET b == cc'[h].by
                        IN  /\ b \in Builds
                            /\ Guid[b] = h /\ Reason[b] \notin {None, "STACK"}
                            /\ cc'[h].state = "STAGED" => phase[b] = "succeeded"
                            /\ cc'[h].state = "FAILED" => phase[b] = "failed" \/ b \in unfetched
    BY <1>1 DEF ReportsHonest, kpack
  <2>2. CASE cc'[h] = cc[h]
    BY <2>1, <2>2 DEF IInv, ReportsHonest
  <2>3. CASE h = g /\ cc'[h] = Report(step)
    <3>1. cc'[h].by = active /\ cc'[h].state = step
      BY <2>3 DEF Report
    <3>2. QED
      BY <1>1, <1>2, <2>3, <3>1 DEF IInv, StepFits, Reportable
  <2>4. QED
    BY <1>4, <2>2, <2>3
<1>9. NoReportLost'
  <2>1. SUFFICES ASSUME NEW c \in Builds, Awaited(c)'
                 PROVE  (Pending(c) \/ seen[c] # View(c))'
    BY DEF NoReportLost
  <2>2. Guid[c] \in Guids
    BY <2>1, BuildControllerAssumption DEF Awaited, Reportable
  <2>3. cc'[Guid[c]] = cc[Guid[c]]
    BY <1>1, <1>4, <2>1, <2>2 DEF Awaited, Report
  <2>4. Awaited(c) /\ View(c)' = View(c)
    BY <1>1, <2>1, <2>3 DEF Awaited, Reportable, View, kpack
  <2>5. CASE c = active /\ Sent
    <3>1. cc'[g].state = step
      BY <1>2, <2>5 DEF IInv, TypeOK, Report
    <3>2. QED
      BY <1>1, <2>1, <2>5, <3>1 DEF Awaited
  <2>6. CASE c = active /\ ~Sent
    BY <1>1, <2>6 DEF Pending
  <2>7. CASE c # active
    BY <1>1, <2>4, <2>7 DEF IInv, NoReportLost, Pending
  <2>8. QED
    BY <2>5, <2>6, <2>7
<1>10. QED
  BY <1>5, <1>6, <1>7, <1>8, <1>9 DEF IInv

LEMMA RestartKeeps ==
  ASSUME IInv, Restart
  PROVE  IInv'
<1>1. /\ dirty' = Relisted /\ delayed' = {} /\ active' = None
      /\ seen' = [b \in Builds |-> View(b)]
      /\ step' = "none"
      /\ UNCHANGED <<kpack, cc, unfetched>>
      /\ Fault
  BY DEF Restart
<1>2. \A b \in Builds : /\ seen'[b] = View(b) /\ View(b)' = View(b)
                        /\ View(b) = IF b \in deleted THEN "deleted" ELSE phase[b]
  BY <1>1 DEF View, kpack
<1>3. \A b \in Builds : phase[b] \in Phases
  BY DEF IInv, TypeOK
<1>4. TypeOK'
  BY <1>1, <1>2, <1>3, BuildControllerAssumption
     DEF IInv, TypeOK, QueueTypeOK, Relisted, Fault, Steps, kpack
<1>5. SeenBehind'
  BY <1>1, <1>2, <1>3 DEF SeenBehind, Final, Phases, kpack
<1>6. QueueFiltered'
  BY <1>1, <1>2 DEF QueueFiltered, Relisted, BuildFilter, Reportable, Final
<1>7. StepFits'
  BY <1>1 DEF StepFits
<1>8. ReportsHonest'
  BY <1>1, HonestyLasts DEF IInv, kpack
<1>9. NoReportLost'
  BY <1>1, <1>2 DEF NoReportLost, Awaited, Pending, Relisted, BuildFilter, Reportable, kpack
<1>10. QED
  BY <1>4, <1>5, <1>6, <1>7, <1>8, <1>9 DEF IInv

-----------------------------------------------------------------------------
LEMMA NextKeeps == IInv /\ [Next]_vars => IInv'
<1>1. SUFFICES ASSUME IInv, [Next]_vars PROVE IInv'
  OBVIOUS
<1>2. CASE UNCHANGED vars
  BY <1>1, <1>2
     DEF vars, queue, kpack, IInv, TypeOK, QueueTypeOK, SeenBehind, QueueFiltered, StepFits,
         ReportsHonest, NoReportLost, Awaited, Reportable, Pending, View
<1>3. ASSUME NEW b \in Builds, KpackStart(b) \/ KpackFinish(b) \/ KpackDelete(b)
      PROVE  IInv'
  BY <1>1, <1>3, KpackKeeps
<1>4. ASSUME NEW b \in Builds,
             Inform(b) \/ ExpireDelay(b) \/ Start(b) \/ StartFails(b)
      PROVE  IInv'
  BY <1>1, <1>4, InformKeeps, ExpireKeeps, StartKeeps, StartFailsKeeps
<1>5. ASSUME NEW g \in Guids, CCDelete(g) PROVE IInv'
  BY <1>1, <1>5, CCDeleteKeeps
<1>6. CASE FetchImageConfig \/ UpdateBuild \/ Restart
  BY <1>1, <1>6, FetchKeeps, UpdateKeeps, RestartKeeps
<1>7. QED
  BY <1>1, <1>2, <1>3, <1>4, <1>5, <1>6 DEF Next

\* The inductive invariant of the Build controller: the queue, the informer's
\* view and the worker's step fit the builds (Reconcile, buildFilter).
THEOREM Invariance == Spec => []IInv
<1>1. QED
  BY InitIInv, NextKeeps, PTL DEF Spec

\* Type correctness of queue, builds, view, worker and CC's builds.
THEOREM TypeCorrect == Spec => []TypeOK
<1>1. IInv => TypeOK
  BY DEF IInv
<1>2. QED
  BY Invariance, <1>1, PTL

\* What CC is told of a build is true, whatever is retried, repeated after a
\* restart or read late (reconcileSuccessfulBuild, reconcileFailedBuild).
THEOREM Honest == Spec => []ReportsHonest
<1>1. IInv => ReportsHonest
  BY DEF IInv
<1>2. QED
  BY Invariance, <1>1, PTL

\* A finished build whose CC build still stages is in the queue, with the
\* worker or still to be seen (buildFilter, the requeues of Reconcile).
THEOREM NothingLost == Spec => []NoReportLost
<1>1. IInv => NoReportLost
  BY DEF IInv
<1>2. QED
  BY Invariance, <1>1, PTL

-----------------------------------------------------------------------------
(* The refinement of StagingReports.                                       *)

promise == <<phase, deleted, unfetched, cc>>

LEMMA FetchIsAbstract ==
  ASSUME IInv, FetchImageConfig
  PROVE  Reports!Next \/ UNCHANGED promise
<1>1. step = "config" /\ UNCHANGED <<kpack, cc>>
  BY DEF FetchImageConfig
<1>2. active \in Builds /\ phase[active] = "succeeded" /\ Reportable(active)
  BY <1>1 DEF IInv, TypeOK, QueueTypeOK, StepFits
<1>3. CASE UNCHANGED unfetched
  BY <1>1, <1>3 DEF promise, kpack
<1>4. CASE ConfigUnreadable
  <2>1. Reports!Unfetchable(active)
    BY <1>1, <1>2, <1>4 DEF ConfigUnreadable, Reports!Unfetchable, Reportable, kpack
  <2>2. QED
    BY <1>2, <2>1 DEF Reports!Next
<1>5. QED
  BY <1>3, <1>4 DEF FetchImageConfig

LEMMA UpdateIsAbstract ==
  ASSUME IInv, UpdateBuild
  PROVE  Reports!Next \/ UNCHANGED promise
<1>1. /\ step \in {"STAGED", "FAILED"}
      /\ UNCHANGED <<kpack, unfetched>>
      /\ UNCHANGED cc \/ Accept
  BY DEF UpdateBuild, PatchAccepted, PatchRefused, PatchFails, NotCalled, Patch
<1>2. CASE UNCHANGED cc
  BY <1>1, <1>2 DEF promise, kpack
<1>3. CASE Accept
  <2>1. /\ active \in Builds /\ Reportable(active)
        /\ step = "STAGED" => phase[active] = "succeeded"
        /\ step = "FAILED" => phase[active] = "failed" \/ active \in unfetched
    BY <1>1 DEF IInv, TypeOK, QueueTypeOK, StepFits
  <2>2. /\ cc[Guid[active]].state # "gone"
        /\ cc' = [cc EXCEPT ![Guid[active]] = [state |-> step, by |-> active]]
    BY <1>3 DEF Accept, MayAccept, Report
  <2>3. Reports!Report(active, step)
    BY <1>1, <2>1, <2>2 DEF Reports!Report, Reportable, kpack
  <2>4. QED
    BY <1>1, <2>1, <2>3 DEF Reports!Next
<1>4. QED
  BY <1>1, <1>2, <1>3

LEMMA StepIsAbstract == IInv /\ [Next]_vars => [Reports!Next]_promise
<1>1. SUFFICES ASSUME IInv, [Next]_vars PROVE Reports!Next \/ UNCHANGED promise
  OBVIOUS
<1>2. CASE UNCHANGED vars
  BY <1>2 DEF vars, kpack, promise
<1>3. ASSUME NEW b \in Builds, KpackStart(b) \/ KpackFinish(b)
      PROVE  Reports!Next
  <2>1. Reports!Run(b)
    BY <1>3 DEF KpackStart, KpackFinish, Reports!Run, Reports!Outcomes
  <2>2. QED
    BY <2>1 DEF Reports!Next
<1>4. ASSUME NEW b \in Builds, KpackDelete(b) PROVE Reports!Next
  <2>1. Reports!Delete(b)
    BY <1>4 DEF KpackDelete, Reports!Delete
  <2>2. QED
    BY <2>1 DEF Reports!Next
<1>5. ASSUME NEW b \in Builds, Inform(b) \/ ExpireDelay(b) \/ Start(b) \/ StartFails(b)
      PROVE  UNCHANGED promise
  BY <1>5 DEF Inform, ExpireDelay, Start, StartFails, kpack, promise
<1>6. ASSUME NEW g \in Guids, CCDelete(g) PROVE Reports!Next
  <2>1. Reports!Remove(g)
    BY <1>6 DEF CCDelete, Reports!Remove, kpack
  <2>2. QED
    BY <2>1 DEF Reports!Next
<1>7. CASE FetchImageConfig
  BY <1>1, <1>7, FetchIsAbstract
<1>8. CASE UpdateBuild
  BY <1>1, <1>8, UpdateIsAbstract
<1>9. CASE Restart
  BY <1>9 DEF Restart, kpack, promise
<1>10. QED
  BY <1>1, <1>2, <1>3, <1>4, <1>5, <1>6, <1>7, <1>8, <1>9 DEF Next

\* The Build controller implements what it promises: each of its steps is one of
\* StagingReports or none, for every set of builds and any CC.
THEOREM Refinement == Spec => ImplementsReports
<1>1. Init => Reports!Init
  BY DEF Init, Reports!Init
<1>2. QED
  BY <1>1, StepIsAbstract, Invariance, PTL DEF Spec, ImplementsReports, Reports!Spec, promise
=============================================================================

------------------------- MODULE PeriodicSyncProofs -------------------------
(***************************************************************************)
(* Proofs about PeriodicSync, for every set of periods and every bound.    *)
(***************************************************************************)
EXTENDS PeriodicSync, TLAPS

\* While the reconciler's copy has the resource's version, the period it will
\* ask for is the resource's.
ReadIsCurrent ==
    pc = "running" =>
        /\ read # None
        /\ current => obj # None /\ read.period = obj.period

IInv == TypeOK /\ ReadIsCurrent /\ NoLostWakeup

LEMMA AgeType ==
    ASSUME NEW o \in Resources \cup {None}
    PROVE  /\ Age(o) \in Resources \cup {None}
           /\ Age(o) = None <=> o = None
           /\ o # None => Age(o).period = o.period
<1>1. CASE o = None
  BY <1>1 DEF Age
<1>2. CASE o \in Resources
  <2>1. o # None
    BY <1>2, NoneIsNoResource
  <2>2. Age(o) = [o EXCEPT !.written = "earlier"]
    BY <2>1 DEF Age
  <2>3. Age(o) \in Resources /\ Age(o).period = o.period
    BY <1>2, <2>2 DEF Resources
  <2>4. QED
    BY <2>1, <2>3, NoneIsNoResource
<1>3. QED
  BY <1>1, <1>2

\* A second leaves the informer's backlog as long as it was.
LEMMA AgeLag ==
    ASSUME TypeOK, Tick
    PROVE  /\ lag' \in Seq(Resources \cup {None})
           /\ Len(lag') = Len(lag)
<1>1. lag \in Seq(Resources \cup {None})
  BY DEF TypeOK
<1>2. \A i \in 1..Len(lag) : Age(lag[i]) \in Resources \cup {None}
  BY <1>1, AgeType
<1>3. lag' = [i \in 1..Len(lag) |-> Age(lag[i])]
  BY <1>1 DEF Tick
<1>4. QED
  BY <1>1, <1>2, <1>3

\* AddAfter leaves the key in the queue or on a timer.
LEMMA AddAfterWakes ==
    ASSUME TypeOK, NEW s \in Int, NEW queued \in BOOLEAN, AddAfter(s, queued)
    PROVE  /\ dirty' \in BOOLEAN
           /\ timer' \in Seconds
           /\ dirty' \/ timer' # Off
<1>1. CASE s <= 0
  <2>1. dirty' = TRUE /\ timer' = timer
    BY <1>1 DEF AddAfter
  <2>2. QED
    BY <2>1 DEF TypeOK
<1>2. CASE ~(s <= 0)
  <2>1. dirty' = queued
    BY <1>2 DEF AddAfter
  <2>2. s \in Nat
    BY <1>2
  <2>3. (timer' = timer /\ timer # Off) \/ timer' = s
    BY <1>2 DEF AddAfter
  <2>4. timer' \in Seconds /\ timer' # Off
    BY <2>2, <2>3, PeriodicSyncAssumption DEF TypeOK, Seconds
  <2>5. QED
    BY <2>1, <2>4
<1>3. QED
  BY <1>1, <1>2

LEMMA RateLimitedWakes ==
    ASSUME TypeOK, NEW queued \in BOOLEAN, AddRateLimited(queued)
    PROVE  /\ dirty' \in BOOLEAN
           /\ timer' \in Seconds
           /\ dirty' \/ timer' # Off
BY AddAfterWakes, PeriodicSyncAssumption DEF AddRateLimited

\* A version of the resource keeps the resource and the backlog typed.
LEMMA WriteType ==
    ASSUME TypeOK, NEW o \in Resources \cup {None}, Write(o)
    PROVE  /\ obj' \in Resources \cup {None}
           /\ lag' \in Seq(Resources \cup {None})
BY DEF Write, TypeOK

\* What a status update writes has the period of the copy, and so of the
\* resource if it is accepted.
LEMMA StatusType ==
    ASSUME TypeOK, ReadIsCurrent, pc = "running",
           NEW reason \in {"Completed", "Failed"},
           StatusAccepted(reason) \/ StatusRejected \/ StatusFails(reason)
    PROVE  /\ obj' \in Resources \cup {None}
           /\ lag' \in Seq(Resources \cup {None})
           /\ StatusAccepted(reason) => obj' # None /\ obj'.period = read.period
<1>1. read \in Resources
  BY DEF TypeOK, ReadIsCurrent
<1>2. SetStatus(reason) \in Resources /\ SetStatus(reason).period = read.period
  BY <1>1 DEF SetStatus, Resources
<1>3. SetStatus(reason) # None
  BY <1>2, NoneIsNoResource
<1>4. CASE StatusAccepted(reason)
  BY <1>2, <1>3, <1>4, WriteType DEF StatusAccepted, Write
<1>5. CASE UNCHANGED <<obj, lag>> /\ ~StatusAccepted(reason)
  BY <1>5 DEF TypeOK
<1>6. QED
  BY <1>4, <1>5 DEF StatusRejected, StatusFails

LEMMA InitInv == ASSUME Init PROVE IInv
<1>1. /\ dirty \in BOOLEAN
      /\ obj \in Resources \cup {None} /\ lag = <<>>
      /\ timer = Off /\ since = Off
      /\ pc = "idle" /\ read = None /\ current = FALSE /\ edits = 0
  BY DEF Init
<1>2. TypeOK
  <2>1. lag \in Seq(Resources \cup {None})
    BY <1>1
  <2>2. timer \in Seconds /\ since \in Seconds
    BY <1>1 DEF Seconds
  <2>3. edits \in 0..MaxEdits
    BY <1>1, PeriodicSyncAssumption
  <2>4. QED
    BY <1>1, <2>1, <2>2, <2>3 DEF TypeOK
<1>3. ReadIsCurrent /\ NoLostWakeup
  BY DEF Init, ReadIsCurrent, NoLostWakeup
<1>4. QED
  BY <1>2, <1>3 DEF IInv

LEMMA WorkInv == ASSUME IInv, Work PROVE IInv'
<1>1. CASE Start
  <2>1. CASE Cached = None /\ NotFoundResult /\ UNCHANGED <<pc, read, current>>
    BY <1>1, <2>1 DEF Start, Cached, NotFoundResult, IInv, TypeOK, ReadIsCurrent, NoLostWakeup
  <2>2. CASE Cached # None /\ dirty' = FALSE /\ pc' = "running" /\ read' = Cached
             /\ current' = (lag = <<>>) /\ UNCHANGED timer
    <3>1. Cached \in Resources \cup {None}
      BY DEF Cached, IInv, TypeOK
    <3>2. QED
      BY <1>1, <2>2, <3>1 DEF Start, Cached, IInv, TypeOK, ReadIsCurrent, NoLostWakeup
  <2>3. QED
    BY <1>1, <2>1, <2>2 DEF Start
<1>2. CASE GetFails
  BY <1>2, RateLimitedWakes
  DEF GetFails, IInv, TypeOK, ReadIsCurrent, NoLostWakeup, Seconds
<1>3. ASSUME NEW reason \in {"Completed", "Failed"}, pc = "running",
             StatusAccepted(reason) \/ StatusRejected \/ StatusFails(reason),
             ErrorResult, since' = Off, Return
      PROVE  IInv'
  <2>1. dirty' \in BOOLEAN /\ timer' \in Seconds /\ (dirty' \/ timer' # Off)
    BY <1>3, RateLimitedWakes DEF ErrorResult, IInv, TypeOK
  <2>2. obj' \in Resources \cup {None} /\ lag' \in Seq(Resources \cup {None})
    BY <1>3, StatusType DEF IInv
  <2>3. QED
    BY <1>3, <2>1, <2>2
    DEF Return, IInv, TypeOK, ReadIsCurrent, NoLostWakeup, Seconds
<1>4. ASSUME pc = "running", StatusAccepted("Completed"),
             RequeueAfterPeriod(read.period), since' = 0, Return
      PROVE  IInv'
  <2>1. /\ obj' \in Resources \cup {None} /\ lag' \in Seq(Resources \cup {None})
        /\ obj' # None /\ obj'.period = read.period
    BY <1>4, StatusType DEF IInv
  <2>2. read.period \in Int
    BY <1>4, PeriodicSyncAssumption DEF IInv, TypeOK, ReadIsCurrent, Resources
  <2>3. /\ dirty' \in BOOLEAN /\ timer' \in Seconds
        /\ read.period > 0 => dirty' \/ timer' # Off
    BY <1>4, <2>2, AddAfterWakes DEF RequeueAfterPeriod, IInv, TypeOK
  <2>4. QED
    BY <1>4, <2>1, <2>3
    DEF Return, IInv, TypeOK, ReadIsCurrent, NoLostWakeup, Seconds
<1>5. QED
  BY <1>1, <1>2, <1>3, <1>4 DEF Work, SyncSucceeds, SyncFails

LEMMA OtherInv == ASSUME IInv, Inform \/ Fire \/ Tick \/ Edit \/ Restart PROVE IInv'
<1>1. CASE Inform
  BY <1>1 DEF Inform, IInv, TypeOK, ReadIsCurrent, NoLostWakeup
<1>2. CASE Fire
  BY <1>2 DEF Fire, IInv, TypeOK, ReadIsCurrent, NoLostWakeup, Seconds
<1>3. CASE Tick
  <2>1. /\ obj' \in Resources \cup {None} /\ (obj' = None <=> obj = None)
        /\ obj # None => obj'.period = obj.period
    BY <1>3, AgeType DEF Tick, IInv, TypeOK
  <2>2. /\ read' \in Resources \cup {None} /\ (read' = None <=> read = None)
        /\ read # None => read'.period = read.period
    BY <1>3, AgeType DEF Tick, IInv, TypeOK
  <2>3. lag' \in Seq(Resources \cup {None}) /\ Len(lag') = Len(lag)
    BY <1>3, AgeLag DEF IInv
  <2>4. lag # <<>> => lag' # <<>>
    BY <2>3 DEF IInv, TypeOK
  <2>5. /\ timer' \in Seconds /\ (timer # Off => timer' # Off)
        /\ since' \in Seconds
    BY <1>3, PeriodicSyncAssumption DEF Tick, IInv, TypeOK, Seconds
  <2>6. UNCHANGED <<dirty, pc, current, edits>>
    BY <1>3 DEF Tick
  <2>7. TypeOK'
    BY <2>1, <2>2, <2>3, <2>5, <2>6 DEF IInv, TypeOK
  <2>8. ReadIsCurrent'
    BY <2>1, <2>2, <2>6 DEF IInv, ReadIsCurrent
  <2>9. NoLostWakeup'
    BY <2>1, <2>4, <2>5, <2>6 DEF IInv, NoLostWakeup
  <2>10. QED
    BY <2>7, <2>8, <2>9 DEF IInv
<1>4. CASE Edit
  <2>1. PICK o \in Resources \cup {None} : o # obj /\ Write(o)
    <3>1. CASE obj = None
      <4>1. PICK p \in Periods : Write([period |-> p, reason |-> "None", written |-> "earlier"])
        BY <1>4, <3>1 DEF Edit
      <4>2. [period |-> p, reason |-> "None", written |-> "earlier"] \in Resources
        BY DEF Resources
      <4>3. QED
        BY <3>1, <4>1, <4>2, NoneIsNoResource
    <3>2. CASE obj # None /\ \E p \in Periods \ {obj.period} : Write([obj EXCEPT !.period = p])
      <4>1. PICK p \in Periods \ {obj.period} : Write([obj EXCEPT !.period = p])
        BY <3>2
      <4>2. [obj EXCEPT !.period = p] \in Resources /\ [obj EXCEPT !.period = p] # obj
        BY <3>2 DEF IInv, TypeOK, Resources
      <4>3. QED
        BY <4>1, <4>2
    <3>3. CASE obj # None /\ Write(None)
      BY <3>3
    <3>4. QED
      BY <1>4, <3>1, <3>2, <3>3 DEF Edit
  <2>2. obj' \in Resources \cup {None} /\ lag' \in Seq(Resources \cup {None})
    BY <2>1, WriteType DEF IInv
  <2>3. lag' # <<>>
    BY <2>1 DEF Write, IInv, TypeOK
  <2>4. edits' \in 0..MaxEdits
    BY <1>4, PeriodicSyncAssumption DEF Edit, IInv, TypeOK
  <2>5. QED
    BY <1>4, <2>2, <2>3, <2>4
    DEF Edit, IInv, TypeOK, ReadIsCurrent, NoLostWakeup, Seconds
<1>5. CASE Restart
  <2>1. /\ dirty' \in BOOLEAN
        /\ obj' = obj /\ lag' = <<>>
        /\ timer' = Off /\ since' = Off
        /\ pc' = "idle" /\ read' = None /\ current' = FALSE
        /\ edits < MaxEdits /\ edits' = edits + 1
    BY <1>5 DEF Restart
  <2>2. TypeOK'
    <3>1. lag' \in Seq(Resources \cup {None})
      BY <2>1
    <3>2. timer' \in Seconds /\ since' \in Seconds
      BY <2>1 DEF Seconds
    <3>3. edits' \in 0..MaxEdits
      BY <2>1, PeriodicSyncAssumption DEF IInv, TypeOK
    <3>4. QED
      BY <2>1, <3>1, <3>2, <3>3 DEF IInv, TypeOK
  <2>3. ReadIsCurrent' /\ NoLostWakeup'
    BY <1>5 DEF Restart, ReadIsCurrent, NoLostWakeup
  <2>4. QED
    BY <2>2, <2>3 DEF IInv
<1>6. QED
  BY <1>1, <1>2, <1>3, <1>4, <1>5

LEMMA Inductive == Spec => []IInv
<1>1. IInv /\ UNCHANGED vars => IInv'
  BY DEF IInv, TypeOK, ReadIsCurrent, NoLostWakeup, vars
<1>2. IInv /\ [Next]_vars => IInv'
  BY <1>1, WorkInv, OtherInv DEF Next
<1>3. QED
  BY <1>2, InitInv, PTL DEF Spec

\* The state has the types that TypeOK gives it.
THEOREM TypeCorrect == Spec => []TypeOK
<1>1. IInv => TypeOK
  BY DEF IInv
<1>2. QED
  BY <1>1, Inductive, PTL

\* The controller never forgets a resource with a period, whatever the order of
\* edits, stale reads, refused status updates and results of the reconciler.
THEOREM NeverForgotten == Spec => []NoLostWakeup
<1>1. IInv => NoLostWakeup
  BY DEF IInv
<1>2. QED
  BY <1>1, Inductive, PTL
=============================================================================

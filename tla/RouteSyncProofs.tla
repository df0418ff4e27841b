-------------------------- MODULE RouteSyncProofs --------------------------
(***************************************************************************)
(* Proofs about RouteSync, for every set of routes, every content and      *)
(* every bound.                                                            *)
(***************************************************************************)
EXTENDS RouteSync, FiniteSetTheorems, TLAPS

\* What the translation makes of a content is one of the specs.
LEMMA DesiredIsSpec ==
    ASSUME NEW c \in Contents
    PROVE  DesiredSpec(c) \in Specs
BY DEF Specs

LEMMA CachedType ==
    ASSUME TypeOK, NEW r \in Routes
    PROVE  /\ Cached(r) \in Objects \cup {None}
           /\ CachedManaged(r) \in Objects \cup {None}
BY DEF TypeOK, Cached, CachedManaged

\* The rows a page holds are rows of routes.
LEMMA PagesType ==
    ASSUME NEW page \in Pages
    PROVE  page \subseteq Routes
BY DEF Pages

\* With one page, the listing is the whole table.
LEMMA OnePageIsAll ==
    ASSUME OnePage, NEW page \in Pages
    PROVE  page = {r \in Routes : cc[r] # None}
<1> DEFINE rows == {r \in Routes : cc[r] # None}
<1>1. /\ IsFiniteSet(rows)
      /\ Cardinality(rows) <= Cardinality(Routes)
  BY FS_Subset DEF OnePage
<1>2. /\ Cardinality(rows) \in Nat
      /\ Cardinality(Routes) \in Nat
  BY <1>1, FS_CardinalityType DEF OnePage
<1>3. Cardinality(rows) <= PageSize
  BY <1>1, <1>2, RouteSyncAssumption DEF OnePage
<1>4. QED
  BY <1>3 DEF Pages

\* Writing a resource keeps the resources and the informer's backlog typed.
LEMMA WriteType ==
    ASSUME TypeOK, NEW r \in Routes, NEW obj \in Objects \cup {None}, WriteK8s(r, obj)
    PROVE  /\ k8s' \in [Routes -> Objects \cup {None}]
           /\ lag' \in [Routes -> Seq(Objects \cup {None})]
BY DEF TypeOK, WriteK8s

\* One call of the loops keeps the state typed.
LEMMA CallType ==
    ASSUME TypeOK, NEW r \in Routes, NEW acceptable \in BOOLEAN,
           NEW obj \in Objects \cup {None}, NEW refusalIsFine \in BOOLEAN,
           Call(r, acceptable, obj, refusalIsFine)
    PROVE  TypeOK'
<1>1. /\ k8s' \in [Routes -> Objects \cup {None}]
      /\ lag' \in [Routes -> Seq(Objects \cup {None})]
  BY WriteType DEF Call, TypeOK
<1>2. ok' \in BOOLEAN
  BY DEF Call, RecordFailure, TypeOK
<1>3. faults' \in 0..MaxFaults
  BY RouteSyncAssumption DEF Call, TypeOK, Fault
<1>4. QED
  BY <1>1, <1>2, <1>3 DEF Call, TypeOK

\* Every step of the sync keeps the state typed.
LEMMA SyncStepType ==
    ASSUME TypeOK, SyncStep \/ Restart
    PROVE  TypeOK'
<1>1. ASSUME NEW r \in Routes, Update(r)
      PROVE  TypeOK'
  <2>1. snap[r] \in Objects /\ listed[r] \in Contents
    BY <1>1 DEF Update, ToUpdate, TypeOK
  <2>2. [snap[r] EXCEPT !.spec = DesiredSpec(listed[r])] \in Objects
    BY <2>1, DesiredIsSpec DEF Objects
  <2>3. QED
    BY <1>1, <2>2, CallType DEF Update, Versioned
<1>2. ASSUME NEW r \in Routes, Create(r)
      PROVE  TypeOK'
  <2>1. listed[r] \in Contents
    BY <1>2 DEF Create, ToCreate, TypeOK
  <2>2. [managed |-> TRUE, spec |-> DesiredSpec(listed[r])] \in Objects
    BY <2>1, DesiredIsSpec DEF Objects
  <2>3. QED
    BY <1>2, <2>2, CallType DEF Create
<1>3. ASSUME NEW r \in Routes, Delete(r)
      PROVE  TypeOK'
  BY <1>3, CallType DEF Delete
<1>4. CASE ListRoutes
  BY <1>4 DEF ListRoutes, TypeOK, world
<1>5. CASE ListRoutesFails
  BY <1>5, RouteSyncAssumption
  DEF ListRoutesFails, ReportFailure, Fault, TypeOK, world
<1>6. CASE ListK8s
  BY <1>6, CachedType DEF ListK8s, ToUpdate, ToCreate, ToDelete, TypeOK, world
<1>7. CASE ListK8sFails
  BY <1>7, RouteSyncAssumption
  DEF ListK8sFails, ReportFailure, Fault, Return, Nothing, TypeOK, world
<1>8. CASE Report
  BY <1>8, RouteSyncAssumption DEF Report, Fault, Return, Nothing, TypeOK, world
<1>9. CASE Restart
  BY <1>9, RouteSyncAssumption DEF Restart, Fault, Return, Nothing, TypeOK
<1>10. QED
  BY <1>1, <1>2, <1>3, <1>4, <1>5, <1>6, <1>7, <1>8, <1>9 DEF SyncStep, SyncCall

\* Every step of the informer, of Cloud Controller and of operators keeps the
\* state typed.
LEMMA OtherStepType ==
    ASSUME TypeOK, NEW r \in Routes,
           Inform(r) \/ CCBegin(r) \/ CCStep(r) \/ OperatorWrite(r)
    PROVE  TypeOK'
<1>1. CASE Inform(r)
  <2>1. lag[r] \in Seq(Objects \cup {None}) /\ lag[r] # <<>>
    BY <1>1 DEF Inform, TypeOK
  <2>2. Tail(lag[r]) \in Seq(Objects \cup {None})
    BY <2>1
  <2>3. lag' \in [Routes -> Seq(Objects \cup {None})]
    BY <1>1, <2>2 DEF Inform, TypeOK
  <2>4. QED
    BY <1>1, <2>3 DEF Inform, TypeOK, sync
<1>2. CASE CCBegin(r)
  BY <1>2, RouteSyncAssumption DEF CCBegin, TypeOK, sync
<1>3. CASE CCWriteRow(r)
  BY <1>3 DEF CCWriteRow, Remaining, NoRequest, TypeOK, sync
<1>4. CASE CCWriteResource(r)
  <2> DEFINE obj == IF request[r].target = None THEN None
                    ELSE [managed |-> TRUE, spec |-> DesiredSpec(request[r].target)]
  <2>1. request[r].target \in Contents \cup {None}
    BY DEF TypeOK
  <2>2. obj \in Objects \cup {None}
    BY <2>1, DesiredIsSpec DEF Objects
  <2>3. /\ k8s' \in [Routes -> Objects \cup {None}]
        /\ lag' \in [Routes -> Seq(Objects \cup {None})]
    BY <1>4, <2>2, WriteType DEF CCWriteResource, WriteByOther
  <2>4. request' \in [Routes -> [target: Contents \cup {None}, todo: SUBSET {"db", "k8s"}]]
    BY <1>4 DEF CCWriteResource, Remaining, NoRequest, TypeOK
  <2>5. QED
    BY <1>4, <2>3, <2>4 DEF CCWriteResource, WriteByOther, TypeOK, sync
<1>5. CASE CCAbort(r)
  BY <1>5 DEF CCAbort, NoRequest, TypeOK, sync
<1>6. CASE OperatorWrite(r)
  <2>1. PICK obj \in Objects \cup {None} : WriteByOther(r, obj)
    BY <1>6 DEF OperatorWrite
  <2>2. /\ k8s' \in [Routes -> Objects \cup {None}]
        /\ lag' \in [Routes -> Seq(Objects \cup {None})]
    BY <2>1, WriteType DEF WriteByOther
  <2>3. QED
    BY <1>6, <2>1, <2>2, RouteSyncAssumption
    DEF OperatorWrite, WriteByOther, TypeOK, sync
<1>7. QED
  BY <1>1, <1>2, <1>3, <1>4, <1>5, <1>6 DEF CCStep

\* The state has the types that TypeOK gives it, whatever the page size.
THEOREM TypeCorrect == Spec => []TypeOK
<1>1. Init => TypeOK
  BY RouteSyncAssumption DEF Init, TypeOK, NoRequest, Nothing
<1>2. TypeOK /\ [Next]_vars => TypeOK'
  <2>1. ASSUME TypeOK, UNCHANGED vars
        PROVE  TypeOK'
    BY <2>1 DEF TypeOK, vars, world, sync
  <2>2. QED
    BY <2>1, SyncStepType, OtherStepType DEF Next
<1>3. QED
  BY <1>1, <1>2, PTL DEF Spec

-----------------------------------------------------------------------------
(* The inductive invariant.                                                *)

\* A call of the loops for route r, whose outcome is as listed if it changes the
\* resource, or if it is not carried out and yet counts as done.
LEMMA CallInv ==
    ASSUME LoopsInv, pc = "sync", NEW r \in todo, NEW acceptable \in BOOLEAN,
           NEW obj \in Objects \cup {None}, NEW refusalIsFine \in BOOLEAN,
           Call(r, acceptable, obj, refusalIsFine),
           r \notin k8sMoved /\ acceptable /\ k8s'[r] = obj => AsListed(r)',
           r \notin k8sMoved /\ ~acceptable /\ refusalIsFine => AsListed(r)
    PROVE  LoopsInv'
<1>1. r \in Routes /\ k8s \in [Routes -> Objects \cup {None}]
  BY DEF LoopsInv, TypeOK
<1>2. TypeOK'
  BY <1>1, CallType DEF LoopsInv
<1>3. /\ UNCHANGED <<cc, pc, listed, snap, ccMoved, k8sMoved>>
      /\ todo' = todo \ {r}
  BY DEF Call
<1>4. \A q \in Routes \ {r} : k8s'[q] = k8s[q]
  BY <1>1 DEF Call, WriteK8s
<1>5. SnapManaged' /\ NothingKept'
  BY <1>3 DEF LoopsInv, SnapManaged, NothingKept
<1>6. SnapCurrent'
  BY <1>3, <1>4, <1>1 DEF LoopsInv, TypeOK, SnapCurrent, Seen, Managed
<1>7. ASSUME ok', NEW q \in Routes \ (todo' \cup k8sMoved')
      PROVE  AsListed(q)'
  <2>1. q \notin k8sMoved
    BY <1>3, <1>7
  <2>2. ok
    BY <1>7 DEF Call, RecordFailure
  <2>3. CASE q = r
    <3>1. CASE acceptable /\ WriteK8s(r, obj)
      BY <3>1, <2>1, <2>3, <1>1 DEF WriteK8s
    <3>2. CASE ~acceptable /\ refusalIsFine /\ k8s' = k8s
      BY <3>2, <2>1, <2>3, <1>3 DEF AsListed, Managed
    <3>3. QED
      BY <3>1, <3>2, <1>7 DEF Call, RecordFailure
  <2>4. CASE q # r
    <3>1. AsListed(q)
      BY <1>3, <1>7, <2>1, <2>2, <2>4 DEF LoopsInv, DoneAsListed
    <3>2. QED
      BY <3>1, <2>4, <1>3, <1>4 DEF AsListed, Managed
  <2>5. QED
    BY <2>3, <2>4
<1>8. DoneAsListed'
  BY <1>7 DEF DoneAsListed
<1>9. QED
  BY <1>2, <1>5, <1>6, <1>8 DEF LoopsInv

LEMMA UpdateInv == ASSUME LoopsInv, NEW r \in Routes, Update(r) PROVE LoopsInv'
<1> DEFINE obj == [snap[r] EXCEPT !.spec = DesiredSpec(listed[r])]
<1>1. /\ pc = "sync" /\ r \in todo
      /\ listed[r] \in Contents
      /\ snap[r] \in Objects /\ snap[r].managed
      /\ Call(r, r \notin k8sMoved, obj, FALSE)
  BY DEF Update, Versioned, ToUpdate, LoopsInv, TypeOK, SnapManaged
<1>2. /\ obj \in Objects /\ obj # None
      /\ obj.managed /\ obj.spec = DesiredSpec(listed[r])
  BY <1>1, DesiredIsSpec, RouteSyncAssumption DEF Objects
<1>3. listed' = listed /\ listed[r] # None
  BY <1>1, RouteSyncAssumption DEF Call
<1>4. k8s'[r] = obj => AsListed(r)'
  BY <1>2, <1>3 DEF AsListed, Managed
<1>5. QED
  BY <1>1, <1>2, <1>4, CallInv

LEMMA CreateInv == ASSUME LoopsInv, NEW r \in Routes, Create(r) PROVE LoopsInv'
<1> DEFINE obj == [managed |-> TRUE, spec |-> DesiredSpec(listed[r])]
<1>1. /\ pc = "sync" /\ r \in todo
      /\ listed[r] \in Contents
      /\ Call(r, k8s[r] = None, obj, FALSE)
  BY DEF Create, ToCreate, LoopsInv, TypeOK
<1>2. obj \in Objects
  BY <1>1, DesiredIsSpec DEF Objects
<1>3. obj # None
  BY <1>2, RouteSyncAssumption
<1>4. listed' = listed /\ listed[r] # None
  BY <1>1, RouteSyncAssumption DEF Call
<1>5. k8s'[r] = obj => AsListed(r)'
  BY <1>3, <1>4 DEF AsListed, Managed
<1>6. QED
  BY <1>1, <1>2, <1>5, CallInv

LEMMA DeleteInv == ASSUME LoopsInv, NEW r \in Routes, Delete(r) PROVE LoopsInv'
<1>1. /\ pc = "sync" /\ r \in todo
      /\ listed[r] = None
      /\ Call(r, k8s[r] # None, None, TRUE)
  BY DEF Delete, ToDelete
<1>2. listed' = listed
  BY <1>1 DEF Call
<1>3. k8s'[r] = None => AsListed(r)'
  BY <1>1, <1>2 DEF AsListed, Managed
<1>4. k8s[r] = None => AsListed(r)
  BY <1>1 DEF AsListed, Managed
<1>5. QED
  BY <1>1, <1>3, <1>4, CallInv

\* Nothing that the loops rely on is known before the resources are listed.
LEMMA ListRoutesInv == ASSUME LoopsInv, ListRoutes PROVE LoopsInv'
<1>1. TypeOK'
  BY SyncStepType DEF SyncStep, LoopsInv
<1>2. pc' = "list"
  BY DEF ListRoutes
<1>3. QED
  BY <1>1, <1>2 DEF LoopsInv, SnapManaged, SnapCurrent, DoneAsListed, NothingKept

\* Listing the cache: a resource whose informer is not behind is listed as it
\* is, and a route without a call to make is as listed already.
LEMMA ListK8sInv == ASSUME LoopsInv, ListK8s PROVE LoopsInv'
<1>1. TypeOK'
  BY SyncStepType DEF SyncStep, LoopsInv
<1>2. /\ UNCHANGED <<cc, k8s, lag, listed, ccMoved>>
      /\ pc = "list" /\ pc' = "sync"
      /\ snap' = [r \in Routes |-> CachedManaged(r)]
      /\ k8sMoved' = {r \in Routes : lag[r] # <<>>}
      /\ todo' = ToUpdate(snap') \cup ToCreate(snap') \cup ToDelete(snap')
  BY DEF ListK8s, world
<1>3. NothingKept'
  BY <1>2 DEF LoopsInv, NothingKept
<1>4. SnapManaged'
  BY <1>2 DEF SnapManaged, CachedManaged
<1>5. \A r \in Routes \ k8sMoved' : snap'[r] = Seen(r)'
  BY <1>2 DEF CachedManaged, Cached, Seen, Managed
<1>6. SnapCurrent'
  BY <1>1, <1>5 DEF SnapCurrent, TypeOK
<1>7. ASSUME NEW r \in Routes \ (todo' \cup k8sMoved')
      PROVE  AsListed(r)'
  <2>1. snap'[r] = Seen(r)
    BY <1>2, <1>5, <1>7 DEF Seen, Managed
  <2>2. listed[r] # None => snap'[r] # None /\ snap'[r].spec = DesiredSpec(listed[r])
    BY <1>2, <1>7 DEF ToUpdate, ToCreate, CompareRoutes
  <2>3. listed[r] = None => snap'[r] = None
    BY <1>2, <1>7 DEF ToDelete
  <2>4. QED
    BY <2>1, <2>2, <2>3, <1>2 DEF AsListed, Seen, Managed
<1>8. DoneAsListed'
  BY <1>7 DEF DoneAsListed
<1>9. QED
  BY <1>1, <1>3, <1>4, <1>6, <1>8 DEF LoopsInv

\* A step after which nothing is kept leaves nothing to show but the types.
LEMMA IdleInv ==
    ASSUME TypeOK', pc' = "idle", listed' = Nothing, k8sMoved' = {} PROVE LoopsInv'
BY DEF LoopsInv, SnapManaged, SnapCurrent, DoneAsListed, NothingKept, Nothing

\* Steps of others at route r: they touch no other route's state, and r itself
\* only as k8sMoved records while the sync runs.
LEMMA OtherInv ==
    ASSUME LoopsInv, NEW r \in Routes,
           Inform(r) \/ CCBegin(r) \/ CCStep(r) \/ OperatorWrite(r)
    PROVE  LoopsInv'
<1>1. TypeOK'
  BY OtherStepType DEF LoopsInv
<1>2. /\ UNCHANGED sync
      /\ \A q \in Routes : q # r => k8s'[q] = k8s[q]
      /\ k8sMoved \subseteq k8sMoved'
  BY DEF Inform, CCBegin, CCStep, CCWriteRow, CCWriteResource, CCAbort,
         OperatorWrite, WriteByOther, WriteK8s, LoopsInv, TypeOK, sync
<1>3. /\ pc = "sync" => k8s'[r] = k8s[r] \/ r \in k8sMoved'
      /\ pc # "sync" => k8sMoved' = k8sMoved
  BY DEF Inform, CCBegin, CCStep, CCWriteRow, CCWriteResource, CCAbort,
         OperatorWrite, WriteByOther, WriteK8s, LoopsInv, TypeOK
<1>4. NothingKept'
  BY <1>2, <1>3 DEF LoopsInv, NothingKept, sync
<1>5. SnapManaged'
  BY <1>2 DEF LoopsInv, SnapManaged, sync
<1>6. SnapCurrent'
  BY <1>1, <1>2, <1>3 DEF LoopsInv, TypeOK, SnapCurrent, Seen, Managed, sync
<1>7. ASSUME pc = "sync", ok, NEW q \in Routes \ (todo' \cup k8sMoved')
      PROVE  AsListed(q)'
  <2>1. AsListed(q)
    BY <1>2, <1>7 DEF LoopsInv, DoneAsListed, sync
  <2>2. listed' = listed /\ k8s'[q] = k8s[q]
    BY <1>2, <1>3, <1>7 DEF sync
  <2>3. QED
    BY <2>1, <2>2 DEF AsListed, Managed
<1>8. DoneAsListed'
  BY <1>2, <1>7 DEF DoneAsListed, sync
<1>9. QED
  BY <1>1, <1>4, <1>5, <1>6, <1>8 DEF LoopsInv

\* One step, whoever takes it, keeps the inductive invariant.
LEMMA NextInv == ASSUME LoopsInv, [Next]_vars PROVE LoopsInv'
<1>1. CASE UNCHANGED vars
  BY <1>1 DEF LoopsInv, TypeOK, SnapManaged, SnapCurrent, DoneAsListed,
              NothingKept, AsListed, Seen, Managed, vars, world, sync
<1>2. CASE ListRoutesFails
  <2>1. TypeOK'
    BY <1>2, SyncStepType DEF SyncStep, LoopsInv
  <2>2. pc' = "idle" /\ listed' = Nothing /\ k8sMoved' = {}
    BY <1>2 DEF ListRoutesFails, LoopsInv, NothingKept
  <2>3. QED
    BY <2>1, <2>2, IdleInv
<1>3. CASE ListK8sFails \/ Report \/ Restart
  <2>1. TypeOK'
    BY <1>3, SyncStepType DEF SyncStep, LoopsInv
  <2>2. pc' = "idle" /\ listed' = Nothing /\ k8sMoved' = {}
    BY <1>3 DEF ListK8sFails, Report, Restart, Return
  <2>3. QED
    BY <2>1, <2>2, IdleInv
<1>4. QED
  BY <1>1, <1>2, <1>3, ListRoutesInv, ListK8sInv, UpdateInv, CreateInv, DeleteInv,
     OtherInv DEF Next, SyncStep, SyncCall

\* Whatever was listed of the CF API, the loops keep to it.
LEMMA LoopsInductive == Spec => []LoopsInv
<1>1. Init => LoopsInv
  BY RouteSyncAssumption
  DEF Init, LoopsInv, TypeOK, NoRequest, Nothing, SnapManaged,
      SnapCurrent, DoneAsListed, NothingKept
<1>2. LoopsInv /\ [Next]_vars => LoopsInv'
  BY NextInv
<1>3. QED
  BY <1>1, <1>2, PTL DEF Spec

\* With one page, every row is listed as it is.
LEMMA ListsTheRows == ASSUME OnePage, TypeOK, ListRoutes PROVE listed' = cc
<1>1. PICK page \in Pages : listed' = [r \in Routes |-> IF r \in page THEN cc[r] ELSE None]
  BY DEF ListRoutes
<1>2. page = {r \in Routes : cc[r] # None}
  BY OnePageIsAll
<1>3. QED
  BY <1>1, <1>2 DEF TypeOK

\* Rows that are written after the listing are in ccMoved.
LEMMA ListedCurrentStep ==
    ASSUME OnePage, TypeOK, ListedCurrent, [Next]_vars PROVE ListedCurrent'
<1>1. CASE ListRoutes
  BY <1>1, ListsTheRows DEF ListRoutes, ListedCurrent, world
<1>2. CASE ListRoutesFails \/ ListK8sFails \/ Report \/ Restart
  BY <1>2 DEF ListRoutesFails, ListK8sFails, Report, Restart, Return, ListedCurrent
<1>3. CASE UNCHANGED vars \/ ListK8s \/ \E r \in Routes : SyncCall(r)
  <2>1. UNCHANGED <<cc, listed, ccMoved>> /\ (pc = "idle" => pc' = "idle")
    BY <1>3 DEF vars, world, sync, ListK8s, SyncCall, Update, Create, Delete, Call
  <2>2. QED
    BY <2>1 DEF ListedCurrent
<1>4. ASSUME NEW r \in Routes, Inform(r) \/ CCBegin(r) \/ CCStep(r) \/ OperatorWrite(r)
      PROVE  ListedCurrent'
  <2>1. /\ UNCHANGED <<pc, listed>>
        /\ \A q \in Routes : q # r => cc'[q] = cc[q]
        /\ ccMoved \subseteq ccMoved'
        /\ pc # "idle" => cc'[r] = cc[r] \/ r \in ccMoved'
    BY <1>4 DEF Inform, CCBegin, CCStep, CCWriteRow, CCWriteResource, CCAbort,
                OperatorWrite, TypeOK, sync
  <2>2. QED
    BY <2>1 DEF ListedCurrent
<1>5. QED
  BY <1>1, <1>2, <1>3, <1>4 DEF Next, SyncStep

\* The invariant of an installation whose routes fit in a page.
LEMMA Inductive == ASSUME OnePage PROVE Spec => []IInv
<1>1. Init => ListedCurrent
  BY DEF Init, ListedCurrent
<1>2. LoopsInv => TypeOK
  BY DEF LoopsInv
<1>3. TypeOK /\ ListedCurrent /\ [Next]_vars => ListedCurrent'
  BY ListedCurrentStep
<1>4. QED
  BY <1>1, <1>2, <1>3, LoopsInductive, PTL DEF Spec, IInv

\* A sync about to report Completed has every route in sync that nobody else
\* wrote while it ran (reconciledSuccessfully and the three loops).
THEOREM CompletedIsHonest == ASSUME OnePage PROVE Spec => []SuccessMeansSynced
<1>1. IInv => SuccessMeansSynced
  <2>1. ASSUME IInv, pc = "sync", NEW r \in Routes \ Disturbed, AsListed(r)
        PROVE  InSync(r)
    BY <2>1 DEF IInv, ListedCurrent, AsListed, InSync, Disturbed
  <2>2. QED
    BY <2>1 DEF IInv, LoopsInv, DoneAsListed, SuccessMeansSynced, Disturbed
<1>2. QED
  BY <1>1, Inductive, PTL

\* What a call of the sync writes is what the CF API asks for, unless the row
\* was written after the listing.
LEMMA CallRepairs ==
    ASSUME IInv, NEW r \in Routes, SyncCall(r), k8s'[r] # k8s[r]
    PROVE  InSync(r)' \/ r \in ccMoved
<1>1. CASE Update(r)
  <2> DEFINE obj == [snap[r] EXCEPT !.spec = DesiredSpec(listed[r])]
  <2>1. /\ listed[r] \in Contents
        /\ snap[r] \in Objects /\ snap[r].managed
        /\ pc = "sync"
        /\ Call(r, r \notin k8sMoved, obj, FALSE)
    BY <1>1 DEF Update, Versioned, ToUpdate, IInv, LoopsInv, TypeOK, SnapManaged
  <2>2. k8s'[r] = obj /\ cc' = cc
    BY <2>1 DEF Call, WriteK8s, IInv, LoopsInv, TypeOK
  <2>3. obj \in Objects /\ obj.managed /\ obj.spec = DesiredSpec(listed[r])
    BY <2>1, DesiredIsSpec DEF Objects
  <2>4. obj # None
    BY <2>3, RouteSyncAssumption
  <2>5. r \notin ccMoved => cc[r] = listed[r] /\ cc[r] # None
    BY <2>1, RouteSyncAssumption DEF IInv, ListedCurrent
  <2>6. QED
    BY <2>2, <2>3, <2>4, <2>5 DEF InSync, Managed
<1>2. CASE Create(r)
  <2> DEFINE obj == [managed |-> TRUE, spec |-> DesiredSpec(listed[r])]
  <2>1. /\ listed[r] \in Contents
        /\ pc = "sync"
        /\ Call(r, k8s[r] = None, obj, FALSE)
    BY <1>2 DEF Create, ToCreate, IInv, LoopsInv, TypeOK
  <2>2. k8s'[r] = obj /\ cc' = cc
    BY <2>1 DEF Call, WriteK8s, IInv, LoopsInv, TypeOK
  <2>3. obj \in Objects
    BY <2>1, DesiredIsSpec DEF Objects
  <2>4. obj # None
    BY <2>3, RouteSyncAssumption
  <2>5. r \notin ccMoved => cc[r] = listed[r] /\ cc[r] # None
    BY <2>1, RouteSyncAssumption DEF IInv, ListedCurrent
  <2>6. QED
    BY <2>2, <2>4, <2>5 DEF InSync, Managed
<1>3. CASE Delete(r)
  <2>1. /\ listed[r] = None
        /\ pc = "sync"
        /\ Call(r, k8s[r] # None, None, TRUE)
    BY <1>3 DEF Delete, ToDelete
  <2>2. k8s'[r] = None /\ cc' = cc
    BY <2>1 DEF Call, WriteK8s, IInv, LoopsInv, TypeOK
  <2>3. r \notin ccMoved => cc[r] = None
    BY <2>1 DEF IInv, ListedCurrent
  <2>4. QED
    BY <2>2, <2>3 DEF InSync, Managed
<1>4. QED
  BY <1>1, <1>2, <1>3 DEF SyncCall

\* Every write of the sync repairs, unless the CF API moved behind its back.
THEOREM SyncRepairs == ASSUME OnePage PROVE Spec => WritesRepair
<1>1. IInv /\ [Next]_vars =>
         [\A r \in Routes :
             SyncCall(r) /\ k8s'[r] # k8s[r] => InSync(r)' \/ r \in ccMoved]_vars
  BY CallRepairs
<1>2. QED
  BY <1>1, Inductive, PTL DEF Spec, WritesRepair

\* Given one page, a live route keeps its resource, unless its row was written
\* after the listing: the listed page is all that a sync takes live routes away by
\* (ListRoutes, the loop of extraInK8s).
THEOREM LiveRoutesAreSafe == ASSUME OnePage PROVE Spec => LiveRoutesStay
<1>1. ASSUME IInv, NEW r \in Routes, Delete(r), k8s'[r] # k8s[r]
      PROVE  cc[r] = None \/ r \in ccMoved
  BY <1>1 DEF Delete, ToDelete, IInv, ListedCurrent
<1>2. IInv /\ [Next]_vars =>
         [\A r \in Routes :
             Delete(r) /\ k8s'[r] # k8s[r] => cc[r] = None \/ r \in ccMoved]_vars
  BY <1>1
<1>3. QED
  BY <1>2, Inductive, PTL DEF Spec, LiveRoutesStay

\* A resource without the label is changed only if the label was taken off
\* after the sync had listed the resource.
THEOREM UnmanagedIsSafe == Spec => UnmanagedUntouched
<1>1. ASSUME LoopsInv, NEW r \in Routes, SyncCall(r), k8s'[r] # k8s[r], k8s[r] # None
      PROVE  Managed(r) \/ r \in k8sMoved
  <2>1. pc = "sync" /\ r \in todo /\ snap[r] # None
    <3>1. CASE Update(r)
      BY <3>1 DEF Update, ToUpdate
    <3>2. CASE Create(r)
      BY <3>2, <1>1 DEF Create, Call, WriteK8s, LoopsInv, TypeOK
    <3>3. CASE Delete(r)
      BY <3>3 DEF Delete, ToDelete
    <3>4. QED
      BY <3>1, <3>2, <3>3, <1>1 DEF SyncCall
  <2>2. QED
    BY <2>1, <1>1 DEF LoopsInv, SnapCurrent, Seen
<1>2. LoopsInv /\ [Next]_vars =>
         [\A r \in Routes :
             SyncCall(r) /\ k8s'[r] # k8s[r] /\ k8s[r] # None =>
                 Managed(r) \/ r \in k8sMoved]_vars
  BY <1>1
<1>3. QED
  BY <1>2, LoopsInductive, PTL DEF Spec, UnmanagedUntouched

-----------------------------------------------------------------------------
(* The refinement of RouteMirror.                                          *)

promise == <<cc, k8s, pc, listed, k8sMoved, Tried, status>>

LEMMA WantedContent ==
    ASSUME NEW c \in Contents
    PROVE  Mirror!Wanted(c) = [managed |-> TRUE, spec |-> DesiredSpec(c)]
BY RouteSyncAssumption DEF Mirror!Wanted

LEMMA AsListedAgrees ==
    ASSUME TypeOK, NEW r \in Routes, AsListed(r)
    PROVE  Mirror!Agrees(r)
<1>1. listed[r] \in Contents \cup {None} /\ k8s[r] \in Objects \cup {None}
  BY DEF TypeOK
<1>2. CASE listed[r] = None
  BY <1>2 DEF AsListed, Managed, Mirror!Agrees, Mirror!Wanted
<1>3. CASE listed[r] # None
  <2>1. k8s[r] \in Objects /\ k8s[r].managed /\ k8s[r].spec = DesiredSpec(listed[r])
    BY <1>1, <1>3 DEF AsListed, Managed
  <2>2. k8s[r] = [managed |-> TRUE, spec |-> DesiredSpec(listed[r])]
    BY <2>1 DEF Objects
  <2>3. QED
    BY <1>1, <1>3, <2>2, WantedContent DEF Mirror!Agrees
<1>4. QED
  BY <1>2, <1>3

\* A call is the one try to mirror its route, carried out only if it may replace
\* what there is.
LEMMA CallMirrors ==
    ASSUME TypeOK, pc = "sync", NEW r \in Routes, r \in todo,
           r \in ToUpdate(snap) \cup ToCreate(snap) \cup ToDelete(snap),
           NEW acceptable \in BOOLEAN, NEW obj, NEW refusalIsFine \in BOOLEAN,
           Call(r, acceptable, obj, refusalIsFine),
           obj = Mirror!Wanted(listed[r]), acceptable => Mirror!MayReplace(r)
    PROVE  Mirror!Mirror(r)
<1>1. /\ UNCHANGED <<cc, pc, listed, snap, status, k8sMoved>>
      /\ todo' = todo \ {r}
  BY DEF Call
<1>2. r \notin Tried /\ Tried' = Tried \cup {r}
  BY <1>1 DEF Tried, ToUpdate, ToCreate, ToDelete
<1>3. \/ acceptable /\ k8s' = [k8s EXCEPT ![r] = obj]
      \/ UNCHANGED k8s
  BY DEF Call, WriteK8s
<1>4. QED
  BY <1>1, <1>2, <1>3 DEF Mirror!Mirror

LEMMA UpdateMirrors == ASSUME LoopsInv, NEW r \in Routes, Update(r) PROVE Mirror!Mirror(r)
<1> DEFINE obj == [snap[r] EXCEPT !.spec = DesiredSpec(listed[r])]
<1>1. /\ pc = "sync" /\ r \in todo /\ r \in ToUpdate(snap)
      /\ listed[r] \in Contents
      /\ snap[r] \in Objects /\ snap[r].managed
      /\ Call(r, r \notin k8sMoved, obj, FALSE)
  BY DEF Update, Versioned, ToUpdate, LoopsInv, TypeOK, SnapManaged
<1>2. obj = [managed |-> TRUE, spec |-> DesiredSpec(listed[r])]
  <2>1. obj \in Objects /\ obj.managed /\ obj.spec = DesiredSpec(listed[r])
    BY <1>1, DesiredIsSpec DEF Objects
  <2> HIDE DEF obj
  <2>2. QED
    BY <2>1 DEF Objects
<1>3. r \notin k8sMoved => k8s[r] # None /\ k8s[r].managed
  BY <1>1, RouteSyncAssumption DEF LoopsInv, SnapCurrent, Seen, Managed
<1>4. QED
  BY <1>1, <1>2, <1>3, WantedContent, CallMirrors DEF LoopsInv, Mirror!MayReplace

LEMMA CreateMirrors == ASSUME LoopsInv, NEW r \in Routes, Create(r) PROVE Mirror!Mirror(r)
<1>1. /\ pc = "sync" /\ r \in todo /\ r \in ToCreate(snap)
      /\ listed[r] \in Contents
      /\ Call(r, k8s[r] = None, [managed |-> TRUE, spec |-> DesiredSpec(listed[r])], FALSE)
  BY DEF Create, ToCreate, LoopsInv, TypeOK
<1>2. QED
  BY <1>1, WantedContent, CallMirrors DEF LoopsInv, Mirror!MayReplace

LEMMA DeleteMirrors == ASSUME LoopsInv, NEW r \in Routes, Delete(r) PROVE Mirror!Mirror(r)
<1>1. /\ pc = "sync" /\ r \in todo /\ r \in ToDelete(snap)
      /\ listed[r] = None /\ snap[r] # None
      /\ Call(r, k8s[r] # None, None, TRUE)
  BY DEF Delete, ToDelete
<1>2. r \notin k8sMoved => k8s[r].managed
  BY <1>1 DEF LoopsInv, SnapCurrent, Seen, Managed
<1>3. None = Mirror!Wanted(listed[r])
  BY <1>1 DEF Mirror!Wanted
<1>4. QED
  BY <1>1, <1>2, <1>3, CallMirrors DEF LoopsInv, Mirror!MayReplace

\* The two lists are the two looks.
LEMMA ListsLook ==
    ASSUME OnePage, LoopsInv, ListRoutes \/ ListK8s
    PROVE  Mirror!LookAtRows \/ Mirror!LookAtResources
<1>1. CASE ListRoutes
  <2>1. listed' = cc
    BY <1>1, ListsTheRows DEF LoopsInv
  <2>2. Tried' = Tried
    BY <1>1 DEF ListRoutes, Tried
  <2>3. QED
    BY <1>1, <2>1, <2>2 DEF ListRoutes, world, Mirror!LookAtRows
<1>2. CASE ListK8s
  <2>1. /\ pc = "list" /\ pc' = "sync"
        /\ listed' = listed
        /\ snap' = [r \in Routes |-> CachedManaged(r)]
        /\ todo' = ToUpdate(snap') \cup ToCreate(snap') \cup ToDelete(snap')
    BY <1>2 DEF ListK8s
  <2>2. Tried = {} /\ Tried' = {}
    BY <2>1 DEF Tried, ToUpdate, ToCreate, ToDelete
  <2>3. QED
    BY <1>2, <2>1, <2>2 DEF ListK8s, world, Mirror!LookAtResources
<1>3. QED
  BY <1>1, <1>2

\* A sync that returns ends, with Completed only if all is as listed.
LEMMA ReturnsEnd ==
    ASSUME LoopsInv, ListRoutesFails \/ ListK8sFails \/ Report \/ Restart
    PROVE  Mirror!Complete \/ Mirror!GiveUp
<1>1. pc' = "idle" /\ listed' = Nothing /\ k8sMoved' = {} /\ Tried' = {}
  BY DEF ListRoutesFails, ListK8sFails, Report, Restart, Return, Tried, LoopsInv, NothingKept
<1>2. cc' = cc /\ k8s' = k8s
  BY DEF ListRoutesFails, ListK8sFails, Report, Restart, world
<1>3. Mirror!End
  BY <1>1 DEF Mirror!End, Mirror!Nothing, Nothing
<1>4. CASE status' \in {"Failed", status}
  BY <1>2, <1>3, <1>4 DEF Mirror!GiveUp
<1>5. CASE status' \notin {"Failed", status}
  <2>1. pc = "sync" /\ todo = {} /\ ok /\ status' = "Completed"
    BY <1>5 DEF ListRoutesFails, ListK8sFails, Report, Restart, ReportFailure
  <2>2. \A r \in Routes \ k8sMoved : Mirror!Agrees(r)
    BY <2>1, AsListedAgrees DEF LoopsInv, DoneAsListed
  <2>3. QED
    BY <1>2, <1>3, <2>1, <2>2 DEF Mirror!Complete
<1>6. QED
  BY <1>4, <1>5

\* What others do is nothing to the mirror, or it is a write of a row or of a
\* resource.
LEMMA OthersWrite ==
    ASSUME TypeOK, NEW r \in Routes,
           Inform(r) \/ CCBegin(r) \/ CCStep(r) \/ OperatorWrite(r)
    PROVE  Mirror!WriteRow(r) \/ Mirror!WriteResource(r) \/ UNCHANGED promise
<1>1. UNCHANGED <<pc, listed, snap, todo, status>>
  BY DEF Inform, CCBegin, CCStep, CCWriteRow, CCWriteResource, CCAbort, OperatorWrite, sync
<1>2. Tried' = Tried
  BY <1>1 DEF Tried, ToUpdate, ToCreate, ToDelete
<1>3. CASE Inform(r) \/ CCBegin(r) \/ CCAbort(r)
  BY <1>1, <1>2, <1>3 DEF Inform, CCBegin, CCAbort, promise
<1>4. CASE CCWriteRow(r)
  <2>1. cc' = [cc EXCEPT ![r] = request[r].target] /\ UNCHANGED <<k8s, k8sMoved>>
    BY <1>4 DEF CCWriteRow
  <2>2. request[r].target \in Contents \cup {None}
    BY DEF TypeOK
  <2>3. QED
    BY <1>1, <1>2, <2>1, <2>2 DEF Mirror!WriteRow
<1>5. ASSUME NEW obj \in Objects \cup {None}, WriteByOther(r, obj), cc' = cc
      PROVE  Mirror!WriteResource(r) \/ UNCHANGED promise
  <2>1. CASE obj = k8s[r]
    BY <1>1, <1>2, <1>5, <2>1 DEF WriteByOther, WriteK8s, TypeOK, promise
  <2>2. CASE obj # k8s[r]
    BY <1>1, <1>2, <1>5, <2>2 DEF WriteByOther, WriteK8s, Mirror!WriteResource
  <2>3. QED
    BY <2>1, <2>2
<1>6. CASE CCWriteResource(r)
  <2>1. request[r].target \in Contents \cup {None}
    BY DEF TypeOK
  <2>2. ASSUME request[r].target # None
        PROVE  [managed |-> TRUE, spec |-> DesiredSpec(request[r].target)] \in Objects
    BY <2>1, <2>2, DesiredIsSpec DEF Objects
  <2>3. QED
    BY <1>5, <1>6, <2>2 DEF CCWriteResource
<1>7. CASE OperatorWrite(r)
  BY <1>5, <1>7 DEF OperatorWrite
<1>8. QED
  BY <1>3, <1>4, <1>6, <1>7 DEF CCStep

LEMMA StepMirrors == ASSUME OnePage, LoopsInv, [Next]_vars PROVE [Mirror!Next]_promise
<1>1. CASE UNCHANGED vars
  BY <1>1 DEF vars, world, sync, promise, Tried, ToUpdate, ToCreate, ToDelete
<1>2. CASE Next
  BY <1>2, ListsLook, ReturnsEnd, UpdateMirrors, CreateMirrors, DeleteMirrors, OthersWrite
  DEF Next, SyncStep, SyncCall, LoopsInv, Mirror!Next
<1>3. QED
  BY <1>1, <1>2

\* The sync implements its promise, whatever Cloud Controller, operators, the
\* informer and the faults do (Reconcile), provided that one page holds all routes.
THEOREM Refinement == ASSUME OnePage PROVE Spec => ImplementsMirror
<1>1. Init => Mirror!Init
  BY DEF Init, Mirror!Init, Mirror!Nothing, Nothing, Tried
<1>2. QED
  BY <1>1, StepMirrors, LoopsInductive, PTL DEF Spec, ImplementsMirror, Mirror!Spec, promise
=============================================================================

----------------------------- MODULE RouteSync -----------------------------
(***************************************************************************)
(* controllers/periodic_sync_controller.go: one sync compares the routes   *)
(* of the CF API with the Route resources of Kubernetes and repairs the    *)
(* latter with a sequence of separate calls, while                         *)
(*   - Cloud Controller keeps writing both its database and the resources, *)
(*     in two steps that may fail in between (decisions/0004, "Problems    *)
(*     and Solutions"),                                                    *)
(*   - an operator edits or deletes resources,                             *)
(*   - the informer, whose cache the sync lists, lags behind,              *)
(*   - calls fail, also after having taken effect, and the process         *)
(*     restarts.                                                           *)
(* When a sync runs is the subject of PeriodicSync.                        *)
(***************************************************************************)
EXTENDS RouteTranslator, FiniteSets

CONSTANTS
    Routes,      \* route GUIDs, which are also the names of the resources
    Contents,    \* what a CC route may hold: a record as in RouteTranslator,
                 \* its space and domain replaced by the included resources
    DriftSpecs,  \* specs an operator may write into a resource
    PageSize,    \* MaxResultsPerPage of cf/client.go
    MaxOps,      \* bound: CC requests and operator edits
    MaxFaults,   \* bound: failed calls and restarts
    None

\* What the sync wants in the resource of a route with content c.
DesiredSpec(c) == TranslateRoute(c, c.space, c.domain).spec

Specs == {DesiredSpec(c) : c \in Contents} \cup DriftSpecs

\* A Route resource; `managed' is the label that the sync selects by.
Objects == [managed: BOOLEAN, spec: Specs]

ASSUME RouteSyncAssumption ==
    /\ None \notin Contents
    /\ None \notin Objects
    /\ PageSize \in Nat
    /\ MaxOps \in Nat
    /\ MaxFaults \in Nat

VARIABLES
    cc,        \* the route rows of the CF API
    k8s,       \* the Route resources of the workloads namespace
    lag,       \* per resource, the older versions the informer has yet to leave
    request,   \* per route, what a request to the CF API has left to write
    ops,       \* requests and edits so far
    faults,    \* failed calls and restarts so far
    pc,        \* where the sync is
    listed,    \* ccRouteMap: the CC routes as the sync listed them
    snap,      \* k8sRouteMap: the resources as the sync listed them
    todo,      \* routes the sync has a call left to make for
    ok,        \* reconciledSuccessfully
    status,    \* reason of the Synced condition of the PeriodicSync resource
    ccMoved,   \* history: rows written since the running sync listed the CF API
    k8sMoved   \* resources that others have written since the version the sync
               \* listed: their resourceVersion is not the listed one

world == <<cc, k8s, lag, request, ops>>
sync == <<pc, listed, snap, todo, ok, status>>
vars == <<world, sync, faults, ccMoved, k8sMoved>>

NoRequest == [target |-> None, todo |-> {}]
Nothing == [r \in Routes |-> None]

TypeOK ==
    /\ cc \in [Routes -> Contents \cup {None}]
    /\ k8s \in [Routes -> Objects \cup {None}]
    /\ lag \in [Routes -> Seq(Objects \cup {None})]
    /\ request \in [Routes -> [target: Contents \cup {None},
                               todo: SUBSET {"db", "k8s"}]]
    /\ ops \in 0..MaxOps
    /\ faults \in 0..MaxFaults
    /\ pc \in {"idle", "list", "sync"}
    /\ listed \in [Routes -> Contents \cup {None}]
    /\ snap \in [Routes -> Objects \cup {None}]
    /\ todo \subseteq Routes
    /\ ok \in BOOLEAN
    /\ status \in {"None", "Completed", "Failed"}
    /\ ccMoved \subseteq Routes
    /\ k8sMoved \subseteq Routes

\* The CF API and Kubernetes disagree at will when the controller starts.
Init ==
    /\ cc \in [Routes -> Contents \cup {None}]
    /\ k8s \in [Routes -> Objects \cup {None}]
    /\ lag = [r \in Routes |-> <<>>]
    /\ request = [r \in Routes |-> NoRequest]
    /\ ops = 0
    /\ faults = 0
    /\ pc = "idle"
    /\ listed = Nothing
    /\ snap = Nothing
    /\ todo = {}
    /\ ok = TRUE
    /\ status = "None"
    /\ ccMoved = {}
    /\ k8sMoved = {}

-----------------------------------------------------------------------------
(* The Kubernetes API and the informer.                                    *)

\* A write stores a version and leaves the old one for the informer to pass;
\* writing what is there already creates no version.
WriteK8s(r, obj) ==
    /\ k8s' = [k8s EXCEPT ![r] = obj]
    /\ lag' = IF obj = k8s[r] THEN lag
                              ELSE [lag EXCEPT ![r] = Append(@, k8s[r])]

\* What the informer's cache holds, and what a List with the selector returns.
Cached(r) == IF lag[r] = <<>> THEN k8s[r] ELSE Head(lag[r])
CachedAny(r) == Cached(r)  \* mutant of CachedManaged: no selector
CachedManaged(r) ==
    IF Cached(r) # None /\ Cached(r).managed THEN Cached(r) ELSE None

\* The informer handles one watch event.
Inform(r) ==
    /\ lag[r] # <<>>
    /\ lag' = [lag EXCEPT ![r] = Tail(@)]
    /\ UNCHANGED <<cc, k8s, request, ops, sync, faults, ccMoved, k8sMoved>>

-----------------------------------------------------------------------------
(* Everyone else: Cloud Controller and operators.                          *)

\* A write of a resource by anyone but the sync.
WriteByOther(r, obj) ==
    /\ WriteK8s(r, obj)
    /\ k8sMoved' = IF pc # "sync" \/ obj = k8s[r] THEN k8sMoved ELSE k8sMoved \cup {r}

\* A user creates, changes or deletes a route: CC has its row and the Route
\* resource to write, in either order.
CCBegin(r) ==
    /\ request[r].todo = {}
    /\ ops < MaxOps
    /\ ops' = ops + 1
    /\ \E target \in (Contents \cup {None}) \ {cc[r]} :
          request' = [request EXCEPT ![r] = [target |-> target,
                                             todo |-> {"db", "k8s"}]]
    /\ UNCHANGED <<cc, k8s, lag, sync, faults, ccMoved, k8sMoved>>

Remaining(r, part) ==
    IF request[r].todo = {part} THEN NoRequest
                                ELSE [request[r] EXCEPT !.todo = @ \ {part}]

CCWriteRow(r) ==
    /\ "db" \in request[r].todo
    /\ cc' = [cc EXCEPT ![r] = request[r].target]
    /\ request' = [request EXCEPT ![r] = Remaining(r, "db")]
    /\ ccMoved' = IF pc = "idle" THEN ccMoved ELSE ccMoved \cup {r}
    /\ UNCHANGED <<k8s, lag, ops, sync, faults, k8sMoved>>

CCWriteResource(r) ==
    /\ "k8s" \in request[r].todo
    /\ WriteByOther(r, IF request[r].target = None THEN None
                       ELSE [managed |-> TRUE, spec |-> DesiredSpec(request[r].target)])
    /\ request' = [request EXCEPT ![r] = Remaining(r, "k8s")]
    /\ UNCHANGED <<cc, ops, sync, faults, ccMoved>>

\* The request fails between its two writes, or before both.
CCAbort(r) ==
    /\ request[r].todo # {}
    /\ request' = [request EXCEPT ![r] = NoRequest]
    /\ UNCHANGED <<cc, k8s, lag, ops, sync, faults, ccMoved, k8sMoved>>

\* An operator edits, relabels, creates or deletes a resource.
OperatorWrite(r) ==
    /\ ops < MaxOps
    /\ ops' = ops + 1
    /\ \E obj \in (Objects \cup {None}) \ {k8s[r]} : WriteByOther(r, obj)
    /\ UNCHANGED <<cc, request, sync, faults, ccMoved>>

-----------------------------------------------------------------------------
(* The sync.  A fault is a call that fails for a reason of its own.         *)

Fault == faults < MaxFaults /\ faults' = faults + 1

\* The reconcile returns; its locals are gone.
Return ==
    /\ pc' = "idle"
    /\ listed' = Nothing
    /\ snap' = Nothing
    /\ todo' = {}
    /\ ok' = TRUE
    /\ ccMoved' = {}
    /\ k8sMoved' = {}

\* Mutant of ReportFailure: the message is written as the reason.
ReportMessage == status' = "error"

\* updateSyncStatusFailure: its own error is dropped by every caller.
ReportFailure == status' \in {"Failed", status}

\* Mutant of Pages: a refused request passes for an empty list.
PagesOrError == {{r \in Routes : cc[r] # None}, {}}

\* ListRoutes asks for the first page of PageSize routes and no other.
Pages ==
    LET rows == {r \in Routes : cc[r] # None}
    IN  IF Cardinality(rows) <= PageSize
        THEN {rows}
        ELSE {page \in SUBSET rows : Cardinality(page) = PageSize}

ListRoutes ==
    /\ pc = "idle"
    /\ pc' = "list"
    /\ \E page \in Pages :
          listed' = [r \in Routes |-> IF r \in page THEN cc[r] ELSE None]
    /\ ccMoved' = {}
    /\ UNCHANGED <<world, snap, todo, ok, status, faults, k8sMoved>>

ListRoutesFails ==
    /\ pc = "idle"
    /\ Fault
    /\ ReportFailure
    /\ UNCHANGED <<world, pc, listed, snap, todo, ok, ccMoved, k8sMoved>>

\* The three sets that the loops work through, given what was listed.
ToUpdate(s) == {r \in Routes : /\ listed[r] # None
                               /\ s[r] # None
                               /\ ~CompareRoutes([spec |-> DesiredSpec(listed[r])], s[r])}
ToCreateNone(s) == {}  \* mutant of ToCreate
ToCreate(s) == {r \in Routes : listed[r] # None /\ s[r] = None}
ToDeleteStale(s) == {r \in Routes : s[r] # None}  \* mutant of ToDelete
ToDelete(s) == {r \in Routes : listed[r] = None /\ s[r] # None}

ListK8s ==
    /\ pc = "list"
    /\ pc' = "sync"
    /\ LET s == [r \in Routes |-> CachedManaged(r)]
       IN  /\ snap' = s
           /\ todo' = ToUpdate(s) \cup ToCreate(s) \cup ToDelete(s)
    /\ k8sMoved' = {r \in Routes : lag[r] # <<>>}
    /\ UNCHANGED <<world, listed, ok, status, faults, ccMoved>>

ListK8sFails ==
    /\ pc = "list"
    /\ Fault
    /\ ReportFailure
    /\ Return
    /\ UNCHANGED world

\* Mutant of RecordFailure: the loop logs the error and continues.
LogFailure == UNCHANGED ok

\* reconciledSuccessfully = false
RecordFailure == ok' = FALSE

\* One call of the loops.  The API server carries it out when it is
\* acceptable and refuses it otherwise; a fault hides the answer, whether or
\* not the call was carried out.  Whatever happens the loop goes on.
Call(r, acceptable, obj, refusalIsFine) ==
    /\ todo' = todo \ {r}
    /\ \/ /\ acceptable
          /\ WriteK8s(r, obj)
          /\ UNCHANGED <<ok, faults>>
       \/ /\ ~acceptable
          /\ IF refusalIsFine THEN UNCHANGED ok ELSE RecordFailure
          /\ UNCHANGED <<k8s, lag, faults>>
       \/ /\ Fault
          /\ RecordFailure
          /\ \/ acceptable /\ WriteK8s(r, obj)
             \/ UNCHANGED <<k8s, lag>>
    /\ UNCHANGED <<cc, request, ops, pc, listed, snap, status, ccMoved, k8sMoved>>

\* Mutant of Versioned: an update replaces whatever there is.
Unversioned(r) == k8s[r] # None

\* An update carries the listed resourceVersion: refused if it is not current.
Versioned(r) == r \notin k8sMoved

Update(r) ==
    /\ pc = "sync"
    /\ r \in todo \cap ToUpdate(snap)
    /\ Call(r, Versioned(r),
            [snap[r] EXCEPT !.spec = DesiredSpec(listed[r])], FALSE)

\* A create is refused if a resource of that name exists, selected or not.
Create(r) ==
    /\ pc = "sync"
    /\ todo \cap ToUpdate(snap) = {}
    /\ r \in todo \cap ToCreate(snap)
    /\ Call(r, k8s[r] = None,
            [managed |-> TRUE, spec |-> DesiredSpec(listed[r])], FALSE)

\* A delete names the resource and no version; NotFound is as good.
Delete(r) ==
    /\ pc = "sync"
    /\ todo \subseteq ToDelete(snap)
    /\ r \in todo
    /\ Call(r, k8s[r] # None, None, TRUE)

Report ==
    /\ pc = "sync"
    /\ todo = {}
    /\ \/ /\ ok
          /\ status' = "Completed"
          /\ UNCHANGED faults
       \/ /\ ~ok
          /\ status' = "Failed"
          /\ UNCHANGED faults
       \/ /\ Fault
          /\ UNCHANGED status
    /\ Return
    /\ UNCHANGED world

\* The process ends anywhere; the next one lists every resource afresh.
Restart ==
    /\ pc # "idle" \/ \E r \in Routes : lag[r] # <<>>
    /\ Fault
    /\ Return
    /\ lag' = [r \in Routes |-> <<>>]
    /\ UNCHANGED <<cc, k8s, request, ops, status>>

SyncCall(r) == Update(r) \/ Create(r) \/ Delete(r)
SyncStep == \/ ListRoutes \/ ListRoutesFails \/ ListK8s \/ ListK8sFails
            \/ Report \/ \E r \in Routes : SyncCall(r)
CCStep(r) == CCWriteRow(r) \/ CCWriteResource(r) \/ CCAbort(r)

Next ==
    \/ SyncStep
    \/ Restart
    \/ \E r \in Routes :
          Inform(r) \/ CCBegin(r) \/ CCStep(r) \/ OperatorWrite(r)

Spec == Init /\ [][Next]_vars

\* The controller's only worker takes its next step (PeriodicSync shows that a
\* sync is always due again, given that calls answer), the informer handles
\* the events it was sent, and a CC request ends one way or another.
Fairness ==
    /\ WF_vars(SyncStep)
    /\ \A r \in Routes : WF_vars(Inform(r)) /\ WF_vars(CCStep(r))

FairSpec == Spec /\ Fairness

-----------------------------------------------------------------------------
(* Properties.                                                             *)

\* The resource is what the CF API asks for; a resource without the label is
\* not the sync's business when the CF API has no such route.
Managed(r) == k8s[r] # None /\ k8s[r].managed
InSync(r) ==
    IF cc[r] = None THEN ~Managed(r)
                    ELSE Managed(r) /\ k8s[r].spec = DesiredSpec(cc[r])

\* The premise that MaxResultsPerPage puts on the installation: one page holds
\* every route of the CF API.
OnePage == IsFiniteSet(Routes) /\ Cardinality(Routes) <= PageSize

Disturbed == ccMoved \cup k8sMoved

\* A sync that is about to report Completed leaves every route in sync that
\* nobody else wrote while it ran and whose resource was not cached stale:
\* no failed or refused call of any loop is lost on the way to the report
\* (reconciledSuccessfully).
SuccessMeansSynced ==
    pc = "sync" /\ todo = {} /\ ok => \A r \in Routes \ Disturbed : InSync(r)

\* Whatever a sync writes - a create of a route, an update, a delete - repairs
\* the resource, unless the CC row was written after the sync listed the CF
\* API: only then may it take a live route away or bring a deleted one back.
\* That holds however stale the cache is (the three loops of Reconcile).
WritesRepair ==
    [][\A r \in Routes :
          SyncCall(r) /\ k8s'[r] # k8s[r] => InSync(r)' \/ r \in ccMoved]_vars

\* A live route's resource is deleted only if the route's row was written
\* after the sync listed the CF API: the sync takes the CF API as the source of
\* truth for all of its routes (decisions/0004).
LiveRoutesStay ==
    [][\A r \in Routes :
          Delete(r) /\ k8s'[r] # k8s[r] => cc[r] = None \/ r \in ccMoved]_vars

\* A resource without the label is never changed by a sync that saw it so:
\* only when the label was removed behind the sync's back can it be deleted.
UnmanagedUntouched ==
    [][\A r \in Routes :
          SyncCall(r) /\ k8s'[r] # k8s[r] /\ k8s[r] # None =>
              Managed(r) \/ r \in k8sMoved]_vars

\* Why SuccessMeansSynced, WritesRepair and UnmanagedUntouched hold, step after
\* step: the resources that the sync has yet to write are as it listed them, unless
\* others wrote them, and the resource of a route that is out of the loops' way is
\* what the listed row asks for, unless a call failed or others wrote it.
Seen(r) == IF Managed(r) THEN k8s[r] ELSE None
SnapManaged == pc = "sync" => \A r \in Routes : snap[r] # None => snap[r].managed
SnapCurrent == pc = "sync" => \A r \in todo \ k8sMoved : snap[r] = Seen(r)
AsListed(r) ==
    IF listed[r] = None THEN ~Managed(r)
                        ELSE Managed(r) /\ k8s[r].spec = DesiredSpec(listed[r])
DoneAsListed == pc = "sync" /\ ok => \A r \in Routes \ (todo \cup k8sMoved) : AsListed(r)
NothingKept == pc = "idle" => listed = Nothing /\ k8sMoved = {}
LoopsInv == TypeOK /\ SnapManaged /\ SnapCurrent /\ DoneAsListed /\ NothingKept

\* With one page, the listed rows are the rows of the CF API, but for those that
\* were written since.
ListedCurrent == pc # "idle" => \A r \in Routes \ ccMoved : listed[r] = cc[r]
IInv == LoopsInv /\ ListedCurrent

\* Every sync is one of RouteMirror: what it writes is what the rows said at one
\* moment, an update refuses to overwrite what the sync has not seen, and Completed
\* says nothing of the resources that others wrote (Reconcile).
Tried == IF pc = "sync" THEN (ToUpdate(snap) \cup ToCreate(snap) \cup ToDelete(snap)) \ todo
                        ELSE {}
Mirror == INSTANCE RouteMirror
    WITH Desired <- [c \in Contents |-> DesiredSpec(c)],
         rows <- cc, resources <- k8s, stage <- pc, snapshot <- listed,
         touched <- k8sMoved, tried <- Tried

ImplementsMirror == Mirror!Spec

\* Once requests, edits and faults have ended, every resource gets in sync and
\* stays so, except where a resource without the label occupies the name.
Occupied(r) == k8s[r] # None /\ ~k8s[r].managed
Converges == <>[](\A r \in Routes : InSync(r) \/ Occupied(r))

\* ... and the reported status is the truth from some time on.
StatusBecomesTrue ==
    <>[](status = IF \A r \in Routes : InSync(r) THEN "Completed" ELSE "Failed")
=============================================================================

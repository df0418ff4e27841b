---------------------------- MODULE RouteMirror ----------------------------
(***************************************************************************)
(* What a sync of the routes promises, without lists, cache, loops and     *)
(* lost calls: it looks at all rows of the CF API at one moment, makes the *)
(* resources what the rows said then, one by one and each once at most,    *)
(* replaces nothing that it has not seen, and says Completed only when     *)
(* every resource that was left to it is so.                               *)
(***************************************************************************)
CONSTANTS
    Routes, Contents, Objects,
    Desired,    \* the spec a content asks for
    None

VARIABLES
    rows,       \* of the CF API
    resources,
    stage,      \* "idle", "list" once the rows were looked at, "sync" once the
                \* resources were too
    snapshot,   \* the rows as they were looked at
    touched,    \* resources that are not as the sync saw them
    tried,      \* routes the sync has made its one call for
    status

Nothing == [r \in Routes |-> None]

Init ==
    /\ rows \in [Routes -> Contents \cup {None}]
    /\ resources \in [Routes -> Objects \cup {None}]
    /\ stage = "idle" /\ snapshot = Nothing /\ touched = {} /\ tried = {}
    /\ status = "None"

-----------------------------------------------------------------------------
\* Everyone else.

WriteRow(r) ==
    /\ \E row \in Contents \cup {None} : rows' = [rows EXCEPT ![r] = row]
    /\ UNCHANGED <<resources, stage, snapshot, touched, tried, status>>

WriteResource(r) ==
    /\ \E resource \in Objects \cup {None} : resources' = [resources EXCEPT ![r] = resource]
    /\ touched' = IF stage = "sync" THEN touched \cup {r} ELSE touched
    /\ UNCHANGED <<rows, stage, snapshot, tried, status>>

-----------------------------------------------------------------------------
\* The sync.

LookAtRows ==
    /\ stage = "idle"
    /\ stage' = "list"
    /\ snapshot' = rows
    /\ UNCHANGED <<rows, resources, touched, tried, status>>

\* Some resources are seen as they no longer are.
LookAtResources ==
    /\ stage = "list"
    /\ stage' = "sync"
    /\ touched' \in SUBSET Routes
    /\ UNCHANGED <<rows, resources, snapshot, tried, status>>

Wanted(row) == IF row = None THEN None ELSE [managed |-> TRUE, spec |-> Desired[row]]

\* A resource is replaced only as it was seen, and only a managed one; but the
\* resource of a route that had no row goes whatever others have made of it.
MayReplace(r) ==
    \/ resources[r] = None
    \/ resources[r].managed /\ r \notin touched
    \/ snapshot[r] = None /\ r \in touched

Mirror(r) ==
    /\ stage = "sync" /\ r \notin tried
    /\ tried' = tried \cup {r}
    /\ \/ MayReplace(r) /\ resources' = [resources EXCEPT ![r] = Wanted(snapshot[r])]
       \/ UNCHANGED resources
    /\ UNCHANGED <<rows, stage, snapshot, touched, status>>

\* A route without a row asks for no managed resource.
Agrees(r) ==
    \/ resources[r] = Wanted(snapshot[r])
    \/ snapshot[r] = None /\ ~resources[r].managed

End == stage' = "idle" /\ snapshot' = Nothing /\ touched' = {} /\ tried' = {}

Complete ==
    /\ stage = "sync"
    /\ \A r \in Routes \ touched : Agrees(r)
    /\ status' = "Completed"
    /\ End
    /\ UNCHANGED <<rows, resources>>

\* A sync may end any time with "Failed" or without a word.
GiveUp ==
    /\ status' \in {"Failed", status}
    /\ End
    /\ UNCHANGED <<rows, resources>>

Next ==
    \/ \E r \in Routes : WriteRow(r) \/ WriteResource(r) \/ Mirror(r)
    \/ LookAtRows \/ LookAtResources \/ Complete \/ GiveUp

Spec == Init /\ [][Next]_<<rows, resources, stage, snapshot, touched, tried, status>>
=============================================================================

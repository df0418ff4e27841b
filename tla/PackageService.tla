--------------------------- MODULE PackageService ---------------------------
(***************************************************************************)
(* What the registry-buddy promises to its clients and to the kubelet,     *)
(* without goroutines, pipes and signals: it opens and closes once, gives  *)
(* each request that it takes in one answer, puts a package into the       *)
(* registry whole or not at all, says 200 only of one that is there, and   *)
(* ends with 0 only when it is closed and has answered everything.         *)
(***************************************************************************)
CONSTANTS
    Packages, Pings,   \* requests: uploads of packages, health checks
    Lost,              \* an answer that does not reach its client
    None

VARIABLES
    phase,     \* "starting", "open", "closed", "ended"
    working,   \* requests that were taken in and are not answered
    answer,
    registry,  \* what it holds of a package: "nothing" or "package"
    code       \* the exit code

vars == <<phase, working, answer, registry, code>>
Requests == Packages \cup Pings

Init ==
    /\ phase = "starting" /\ code = None
    /\ working = {} /\ answer = [q \in Requests |-> None]
    /\ registry = [q \in Packages |-> "nothing"]

Open ==
    /\ phase = "starting" /\ phase' = "open"
    /\ UNCHANGED <<working, answer, registry, code>>

Close ==
    /\ phase \in {"starting", "open"} /\ phase' = "closed"
    /\ UNCHANGED <<working, answer, registry, code>>

Take(q) ==
    /\ phase = "open" /\ q \notin working /\ answer[q] = None
    /\ working' = working \cup {q}
    /\ UNCHANGED <<phase, answer, registry, code>>

\* A request is answered, also while the service is closed.
Answer(q, answers) ==
    /\ phase # "ended" /\ q \in working
    /\ working' = working \ {q}
    /\ \E a \in answers \cup {Lost} : answer' = [answer EXCEPT ![q] = a]
    /\ UNCHANGED <<phase, code>>

\* A client that is told of a failure may find its package in the registry.
Store(q) == Answer(q, {200, 500}) /\ registry' = [registry EXCEPT ![q] = "package"]
Fail(q) == Answer(q, {500}) /\ UNCHANGED registry
Refuse(q) == Answer(q, {400, 422}) /\ UNCHANGED registry
Check(q) == Answer(q, {200, 401}) /\ UNCHANGED registry

End ==
    /\ phase = "closed" /\ working = {}
    /\ phase' = "ended" /\ code' = 0
    /\ UNCHANGED <<working, answer, registry>>

\* What is not answered by then never is.
Die ==
    /\ phase # "ended"
    /\ phase' = "ended" /\ code' \in {1, 143}
    /\ UNCHANGED <<working, answer, registry>>

Next ==
    \/ Open \/ Close \/ End \/ Die
    \/ \E q \in Requests : Take(q)
    \/ \E q \in Packages : Refuse(q) \/ Store(q) \/ Fail(q)
    \/ \E q \in Pings : Check(q)

Spec == Init /\ [][Next]_vars
=============================================================================

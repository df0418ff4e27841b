----------------------- MODULE RouteTranslatorProofs -----------------------
(***************************************************************************)
(* Proofs about RouteTranslator under MCRouteTranslator's edits and syncs, *)
(* for every set of hosts, spaces, domains, ports and apps, and for lists  *)
(* of destinations of every length.                                        *)
(***************************************************************************)
EXTENDS MCRouteTranslator, TLAPS

\* The spec of the resource is the translation of the route it was written from;
\* its labels may be those of an earlier one.
SpecTranslated == k8s.spec = Translate(synced).spec

IInv ==
    /\ cc \in Routes /\ synced \in Routes
    /\ DOMAIN k8s = {"name", "labels", "spec"}
    /\ SpecTranslated

USE MCRouteTranslatorAssumption

Destination == [guid: Guids, app: Apps, weight: {"none"}, port: Ports]

LEMMA DestinationsType ==
    ASSUME NEW r \in Routes
    PROVE  /\ Len(r.destinations) \in Nat
           /\ r.destinations \in [1..Len(r.destinations) -> Destination]
<1>1. PICK n \in 0..MaxDestinations : r.destinations \in [1..n -> Destination]
  BY DEF Routes, Destinations, Destination
<1>2. r.destinations \in Seq(Destination) /\ Len(r.destinations) = n
  BY <1>1
<1> QED
  BY <1>1, <1>2

SameDestinations(a, b) ==
    /\ Len(a) = Len(b)
    /\ \A i \in DOMAIN a :
          /\ a[i].guid = b[i].guid /\ a[i].app = b[i].app /\ a[i].weight = b[i].weight
          /\ i = Len(a) => a[i].port = b[i].port

\* Two lists of destinations are translated alike when they differ in nothing but
\* the ports of all destinations but the last.
LEMMA TranslatedAlike ==
    ASSUME NEW a, Len(a) \in Nat, a \in [1..Len(a) -> Destination],
           NEW b, Len(b) \in Nat, b \in [1..Len(b) -> Destination]
    PROVE  TranslateDestinations(a) = TranslateDestinations(b) <=> SameDestinations(a, b)
<1>m. PICK m \in Nat : m = Len(a)
  OBVIOUS
<1>n. PICK n \in Nat : n = Len(b)
  OBVIOUS
<1>0. a \in [1..m -> Destination] /\ b \in [1..n -> Destination]
  BY <1>m, <1>n
<1> DEFINE A == [i \in 1..m |-> [guid |-> a[i].guid, port |-> a[m].port,
                                 weight |-> a[i].weight, app |-> a[i].app]]
           B == [i \in 1..n |-> [guid |-> b[i].guid, port |-> b[n].port,
                                 weight |-> b[i].weight, app |-> b[i].app]]
<1>1. A = TranslateDestinations(a) /\ B = TranslateDestinations(b)
  BY <1>m, <1>n, <1>0 DEF TranslateDestinations
<1>2. ASSUME A = B
      PROVE  /\ m = n
             /\ \A i \in 1..m :
                   /\ a[i].guid = b[i].guid /\ a[i].app = b[i].app /\ a[i].weight = b[i].weight
                   /\ i = m => a[i].port = b[i].port
  <2>1. 1..m = 1..n
    <3>1. DOMAIN A = 1..m /\ DOMAIN B = 1..n
      OBVIOUS
    <3> QED
      BY <1>2, <3>1
  <2>2. m = n
    BY <2>1
  <2>3. \A i \in 1..m : A[i] = B[i]
    BY <1>2
  <2> QED
    BY <2>2, <2>3
<1>3. ASSUME m = n,
             \A i \in 1..m :
                /\ a[i].guid = b[i].guid /\ a[i].app = b[i].app /\ a[i].weight = b[i].weight
                /\ i = m => a[i].port = b[i].port
      PROVE  A = B
  <2>1. \A i \in 1..m : a[m].port = b[m].port
    BY <1>3
  <2> QED
    BY <1>3, <2>1
<1> HIDE DEF A, B
<1> QED
  BY <1>m, <1>n, <1>0, <1>1, <1>2, <1>3 DEF SameDestinations

\* Two routes have the same spec when they are routed alike.
LEMMA SpecsAlike ==
    ASSUME NEW a \in Routes, NEW b \in Routes
    PROVE  Translate(a).spec = Translate(b).spec <=> SameRouting(a, b)
<1> DEFINE alike == TranslateDestinations(a.destinations) = TranslateDestinations(b.destinations)
<1>1. Translate(a).spec = Translate(b).spec
         <=> a.host = b.host /\ a.path = b.path /\ a.url = b.url /\ a.domain = b.domain /\ alike
  BY DEF Translate, TranslateRoute
<1>2. alike <=> SameDestinations(a.destinations, b.destinations)
  BY DestinationsType, TranslatedAlike
<1> HIDE DEF alike
<1> QED
  BY <1>1, <1>2 DEF SameRouting, SameDestinations

LEMMA Inductive == Spec => []IInv
<1>1. Init => IInv
  BY DEF Init, IInv, SpecTranslated, Translate, TranslateRoute
<1>2. IInv /\ [Next]_vars => IInv'
  <2> SUFFICES ASSUME IInv, [Next]_vars PROVE IInv'
    OBVIOUS
  <2>1. CASE Edit
    BY <2>1 DEF Edit, IInv, SpecTranslated
  <2>2. CASE Sync
    <3>1. k8s' = [k8s EXCEPT !.spec = Translate(cc).spec] /\ synced' = cc /\ cc' = cc
      BY <2>2 DEF Sync
    <3>2. DOMAIN k8s' = DOMAIN k8s /\ k8s'.spec = Translate(cc).spec
      BY <3>1 DEF IInv
    <3> QED
      BY <3>1, <3>2 DEF IInv, SpecTranslated, Translate
  <2>3. CASE UNCHANGED vars
    BY <2>3 DEF vars, IInv, SpecTranslated
  <2> QED
    BY <2>1, <2>2, <2>3 DEF Next
<1> QED
  BY <1>1, <1>2, PTL DEF Spec

\* A sync writes a route's resource exactly when something that reaches the router
\* was edited since the last one that did: with any number of destinations, an edit
\* of the port of any but the last stays unnoticed (TranslateRoute, CompareRoutes).
THEOREM NoticesRoutingEdits == Spec => []NoticesExactlyRoutingEdits
<1>1. IInv => NoticesExactlyRoutingEdits
  BY SpecsAlike DEF IInv, SpecTranslated, NoticesExactlyRoutingEdits, CompareRoutes
<1> QED
  BY <1>1, Inductive, PTL

\* A resource has all the ports of the route it was written from when the route has
\* the same port for all destinations, as with a single one: the translation's test
\* has one.
THEOREM EqualPortsPreserved ==
    Spec => []((\A i, j \in DOMAIN synced.destinations :
                   synced.destinations[i].port = synced.destinations[j].port) => PortsPreserved)
<1> DEFINE Equal == \A i, j \in DOMAIN synced.destinations :
                       synced.destinations[i].port = synced.destinations[j].port
<1>1. IInv => (Equal => PortsPreserved)
  <2> SUFFICES ASSUME IInv, Equal, NEW i \in DOMAIN synced.destinations
               PROVE  k8s.spec.destinations[i].port = synced.destinations[i].port
    BY DEF PortsPreserved
  <2> DEFINE n == Len(synced.destinations)
  <2>1. n \in Nat /\ DOMAIN synced.destinations = 1..n
    BY DestinationsType DEF IInv
  <2>2. k8s.spec.destinations = TranslateDestinations(synced.destinations)
    BY DEF IInv, SpecTranslated, Translate, TranslateRoute
  <2>3. k8s.spec.destinations[i].port = synced.destinations[n].port
    BY <2>2 DEF TranslateDestinations
  <2>4. n \in DOMAIN synced.destinations
    BY <2>1
  <2> QED
    BY <2>3, <2>4
<1> QED
  BY <1>1, Inductive, PTL
=============================================================================

------------------------- MODULE MCRouteTranslator -------------------------
(***************************************************************************)
(* One route, edited at will in the CF API and translated again by a sync  *)
(* whenever CompareRoutes says that the resource differs.                  *)
(***************************************************************************)
EXTENDS RouteTranslator, TLC

CONSTANTS Hosts, Spaces, Domains, Ports, Guids, Apps, MaxDestinations

ASSUME MCRouteTranslatorAssumption == MaxDestinations \in Nat

Destinations ==
    UNION {[1..n -> [guid: Guids, app: Apps, weight: {"none"}, port: Ports]] :
              n \in 0..MaxDestinations}

\* CC refuses a second destination for the same app and port, and none has the GUID
\* of another.
Routes ==
    {r \in [guid: {"r"}, host: Hosts, path: {""}, url: {""},
            space: Spaces, domain: Domains, destinations: Destinations] :
        \A i, j \in DOMAIN r.destinations :
            LET a == r.destinations[i] b == r.destinations[j]
            IN  a.guid = b.guid \/ (a.app = b.app /\ a.port = b.port) => i = j}

\* No definition tells the members of these sets apart.
Symmetry == UNION {Permutations(S) : S \in {Hosts, Spaces, Domains, Ports, Guids, Apps}}

Translate(route) ==
    TranslateRoute(route, [guid |-> route.space, org |-> "org"],
                   [guid |-> route.domain, name |-> route.domain, internal |-> FALSE])

VARIABLES cc,      \* the route as the CF API shows it
          synced,  \* the CC route that the resource was last written from
          k8s      \* the Route resource
vars == <<cc, synced, k8s>>

Init == /\ cc \in Routes
        /\ synced = cc
        /\ k8s = Translate(cc)

\* A user edits the route: any new value of anything but its GUID.
Edit == /\ cc' \in Routes
        /\ UNCHANGED <<synced, k8s>>

\* The update of periodic_sync_controller.go: the spec alone is replaced.
Sync == /\ ~CompareRoutes(Translate(cc), k8s)
        /\ k8s' = [k8s EXCEPT !.spec = Translate(cc).spec]
        /\ synced' = cc
        /\ UNCHANGED cc

Next == Edit \/ Sync
Spec == Init /\ [][Next]_vars
-----------------------------------------------------------------------------
\* What an edit must change for a sync to notice it: host, path, URL, domain,
\* the list of destinations up to their ports, or the LAST destination's port.
SameRouting(a, b) ==
    /\ a.host = b.host /\ a.path = b.path /\ a.url = b.url /\ a.domain = b.domain
    /\ Len(a.destinations) = Len(b.destinations)
    /\ \A i \in DOMAIN a.destinations :
          /\ a.destinations[i].guid = b.destinations[i].guid
          /\ a.destinations[i].app = b.destinations[i].app
          /\ a.destinations[i].weight = b.destinations[i].weight
          /\ i = Len(a.destinations) =>
                a.destinations[i].port = b.destinations[i].port

\* The sync sees a difference exactly when the CF API's route and the one it
\* last translated differ in something that reaches the router; a transfer to
\* another space and the port of an earlier destination stay unnoticed
\* (CompareRoutes, TranslateRoute).
NoticesExactlyRoutingEdits ==
    CompareRoutes(Translate(cc), k8s) <=> SameRouting(cc, synced)

\* Every destination of the Route resource has the port that its CC
\* destination has (the translation's test compares the two ports; it has a
\* single destination).
PortsPreserved ==
    \A i \in DOMAIN synced.destinations :
        k8s.spec.destinations[i].port = synced.destinations[i].port
=============================================================================

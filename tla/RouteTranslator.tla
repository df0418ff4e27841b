-------------------------- MODULE RouteTranslator --------------------------
(***************************************************************************)
(* cf/kubernetes/route_translator.go: how a route of the CF API becomes    *)
(* the Route resource of Kubernetes, and how the two are compared.         *)
(*                                                                         *)
(* A CC route is a record with the fields guid, host, path, url, space,    *)
(* domain (both GUIDs) and destinations, a sequence of records with the    *)
(* fields guid, app, weight and port.  `app' stands for the pair of app    *)
(* GUID and process type, which the code only ever copies together.        *)
(***************************************************************************)
EXTENDS Naturals, Sequences

\* The destinations of the Route resource.  The loop takes the address of a
\* field of its range variable (`Port: &dest.Port').  The module is built as
\* Go 1.14, where the variable is one for the whole loop: every destination
\* points to the same integer, which holds the last route's port at the end.
TranslateDestinations(destinations) ==
    LET last == destinations[Len(destinations)]
    IN  [i \in DOMAIN destinations |->
            [guid   |-> destinations[i].guid,
             port   |-> last.port,
             weight |-> destinations[i].weight,
             app    |-> destinations[i].app]]

\* Labels carries the fields that identify the route's surroundings; the
\* constant ones (managed-by: cloudfoundry, ...) are the flag `managed'.
TranslateRoute(route, space, domain) ==
    [name   |-> route.guid,
     labels |-> [managed |-> TRUE, org |-> space.org,
                 space |-> space.guid, domain |-> domain.guid],
     spec   |-> [host   |-> route.host,
                 path   |-> route.path,
                 url    |-> route.url,
                 domain |-> [name |-> domain.name, internal |-> domain.internal],
                 destinations |-> TranslateDestinations(route.destinations)]]

\* Mutant of CompareRoutes: destinations and domain are left out.
CompareHostsOnly(desiredRoute, actualRoute) ==
    /\ desiredRoute.spec.host = actualRoute.spec.host
    /\ desiredRoute.spec.path = actualRoute.spec.path
    /\ desiredRoute.spec.url = actualRoute.spec.url

\* Only the specs count; labels never make two Route resources differ.
CompareRoutes(desiredRoute, actualRoute) == desiredRoute.spec = actualRoute.spec

=============================================================================

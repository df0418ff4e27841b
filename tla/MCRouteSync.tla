---------------------------- MODULE MCRouteSync ----------------------------
EXTENDS RouteSync

\* Two contents of a route that differ in the port of their destination;
\* an operator's edits use the specs of the CF API only.
Content(port) ==
    [guid |-> "any", host |-> "www", path |-> "", url |-> "",
     space |-> [guid |-> "space", org |-> "org"],
     domain |-> [guid |-> "domain", name |-> "example.com", internal |-> FALSE],
     destinations |-> <<[guid |-> "dest", app |-> "app", weight |-> "none", port |-> port]>>]

OneContent == {Content(8080)}
TwoContents == {Content(8080), Content(9090)}
NoDrift == {}
OneDrift == {DesiredSpec(Content(9090))}
=============================================================================

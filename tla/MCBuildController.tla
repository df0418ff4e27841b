------------------------- MODULE MCBuildController -------------------------
EXTENDS BuildController, TLC

CONSTANTS b1, b2, b3, g1

\* The build that CC asked for, kpack's own for a new buildpack and for a new
\* stack, all with the label of the one CC build.
OneGuid == (b1 :> g1) @@ (b2 :> g1) @@ (b3 :> g1)
OneGuidReasons == (b1 :> "CONFIG") @@ (b2 :> "BUILDPACK") @@ (b3 :> "STACK")
=============================================================================

--------------------------- MODULE MCEndpointScale ---------------------------
(* An endpoint that is renamed and another that comes and goes, at the same *)
(* time or not, in two changes of the options that may overlap.             *)
EXTENDS EndpointScale, TLC

CONSTANTS a, b, n1, n2

ConfigsDef == {a :> n @@ b :> m : n \in Names, m \in {n1, None}}
InitialDef == {a :> n1 @@ b :> m : m \in {n1, None}}
=============================================================================

--------------------------- MODULE MCExecutionToken ---------------------------
(* Model-checking instances of ExecutionToken: two regions, of which the      *)
(* second only has a verifier, and one short and one long lifetime.           *)
EXTENDS ExecutionToken, TLC

CONSTANTS r1, l1, l2

Regions == r1 :> "zone-A" @@ l1 :> "zone-A" @@ l2 :> "zone-B"
=============================================================================

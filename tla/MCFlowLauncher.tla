--------------------------- MODULE MCFlowLauncher ----------------------------
(* Model-checking instances of the flow launcher: small plans.              *)
EXTENDS FlowLauncher, TLC

CONSTANTS a, b, dec

(* Step a, then decider dec, then step b; a's PARTIAL exit and the FAILED   *)
(* outcome of dec are not mapped, and dec may stop the flow.                 *)
Diamond ==
  (<<a, "COMPLETED">> :> dec) @@ (<<a, "FAILED">> :> "FAILED") @@
  (<<dec, "COMPLETED">> :> b) @@ (<<dec, "PARTIAL">> :> "STOPPED") @@
  (<<b, "COMPLETED">> :> "COMPLETED") @@ (<<b, "FAILED">> :> "FAILED")

(* A plan that completes although step a failed.                            *)
Forgiving == (<<a, "FAILED">> :> "COMPLETED") @@ Diamond

TwoStarts == [n \in Nodes |-> IF n = a THEN 2 ELSE 3]
==============================================================================

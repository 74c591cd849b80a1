----------------------------- MODULE MCHostSetup -----------------------------
(* HostSetup for TLC: the full image needs more than the lightweight one.  *)
EXTENDS HostSetup, TLC

ExpandedSizes == "lightweight" :> 1 @@ "full" :> 3
=============================================================================

------------------------------ MODULE MCHealth ------------------------------
(***************************************************************************)
(* Health on two deployments, one declared ready or warming and one that   *)
(* is being drained, under every order of request outcomes and probes.     *)
(***************************************************************************)
EXTENDS Health, TLC

CONSTANTS hosted, pod, none

MCDeployments == {hosted, pod}
MCInitialHealth == hosted :> "warming" @@ pod :> "draining"
=============================================================================

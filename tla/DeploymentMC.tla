--------------------------- MODULE DeploymentMC -------------------------
(***************************************************************************)
(* A small instance of Deployment: a key for the validator, one for the    *)
(* node, and one that a second keygen or a second first start could take.  *)
(***************************************************************************)
EXTENDS Deployment, TLC

MCFaultSets == SUBSET {"redeploy", "interrupted", "torn"}

Redeploy == {{"redeploy"}}
=========================================================================

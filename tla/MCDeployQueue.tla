---------------------------- MODULE MCDeployQueue ---------------------------
(* Users and deployers for TLC are model values given in the configurations: *)
(* no properties depend on which they are.                                   *)
EXTENDS DeployQueue

=============================================================================

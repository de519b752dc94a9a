---------------------------- MODULE MCTerraform ----------------------------
(***************************************************************************)
(* TerraformProvisioner for TLC: two requests of two VMs each, and one VM  *)
(* made by hand.                                                           *)
(***************************************************************************)
EXTENDS TerraformProvisioner

CONSTANTS r1, r2, x1, none

TwoRequests == {r1, r2}
OneByHand   == {x1}
NoneByHand  == {}

=============================================================================

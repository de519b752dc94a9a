---------------------------- MODULE MCOpenStack ----------------------------
(***************************************************************************)
(* OpenStackProvisioner for TLC: two requests of two VMs each, with and    *)
(* without floating IPs.                                                   *)
(***************************************************************************)
EXTENDS OpenStackProvisioner

CONSTANTS r1, r2

TwoRequests == {r1, r2}

=============================================================================

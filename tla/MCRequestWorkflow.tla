-------------------------- MODULE MCRequestWorkflow --------------------------
(***************************************************************************)
(* RequestWorkflow for TLC: one request, two or three handlers,            *)
(* PATCH limited to the statuses each run names.                           *)
(***************************************************************************)
EXTENDS RequestWorkflow

CONSTANTS r1, h1, h2, h3, none

OneRequest    == {r1}
TwoHandlers   == {h1, h2}
ThreeHandlers == {h1, h2, h3}

NoPatch       == {}
ClosingPatch  == {"refused", "failed"}
AnyRead       == {"raises", "loads"}
AsyncRead     == {"raises"}

=============================================================================

---------------------------- MODULE MCVmLifecycle ----------------------------
(***************************************************************************)
(* VmLifecycle for TLC: one VM, whose writers race, and the statuses that  *)
(* administrators write by PATCH in each run.                              *)
(***************************************************************************)
EXTENDS VmLifecycle

CONSTANTS v1, h1, h2, t1, t2, startup, interval, none

OneVm       == {v1}
OneHandler  == {h1}
TwoHandlers == {h1, h2}
OneTask     == {t1}
TwoTasks    == {t1, t2}
NoPatch     == {}
StopPatch   == {"stopped"}

=============================================================================

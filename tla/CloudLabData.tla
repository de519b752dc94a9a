---------------------------- MODULE CloudLabData ----------------------------
(***************************************************************************)
(* Data shared by the Cloud Lab modules: the two status enumerations, and  *)
(* what an SQLAlchemy session writes when it flushes a modified attribute. *)
(***************************************************************************)

\* The life of a VM request.
RequestStatus == {"pending", "approved", "refused", "provisioning",
                  "provisioned", "failed", "expired", "destroyed"}

\* The life of a virtual machine.
VmStatus == {"creating", "configuring", "running", "stopped",
             "down", "expired", "destroyed", "error"}

\* The value a row holds after a unit of work commits.  The session compares
\* the assigned value with the value it loaded (or last flushed), not with the
\* row: when they are equal there is no net change, no column is emitted in
\* the UPDATE, and whatever another transaction committed since is kept.  When
\* they differ the UPDATE overwrites the row without looking at it.
Flushed(stored, loaded, assigned) ==
    IF assigned = loaded THEN stored ELSE assigned

=============================================================================

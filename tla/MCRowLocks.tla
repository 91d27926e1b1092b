------------------------------ MODULE MCRowLocks ------------------------------
(* Bounded instances of RowLocks for TLC. *)
EXTENDS RowLocks

\* CreateCredential alone touches no child row, SignIn does what Issue does, and
\* SignOut locks what Refresh locks.
LockingOps == {"Register", "Verify", "Issue", "Refresh", "Deactivate", "Delete"}

=============================================================================

---------------------------- MODULE MCAuthService ----------------------------
(* Bounded instances of AuthService for TLC. *)
EXTENDS AuthService

\* Every operation there is.
AllOps == {"Create", "Register", "Verify", "Issue", "SignIn", "Refresh",
           "SignOut", "Deactivate", "Delete"}

=============================================================================

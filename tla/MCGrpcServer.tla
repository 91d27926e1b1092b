---------------------------- MODULE MCGrpcServer ----------------------------
(* Bounded instances of GrpcServer, and through it of AuthService, for TLC. *)
EXTENDS GrpcServer, TLC

\* Requests, tokens, codes and users are interchangeable names.
Symm == Permutations(Req) \cup Permutations(Token) \cup Permutations(Code)
          \cup Permutations(User)

\* The operations a session is made of, on a verified user.
SessionOps == {"Register", "Verify", "SignIn", "Refresh", "SignOut"}

=============================================================================

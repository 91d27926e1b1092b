------------------------------ MODULE GrpcServer ------------------------------
(***************************************************************************)
(* What the clients of Refresh and SignOut hear: the errors of the         *)
(* repository and of the application service as the gRPC server turns      *)
(* them into status codes.  A client that is refused gives its token up    *)
(* and has to sign in again; one that hears Internal may try once more.    *)
(*                                                                         *)
(*   src/internal/presentation/grpc/server.go                              *)
(*   src/internal/infra/write/postgres/error_translator.go                 *)
(*                                                                         *)
(* The server adds no state to AuthService: the variables are histories.   *)
(***************************************************************************)
EXTENDS AuthService

VARIABLES
    refused,    \* tokens whose Refresh or SignOut was refused for good
    lost        \* tokens a Refresh spent, and answered with an internal error

heard == <<refused, lost>>
grpcVars == <<vars, heard>>

GrpcInit == Init /\ refused = {} /\ lost = {}

\* loadRefreshTokenForMutation: no row, revoked, expired, in this order.
LoadError(t) ==
    IF ~Stored(t) THEN "ErrInvalidRefreshToken"
    ELSE IF token[t].state = "revoked" THEN "ErrRefreshTokenRevoked"
    ELSE "ErrRefreshTokenExpired"

\* TranslateRotateRefreshTokenError, of a statement that failed: the ids are
\* well formed and the credential is locked, so what is left is the default.
\* The errors of attachRoles and of the signer are no error of a token either.
CallError == "ErrFailedToRotateRefreshToken"

TokenErrors == {"ErrInvalidRefreshToken", "ErrRefreshTokenExpired",
                "ErrRefreshTokenRevoked", "ErrInvalidCredentials", "ErrAuthNotFound"}

\* Slip: every error of a Refresh is answered like those of a SignIn.
StatusOfAnyError(rpc, error) ==
    IF rpc = "SignOut" /\ error \notin TokenErrors
    THEN "Internal" ELSE "Unauthenticated"

\* The switches of Refresh and SignOut.
Status(rpc, error) ==
    CASE error \notin TokenErrors -> "Internal"
      [] rpc = "SignOut" /\ error = "ErrInvalidRefreshToken" -> "InvalidArgument"
      [] OTHER -> "Unauthenticated"

Refusals == {"Unauthenticated", "InvalidArgument"}

Rpc(r) == IF req[r].pc \in {"loadRevoke", "revoke"} THEN "SignOut" ELSE "Refresh"

\* Only the requests of Refresh and SignOut present a token.
Hears(r, error, statuses) == req[r].tok # None /\ Status(Rpc(r), error) \in statuses

\* A Refresh that failed before its COMMIT has changed nothing; one that failed
\* after it, and was answered Internal or not at all, has spent the token.
AnswerError(r, error) ==
    /\ refused' = IF Hears(r, error, Refusals)
                  THEN refused \cup {req[r].tok} ELSE refused
    /\ lost' = IF Hears(r, error, {"Internal"}) /\ Serves(r, "reply")
               THEN lost \cup {req[r].tok} ELSE lost

GrpcNext ==
    \/ \E r \in Req :
         \/ Reject(r) /\ AnswerError(r, LoadError(req[r].tok))
         \/ Fail(r) /\ AnswerError(r, CallError)
         \/ (Start(r) \/ Proceed(r)) /\ UNCHANGED heard
    \/ /\ Tick \/ \E u \in User : DeactivateRegistrationAuth(u) \/ DeleteCredential(u)
       /\ UNCHANGED heard

GrpcSpec == GrpcInit /\ [][GrpcNext]_grpcVars

-----------------------------------------------------------------------------
(* Properties.                                                              *)

\* A client that is told its refresh token is invalid gives up nothing: from
\* then on no request could have used the token, although the refusal is
\* decided with a clock read before a lock wait, and other transactions on the
\* same token may still roll back (server.go:153-165, 178-190).
RefusalIsFinal == \A t \in refused : ~Usable(t, now)

SessionOf(s) == {t \in Token : token[t].state # "free" /\ token[t].root = s}

\* A session that reached its client, and was neither signed out nor deleted, is
\* lost to that client only by an internal error: as long as no Refresh of it was
\* answered Internal, or not at all, its usable token is in the client's hands or
\* in a reply on its way, although the COMMIT of a rotation comes before the
\* roles are read and the access token is signed, and other requests present the
\* same tokens meanwhile (server.go:161-163, service.go:303-318,
\* repository.go:185-190).
SessionsAreKept ==
    \A s \in delivered :
        \/ token[s].root # s \/ token[s].state = "gone" \/ s \in ended
        \/ SessionOf(s) \cap lost # {}
        \/ \E t \in SessionOf(s) :
             /\ Live(t)
             /\ t \in delivered \/ \E r \in Req : Serves(r, "reply") /\ req[r].new = t

=============================================================================

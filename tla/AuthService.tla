----------------------------- MODULE AuthService -----------------------------
(***************************************************************************)
(* The auth service over its PostgreSQL tables: registration, e-mail       *)
(* verification, token issue, refresh rotation, sign-out, compensation and *)
(* deletion.  Concurrent requests interleave at the granularity of SQL     *)
(* statements; a transaction that holds row locks keeps its writes private *)
(* until it commits.                                                       *)
(*                                                                         *)
(*   src/internal/application/service.go                                   *)
(*   src/internal/infra/write/postgres/{repository,query}.go               *)
(*                                                                         *)
(* The process keeps no state of its own, so a crash of it is the failure  *)
(* of the requests it was serving: action Fail.                            *)
(***************************************************************************)
EXTENDS Integers, FiniteSets

CONSTANTS
    User,      \* user ids
    Code,      \* verification codes that generateVerificationCode may draw
    Token,     \* refresh tokens that generateRandomToken may draw
    Req,       \* requests the service serves at the same time
    None,      \* no owner, no user, no code, no token
    MaxTime,   \* bound: the clock stops here
    CodeTTL,   \* life of a verification code (10 minutes, service.go:148)
    TokenTTL,  \* life of a refresh token (cfg.RefreshTokenTTL)
    Ops        \* operations the clients of this instance call

ASSUME NoneAssumption == None \notin User \cup Code \cup Token \cup Req
ASSUME TimeAssumption == MaxTime \in Nat /\ CodeTTL \in Nat /\ TokenTTL \in Nat

VARIABLES
    cred,       \* auth_credentials: user id -> [status, verified]
    code,       \* email_verification_codes: code -> [state, user, exp]
    token,      \* refresh_tokens: token -> [state, user, exp, root]
    lock,       \* the open transaction that holds a user's rows FOR UPDATE
    req,        \* where each request is, and the locals it carries
    now,        \* the clock
    delivered,  \* refresh tokens that reached a client
    ended       \* sessions whose sign-out has committed

tables == <<cred, code, token, lock>>
vars == <<tables, req, now, delivered, ended>>

\* "root" is the first token of a session and is not a column: a session is
\* the token of an Issue or SignIn and all its rotations.  A free name is a
\* value nobody has drawn; "gone" is a row removed by DeleteByUserID.
NoCredential == [status |-> "none", verified |-> FALSE]
FreeCode == [state |-> "free", user |-> None, exp |-> 0]
FreeToken == [state |-> "free", user |-> None, exp |-> 0, root |-> None]
Idle == [pc |-> "idle", user |-> None, code |-> None, tok |-> None,
         new |-> None, at |-> 0]

Init ==
    /\ cred = [u \in User |-> NoCredential]
    /\ code = [c \in Code |-> FreeCode]
    /\ token = [t \in Token |-> FreeToken]
    /\ lock = [u \in User |-> None]
    /\ req = [r \in Req |-> Idle]
    /\ now = 0
    /\ delivered = {}
    /\ ended = {}

-----------------------------------------------------------------------------
(* The repository: one operator per statement or transaction.  An operator *)
(* marked "Slip" is a mistake the code could make and does not; README.md  *)
(* says which property notices it.  No action uses one.                    *)

Exists(u) == cred[u].status # "none"

\* used_at or revoked_at is set, or the row is deleted.
Mark(row, state) == [row EXCEPT !.state = state]

\* SELECT ... FOR UPDATE of a token locks the token row and its credential
\* row.  Every statement that conflicts with the first also needs the second
\* (another token's SELECT, the UPDATEs and the DELETE of the credential, the
\* foreign-key check of an INSERT), so one lock per user stands for both, as
\* RowLocks shows.
Unlocked(u) == lock[u] = None

\* Slips: a child table without its foreign key; a look at the credential that
\* does not lock it.
ForeignKeyMissing(u) == Unlocked(u)
ForeignKeyLookedUp(u) == Exists(u)

\* The foreign key of a child row, checked by the INSERT: the credential must
\* be there and is share-locked, so a transaction FOR UPDATE makes it wait.
ForeignKeyHolds(u) == Exists(u) /\ Unlocked(u)

\* createCredentialQuery; user_id is the primary key.
InsertCredential(u) ==
    /\ ~Exists(u)
    /\ cred' = [cred EXCEPT ![u] = [status |-> "pending_registration",
                                    verified |-> FALSE]]
    /\ UNCHANGED <<code, token, lock>>

\* createVerificationCodeQuery
InsertCode(u, c, exp) ==
    /\ ForeignKeyHolds(u)
    /\ code' = [code EXCEPT ![c] = [state |-> "fresh", user |-> u, exp |-> exp]]
    /\ UNCHANGED <<cred, token, lock>>

\* Slip: the CTE without "AND used_at IS NULL".
UsedCodeMatches(u, c, at) ==
    /\ code[c].state \in {"fresh", "used"}
    /\ code[c].user = u
    /\ code[c].exp > at

\* The rows the CTE of verifyRegistrationEmailQuery updates.
CodeMatches(u, c, at) ==
    /\ code[c].state = "fresh"
    /\ code[c].user = u
    /\ code[c].exp > at

\* verifyRegistrationEmailQuery: one statement spends the code and verifies
\* the credential, whatever the credential's status.
VerifyEmail(u, c, at) ==
    /\ CodeMatches(u, c, at)
    /\ Unlocked(u)
    /\ code' = [code EXCEPT ![c] = Mark(@, "used")]
    /\ cred' = [cred EXCEPT ![u] = [status |-> "email_verified",
                                    verified |-> TRUE]]
    /\ UNCHANGED <<token, lock>>

\* createRefreshTokenQuery
TokenRow(u, exp, root) ==
    [state |-> "live", user |-> u, exp |-> exp, root |-> root]

\* Slip: the error of the INSERT is ignored.
InsertTokenUnchecked(u, t, exp) ==
    /\ token' = IF ForeignKeyHolds(u)
                THEN [token EXCEPT ![t] = TokenRow(u, exp, t)] ELSE token
    /\ UNCHANGED <<cred, code, lock>>

InsertToken(u, t, exp) ==
    /\ ForeignKeyHolds(u)
    /\ token' = [token EXCEPT ![t] = TokenRow(u, exp, t)]
    /\ UNCHANGED <<cred, code, lock>>

\* The row of a token is there.
Stored(t) == token[t].state \in {"live", "revoked"}

\* Slips: revoked_at is not looked at; a token expires one instant too late.
UsableThoughRevoked(t, at) == token[t].exp > at
UsableAtExpiry(t, at) == token[t].state = "live" /\ token[t].exp >= at

\* revoked_at and expires_at, checked on the row that was locked.
Usable(t, at) == token[t].state = "live" /\ token[t].exp > at

\* Slip: a plain SELECT.
LoadWithoutLock(r, t, at) ==
    /\ Stored(t)
    /\ Usable(t, at)
    /\ UNCHANGED tables

\* refreshTokenForRotationQuery and the checks of its row.
LoadForMutation(r, t, at) ==
    /\ Stored(t)
    /\ Unlocked(token[t].user)
    /\ Usable(t, at)
    /\ lock' = [lock EXCEPT ![token[t].user] = r]
    /\ UNCHANGED <<cred, code, token>>

\* COMMIT or ROLLBACK: the transaction of request r gives up its locks.
Release(r) == lock' = [u \in User |-> IF lock[u] = r THEN None ELSE lock[u]]

\* The transaction of RotateRefreshToken from the UPDATE to COMMIT.
CommitRotation(r, t, new, exp) ==
    /\ token' = [token EXCEPT
                   ![t] = Mark(@, "revoked"),
                   ![new] = TokenRow(token[t].user, exp, token[t].root)]
    /\ Release(r)
    /\ UNCHANGED <<cred, code>>

\* Slip: the UPDATE of a sign-out names the user of the token, not the token.
CommitRevocationOfUser(r, t) ==
    /\ token' = [x \in Token |-> IF token[x].state = "live" /\ token[x].user = token[t].user
                                THEN Mark(token[x], "revoked") ELSE token[x]]
    /\ Release(r)
    /\ UNCHANGED <<cred, code>>

\* The transaction of RevokeRefreshToken from the UPDATE to COMMIT.
CommitRevocation(r, t) ==
    /\ token' = [token EXCEPT ![t] = Mark(@, "revoked")]
    /\ Release(r)
    /\ UNCHANGED <<cred, code>>

\* Slip: a status the domain does not know.
UpdateToUnknownStatus(u) ==
    /\ Exists(u)
    /\ Unlocked(u)
    /\ cred' = [cred EXCEPT ![u] = [status |-> "inactive", verified |-> FALSE]]
    /\ UNCHANGED <<code, token, lock>>

\* deactivateRegistrationAuthQuery: codes and refresh tokens stay.
UpdateDeactivated(u) ==
    /\ Exists(u)
    /\ Unlocked(u)
    /\ cred' = [cred EXCEPT ![u] = [status |-> "registration_failed",
                                    verified |-> FALSE]]
    /\ UNCHANGED <<code, token, lock>>

\* deleteCredentialByUserIDQuery, with the ON DELETE CASCADE of its children.
DeleteRows(u) ==
    /\ Exists(u)
    /\ Unlocked(u)
    /\ cred' = [cred EXCEPT ![u] = NoCredential]
    /\ code' = [c \in Code |->
                  IF code[c].user = u THEN Mark(code[c], "gone") ELSE code[c]]
    /\ token' = [t \in Token |->
                   IF token[t].user = u THEN Mark(token[t], "gone") ELSE token[t]]
    /\ UNCHANGED lock

-----------------------------------------------------------------------------
(* The requests.  req[r].pc names the next thing request r does.           *)

\* A draw is a value that is neither stored nor held by another request: 32
\* random bytes do not repeat.  A code stands for its row: two rows may have the
\* same six digits, but the statement that spends one names the user as well.
Drawn(x) == \E r \in Req : x \in {req[r].code, req[r].new}
FreshCode(c) == code[c].state = "free" /\ ~Drawn(c)
FreshToken(t) == token[t].state = "free" /\ ~Drawn(t)

Call(op) == op \in Ops
Serves(r, pc) == req[r].pc = pc
Goto(r, to) == req' = [req EXCEPT ![r] = to]
GoOn(r, pc) == Goto(r, [req[r] EXCEPT !.pc = pc])
Return(r) == Goto(r, Idle)

\* What a request carries from one statement to the next: the user, the code
\* and the token it was called with or read, what it drew, and the clock as it
\* read it (time.Now() comes before the statement that uses it).
Locals(pc, u, c, t, new) ==
    [pc |-> pc, user |-> u, code |-> c, tok |-> t, new |-> new, at |-> now]

\* CreateCredential alone (the recovery path), or as the first half of
\* CreatePendingRegistration, which goes on to draw a code and its expiry.
\* A request that is answered with an error after the INSERT (attachRoles, a
\* lost reply, a failing draw) has left the credential behind: Return.
CreateCredential(r, u) ==
    /\ Call("Create") /\ Serves(r, "idle")
    /\ InsertCredential(u)
    /\ Return(r)
    /\ UNCHANGED <<now, delivered, ended>>

CreatePendingRegistration(r, u, c) ==
    /\ Call("Register") /\ Serves(r, "idle") /\ FreshCode(c)
    /\ InsertCredential(u)
    /\ Goto(r, Locals("insertCode", u, c, None, None))
    /\ UNCHANGED <<now, delivered, ended>>

CreateVerificationCode(r) ==
    /\ Serves(r, "insertCode")
    /\ InsertCode(req[r].user, req[r].code, req[r].at + CodeTTL)
    /\ Return(r)
    /\ UNCHANGED <<now, delivered, ended>>

\* A client presents a code it was mailed, for whatever user it likes; the
\* clock is read before the statement runs.
StartVerify(r, u, c) ==
    /\ Call("Verify") /\ Serves(r, "idle")
    /\ code[c].state # "free"
    /\ Goto(r, Locals("verify", u, c, None, None))
    /\ UNCHANGED <<tables, now, delivered, ended>>

VerifyRegistrationEmail(r) ==
    /\ Serves(r, "verify")
    /\ VerifyEmail(req[r].user, req[r].code, req[r].at)
    /\ Return(r)
    /\ UNCHANGED <<now, delivered, ended>>

\* IssueRegistrationTokens and SignIn read the credential in a statement of
\* its own, check it, then sign and store a token in another.
ReadVerified(r, u, t) ==
    /\ Serves(r, "idle")
    /\ cred[u].verified
    /\ cred[u].status = "email_verified"
    /\ FreshToken(t)
    /\ Goto(r, Locals("insertToken", u, None, None, t))
    /\ UNCHANGED <<tables, now, delivered, ended>>

IssueRegistrationTokens(r, u, t) == Call("Issue") /\ ReadVerified(r, u, t)

\* The identifier and the password lead to at most one row, here u's.
SignIn(r, u, t) == Call("SignIn") /\ ReadVerified(r, u, t)

CreateRefreshToken(r) ==
    /\ Serves(r, "insertToken")
    /\ InsertToken(req[r].user, req[r].new, req[r].at + TokenTTL)
    /\ GoOn(r, "reply")
    /\ UNCHANGED <<now, delivered, ended>>

\* Refresh reads the clock and draws the new token before its transaction.
StartRefresh(r, t, new) ==
    /\ Call("Refresh") /\ Serves(r, "idle")
    /\ t \in delivered /\ FreshToken(new)
    /\ Goto(r, Locals("loadRotate", None, None, t, new))
    /\ UNCHANGED <<tables, now, delivered, ended>>

StartSignOut(r, t) ==
    /\ Call("SignOut") /\ Serves(r, "idle")
    /\ t \in delivered
    /\ Goto(r, Locals("loadRevoke", None, None, t, None))
    /\ UNCHANGED <<tables, now, delivered, ended>>

LoadRefreshTokenForMutation(r) ==
    /\ Serves(r, "loadRotate") \/ Serves(r, "loadRevoke")
    /\ LoadForMutation(r, req[r].tok, req[r].at)
    /\ GoOn(r, IF Serves(r, "loadRotate") THEN "rotate" ELSE "revoke")
    /\ UNCHANGED <<now, delivered, ended>>

\* UPDATE, INSERT and COMMIT; the reply (attachRoles, signAccessToken) follows.
RotateRefreshToken(r) ==
    /\ Serves(r, "rotate")
    /\ CommitRotation(r, req[r].tok, req[r].new, req[r].at + TokenTTL)
    /\ GoOn(r, "reply")
    /\ UNCHANGED <<now, delivered, ended>>

RevokeRefreshToken(r) ==
    /\ Serves(r, "revoke")
    /\ CommitRevocation(r, req[r].tok)
    /\ ended' = ended \cup {token[req[r].tok].root}
    /\ Return(r)
    /\ UNCHANGED <<now, delivered>>

\* Slip: a Refresh hands back the token it was called with.
ReplyWithPresentedToken(r) ==
    /\ Serves(r, "reply")
    /\ delivered' = delivered \cup {IF req[r].tok = None THEN req[r].new ELSE req[r].tok}
    /\ Return(r)
    /\ UNCHANGED <<tables, now, ended>>

\* The token pair reaches the client.
Reply(r) ==
    /\ Serves(r, "reply")
    /\ delivered' = delivered \cup {req[r].new}
    /\ Return(r)
    /\ UNCHANGED <<tables, now, ended>>

\* A statement answers no: no row, a spent or expired code, a revoked or
\* expired token, a credential that is gone.  Only a row that is not there
\* answers without waiting for the lock.
Reject(r) ==
    /\ \/ Serves(r, "insertCode") /\ ~Exists(req[r].user)
       \/ Serves(r, "insertToken") /\ ~Exists(req[r].user)
       \/ /\ Serves(r, "verify")
          /\ ~CodeMatches(req[r].user, req[r].code, req[r].at)
       \/ /\ Serves(r, "loadRotate") \/ Serves(r, "loadRevoke")
          /\ Stored(req[r].tok) => /\ Unlocked(token[req[r].tok].user)
                                   /\ ~Usable(req[r].tok, req[r].at)
    /\ Return(r)
    /\ UNCHANGED <<tables, now, delivered, ended>>

\* Slip: no deferred Rollback.
FailWithoutRollback(r) ==
    /\ ~Serves(r, "idle")
    /\ Return(r)
    /\ UNCHANGED <<tables, now, delivered, ended>>

\* Slip: the statements of a rotation run outside its transaction.
FailBetweenStatements(r) ==
    /\ ~Serves(r, "idle")
    /\ token' = IF Serves(r, "rotate")
                THEN [token EXCEPT ![req[r].tok] = Mark(@, "revoked")] ELSE token
    /\ Release(r)
    /\ Return(r)
    /\ UNCHANGED <<cred, code, now, delivered, ended>>

\* A statement, the signer, the reply or the whole process fails, or the
\* caller cancels; the deferred Rollback (or the server, when the connection
\* drops) ends an open transaction.  After a commit the effect stays.
Fail(r) ==
    /\ ~Serves(r, "idle")
    /\ Release(r)
    /\ Return(r)
    /\ UNCHANGED <<cred, code, token, now, delivered, ended>>

\* Single statements: their requests carry nothing from one to the next.
DeactivateRegistrationAuth(u) ==
    /\ Call("Deactivate")
    /\ UpdateDeactivated(u)
    /\ UNCHANGED <<req, now, delivered, ended>>

DeleteCredential(u) ==
    /\ Call("Delete")
    /\ DeleteRows(u)
    /\ UNCHANGED <<req, now, delivered, ended>>

Tick ==
    /\ now < MaxTime
    /\ now' = now + 1
    /\ UNCHANGED <<tables, req, delivered, ended>>

-----------------------------------------------------------------------------

Start(r) ==
    \/ \E u \in User :
         \/ CreateCredential(r, u)
         \/ \E c \in Code : \/ CreatePendingRegistration(r, u, c)
                            \/ StartVerify(r, u, c)
         \/ \E t \in Token : \/ IssueRegistrationTokens(r, u, t)
                             \/ SignIn(r, u, t)
    \/ \E t \in Token : \/ StartSignOut(r, t)
                        \/ \E new \in Token : StartRefresh(r, t, new)

\* What the service does for a request whose statements and calls succeed.
Proceed(r) ==
    \/ CreateVerificationCode(r)
    \/ VerifyRegistrationEmail(r)
    \/ CreateRefreshToken(r)
    \/ LoadRefreshTokenForMutation(r)
    \/ RotateRefreshToken(r)
    \/ RevokeRefreshToken(r)
    \/ Reply(r)

Continue(r) == Proceed(r) \/ Reject(r)

Next ==
    \/ \E r \in Req : Start(r) \/ Continue(r) \/ Fail(r)
    \/ \E u \in User : DeactivateRegistrationAuth(u) \/ DeleteCredential(u)
    \/ Tick

Spec == Init /\ [][Next]_vars

\* A request that was accepted keeps running.  Strong fairness, because a
\* statement that waits for a row lock is enabled only between two holders of
\* it: PostgreSQL queues the waiters of a row, none is passed over for ever.
\* Nothing makes a client call, a failure happen, or the clock move.
Fairness == \A r \in Req : SF_vars(Continue(r))

FairSpec == Spec /\ Fairness

-----------------------------------------------------------------------------
(* Properties.                                                              *)

(* The domains of the rows and of the requests.                             *)
Credentials ==
    [status : {"none", "pending_registration", "email_verified",
               "registration_failed"},
     verified : BOOLEAN]
Codes ==
    [state : {"free", "fresh", "used", "gone"}, user : User \cup {None}, exp : Int]
Tokens ==
    [state : {"free", "live", "revoked", "gone"}, user : User \cup {None},
     exp : Int, root : Token \cup {None}]
Requests ==
    [pc : {"idle", "insertCode", "verify", "insertToken", "loadRotate",
           "loadRevoke", "rotate", "revoke", "reply"},
     user : User \cup {None}, code : Code \cup {None},
     tok : Token \cup {None}, new : Token \cup {None}, at : Int]

\* Every variable stays in its domain: the statuses are those of
\* domain/auth.go, a row names known users and tokens, and a request is at one
\* of its steps.
TypeOK ==
    /\ cred \in [User -> Credentials]
    /\ code \in [Code -> Codes]
    /\ token \in [Token -> Tokens]
    /\ lock \in [User -> Req \cup {None}]
    /\ req \in [Req -> Requests]
    /\ now \in Int
    /\ delivered \subseteq Token
    /\ ended \subseteq Token

Live(t) == token[t].state = "live"

\* A session never has two usable refresh tokens, however many requests rotate
\* or revoke the same token at once: the FOR UPDATE of RotateRefreshToken and
\* the re-check behind it leave one winner (repository.go:168-188).
OneLiveTokenPerSession ==
    \A t1, t2 \in Token :
        Live(t1) /\ Live(t2) /\ token[t1].root = token[t2].root => t1 = t2

\* SignOut "revokes the presented refresh token and ends the session"
\* (application/type.go:29): after its commit no token of that session is
\* usable, whichever rotation it raced with.
SignedOutSessionStaysOut ==
    \A t \in Token : Live(t) => token[t].root \notin ended

\* A client never holds a refresh token that was not stored: the reply of
\* Issue, SignIn and Refresh follows a committed row, also when other requests
\* abort, fail or delete the user meanwhile (service.go:218-233, 296-318).
DeliveredTokensWereStored ==
    \A t \in delivered : token[t].state # "free"

\* A token row or a code row is only there with a credential of its user: the
\* ON DELETE CASCADE takes the rows of a deleted user along, and the foreign key
\* refuses an INSERT that comes after the DELETE (migrations 000001:12 and
\* 000002:3).  It does not tell one registration of a user id from the next: an
\* INSERT that read the credential before a DELETE and runs after a
\* re-registration attaches its row to the new credential.
NoOrphanRows ==
    /\ \A t \in Token : Stored(t) => Exists(token[t].user)
    /\ \A c \in Code :
         code[c].state \in {"fresh", "used"} => Exists(code[c].user)

\* A credential becomes e-mail verified only together with the spending of an
\* unused code that was issued to the same user (query.go:15-38): no code
\* verifies twice and none verifies another user.
VerificationSpendsOwnCode ==
    [][\A u \in User :
         ~cred[u].verified /\ cred'[u].verified =>
            \E c \in Code : /\ code[c].state = "fresh" /\ code[c].user = u
                            /\ code'[c].state = "used"]_vars

\* Rotation hands a session on without a gap: the successor was asked for
\* before its predecessor expired, and never expires earlier than it
\* (service.go:291-302, repository.go:261).
RotationExtendsUnexpiredSession ==
    [][\A t, new \in Token :
         /\ token[t].state = "live" /\ token'[t].state = "revoked"
         /\ token[new].state = "free" /\ token'[new].state = "live"
         => /\ token[t].exp <= token'[new].exp
            /\ token'[new].exp < token[t].exp + TokenTTL]_vars

\* Every accepted request is answered, although it may wait for row locks:
\* each path out of a transaction releases them (repository.go:162-166).
RequestsReturn == \A r \in Req : ~Serves(r, "idle") ~> Serves(r, "idle")

\* Whatever requests interleave, fail or are rejected, and whatever users are
\* deleted, sessions are the chains of SessionChains: a refresh "rotates a
\* refresh token and returns a new auth token pair", a sign-out "ends the
\* session" (application/type.go:27-29), and nothing else does: not an error
\* between the UPDATE and the INSERT of a rotation (repository.go:173-184).
Chains == INSTANCE SessionChains WITH
    usable <- [s \in Token |-> {t \in Token : Live(t) /\ token[t].root = s}],
    spent <- {t \in Token : token[t].state = "revoked"},
    forgotten <- {t \in Token : token[t].state = "gone"},
    closed <- ended

SessionsAreChains == Chains!Spec

-----------------------------------------------------------------------------
(* What the comments say and the code does not keep.                        *)

\* "stores a refresh token for an email-verified credential"
\* (service.go:190-191): the credential is e-mail verified when the first
\* token of a session is stored.
TokensForVerifiedOnly ==
    [][\A t \in Token :
         token[t].state = "free" /\ token'[t].state = "live" /\ token'[t].root = t
         => cred[token'[t].user].verified]_vars

=============================================================================

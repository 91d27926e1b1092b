------------------------------ MODULE RowLocks ------------------------------
(***************************************************************************)
(* AuthService with one lock per row instead of one per user.  PostgreSQL  *)
(* locks the rows of a statement one after the other and the transaction   *)
(* keeps them to its end:                                                  *)
(*                                                                         *)
(*   SELECT ... FOR UPDATE    the token row, then its credential row       *)
(*   the verification         the code row, then the credential row        *)
(*   the DELETE               the credential row, then by ON DELETE        *)
(*                            CASCADE its code rows, then its token rows   *)
(*                                                                         *)
(* so a transaction may wait with half of its locks, and a DELETE and      *)
(* another transaction may wait for each other until PostgreSQL aborts one.*)
(*                                                                         *)
(*   src/internal/infra/write/postgres/{repository,query}.go               *)
(*   src/migration/postgres/00000{1,2}_*.up.sql                            *)
(*                                                                         *)
(* "lock" of AuthService is here the lock of the credential row.  A        *)
(* statement on one row needs no step of its own.                          *)
(***************************************************************************)
EXTENDS AuthService

\* A row of one table is no row of another.
ASSUME RowsAssumption == Code \cap Token = {}

VARIABLES
    held,      \* child row -> the transaction that holds its lock
    cascade    \* request -> how far its DELETE of a credential is

rowVars == <<vars, held, cascade>>

Child == Code \cup Token
NoCascade == [pc |-> "idle", user |-> None, todo |-> {}]

RowInit ==
    /\ Init
    /\ held = [x \in Child |-> None]
    /\ cascade = [r \in Req |-> NoCascade]

-----------------------------------------------------------------------------
(* Locks of child rows.                                                     *)

Free(x) == held[x] = None
Lock(r, x) == held' = [held EXCEPT ![x] = r]

\* Slip: the rows of a failed statement stay locked.
KeepLocks(r) == UNCHANGED held

\* COMMIT or ROLLBACK, for the child rows; Release is the credential row's part.
LetGo(r) == held' = [x \in Child |-> IF held[x] = r THEN None ELSE held[x]]

Deleting(r) == cascade[r].pc # "idle"

-----------------------------------------------------------------------------
(* Requests of AuthService.                                                 *)

StartRequest(r) ==
    /\ ~Deleting(r)
    /\ Start(r)
    /\ UNCHANGED <<held, cascade>>

\* An INSERT share-locks the credential row for its foreign key; a reply locks
\* nothing.
SingleRow(r) ==
    /\ CreateVerificationCode(r) \/ CreateRefreshToken(r) \/ Reply(r)
    /\ UNCHANGED <<held, cascade>>

\* verifyRegistrationEmailQuery: the CTE updates the code row; if it had to
\* wait, PostgreSQL evaluates the condition again on the row as it is now.
LockCodeRow(r) ==
    /\ Serves(r, "verify")
    /\ CodeMatches(req[r].user, req[r].code, req[r].at)
    /\ Free(req[r].code)
    /\ Lock(r, req[r].code)
    /\ UNCHANGED <<vars, cascade>>

\* ... the UPDATE goes on to the credential row, and the statement commits.
FinishVerification(r) ==
    /\ Serves(r, "verify")
    /\ held[req[r].code] = r
    /\ VerifyRegistrationEmail(r)
    /\ LetGo(r)
    /\ UNCHANGED cascade

Loads(r) == Serves(r, "loadRotate") \/ Serves(r, "loadRevoke")

\* refreshTokenForRotationQuery finds the row and locks it, ...
LockTokenRow(r) ==
    /\ Loads(r)
    /\ Stored(req[r].tok)
    /\ Free(req[r].tok)
    /\ Lock(r, req[r].tok)
    /\ UNCHANGED <<vars, cascade>>

\* ... then the credential row it is joined with.
LockCredentialRow(r) ==
    /\ Loads(r)
    /\ held[req[r].tok] = r
    /\ Unlocked(token[req[r].tok].user)
    /\ lock' = [lock EXCEPT ![token[req[r].tok].user] = r]
    /\ UNCHANGED <<cred, code, token, req, now, delivered, ended, held, cascade>>

HoldsBoth(r) ==
    held[req[r].tok] = r /\ lock[token[req[r].tok].user] = r

\* The row has come back; revoked_at and expires_at are looked at.
PassCheck(r) ==
    /\ Loads(r)
    /\ HoldsBoth(r)
    /\ Usable(req[r].tok, req[r].at)
    /\ GoOn(r, IF Serves(r, "loadRotate") THEN "rotate" ELSE "revoke")
    /\ UNCHANGED <<tables, now, delivered, ended, held, cascade>>

Commit(r) ==
    /\ RotateRefreshToken(r) \/ RevokeRefreshToken(r)
    /\ LetGo(r)
    /\ UNCHANGED cascade

\* A "no" of AuthService.  A token row that is there is locked before it is
\* looked at; the deferred Rollback gives its locks up.
Refuse(r) ==
    /\ \/ Serves(r, "insertCode") /\ ~Exists(req[r].user)
       \/ Serves(r, "insertToken") /\ ~Exists(req[r].user)
       \/ /\ Serves(r, "verify")
          /\ ~CodeMatches(req[r].user, req[r].code, req[r].at)
       \/ /\ Loads(r)
          /\ Stored(req[r].tok) => HoldsBoth(r) /\ ~Usable(req[r].tok, req[r].at)
    /\ Release(r)
    /\ LetGo(r)
    /\ Return(r)
    /\ UNCHANGED <<cred, code, token, now, delivered, ended, cascade>>

\* Slip: no deferred Rollback for the rows a load has locked.
AbortKeepingRows(r) ==
    /\ Fail(r)
    /\ UNCHANGED <<held, cascade>>

Abort(r) ==
    /\ Fail(r)
    /\ LetGo(r)
    /\ UNCHANGED cascade

-----------------------------------------------------------------------------
(* deleteCredentialByUserIDQuery.                                           *)

\* The rows a cascade finds: each is a statement of its own that sees what has
\* been committed when it starts.
CodesOf(u) == {c \in Code : code[c].state \in {"fresh", "used"} /\ code[c].user = u}
TokensOf(u) == {t \in Token : Stored(t) /\ token[t].user = u}

\* The DELETE of the credential row: nobody else can lock it any more.
LockDeletedRow(r, u) ==
    /\ Call("Delete") /\ Serves(r, "idle") /\ ~Deleting(r)
    /\ Exists(u) /\ Unlocked(u)
    /\ lock' = [lock EXCEPT ![u] = r]
    /\ cascade' = [cascade EXCEPT ![r] = [pc |-> "row", user |-> u, todo |-> {}]]
    /\ UNCHANGED <<cred, code, token, req, now, delivered, ended, held>>

Cascade(r, pc, rows) ==
    /\ cascade' = [cascade EXCEPT ![r].pc = pc, ![r].todo = rows]
    /\ UNCHANGED <<vars, held>>

CascadeToCodes(r) ==
    /\ cascade[r].pc = "row"
    /\ Cascade(r, "codes", CodesOf(cascade[r].user))

CascadeToTokens(r) ==
    /\ cascade[r].pc = "codes" /\ cascade[r].todo = {}
    /\ Cascade(r, "tokens", TokensOf(cascade[r].user))

LockChild(r, x) ==
    /\ x \in cascade[r].todo
    /\ Free(x)
    /\ Lock(r, x)
    /\ cascade' = [cascade EXCEPT ![r].todo = @ \ {x}]
    /\ UNCHANGED vars

EndDelete(r) ==
    /\ Release(r)
    /\ LetGo(r)
    /\ cascade' = [cascade EXCEPT ![r] = NoCascade]
    /\ UNCHANGED <<req, now, delivered, ended>>

\* COMMIT: the rows that were locked are gone.
CommitDelete(r) ==
    /\ cascade[r].pc = "tokens" /\ cascade[r].todo = {}
    /\ cred' = [cred EXCEPT ![cascade[r].user] = NoCredential]
    /\ code' = [c \in Code |-> IF held[c] = r THEN Mark(code[c], "gone") ELSE code[c]]
    /\ token' = [t \in Token |-> IF held[t] = r THEN Mark(token[t], "gone") ELSE token[t]]
    /\ EndDelete(r)

AbortDelete(r) ==
    /\ Deleting(r)
    /\ UNCHANGED <<cred, code, token>>
    /\ EndDelete(r)

-----------------------------------------------------------------------------

Work(r) ==
    \/ SingleRow(r)
    \/ LockCodeRow(r)
    \/ FinishVerification(r)
    \/ LockTokenRow(r)
    \/ LockCredentialRow(r)
    \/ PassCheck(r)
    \/ Commit(r)
    \/ Refuse(r)
    \/ CascadeToCodes(r)
    \/ CascadeToTokens(r)
    \/ \E x \in Child : LockChild(r, x)
    \/ CommitDelete(r)

RowNext ==
    \/ \E r \in Req : \/ StartRequest(r)
                      \/ \E u \in User : LockDeletedRow(r, u)
                      \/ Work(r)
                      \/ Abort(r)
                      \/ AbortDelete(r)
    \/ \E u \in User : DeactivateRegistrationAuth(u) /\ UNCHANGED <<held, cascade>>
    \/ Tick /\ UNCHANGED <<held, cascade>>

RowSpec == RowInit /\ [][RowNext]_rowVars

-----------------------------------------------------------------------------
(* Waiting.                                                                 *)

\* The next row p has to lock is locked by q.
WaitsFor(p, q) ==
    /\ p # q
    /\ \/ /\ Serves(p, "insertCode") \/ Serves(p, "insertToken")
          /\ lock[req[p].user] = q
       \/ /\ Serves(p, "verify") /\ CodeMatches(req[p].user, req[p].code, req[p].at)
          /\ \/ held[req[p].code] = q
             \/ held[req[p].code] = p /\ lock[req[p].user] = q
       \/ /\ Loads(p)
          /\ \/ held[req[p].tok] = q
             \/ held[req[p].tok] = p /\ lock[token[req[p].tok].user] = q
       \/ \E x \in cascade[p].todo : held[x] = q

Waits(p) == \E q \in Req : WaitsFor(p, q)
Runs(p) == (~Serves(p, "idle") \/ Deleting(p)) /\ ~Waits(p)

\* A DELETE and another transaction wait for each other.
Deadlocked(p) ==
    \E q \in Req : WaitsFor(p, q) /\ WaitsFor(q, p) /\ (Deleting(p) \/ Deleting(q))

\* deadlock_timeout: PostgreSQL aborts one of the two.
BreakDeadlock(r) == Deadlocked(r) /\ (Abort(r) \/ AbortDelete(r))

\* As in AuthService: the waiters of a row queue, none is passed over for ever.
RowFairness == \A r \in Req : SF_rowVars(Work(r)) /\ WF_rowVars(BreakDeadlock(r))

RowFairSpec == RowSpec /\ RowFairness

-----------------------------------------------------------------------------
(* Properties.                                                              *)

\* Nobody waits for ever: whoever p waits for runs, or waits itself for one that
\* runs, or PostgreSQL breaks the cycle it is in, which has a DELETE in it.
\* Rotations, sign-outs and verifications never deadlock with each other, and
\* no transaction that has ended keeps a row (repository.go:162-166).
WaitsEnd ==
    \A p, q \in Req : WaitsFor(p, q) =>
        \/ Runs(q) \/ Deadlocked(q)
        \/ \E s \in Req : WaitsFor(q, s) /\ (Runs(s) \/ Deadlocked(s))

\* Every accepted request and every DELETE ends, also when it waits with locks
\* in its hands.
TransactionsEnd ==
    \A r \in Req : ~Serves(r, "idle") \/ Deleting(r) ~> Serves(r, "idle") /\ ~Deleting(r)

\* One lock per user is enough: with its rows locked one by one each statement
\* still behaves as the one step it is in AuthService.  In particular, the
\* cascade of a DELETE misses no row, although each of its statements looks for
\* rows before it locks them: the foreign key keeps new ones out.
TransactionLock ==
    [u \in User |-> IF \E r \in Req : lock[u] = r /\ req[r].pc \in {"rotate", "revoke"}
                    THEN lock[u] ELSE None]

Atomic == INSTANCE AuthService WITH lock <- TransactionLock

StatementsAreAtomic == Atomic!Spec

=============================================================================

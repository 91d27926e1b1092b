-------------------------- MODULE AuthSessionProofs --------------------------
(***************************************************************************)
(* Sessions of AuthService: one usable token each, none after a sign-out,  *)
(* for all users, tokens and requests.                                     *)
(*                                                                         *)
(* The two properties are not inductive.  What carries them from the       *)
(* SELECT ... FOR UPDATE of a transaction to its UPDATE is LocksHeld: while *)
(* a request is about to rotate or revoke a token it holds the lock of the *)
(* token's user, and the token is still live.                              *)
(***************************************************************************)
EXTENDS AuthServiceProofs

Mutates(q) == q.pc \in {"rotate", "revoke"}

\* The transaction of a request that passed the re-check still has its lock.
LocksHeld ==
    \A r \in Req : Mutates(req[r]) =>
        Live(req[r].tok) /\ lock[token[req[r].tok].user] = r

\* The token a session started with, and that of a session that was ended, are
\* not free names: no INSERT starts the same session again.
RootsStored ==
    /\ \A t \in Token : token[t].state # "free" => token[token[t].root].state # "free"
    /\ \A t \in ended : token[t].state # "free"

Sessions == RootsStored /\ OneLiveTokenPerSession /\ SignedOutSessionStaysOut

SessionInv == Types /\ LocksHeld /\ Sessions

-----------------------------------------------------------------------------
(* Locks.                                                                   *)

\* A lock that another request holds is not taken from it, and the live tokens
\* behind it are not touched.
LEMMA LocksMove ==
    ASSUME SessionInv, NEW r \in Req, NEW q, Goto(r, q),
           Mutates(q) => /\ token'[q.tok].state = "live"
                         /\ lock'[token'[q.tok].user] = r,
           \A u \in User : lock[u] \notin {r, None} => lock'[u] = lock[u],
           \A t \in Token : token[t].state = "live" /\ lock[token[t].user] \notin {r, None}
                                => token'[t] = token[t]
    PROVE  LocksHeld'
<1>1. req' = [req EXCEPT ![r] = q] /\ req \in [Req -> Requests]
      BY DEF Goto, SessionInv, Types, TypeOK
<1> SUFFICES ASSUME NEW p \in Req, Mutates(req'[p])
             PROVE  /\ token'[req'[p].tok].state = "live"
                    /\ lock'[token'[req'[p].tok].user] = p
    BY DEF LocksHeld, Live
<1>2. CASE p = r
      BY <1>1, <1>2
<1>3. CASE p # r
  <2>1. req'[p] = req[p] /\ p # None
        BY <1>1, <1>3, NoneAssumption
  <2>2. /\ req[p].tok \in Token
        /\ token[req[p].tok].state = "live" /\ lock[token[req[p].tok].user] = p
        BY <2>1 DEF SessionInv, LocksHeld, Live, Types, Carries, Equipped, Mutates
  <2>3. token[req[p].tok].user \in User
        BY <2>2 DEF SessionInv, Types, RowsOwned
  <2> QED
      BY <1>3, <2>1, <2>2, <2>3
<1> QED
    BY <1>2, <1>3

\* No request moves.
LEMMA LocksStay ==
    ASSUME SessionInv, UNCHANGED <<req, lock>>,
           \A t \in Token : token[t].state = "live" /\ lock[token[t].user] # None
                                => token'[t] = token[t]
    PROVE  LocksHeld'
<1> SUFFICES ASSUME NEW p \in Req, Mutates(req[p])
             PROVE  /\ token'[req[p].tok].state = "live"
                    /\ lock[token'[req[p].tok].user] = p
    BY DEF LocksHeld, Live
<1>1. /\ req[p].tok \in Token /\ p # None
      /\ token[req[p].tok].state = "live" /\ lock[token[req[p].tok].user] = p
      BY NoneAssumption
      DEF SessionInv, LocksHeld, Live, Types, Carries, Equipped, Mutates
<1> QED
    BY <1>1

-----------------------------------------------------------------------------
(* Sessions.                                                                *)

\* A step that makes no token live keeps the sessions.
LEMMA SessionsShrink ==
    ASSUME SessionInv, KeepStored, KeepFree(None), UNCHANGED ended,
           \A t \in Token : token'[t].state = "live" => token[t].state = "live"
    PROVE  Sessions'
<1>1. \A t \in Token : token'[t].state # "free" =>
         /\ token[t].state # "free" /\ token'[t].root = token[t].root
         /\ token[t].root \in Token
      BY NoneAssumption DEF KeepStored, KeepFree, SessionInv, Types, RowsOwned
<1>2. RootsStored'
      BY <1>1 DEF SessionInv, Sessions, RootsStored, KeepStored, Types, TypeOK
<1> QED
    BY <1>1, <1>2
    DEF SessionInv, Sessions, OneLiveTokenPerSession, SignedOutSessionStaysOut, Live

\* The first token of a session: its name was free, so no live token and no
\* ended session has it as its root.
LEMMA SessionsGrow ==
    ASSUME SessionInv, NEW n \in Token, token[n].state = "free",
           NEW u \in User, NEW e \in Int,
           token' = [token EXCEPT ![n] = TokenRow(u, e, n)],
           UNCHANGED ended
    PROVE  Sessions'
<1>1. /\ token'[n].state = "live" /\ token'[n].root = n
      /\ \A t \in Token \ {n} : token'[t] = token[t]
      BY NewToken DEF SessionInv, Types, TypeOK
<1>2. \A t \in Token : token[t].state # "free" => token[t].root \in Token \ {n}
      BY DEF SessionInv, Sessions, RootsStored, Types, RowsOwned
<1>3. ended \subseteq Token \ {n}
      BY DEF SessionInv, Sessions, RootsStored, Types, TypeOK
<1>4. RootsStored'
      BY <1>1, <1>2, <1>3 DEF SessionInv, Sessions, RootsStored
<1> QED
    BY <1>1, <1>2, <1>3, <1>4
    DEF SessionInv, Sessions, OneLiveTokenPerSession, SignedOutSessionStaysOut, Live

\* COMMIT of a rotation: the successor is the only live token of the session,
\* because its predecessor was the only one and is revoked with it.
LEMMA SessionsRotate ==
    ASSUME SessionInv, NEW r \in Req, RotateRefreshToken(r)
    PROVE  Sessions'
<1> DEFINE old == req[r].tok
           new == req[r].new
           row == TokenRow(token[old].user, req[r].at + TokenTTL, token[old].root)
<1>1. /\ old \in Token /\ new \in Token /\ token[old].state = "live"
      /\ token[new].state = "free" /\ req[r].at + TokenTTL \in Int
      BY Fields, TimeAssumption
      DEF RotateRefreshToken, Serves, SessionInv, LocksHeld, Mutates, Live, Types,
          TypeOK, Carries, Equipped, Draws, Drawing
<1>2. token[old] \in Tokens /\ token[old].user \in User /\ token[old].root \in Token
      BY <1>1 DEF SessionInv, Types, TypeOK, RowsOwned
<1>3. /\ token' = [token EXCEPT ![old] = Mark(@, "revoked"), ![new] = row]
      /\ ended' = ended
      BY DEF RotateRefreshToken, CommitRotation
<1>4. /\ token'[old].state = "revoked" /\ token'[old].root = token[old].root
      /\ token'[new].state = "live" /\ token'[new].root = token[old].root
      /\ \A t \in Token \ {old, new} : token'[t] = token[t]
      BY <1>1, <1>2, <1>3, MarkToken, NewToken DEF SessionInv, Types, TypeOK
<1>5. \A t \in Token \ {old} : Live(t) => token[t].root # token[old].root
      BY <1>1 DEF SessionInv, Sessions, OneLiveTokenPerSession, Live
<1>6. token[old].root \notin ended /\ ended \subseteq Token
      BY <1>1 DEF SessionInv, Sessions, SignedOutSessionStaysOut, Live, Types, TypeOK
<1>7. \A t \in Token : token[t].state # "free" => token'[t].state # "free"
      BY <1>4
<1>8. RootsStored'
      BY <1>1, <1>2, <1>3, <1>4, <1>6, <1>7
      DEF SessionInv, Sessions, RootsStored, Types, RowsOwned
<1>9. \A t \in Token : Live(t)' =>
         \/ t = new
         \/ Live(t) /\ token'[t] = token[t] /\ t # old
      BY <1>4 DEF Live
<1>10. OneLiveTokenPerSession'
      BY <1>4, <1>5, <1>9
      DEF SessionInv, Sessions, OneLiveTokenPerSession, Live
<1>11. SignedOutSessionStaysOut'
  <2> SUFFICES ASSUME NEW t \in Token, Live(t)' PROVE token'[t].root \notin ended
      BY <1>3 DEF SignedOutSessionStaysOut
  <2>1. CASE t = new
        BY <2>1, <1>4, <1>6
  <2>2. CASE Live(t) /\ token'[t] = token[t]
        BY <2>2 DEF SessionInv, Sessions, SignedOutSessionStaysOut
  <2> QED
      BY <1>9, <2>1, <2>2
<1> QED
    BY <1>8, <1>10, <1>11 DEF Sessions

\* COMMIT of a sign-out: it revokes the only live token of the session it ends.
LEMMA SessionsRevoke ==
    ASSUME SessionInv, NEW r \in Req, RevokeRefreshToken(r)
    PROVE  Sessions'
<1> DEFINE old == req[r].tok
<1>1. old \in Token /\ token[old].state = "live"
      BY DEF RevokeRefreshToken, Serves, SessionInv, LocksHeld, Mutates, Live, Types,
             Carries, Equipped
<1>2. token[old] \in Tokens /\ token[old].root \in Token
      BY <1>1 DEF SessionInv, Types, TypeOK, RowsOwned
<1>3. /\ token' = [token EXCEPT ![old] = Mark(@, "revoked")]
      /\ ended' = ended \cup {token[old].root}
      BY DEF RevokeRefreshToken, CommitRevocation
<1>4. /\ token'[old].state = "revoked" /\ token'[old].root = token[old].root
      /\ \A t \in Token \ {old} : token'[t] = token[t]
      BY <1>1, <1>2, <1>3, MarkToken DEF SessionInv, Types, TypeOK
<1>5. \A t \in Token \ {old} : Live(t) => token[t].root # token[old].root
      BY <1>1 DEF SessionInv, Sessions, OneLiveTokenPerSession, Live
<1>6. token[token[old].root].state # "free" /\ ended \subseteq Token
      BY <1>1 DEF SessionInv, Sessions, RootsStored, Types, TypeOK
<1>7. \A t \in Token : token[t].state # "free" <=> token'[t].state # "free"
      BY <1>1, <1>4
<1>8. \A t \in Token : Live(t)' => Live(t) /\ token'[t] = token[t] /\ t # old
      BY <1>4 DEF Live
<1>9. RootsStored'
      BY <1>1, <1>2, <1>3, <1>4, <1>6, <1>7
      DEF SessionInv, Sessions, RootsStored, Types, RowsOwned
<1>10. OneLiveTokenPerSession' /\ SignedOutSessionStaysOut'
      BY <1>3, <1>5, <1>8
      DEF SessionInv, Sessions, OneLiveTokenPerSession, SignedOutSessionStaysOut, Live
<1> QED
    BY <1>9, <1>10 DEF Sessions

-----------------------------------------------------------------------------
(* The invariant.                                                           *)

\* No request and no token at first.
LEMMA SessionInit == Init => SessionInv
BY TypesInit, Fields
DEF Init, SessionInv, LocksHeld, Mutates, Sessions, RootsStored,
    OneLiveTokenPerSession, SignedOutSessionStaysOut, Live

\* A request that starts holds no lock and stores nothing.
LEMMA SessionStart ==
    ASSUME SessionInv, NEW r \in Req, Start(r)
    PROVE  LocksHeld' /\ Sessions'
<1>1. UNCHANGED <<token, lock, ended>>
      BY DEF Start, CreateCredential, CreatePendingRegistration, StartVerify,
             IssueRegistrationTokens, SignIn, ReadVerified, StartSignOut,
             StartRefresh, InsertCredential, tables
<1>2. PICK q : Goto(r, q) /\ ~Mutates(q)
  <2>1. ASSUME NEW u, NEW c, NEW t, NEW new,
               NEW pc \in {"insertCode", "verify", "insertToken", "loadRotate",
                           "loadRevoke"}
        PROVE  ~Mutates(Locals(pc, u, c, t, new))
        BY DEF Locals, Mutates
  <2>2. ~Mutates(Idle)
        BY Fields DEF Mutates
  <2>3. ASSUME NEW u \in User, CreateCredential(r, u)
        PROVE  \E q : Goto(r, q) /\ ~Mutates(q)
        BY <2>2, <2>3 DEF CreateCredential, Return
  <2>4. ASSUME NEW u \in User, NEW c \in Code,
               CreatePendingRegistration(r, u, c) \/ StartVerify(r, u, c)
        PROVE  \E q : Goto(r, q) /\ ~Mutates(q)
        BY <2>1, <2>4 DEF CreatePendingRegistration, StartVerify
  <2>5. ASSUME NEW u \in User, NEW t \in Token, ReadVerified(r, u, t)
        PROVE  \E q : Goto(r, q) /\ ~Mutates(q)
        BY <2>1, <2>5 DEF ReadVerified
  <2>6. ASSUME NEW t \in Token, StartSignOut(r, t)
        PROVE  \E q : Goto(r, q) /\ ~Mutates(q)
        BY <2>1, <2>6 DEF StartSignOut
  <2>7. ASSUME NEW t \in Token, NEW new \in Token, StartRefresh(r, t, new)
        PROVE  \E q : Goto(r, q) /\ ~Mutates(q)
        BY <2>1, <2>7 DEF StartRefresh
  <2> QED
      BY <2>3, <2>4, <2>5, <2>6, <2>7 DEF Start, IssueRegistrationTokens, SignIn
<1>3. LocksHeld'
      BY <1>1, <1>2, LocksMove
<1>4. Sessions'
      BY <1>1, SessionsShrink, TokensUntouched DEF SessionInv
<1> QED
    BY <1>3, <1>4

\* A request that goes on either takes a lock, or gives up only its own.
LEMMA SessionContinue ==
    ASSUME SessionInv, NEW r \in Req, Continue(r)
    PROVE  LocksHeld' /\ Sessions'
<1>0. ~Mutates(Idle) /\ req[r] \in Requests /\ Equipped(req[r], token)
      BY Fields DEF Mutates, SessionInv, Types, TypeOK, Carries
<1>1. ASSUME UNCHANGED <<token, lock, ended>>, Goto(r, Idle)
      PROVE  LocksHeld' /\ Sessions'
      BY <1>0, <1>1, LocksMove, SessionsShrink, TokensUntouched DEF SessionInv
<1>2. ASSUME CreateVerificationCode(r) \/ VerifyRegistrationEmail(r)
                \/ Reply(r) \/ Reject(r)
      PROVE  LocksHeld' /\ Sessions'
      BY <1>1, <1>2
      DEF CreateVerificationCode, InsertCode, VerifyRegistrationEmail, VerifyEmail,
          Reply, Reject, Return, tables
<1>3. CASE CreateRefreshToken(r)
  <2> DEFINE p == req[r]
             q == [p EXCEPT !.pc = "reply"]
  <2>1. /\ UNCHANGED <<lock, ended>> /\ Goto(r, q) /\ p.pc = "insertToken"
        /\ token' = [token EXCEPT ![p.new] = TokenRow(p.user, p.at + TokenTTL, p.new)]
        BY <1>3 DEF CreateRefreshToken, InsertToken, GoOn, Serves
  <2>2. /\ p.new \in Token /\ p.user \in User /\ token[p.new].state = "free"
        /\ p.at + TokenTTL \in Int
        BY <1>0, <2>1, Fields, TimeAssumption
        DEF Equipped, SessionInv, Types, Draws, Drawing
  <2>3. ~Mutates(q)
        BY <1>0, MoveRequest DEF Mutates
  <2>4. \A t \in Token : token[t].state = "live" => token'[t] = token[t]
        BY <2>1, <2>2 DEF SessionInv, Types, TypeOK
  <2> QED
      BY <2>1, <2>2, <2>3, <2>4, LocksMove, SessionsGrow
<1>4. CASE LoadRefreshTokenForMutation(r)
  <2> DEFINE p == req[r]
  <2>1. PICK pc \in {"rotate", "revoke"} :
             pc = IF p.pc = "loadRotate" THEN "rotate" ELSE "revoke"
        OBVIOUS
  <2> DEFINE q == [p EXCEPT !.pc = pc]
  <2>2. /\ UNCHANGED <<token, ended>> /\ Goto(r, q)
        /\ p.pc \in {"loadRotate", "loadRevoke"}
        /\ token[p.tok].state = "live" /\ lock[token[p.tok].user] = None
        /\ lock' = [lock EXCEPT ![token[p.tok].user] = r]
        BY <1>4, <2>1
        DEF LoadRefreshTokenForMutation, LoadForMutation, Unlocked, Usable, GoOn, Serves
  <2>3. token[p.tok].user \in User
        BY <1>0, <2>2 DEF Equipped, SessionInv, Types, RowsOwned
  <2>4. q.tok = p.tok
        BY <1>0 DEF Requests
  <2>5. lock'[token[p.tok].user] = r
        BY <2>2, <2>3 DEF SessionInv, Types, TypeOK
  <2>6. \A u \in User : lock[u] \notin {r, None} => lock'[u] = lock[u]
        BY <2>2 DEF SessionInv, Types, TypeOK
  <2> QED
      BY <2>2, <2>4, <2>5, <2>6, LocksMove, SessionsShrink, TokensUntouched
      DEF SessionInv
<1>5. CASE RotateRefreshToken(r)
  <2> DEFINE p == req[r]
             q == [p EXCEPT !.pc = "reply"]
  <2>1. /\ Goto(r, q) /\ p.pc = "rotate" /\ Release(r)
        /\ \A t \in Token \ {p.tok, p.new} : token'[t] = token[t]
        BY <1>5 DEF RotateRefreshToken, CommitRotation, GoOn, Serves, SessionInv, Types, TypeOK
  <2>2. /\ lock[token[p.tok].user] = r /\ token[p.new].state = "free"
        /\ ~Mutates(q)
        BY <1>0, <2>1, MoveRequest
        DEF SessionInv, LocksHeld, Mutates, Types, Draws, Drawing
  <2>3. LocksHeld'
        BY <2>1, <2>2, LocksMove DEF Release
  <2> QED
      BY <1>5, <2>3, SessionsRotate
<1>6. CASE RevokeRefreshToken(r)
  <2>1. /\ Goto(r, Idle) /\ req[r].pc = "revoke" /\ Release(r)
        /\ \A t \in Token \ {req[r].tok} : token'[t] = token[t]
        BY <1>6 DEF RevokeRefreshToken, CommitRevocation, Return, Serves, SessionInv, Types, TypeOK
  <2>2. lock[token[req[r].tok].user] = r
        BY <2>1 DEF SessionInv, LocksHeld, Mutates
  <2>3. LocksHeld'
        BY <1>0, <2>1, <2>2, LocksMove DEF Release
  <2> QED
      BY <1>6, <2>3, SessionsRevoke
<1> QED
    BY <1>2, <1>3, <1>4, <1>5, <1>6 DEF Continue, Proceed

\* Every step keeps the locks of the open transactions and the sessions.
LEMMA SessionNext == SessionInv /\ [Next]_vars => SessionInv'
<1> SUFFICES ASSUME SessionInv, [Next]_vars PROVE LocksHeld' /\ Sessions'
    BY TypesNext DEF SessionInv
<1>1. ASSUME NEW r \in Req, Fail(r)
      PROVE  LocksHeld' /\ Sessions'
  <2>1. UNCHANGED <<token, ended>> /\ Goto(r, Idle) /\ Release(r) /\ ~Mutates(Idle)
        BY <1>1, Fields DEF Fail, Return, Mutates
  <2>2. LocksHeld'
        BY <2>1, LocksMove DEF Release
  <2> QED
      BY <2>1, <2>2, SessionsShrink, TokensUntouched DEF SessionInv
<1>2. ASSUME UNCHANGED <<token, req, lock, ended>>
      PROVE  LocksHeld' /\ Sessions'
      BY <1>2, LocksStay, SessionsShrink, TokensUntouched DEF SessionInv
<1>3. ASSUME NEW u \in User, DeleteCredential(u)
      PROVE  LocksHeld' /\ Sessions'
  <2>1. /\ UNCHANGED <<req, lock, ended>> /\ lock[u] = None
        /\ token' = [t \in Token |->
                       IF token[t].user = u THEN Mark(token[t], "gone") ELSE token[t]]
        BY <1>3 DEF DeleteCredential, DeleteRows, Unlocked
  <2>2. ASSUME NEW t \in Token
        PROVE  /\ Mark(token[t], "gone").state = "gone"
               /\ Mark(token[t], "gone").user = token[t].user
               /\ Mark(token[t], "gone").root = token[t].root
    <3>1. token[t] \in Tokens
          BY DEF SessionInv, Types, TypeOK
    <3> QED
        BY <3>1, MarkToken
  <2>3. KeepStored /\ \A t \in Token : token'[t].state = "live" => token[t].state = "live"
        BY <2>1, <2>2 DEF KeepStored
  <2>4. KeepFree(None)
        BY <2>1, NoneAssumption DEF KeepFree, SessionInv, Types, RowsOwned
  <2>5. LocksHeld'
        BY <2>1, LocksStay
  <2> QED
      BY <2>1, <2>3, <2>4, <2>5, SessionsShrink
<1> QED
    BY <1>1, <1>2, <1>3, SessionStart, SessionContinue
    DEF Next, DeactivateRegistrationAuth, UpdateDeactivated, Tick, tables, vars

\* The inductive invariant of sessions.
THEOREM SessionsHold == Spec => []SessionInv
BY SessionInit, SessionNext, PTL DEF Spec

\* A session never has two usable refresh tokens: of any number of requests
\* that rotate or revoke a token at once, the row lock and the re-check behind
\* it leave one winner (repository.go:168-188).
THEOREM OneWinnerPerRotation == Spec => []OneLiveTokenPerSession
<1>1. SessionInv => OneLiveTokenPerSession
      BY DEF SessionInv, Sessions
<1> QED
    BY <1>1, SessionsHold, PTL

\* Once a sign-out has committed no token of its session is usable, whichever
\* rotation it raced with (application/type.go:29, repository.go:193-229).
THEOREM SignOutIsFinal == Spec => []SignedOutSessionStaysOut
<1>1. SessionInv => SignedOutSessionStaysOut
      BY DEF SessionInv, Sessions
<1> QED
    BY <1>1, SessionsHold, PTL

-----------------------------------------------------------------------------
(* AuthService implements SessionChains: a step that inserts, rotates,      *)
(* revokes or deletes tokens is an Open, Extend, SignOut or Forget; every   *)
(* other step stutters.                                                     *)

\* The live tokens of a session: what the refinement calls usable.
LiveOf(s) == {t \in Token : Live(t) /\ token[t].root = s}

\* What is live is usable, and a free name was never used.
LEMMA UsableIsLive ==
    ASSUME SessionInv
    PROVE  /\ Chains!Usable = {t \in Token : Live(t)}
           /\ \A t \in Token : token[t].state = "free" => Chains!NeverUsed(t)
<1>1. \A t \in Token : Live(t) => token[t].root \in Token
      BY DEF Live, SessionInv, Types, RowsOwned
<1>2. Chains!Usable = {t \in Token : Live(t)}
      BY <1>1 DEF Chains!Usable
<1> QED
    BY <1>2 DEF Chains!NeverUsed, Live

\* Tables, requests or the clock: whatever leaves the tokens alone stutters.
LEMMA ChainsStutter ==
    UNCHANGED <<token, ended>> => UNCHANGED Chains!vars
BY DEF Chains!vars, Live

\* The INSERT of IssueRegistrationTokens or SignIn opens a session.
LEMMA InsertOpens ==
    ASSUME SessionInv, NEW r \in Req, CreateRefreshToken(r)
    PROVE  \E n \in Token : Chains!Open(n)
<1>1. req[r].new \in Token
      BY DEF CreateRefreshToken, Serves, SessionInv, Types, Carries, Equipped
<1>2. PICK n \in Token : n = req[r].new
      BY <1>1
<1>3. /\ req[r].user \in User /\ token[n].state = "free"
      /\ req[r].at + TokenTTL \in Int
      BY <1>2, Fields, TimeAssumption
      DEF CreateRefreshToken, Serves, SessionInv, Types, TypeOK, Carries, Equipped,
          Draws, Drawing
<1>4. /\ token' = [token EXCEPT ![n] = TokenRow(req[r].user, req[r].at + TokenTTL, n)]
      /\ ended' = ended
      BY <1>2 DEF CreateRefreshToken, InsertToken
<1>5. /\ token'[n].state = "live" /\ token'[n].root = n
      /\ \A t \in Token \ {n} : token'[t] = token[t]
      BY <1>3, <1>4, NewToken DEF SessionInv, Types, TypeOK
<1>6. \A t \in Token : token[t].state # "free" => token[t].root # n
      BY <1>3 DEF SessionInv, Sessions, RootsStored
<1>7. /\ LiveOf(n) = {} /\ LiveOf(n)' = {n}
      /\ \A s \in Token \ {n} : LiveOf(s)' = LiveOf(s)
      BY <1>3, <1>5, <1>6 DEF LiveOf, Live
<1>8. [s \in Token |-> LiveOf(s)]' = [[s \in Token |-> LiveOf(s)] EXCEPT ![n] = {n}]
      BY <1>7
<1>9. /\ {t \in Token : token[t].state = "revoked"}' = {t \in Token : token[t].state = "revoked"}
      /\ {t \in Token : token[t].state = "gone"}' = {t \in Token : token[t].state = "gone"}
      BY <1>3, <1>5
<1>10. Chains!NeverUsed(n)
      BY <1>3, UsableIsLive
<1> QED
    BY <1>4, <1>7, <1>8, <1>9, <1>10 DEF Chains!Open, LiveOf

\* The COMMIT of a rotation extends the session of the token it revokes.
LEMMA RotationExtends ==
    ASSUME SessionInv, NEW r \in Req, RotateRefreshToken(r)
    PROVE  \E s, old, new \in Token : Chains!Extend(s, old, new)
<1>1. req[r].tok \in Token /\ req[r].new \in Token /\ token[req[r].tok].root \in Token
      BY DEF RotateRefreshToken, Serves, SessionInv, Types, Carries, Equipped, RowsOwned
<1>2. PICK old, new, root \in Token :
           old = req[r].tok /\ new = req[r].new /\ root = token[old].root
      BY <1>1
<1> DEFINE row == TokenRow(token[old].user, req[r].at + TokenTTL, root)
<1>3. /\ token[old].state = "live" /\ token[new].state = "free"
      /\ req[r].at + TokenTTL \in Int
      /\ token[old] \in Tokens /\ token[old].user \in User
      BY <1>2, Fields, TimeAssumption
      DEF RotateRefreshToken, Serves, SessionInv, LocksHeld, Mutates, Live, Types,
          TypeOK, Draws, Drawing, RowsOwned
<1>4. /\ token' = [token EXCEPT ![old] = Mark(@, "revoked"), ![new] = row]
      /\ ended' = ended
      BY <1>2 DEF RotateRefreshToken, CommitRotation
<1>5. /\ token'[old].state = "revoked" /\ token'[old].root = root
      /\ token'[new].state = "live" /\ token'[new].root = root
      /\ \A t \in Token \ {old, new} : token'[t] = token[t]
      BY <1>2, <1>3, <1>4, MarkToken, NewToken DEF SessionInv, Types, TypeOK
<1>6. \A t \in Token : Live(t) /\ token[t].root = root => t = old
      BY <1>2, <1>3 DEF SessionInv, Sessions, OneLiveTokenPerSession, Live
<1>7. /\ LiveOf(root) = {old} /\ LiveOf(root)' = {new}
      /\ \A s \in Token \ {root} : LiveOf(s)' = LiveOf(s)
      BY <1>2, <1>3, <1>5, <1>6 DEF LiveOf, Live
<1>8. [s \in Token |-> LiveOf(s)]' = [[s \in Token |-> LiveOf(s)] EXCEPT ![root] = {new}]
      BY <1>7
<1>9. /\ {t \in Token : token[t].state = "revoked"}'
            = {t \in Token : token[t].state = "revoked"} \cup {old}
      /\ {t \in Token : token[t].state = "gone"}' = {t \in Token : token[t].state = "gone"}
      BY <1>3, <1>5
<1>10. Chains!NeverUsed(new)
      BY <1>3, UsableIsLive
<1>11. [s \in Token |-> LiveOf(s)][root] = {old}
      BY <1>7
<1>12. Chains!Extend(root, old, new)
      BY <1>4, <1>8, <1>9, <1>10, <1>11 DEF Chains!Extend, LiveOf
<1> QED
    BY <1>12

\* The COMMIT of a sign-out ends the session of the token it revokes.
LEMMA RevocationSignsOut ==
    ASSUME SessionInv, NEW r \in Req, RevokeRefreshToken(r)
    PROVE  \E s, last \in Token : Chains!SignOut(s, last)
<1>1. req[r].tok \in Token /\ token[req[r].tok].root \in Token
      BY DEF RevokeRefreshToken, Serves, SessionInv, Types, Carries, Equipped, RowsOwned
<1>2. PICK old, root \in Token : old = req[r].tok /\ root = token[old].root
      BY <1>1
<1>3. token[old].state = "live" /\ token[old] \in Tokens
      BY <1>2 DEF RevokeRefreshToken, Serves, SessionInv, LocksHeld, Mutates, Live, Types, TypeOK
<1>4. /\ token' = [token EXCEPT ![old] = Mark(@, "revoked")]
      /\ ended' = ended \cup {root}
      BY <1>2 DEF RevokeRefreshToken, CommitRevocation
<1>5. /\ token'[old].state = "revoked" /\ token'[old].root = root
      /\ \A t \in Token \ {old} : token'[t] = token[t]
      BY <1>2, <1>3, <1>4, MarkToken DEF SessionInv, Types, TypeOK
<1>6. \A t \in Token : Live(t) /\ token[t].root = root => t = old
      BY <1>2, <1>3 DEF SessionInv, Sessions, OneLiveTokenPerSession, Live
<1>7. /\ LiveOf(root) = {old} /\ LiveOf(root)' = {}
      /\ \A s \in Token \ {root} : LiveOf(s)' = LiveOf(s)
      BY <1>2, <1>3, <1>5, <1>6 DEF LiveOf, Live
<1>8. [s \in Token |-> LiveOf(s)]' = [[s \in Token |-> LiveOf(s)] EXCEPT ![root] = {}]
      BY <1>7
<1>9. /\ {t \in Token : token[t].state = "revoked"}'
            = {t \in Token : token[t].state = "revoked"} \cup {old}
      /\ {t \in Token : token[t].state = "gone"}' = {t \in Token : token[t].state = "gone"}
      BY <1>3, <1>5
<1> QED
    BY <1>4, <1>7, <1>8, <1>9 DEF Chains!SignOut, LiveOf

\* The DELETE of a credential forgets every token of the user, by cascade.
LEMMA DeleteForgets ==
    ASSUME SessionInv, NEW u \in User, DeleteCredential(u)
    PROVE  \E T \in SUBSET Token : Chains!Forget(T)
<1>1. PICK T \in SUBSET Token : T = {t \in Token : Stored(t) /\ token[t].user = u}
      OBVIOUS
<1>2. /\ token' = [t \in Token |->
                     IF token[t].user = u THEN Mark(token[t], "gone") ELSE token[t]]
      /\ ended' = ended
      BY DEF DeleteCredential, DeleteRows
<1>3. \A t \in Token : token[t].user = u => token[t].state \in {"live", "revoked", "gone"}
      BY NoneAssumption DEF SessionInv, Types, TypeOK, RowsOwned, Tokens
<1>4. \A t \in Token : /\ Mark(token[t], "gone").state = "gone"
                       /\ Mark(token[t], "gone").root = token[t].root
      BY MarkToken DEF SessionInv, Types, TypeOK
<1>5. \A t \in Token : /\ token'[t].root = token[t].root
                       /\ token'[t].state = IF t \in T THEN "gone" ELSE token[t].state
      BY <1>1, <1>2, <1>3, <1>4 DEF Stored
<1>6. T \subseteq {t \in Token : token[t].state = "revoked"} \cup Chains!Usable
      BY <1>1, UsableIsLive DEF Stored, Live
<1>7. \A s \in Token : LiveOf(s)' = LiveOf(s) \ T
      BY <1>5 DEF LiveOf, Live
<1>8. [s \in Token |-> LiveOf(s)]' = [s \in Token |-> [x \in Token |-> LiveOf(x)][s] \ T]
      BY <1>7
<1>9. /\ {t \in Token : token[t].state = "revoked"}'
            = {t \in Token : token[t].state = "revoked"} \ T
      /\ {t \in Token : token[t].state = "gone"}'
            = {t \in Token : token[t].state = "gone"} \cup T
      BY <1>1, <1>5
<1> QED
    BY <1>2, <1>6, <1>8, <1>9 DEF Chains!Forget, LiveOf

\* Every step of the service is a step of the chains, or a stutter.
LEMMA NextIsChained ==
    ASSUME SessionInv, [Next]_vars
    PROVE  [Chains!Next]_(Chains!vars)
<1>1. ASSUME NEW r \in Req,
             CreateRefreshToken(r) \/ RotateRefreshToken(r) \/ RevokeRefreshToken(r)
      PROVE  Chains!Next
      BY <1>1, InsertOpens, RotationExtends, RevocationSignsOut DEF Chains!Next
<1>2. ASSUME NEW u \in User, DeleteCredential(u)
      PROVE  Chains!Next
      BY <1>2, DeleteForgets DEF Chains!Next
<1>3. ASSUME NEW r \in Req, Start(r) \/ Fail(r)
      PROVE  UNCHANGED <<token, ended>>
      BY <1>3
      DEF Start, Fail, CreateCredential, CreatePendingRegistration, StartVerify,
          IssueRegistrationTokens, SignIn, ReadVerified, StartSignOut, StartRefresh,
          InsertCredential, tables
<1>4. ASSUME NEW r \in Req,
             \/ CreateVerificationCode(r) \/ VerifyRegistrationEmail(r)
             \/ LoadRefreshTokenForMutation(r) \/ Reply(r) \/ Reject(r)
      PROVE  UNCHANGED <<token, ended>>
      BY <1>4
      DEF CreateVerificationCode, InsertCode, VerifyRegistrationEmail, VerifyEmail,
          LoadRefreshTokenForMutation, LoadForMutation, Reply, Reject, tables
<1>5. ASSUME \/ \E u \in User : DeactivateRegistrationAuth(u)
             \/ Tick
             \/ UNCHANGED vars
      PROVE  UNCHANGED <<token, ended>>
      BY <1>5 DEF DeactivateRegistrationAuth, UpdateDeactivated, Tick, vars, tables
<1> QED
    BY <1>1, <1>2, <1>3, <1>4, <1>5, ChainsStutter DEF Next, Continue, Proceed

\* The sessions of the auth service are chains of refresh tokens: opened once,
\* handed on from one usable token to the next, and ended only by a sign-out or
\* the deletion of the user, for good (application/type.go:27-29).
THEOREM ServiceKeepsChains == Spec => SessionsAreChains
<1>1. Init => Chains!Init
      BY Fields DEF Init, Chains!Init, Live
<1>2. SessionInv /\ [Next]_vars => [Chains!Next]_(Chains!vars)
      BY NextIsChained
<1> QED
    BY <1>1, <1>2, SessionsHold, PTL DEF Spec, SessionsAreChains, Chains!Spec

=============================================================================

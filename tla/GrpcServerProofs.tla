--------------------------- MODULE GrpcServerProofs ---------------------------
(***************************************************************************)
(* What the clients of GrpcServer hear, for all users, tokens and requests: *)
(* a refusal is final, and no session is lost without an internal error.   *)
(*                                                                         *)
(* A refusal is decided with a clock read before a lock wait; that it is   *)
(* still right when it is heard follows from ClocksRead (the clock only    *)
(* moved forward) and from RowsAge (no row becomes usable again).          *)
(***************************************************************************)
EXTENDS GrpcServer, AuthRowProofs

-----------------------------------------------------------------------------
(* Rows and requests from one step to the next.                             *)

\* A row that is stored keeps what it says and never becomes live again; one
\* that was deleted stays so.
Ages(t) ==
    token[t].state # "free" =>
        /\ token'[t].state # "free"
        /\ token'[t].exp = token[t].exp
        /\ token'[t].user = token[t].user
        /\ token'[t].root = token[t].root
        /\ token'[t].state = "live" => token[t].state = "live"
        /\ token[t].state = "gone" => token'[t].state = "gone"

\* The INSERT of the first token of a session.
LEMMA Insertion ==
    ASSUME SessionInv, NEW r \in Req, CreateRefreshToken(r)
    PROVE  /\ req[r].new \in Token /\ token[req[r].new].state = "free"
           /\ req[r].pc = "insertToken"
           /\ token'[req[r].new].state = "live"
           /\ token'[req[r].new].root = req[r].new
           /\ token'[req[r].new].user = req[r].user
           /\ \A t \in Token \ {req[r].new} : token'[t] = token[t]
<1>1. /\ token' = [token EXCEPT ![req[r].new] =
                     TokenRow(req[r].user, req[r].at + TokenTTL, req[r].new)]
      /\ req[r].new \in Token /\ token[req[r].new].state = "free"
      /\ req[r].pc = "insertToken" /\ token \in [Token -> Tokens]
      BY DEF CreateRefreshToken, InsertToken, Serves, SessionInv, Types, TypeOK,
             Carries, Equipped, Draws, Drawing
<1> QED
    BY <1>1 DEF TokenRow

\* COMMIT of a sign-out.
LEMMA Revocation ==
    ASSUME SessionInv, NEW r \in Req, RevokeRefreshToken(r)
    PROVE  /\ req[r].tok \in Token /\ token[req[r].tok].state = "live"
           /\ req[r].pc = "revoke"
           /\ token'[req[r].tok] = Mark(token[req[r].tok], "revoked")
           /\ token[req[r].tok] \in Tokens
           /\ \A t \in Token \ {req[r].tok} : token'[t] = token[t]
BY DEF RevokeRefreshToken, CommitRevocation, Serves, SessionInv, LocksHeld, Mutates,
       Live, Types, TypeOK, Carries, Equipped

\* A DELETE marks every row of its user.
LEMMA Deletion ==
    ASSUME Types, NEW u \in User, DeleteCredential(u), NEW t \in Token
    PROVE  IF token[t].user = u
           THEN /\ token'[t] = Mark(token[t], "gone") /\ token'[t].state = "gone"
                /\ token'[t].exp = token[t].exp /\ token'[t].user = token[t].user
                /\ token'[t].root = token[t].root
           ELSE token'[t] = token[t]
<1>1. token'[t] = IF token[t].user = u THEN Mark(token[t], "gone") ELSE token[t]
      BY DEF DeleteCredential, DeleteRows
<1> QED
    BY <1>1, MarkToken DEF Types, TypeOK

\* Only those three and COMMIT of a rotation write token rows.
TokensWritten ==
    \/ \E r \in Req : \/ CreateRefreshToken(r)
                     \/ RotateRefreshToken(r)
                     \/ RevokeRefreshToken(r)
    \/ \E u \in User : DeleteCredential(u)

LEMMA WhoWritesTokens == [Next]_vars => TokensWritten \/ UNCHANGED token
<1>1. ASSUME NEW r \in Req, Start(r) \/ Fail(r)
      PROVE  UNCHANGED token
      BY <1>1
      DEF Start, Fail, CreateCredential, CreatePendingRegistration, StartVerify,
          IssueRegistrationTokens, SignIn, ReadVerified, StartSignOut, StartRefresh,
          InsertCredential, tables
<1> QED
    BY <1>1
    DEF TokensWritten, Next, Continue, Proceed, CreateVerificationCode, InsertCode,
        VerifyRegistrationEmail, VerifyEmail, LoadRefreshTokenForMutation,
        LoadForMutation, Reply, Reject, DeactivateRegistrationAuth, UpdateDeactivated,
        Tick, vars, tables

\* No row becomes usable again, and none changes hands.
LEMMA RowsAge ==
    ASSUME SessionInv, [Next]_vars, NEW t \in Token
    PROVE  Ages(t)
<1>0. Types /\ token \in [Token -> Tokens]
      BY DEF SessionInv, Types, TypeOK
<1>1. ASSUME NEW r \in Req, CreateRefreshToken(r)
      PROVE  Ages(t)
      BY <1>1, Insertion DEF Ages
<1>2. ASSUME NEW r \in Req, RotateRefreshToken(r)
      PROVE  Ages(t)
      BY <1>2, Rotation DEF Ages
<1>3. ASSUME NEW r \in Req, RevokeRefreshToken(r)
      PROVE  Ages(t)
      BY <1>3, Revocation, MarkToken DEF Ages
<1>4. ASSUME NEW u \in User, DeleteCredential(u)
      PROVE  Ages(t)
      BY <1>0, <1>4, Deletion DEF Ages
<1> QED
    BY <1>1, <1>2, <1>3, <1>4, WhoWritesTokens DEF TokensWritten, Ages

\* The steps of the server are steps of the service.
LEMMA ServesTheService == [GrpcNext]_grpcVars => [Next]_vars
BY DEF GrpcNext, Next, Continue, grpcVars

\* What was proved of the service holds behind the server.
LEMMA ServiceInvariants == GrpcSpec => [](SessionInv /\ ClockInv)
<1>1. GrpcInit => Init
      BY DEF GrpcInit
<1> QED
    BY <1>1, ServesTheService, SessionInit, SessionNext, ClockInit, ClockNext, PTL
    DEF GrpcSpec

\* What a request that starts carries, and where one goes that proceeds.
LEMMA StartMoves ==
    ASSUME NEW r \in Req, Start(r)
    PROVE  /\ Serves(r, "idle") /\ UNCHANGED delivered
           /\ \E q : /\ Goto(r, q) /\ q.pc # "reply"
                    /\ \/ q.tok = None
                       \/ q.pc \in {"loadRotate", "loadRevoke"} /\ q.tok \in delivered
<1>1. ASSUME NEW u, NEW c, NEW t, NEW new, NEW pc
      PROVE  Locals(pc, u, c, t, new).pc = pc /\ Locals(pc, u, c, t, new).tok = t
      BY DEF Locals
<1> QED
    BY <1>1, Fields
    DEF Start, CreateCredential, CreatePendingRegistration, StartVerify,
        IssueRegistrationTokens, SignIn, ReadVerified, StartSignOut, StartRefresh,
        Return

\* Only the requests of Refresh and SignOut carry a token they were called with.
PresentsOwn ==
    \A r \in Req : req[r].pc \in {"insertCode", "verify", "insertToken"} => req[r].tok = None

\* A request that goes on keeps what it was called with.
LEMMA ProceedMoves ==
    ASSUME Types, NEW r \in Req, Proceed(r)
    PROVE  \E q : /\ Goto(r, q)
                  /\ q.pc \notin {"insertCode", "verify", "insertToken"}
<1>1. req[r] \in Requests
      BY DEF Types, TypeOK
<1>2. \A pc \in {"rotate", "revoke", "reply"} : [req[r] EXCEPT !.pc = pc].pc = pc
      BY <1>1, MoveRequest
<1> QED
    BY <1>2, Fields
    DEF Proceed, CreateVerificationCode, VerifyRegistrationEmail, CreateRefreshToken,
        LoadRefreshTokenForMutation, RotateRefreshToken, RevokeRefreshToken, Reply,
        GoOn, Return

\* No step makes a request carry a token it was not called with.
LEMMA PresentsNext == Types /\ PresentsOwn /\ [Next]_vars => PresentsOwn'
<1> SUFFICES ASSUME Types, PresentsOwn, [Next]_vars PROVE PresentsOwn'
    OBVIOUS
<1>1. ASSUME NEW r \in Req, NEW q, Goto(r, q),
             q.pc \in {"insertCode", "verify", "insertToken"} => q.tok = None
      PROVE  PresentsOwn'
      BY <1>1 DEF Goto, PresentsOwn, Types, TypeOK
<1>2. ASSUME NEW r \in Req, Start(r)
      PROVE  PresentsOwn'
      BY <1>1, <1>2, StartMoves
<1>3. ASSUME NEW r \in Req, Proceed(r)
      PROVE  PresentsOwn'
      BY <1>1, <1>3, ProceedMoves
<1>4. ASSUME NEW r \in Req, Reject(r) \/ Fail(r)
      PROVE  PresentsOwn'
      BY <1>1, <1>4, Fields DEF Reject, Fail, Return
<1>5. ASSUME UNCHANGED req
      PROVE  PresentsOwn'
      BY <1>5 DEF PresentsOwn
<1> QED
    BY <1>2, <1>3, <1>4, <1>5
    DEF Next, Continue, DeactivateRegistrationAuth, DeleteCredential, Tick, vars

-----------------------------------------------------------------------------
(* Refusals.                                                                *)

RefusalInv ==
    /\ PresentsOwn
    /\ refused \subseteq Token
    /\ \A t \in refused : token[t].state # "free"
    /\ RefusalIsFinal

\* A token that is refused is stored no longer, spent, or past its expiry as
\* of a clock that was read earlier.
LEMMA RefusedIsUnusable ==
    ASSUME SessionInv, ClockInv, PresentsOwn, NEW r \in Req, Reject(r), req[r].tok # None
    PROVE  /\ req[r].tok \in Token /\ token[req[r].tok].state # "free"
           /\ ~Usable(req[r].tok, now)
<1> DEFINE t == req[r].tok
<1>1. /\ req[r].pc \in {"loadRotate", "loadRevoke"}
      /\ Stored(t) => ~Usable(t, req[r].at)
      BY DEF Reject, Serves, PresentsOwn
<1>2. t \in Token /\ token[t].state # "free" /\ req[r].at <= now
      BY <1>1
      DEF SessionInv, Types, Carries, Equipped, ClockInv, ClocksRead, Timely
<1>3. token[t].exp \in Int /\ req[r].at \in Int /\ now \in Int
      BY <1>2, Fields DEF SessionInv, Types, TypeOK
<1> QED
    BY <1>1, <1>2, <1>3 DEF Stored, Usable

\* An internal error refuses nothing.
LEMMA CallErrorIsNoRefusal == \A rpc : Status(rpc, CallError) \notin Refusals
BY DEF Status, CallError, TokenErrors, Refusals

\* Nothing is refused at first.
LEMMA RefusalInit == GrpcInit => RefusalInv
BY Fields DEF GrpcInit, Init, RefusalInv, PresentsOwn, RefusalIsFinal

\* A token that was refused stays unusable, and one that is refused now is.
LEMMA RefusalNext ==
    SessionInv /\ ClockInv /\ RefusalInv /\ [GrpcNext]_grpcVars => RefusalInv'
<1> SUFFICES ASSUME SessionInv, ClockInv, RefusalInv, [GrpcNext]_grpcVars
             PROVE  RefusalInv'
    OBVIOUS
<1>0. [Next]_vars /\ PresentsOwn'
      BY ServesTheService, PresentsNext DEF RefusalInv, SessionInv
<1>1. now \in Int /\ now' \in Int /\ now <= now'
  <2>1. SessionInv'
        BY <1>0, SessionNext
  <2>2. now \in Int /\ now' \in Int
        BY <2>1 DEF SessionInv, Types, TypeOK
  <2>3. ASSUME NEW r \in Req, Start(r) \/ Continue(r) \/ Fail(r)
        PROVE  UNCHANGED now
        BY <2>3
        DEF Start, Continue, Proceed, Fail, CreateCredential,
            CreatePendingRegistration, StartVerify, IssueRegistrationTokens, SignIn,
            ReadVerified, StartSignOut, StartRefresh, CreateVerificationCode,
            VerifyRegistrationEmail, CreateRefreshToken, LoadRefreshTokenForMutation,
            RotateRefreshToken, RevokeRefreshToken, Reply, Reject
  <2>4. UNCHANGED now \/ now' = now + 1
        BY <1>0, <2>3 DEF Next, DeactivateRegistrationAuth, DeleteCredential, Tick, vars
  <2> QED
      BY <2>2, <2>4
<1>2. ASSUME NEW t \in Token, token[t].state # "free", ~Usable(t, now)
      PROVE  token'[t].state # "free" /\ ~(token'[t].state = "live" /\ token'[t].exp > now')
  <2>1. Ages(t) /\ token[t].exp \in Int
        BY <1>0, RowsAge, Fields DEF SessionInv, Types, TypeOK
  <2> QED
      BY <1>1, <1>2, <2>1 DEF Ages, Usable
<1>3. ASSUME NEW t \in refused'
      PROVE  t \in Token /\ token[t].state # "free" /\ ~Usable(t, now)
  <2>1. CASE t \in refused
        BY <2>1 DEF RefusalInv, RefusalIsFinal
  <2>2. CASE t \notin refused
    <3>1. PICK r \in Req : \/ Reject(r) /\ AnswerError(r, LoadError(req[r].tok))
                           \/ Fail(r) /\ AnswerError(r, CallError)
          BY <1>3, <2>2 DEF GrpcNext, grpcVars, heard
    <3>2. Reject(r) /\ t = req[r].tok /\ req[r].tok # None
          BY <1>3, <2>2, <3>1, CallErrorIsNoRefusal DEF AnswerError, Hears
    <3> QED
        BY <3>2, RefusedIsUnusable DEF RefusalInv
  <2> QED
      BY <2>1, <2>2
<1> QED
    BY <1>0, <1>2, <1>3 DEF RefusalInv, RefusalIsFinal, Usable

\* A client that gives up a token because it was told so loses nothing: no later
\* request could have used it (server.go:153-165, 178-190), for any number of
\* requests that race, wait, roll back or fail.
THEOREM RefusalsAreFinal == GrpcSpec => []RefusalIsFinal
<1>1. RefusalInv => RefusalIsFinal
      BY DEF RefusalInv
<1> QED
    BY <1>1, RefusalInit, RefusalNext, ServiceInvariants, PTL DEF GrpcSpec

-----------------------------------------------------------------------------
(* Replies.                                                                 *)

\* A request presents a token its client was given.  About to reply, it has
\* stored a token nobody was given yet, and spent the one it was called with in
\* the same transaction.
Carrying(q, rows, given) ==
    /\ q.tok # None => q.tok \in given
    /\ q.pc = "reply" =>
         /\ q.new \notin given
         /\ rows[q.new].state \in {"live", "gone"}
         /\ q.tok = None => rows[q.new].root = q.new
         /\ q.tok # None => /\ rows[q.tok].state \in {"revoked", "gone"}
                            /\ rows[q.tok].root = rows[q.new].root

Replies == \A r \in Req : Carrying(req[r], token, delivered)

\* The tokens of a session belong to one user, and are deleted together.
Families ==
    \A t \in Token : token[t].state # "free" =>
        /\ token[token[t].root].user = token[t].user
        /\ token[t].state = "gone" => token[token[t].root].state = "gone"

KeptInv == PresentsOwn /\ Replies /\ Families /\ SessionsAreKept

\* Only a token that was given to a client is revoked.
LEMMA RevokedWasGiven ==
    ASSUME SessionInv, Replies, [Next]_vars, NEW t \in Token, t \notin delivered,
           token[t].state \in {"live", "gone"}
    PROVE  token'[t].state \in {"live", "gone"}
<1>1. ASSUME NEW r \in Req, req[r].tok \in Token
      PROVE  req[r].tok # t
      BY <1>1, NoneAssumption DEF Replies, Carrying
<1>2. ASSUME NEW r \in Req, CreateRefreshToken(r)
      PROVE  token'[t].state \in {"live", "gone"}
      BY <1>2, Insertion
<1>3. ASSUME NEW r \in Req, RotateRefreshToken(r)
      PROVE  token'[t].state \in {"live", "gone"}
      BY <1>1, <1>3, Rotation
<1>4. ASSUME NEW r \in Req, RevokeRefreshToken(r)
      PROVE  token'[t].state \in {"live", "gone"}
      BY <1>1, <1>4, Revocation
<1>5. ASSUME NEW u \in User, DeleteCredential(u)
      PROVE  token'[t].state \in {"live", "gone"}
      BY <1>5, Deletion DEF SessionInv
<1> QED
    BY <1>2, <1>3, <1>4, <1>5, WhoWritesTokens DEF TokensWritten

\* What a request carries stays true of it while others move.
LEMMA CarryingStays ==
    ASSUME SessionInv, Replies, [Next]_vars, NEW p \in Req,
           delivered \subseteq delivered',
           req[p].pc = "reply" => req[p].new \notin delivered'
    PROVE  Carrying(req[p], token', delivered')
<1> DEFINE q == req[p]
<1>1. /\ Carrying(q, token, delivered) /\ q \in Requests
      /\ q.pc = "reply" => q.new \in Token
      BY DEF Replies, SessionInv, Types, TypeOK, Carries, Equipped
<1>2. q.tok # None => q.tok \in Token
      BY <1>1, Fields
<1>3. token' \in [Token -> Tokens]
      BY SessionNext DEF SessionInv, Types, TypeOK
<1>4. \A row \in Tokens : row.state \in {"free", "live", "revoked", "gone"}
      BY DEF Tokens
<1>5. CASE q.pc # "reply"
      BY <1>1, <1>5 DEF Carrying
<1>6. CASE q.pc = "reply"
  <2>1. Ages(q.new) /\ (q.tok # None => Ages(q.tok))
        BY <1>1, <1>2, <1>6, RowsAge
  <2>2. token'[q.new].state \in {"live", "gone"} /\ token'[q.new].root = token[q.new].root
        BY <1>1, <1>6, <2>1, RevokedWasGiven DEF Carrying, Ages
  <2>3. q.tok # None => /\ token'[q.tok].state \in {"revoked", "gone"}
                        /\ token'[q.tok].root = token[q.tok].root
        BY <1>1, <1>2, <1>3, <1>4, <1>6, <2>1 DEF Carrying, Ages
  <2> QED
      BY <1>1, <1>6, <2>2, <2>3 DEF Carrying
<1> QED
    BY <1>5, <1>6

\* One request moves.
LEMMA RepliesMove ==
    ASSUME SessionInv, Replies, [Next]_vars, NEW r \in Req, NEW q, Goto(r, q),
           Carrying(q, token', delivered'), delivered \subseteq delivered',
           \A p \in Req \ {r} : req[p].pc = "reply" => req[p].new \notin delivered'
    PROVE  Replies'
<1>1. req' = [req EXCEPT ![r] = q] /\ req \in [Req -> Requests]
      BY DEF Goto, SessionInv, Types, TypeOK
<1> SUFFICES ASSUME NEW p \in Req PROVE Carrying(req'[p], token', delivered')
    BY DEF Replies, Carrying
<1>2. CASE p = r
      BY <1>1, <1>2
<1>3. CASE p # r
      BY <1>1, <1>3, CarryingStays
<1> QED
    BY <1>2, <1>3

\* The requests that go on or return.
LEMMA RepliesProceed ==
    ASSUME SessionInv, PresentsOwn, Replies, NEW r \in Req, Proceed(r)
    PROVE  Replies'
<1>0. /\ [Next]_vars /\ req[r] \in Requests /\ Carrying(req[r], token, delivered)
      BY DEF Next, Continue, SessionInv, Types, TypeOK, Replies
<1>1. \A rows, given : Carrying(Idle, rows, given)
      BY Fields DEF Carrying
<1>2. \A p \in Req : req[p].pc = "reply" => req[p].new \notin delivered
      BY DEF Replies, Carrying
<1>3. CASE CreateVerificationCode(r) \/ VerifyRegistrationEmail(r) \/ RevokeRefreshToken(r)
      BY <1>0, <1>1, <1>2, <1>3, RepliesMove
      DEF CreateVerificationCode, VerifyRegistrationEmail, RevokeRefreshToken, Return
<1>4. CASE CreateRefreshToken(r)
  <2> DEFINE q == [req[r] EXCEPT !.pc = "reply"]
  <2>1. /\ Goto(r, q) /\ UNCHANGED delivered
        /\ q.pc = "reply" /\ q.new = req[r].new /\ q.tok = req[r].tok
        BY <1>0, <1>4, MoveRequest DEF CreateRefreshToken, GoOn
  <2>2. req[r].tok = None
        BY <1>4, Insertion DEF PresentsOwn
  <2>3. req[r].new \notin delivered
        BY <1>4, Insertion DEF SessionInv, Types, DeliveredTokensWereStored
  <2>4. Carrying(q, token', delivered')
        BY <1>4, <2>1, <2>2, <2>3, Insertion DEF Carrying
  <2> QED
      BY <1>0, <1>2, <2>1, <2>4, RepliesMove
<1>5. CASE LoadRefreshTokenForMutation(r)
  <2> DEFINE pc == IF req[r].pc = "loadRotate" THEN "rotate" ELSE "revoke"
             q == [req[r] EXCEPT !.pc = pc]
  <2>1. /\ Goto(r, q) /\ UNCHANGED delivered
        /\ q.pc # "reply" /\ q.tok = req[r].tok
        BY <1>0, <1>5, MoveRequest DEF LoadRefreshTokenForMutation, GoOn, Serves
  <2>2. Carrying(q, token', delivered')
        BY <1>0, <2>1 DEF Carrying
  <2> QED
      BY <1>0, <1>2, <2>1, <2>2, RepliesMove
<1>6. CASE RotateRefreshToken(r)
  <2> DEFINE q == [req[r] EXCEPT !.pc = "reply"]
  <2>1. /\ Goto(r, q) /\ UNCHANGED delivered
        /\ q.pc = "reply" /\ q.new = req[r].new /\ q.tok = req[r].tok
        BY <1>0, <1>6, MoveRequest DEF RotateRefreshToken, GoOn
  <2>2. req[r].new \notin delivered
        BY <1>6, Rotation DEF SessionInv, Types, DeliveredTokensWereStored
  <2>3. Carrying(q, token', delivered')
        BY <1>0, <1>6, <2>1, <2>2, Rotation, NoneAssumption DEF Carrying
  <2> QED
      BY <1>0, <1>2, <2>1, <2>3, RepliesMove
<1>7. CASE Reply(r)
  <2>1. Goto(r, Idle) /\ delivered' = delivered \cup {req[r].new} /\ req[r].pc = "reply"
        BY <1>7 DEF Reply, Return, Serves
  <2>2. req[r].new # None
        BY <2>1, NoneAssumption DEF SessionInv, Types, Carries, Equipped
  <2>3. \A p \in Req \ {r} : req[p].new # req[r].new
        BY <2>2 DEF SessionInv, Types, Draws
  <2> QED
      BY <1>0, <1>1, <1>2, <2>1, <2>3, RepliesMove
<1> QED
    BY <1>3, <1>4, <1>5, <1>6, <1>7 DEF Proceed

\* Every step.
LEMMA RepliesNext ==
    ASSUME SessionInv, PresentsOwn, Replies, [Next]_vars
    PROVE  Replies'
<1>1. \A p \in Req : req[p].pc = "reply" => req[p].new \notin delivered
      BY DEF Replies, Carrying
<1>2. ASSUME NEW r \in Req, Start(r)
      PROVE  Replies'
  <2>1. PICK q : /\ Goto(r, q) /\ UNCHANGED delivered /\ q.pc # "reply"
                 /\ q.tok = None \/ q.tok \in delivered
        BY <1>2, StartMoves
  <2>2. Carrying(q, token', delivered')
        BY <2>1 DEF Carrying
  <2> QED
      BY <1>1, <2>1, <2>2, RepliesMove
<1>3. ASSUME NEW r \in Req, Reject(r) \/ Fail(r)
      PROVE  Replies'
  <2>1. Goto(r, Idle) /\ UNCHANGED delivered
        BY <1>3 DEF Reject, Fail, Return
  <2>2. Carrying(Idle, token', delivered')
        BY Fields DEF Carrying
  <2> QED
      BY <1>1, <2>1, <2>2, RepliesMove
<1>4. ASSUME UNCHANGED <<req, delivered>>
      PROVE  Replies'
  <2> SUFFICES ASSUME NEW p \in Req PROVE Carrying(req'[p], token', delivered')
      BY DEF Replies, Carrying
  <2> QED
      BY <1>1, <1>4, CarryingStays
<1> QED
    BY <1>2, <1>3, <1>4, RepliesProceed
    DEF Next, Continue, DeactivateRegistrationAuth, DeleteCredential, Tick, vars

\* A successor has the user and the session of its predecessor, and a DELETE
\* marks the rows of one user alike.
LEMMA FamiliesNext ==
    ASSUME SessionInv, Families, [Next]_vars
    PROVE  Families'
<1> SUFFICES ASSUME NEW t \in Token, token'[t].state # "free"
             PROVE  /\ token'[token'[t].root].user = token'[t].user
                    /\ token'[t].state = "gone" => token'[token'[t].root].state = "gone"
    BY DEF Families
<1>1. ASSUME NEW x \in Token, token[x].state # "free"
      PROVE  /\ token[x].root \in Token /\ token[token[x].root].state # "free"
             /\ Ages(x) /\ Ages(token[x].root)
      BY <1>1, RowsAge DEF SessionInv, Sessions, RootsStored, Types, RowsOwned
<1>2. ASSUME token[t].state # "free"
      PROVE  token'[token'[t].root].user = token'[t].user
      BY <1>1, <1>2 DEF Families, Ages
<1>3. ASSUME token'[t] = token[t]
      PROVE  /\ token'[token'[t].root].user = token'[t].user
             /\ token'[t].state = "gone" => token'[token'[t].root].state = "gone"
      BY <1>1, <1>2, <1>3 DEF Families, Ages
<1>4. ASSUME NEW r \in Req, CreateRefreshToken(r)
      PROVE  /\ token'[token'[t].root].user = token'[t].user
             /\ token'[t].state = "gone" => token'[token'[t].root].state = "gone"
      BY <1>3, <1>4, Insertion
<1>5. ASSUME NEW r \in Req, RotateRefreshToken(r)
      PROVE  /\ token'[token'[t].root].user = token'[t].user
             /\ token'[t].state = "gone" => token'[token'[t].root].state = "gone"
  <2>1. CASE t = req[r].tok
        BY <1>2, <1>5, <2>1, Rotation
  <2>2. CASE t = req[r].new
    <3>1. LET old == req[r].tok IN
          /\ token'[t].user = token[old].user /\ token'[t].root = token[old].root
          /\ old \in Token /\ token[old].state # "free" /\ token'[t].state = "live"
          BY <1>5, <2>2, Rotation
    <3> QED
        BY <1>1, <3>1 DEF Families, Ages
  <2> QED
      BY <1>3, <1>5, <2>1, <2>2, Rotation
<1>6. ASSUME NEW r \in Req, RevokeRefreshToken(r)
      PROVE  /\ token'[token'[t].root].user = token'[t].user
             /\ token'[t].state = "gone" => token'[token'[t].root].state = "gone"
  <2>1. CASE t = req[r].tok
        BY <1>2, <1>6, <2>1, Revocation, MarkToken
  <2> QED
      BY <1>3, <1>6, <2>1, Revocation
<1>7. ASSUME NEW u \in User, DeleteCredential(u)
      PROVE  /\ token'[token'[t].root].user = token'[t].user
             /\ token'[t].state = "gone" => token'[token'[t].root].state = "gone"
  <2>1. token[t].user = u => token[t].state # "free"
        BY NoneAssumption DEF SessionInv, Types, RowsOwned
  <2>2. CASE token[t].user = u
    <3>1. token[t].state # "free" /\ token'[t].root = token[t].root
          BY <1>7, <2>1, <2>2, Deletion DEF SessionInv
    <3>2. token[t].root \in Token /\ token[token[t].root].user = u
          BY <1>1, <2>2, <3>1 DEF Families
    <3> QED
        BY <1>2, <1>7, <3>1, <3>2, Deletion DEF SessionInv
  <2> QED
      BY <1>3, <1>7, <2>2, Deletion DEF SessionInv
<1> QED
    BY <1>3, <1>4, <1>5, <1>6, <1>7, WhoWritesTokens DEF TokensWritten

\* A session is out of its client's reach by right, or by an internal error.
Excused(s) ==
    \/ token[s].root # s \/ token[s].state = "gone" \/ s \in ended
    \/ SessionOf(s) \cap lost # {}

InHand(t) == t \in delivered \/ \E r \in Req : req[r].pc = "reply" /\ req[r].new = t

\* An excuse does not go away; without one the client holds a live token.
LEMMA HeldBefore ==
    ASSUME SessionInv, SessionsAreKept, [Next]_vars, ended \subseteq ended',
           lost \subseteq lost', NEW s \in delivered, ~Excused(s)'
    PROVE  /\ s \in Token /\ token[s].root = s /\ token[s].state \notin {"free", "gone"}
           /\ s \notin ended' /\ SessionOf(s)' \cap lost' = {}
           /\ \E t \in Token : token[t].state = "live" /\ token[t].root = s /\ InHand(t)
<1>1. s \in Token /\ token[s].state # "free" /\ Ages(s)
      BY RowsAge DEF SessionInv, Types, TypeOK, DeliveredTokensWereStored
<1>2. token[s].root = s /\ token[s].state # "gone" /\ s \notin ended'
      BY <1>1 DEF Excused, Ages
<1>3. \A t \in SessionOf(s) : t \in SessionOf(s)'
      BY RowsAge DEF SessionOf, Ages
<1>4. SessionOf(s)' \cap lost' = {} /\ SessionOf(s) \cap lost = {}
      BY <1>3 DEF Excused
<1> QED
    BY <1>1, <1>2, <1>4 DEF SessionsAreKept, SessionOf, Live, InHand, Serves

\* Nothing was delivered at first.
LEMMA KeptInit == GrpcInit => KeptInv
BY Fields
DEF GrpcInit, Init, KeptInv, PresentsOwn, Replies, Carrying, Families, SessionsAreKept

\* COMMIT of a rotation hands the session over to a token that is on its way.
LEMMA KeptByRotation ==
    ASSUME SessionInv, KeptInv, NEW r \in Req, RotateRefreshToken(r), UNCHANGED lost
    PROVE  SessionsAreKept'
<1> SUFFICES ASSUME NEW s \in delivered, ~Excused(s)'
             PROVE  \E t \in Token : /\ token'[t].state = "live" /\ token'[t].root = s
                                     /\ InHand(t)'
    BY DEF SessionsAreKept, Excused, SessionOf, Live, InHand, Serves,
           RotateRefreshToken
<1>0. [Next]_vars /\ UNCHANGED <<delivered, ended>>
      BY DEF Next, Continue, Proceed, RotateRefreshToken
<1>1. PICK t \in Token : token[t].state = "live" /\ token[t].root = s /\ InHand(t)
      BY <1>0, HeldBefore DEF KeptInv
<1>2. /\ req' = [req EXCEPT ![r] = [req[r] EXCEPT !.pc = "reply"]]
      /\ req \in [Req -> Requests]
      BY DEF RotateRefreshToken, GoOn, Goto, SessionInv, Types, TypeOK
<1>3. req'[r].pc = "reply" /\ req'[r].new = req[r].new
      BY <1>2, MoveRequest
<1>4. CASE token[req[r].tok].root = s
      BY <1>3, <1>4, Rotation DEF InHand
<1>5. CASE token[req[r].tok].root # s
  <2>1. token'[t] = token[t]
        BY <1>1, <1>5, Rotation
  <2>2. InHand(t)'
        BY <1>0, <1>1, <1>2, Rotation DEF InHand
  <2> QED
      BY <1>1, <2>1, <2>2
<1> QED
    BY <1>4, <1>5

\* A reply puts the token of its session into the client's hands.
LEMMA KeptByReply ==
    ASSUME SessionInv, KeptInv, NEW r \in Req, Reply(r), UNCHANGED lost
    PROVE  SessionsAreKept'
<1> DEFINE new == req[r].new
<1>0. /\ [Next]_vars /\ UNCHANGED <<token, ended>>
      /\ delivered' = delivered \cup {new} /\ req[r].pc = "reply"
      /\ req' = [req EXCEPT ![r] = Idle]
      BY DEF Next, Continue, Proceed, Reply, tables, Return, Goto, Serves
<1>1. /\ new \in Token /\ token[new].state \in {"live", "gone"}
      /\ token[new].state = "gone" => token[token[new].root].state = "gone"
      BY <1>0
      DEF KeptInv, Replies, Carrying, Families, SessionInv, Types, Carries, Equipped
<1> SUFFICES ASSUME NEW s \in delivered', ~Excused(s)'
             PROVE  \E t \in Token : /\ token[t].state = "live" /\ token[t].root = s
                                     /\ InHand(t)'
    BY <1>0 DEF SessionsAreKept, Excused, SessionOf, Live, InHand, Serves
<1>2. CASE token[new].root = s
  <2>1. token[new].state = "live"
        BY <1>0, <1>1, <1>2 DEF Excused
  <2> QED
      BY <1>0, <1>1, <1>2, <2>1 DEF InHand
<1>3. CASE token[new].root # s
  <2>1. s \in delivered
        BY <1>0, <1>3 DEF Excused
  <2>2. PICK t \in Token : token[t].state = "live" /\ token[t].root = s /\ InHand(t)
        BY <1>0, <2>1, HeldBefore DEF KeptInv
  <2>3. InHand(t)'
        BY <1>0, <1>3, <2>2 DEF InHand, SessionInv, Types, TypeOK
  <2> QED
      BY <2>2, <2>3
<1> QED
    BY <1>2, <1>3

\* A failure that costs a session its token answers the Refresh with Internal.
LEMMA KeptByFailure ==
    ASSUME SessionInv, KeptInv, NEW r \in Req, Fail(r), AnswerError(r, CallError)
    PROVE  SessionsAreKept'
<1>0. /\ [Next]_vars /\ UNCHANGED <<token, delivered, ended>>
      /\ req' = [req EXCEPT ![r] = Idle] /\ lost \subseteq lost'
      BY DEF Next, Fail, Return, Goto, AnswerError
<1> SUFFICES ASSUME NEW s \in delivered, ~Excused(s)'
             PROVE  \E t \in Token : /\ token[t].state = "live" /\ token[t].root = s
                                     /\ InHand(t)'
    BY <1>0 DEF SessionsAreKept, Excused, SessionOf, Live, InHand, Serves
<1>1. /\ token[s].state # "gone" /\ SessionOf(s)' \cap lost' = {}
      /\ \E t \in Token : token[t].state = "live" /\ token[t].root = s /\ InHand(t)
      BY <1>0, HeldBefore DEF KeptInv
<1>2. PICK t \in Token : token[t].state = "live" /\ token[t].root = s /\ InHand(t)
      BY <1>1
<1>3. CASE t \in delivered \/ \E p \in Req \ {r} : req[p].pc = "reply" /\ req[p].new = t
      BY <1>0, <1>2, <1>3 DEF InHand, SessionInv, Types, TypeOK
<1>4. CASE req[r].pc = "reply" /\ req[r].new = t
  <2>1. req[r] \in Requests /\ Carrying(req[r], token, delivered)
        BY DEF KeptInv, Replies, SessionInv, Types, TypeOK
  <2>2. req[r].tok # None
        BY <1>2, <1>4, <2>1 DEF Carrying
  <2>3. req[r].tok \in lost'
        BY <1>4, <2>2
        DEF AnswerError, Hears, Serves, Status, CallError, TokenErrors
  <2>4. /\ req[r].tok \in Token /\ token[req[r].tok].root = s
        /\ token[req[r].tok].state \in {"revoked", "gone"}
        BY <1>2, <1>4, <2>1, <2>2, Fields DEF Carrying
  <2> QED
      BY <1>0, <1>1, <2>3, <2>4 DEF SessionOf
<1> QED
    BY <1>2, <1>3, <1>4 DEF InHand

\* The steps that leave the token of every session where it is, or end it.
LEMMA KeptElsewhere ==
    ASSUME SessionInv, KeptInv, [Next]_vars, UNCHANGED <<delivered, lost>>,
           ended \subseteq ended',
           \A p \in Req : req[p].pc = "reply" => req'[p] = req[p],
           \A t \in Token : token[t].state = "live" =>
              \/ token'[t] = token[t]
              \/ token[t].root \in ended'
              \/ token'[t].state = "gone" /\ token'[token[t].root].state = "gone"
    PROVE  SessionsAreKept'
<1> SUFFICES ASSUME NEW s \in delivered, ~Excused(s)'
             PROVE  \E t \in Token : /\ token'[t].state = "live" /\ token'[t].root = s
                                     /\ InHand(t)'
    BY DEF SessionsAreKept, Excused, SessionOf, Live, InHand, Serves
<1>1. PICK t \in Token : token[t].state = "live" /\ token[t].root = s /\ InHand(t)
      BY HeldBefore DEF KeptInv
<1>2. s \notin ended' /\ token'[s].state # "gone"
      BY DEF Excused
<1>3. token'[t] = token[t] /\ InHand(t)'
      BY <1>1, <1>2 DEF InHand
<1> QED
    BY <1>1, <1>3

\* Every step.
LEMMA KeptNext == SessionInv /\ KeptInv /\ [GrpcNext]_grpcVars => KeptInv'
<1> SUFFICES ASSUME SessionInv, KeptInv, [GrpcNext]_grpcVars PROVE KeptInv'
    OBVIOUS
<1>0. /\ [Next]_vars /\ PresentsOwn' /\ Replies' /\ Families'
      BY ServesTheService, PresentsNext, RepliesNext, FamiliesNext
      DEF KeptInv, SessionInv
<1>1. ASSUME UNCHANGED <<token, delivered, ended, lost>>,
             \A p \in Req : req[p].pc = "reply" => req'[p] = req[p]
      PROVE  SessionsAreKept'
      BY <1>0, <1>1, KeptElsewhere
<1>2. ASSUME NEW r \in Req, NEW q, Goto(r, q), req[r].pc # "reply", NEW p \in Req,
             req[p].pc = "reply"
      PROVE  req'[p] = req[p]
      BY <1>2 DEF Goto, SessionInv, Types, TypeOK
<1>3. ASSUME NEW r \in Req, Start(r), UNCHANGED heard
      PROVE  SessionsAreKept'
  <2>1. UNCHANGED <<token, delivered, ended>>
        BY <1>3
        DEF Start, CreateCredential, CreatePendingRegistration, StartVerify,
            IssueRegistrationTokens, SignIn, ReadVerified, StartSignOut, StartRefresh,
            InsertCredential, tables
  <2> QED
      BY <1>1, <1>2, <1>3, <2>1, StartMoves DEF Serves, heard
<1>4. ASSUME NEW r \in Req, Reject(r), AnswerError(r, LoadError(req[r].tok))
      PROVE  SessionsAreKept'
  <2>1. Goto(r, Idle) /\ req[r].pc # "reply" /\ UNCHANGED <<token, delivered, ended>>
        BY <1>4 DEF Reject, Return, Serves, tables
  <2>2. UNCHANGED lost
        BY <1>4, <2>1 DEF AnswerError, Serves
  <2> QED
      BY <1>1, <1>2, <2>1, <2>2
<1>5. ASSUME NEW r \in Req, UNCHANGED heard, CreateRefreshToken(r)
      PROVE  SessionsAreKept'
  <2>1. /\ UNCHANGED <<delivered, ended>> /\ req[r].pc = "insertToken"
        /\ \E q : Goto(r, q)
        /\ \A t \in Token : token[t].state = "live" => token'[t] = token[t]
        BY <1>5, Insertion DEF CreateRefreshToken, GoOn
  <2> QED
      BY <1>0, <1>2, <1>5, <2>1, KeptElsewhere DEF heard
<1>6. ASSUME NEW r \in Req, UNCHANGED heard, RevokeRefreshToken(r)
      PROVE  SessionsAreKept'
  <2>1. /\ UNCHANGED delivered /\ req[r].pc = "revoke" /\ Goto(r, Idle)
        /\ ended' = ended \cup {token[req[r].tok].root}
        /\ \A t \in Token \ {req[r].tok} : token'[t] = token[t]
        BY <1>6, Revocation DEF RevokeRefreshToken, Return
  <2> QED
      BY <1>0, <1>2, <1>6, <2>1, KeptElsewhere DEF heard
<1>7. ASSUME NEW u \in User, UNCHANGED heard, DeleteCredential(u)
      PROVE  SessionsAreKept'
  <2>1. UNCHANGED <<req, delivered, ended>>
        BY <1>7 DEF DeleteCredential
  <2>2. ASSUME NEW t \in Token, token[t].state = "live", token[t].user = u
        PROVE  token'[t].state = "gone" /\ token'[token[t].root].state = "gone"
    <3>1. token[t].root \in Token /\ token[token[t].root].user = u
          BY <2>2 DEF KeptInv, Families, SessionInv, Types, RowsOwned
    <3> QED
        BY <1>7, <2>2, <3>1, Deletion DEF SessionInv
  <2>3. \A t \in Token : token[t].user # u => token'[t] = token[t]
        BY <1>7, Deletion DEF SessionInv
  <2> QED
      BY <1>0, <1>7, <2>1, <2>2, <2>3, KeptElsewhere DEF heard
<1>8. ASSUME NEW r \in Req, UNCHANGED heard,
             \/ CreateVerificationCode(r) \/ VerifyRegistrationEmail(r)
             \/ LoadRefreshTokenForMutation(r)
      PROVE  SessionsAreKept'
  <2>1. /\ UNCHANGED <<token, delivered, ended>> /\ req[r].pc # "reply"
        /\ \E q : Goto(r, q)
        BY <1>8
        DEF CreateVerificationCode, InsertCode, VerifyRegistrationEmail, VerifyEmail,
            LoadRefreshTokenForMutation, LoadForMutation, GoOn, Return, Serves
  <2> QED
      BY <1>1, <1>2, <1>8, <2>1 DEF heard
<1>9. ASSUME UNCHANGED <<token, req, delivered, ended, lost>>
      PROVE  SessionsAreKept'
      BY <1>1, <1>9
<1>10. SessionsAreKept'
       BY <1>3, <1>4, <1>5, <1>6, <1>7, <1>8, <1>9, KeptByFailure, KeptByRotation,
          KeptByReply
       DEF GrpcNext, Proceed, DeactivateRegistrationAuth, UpdateDeactivated, Tick,
           grpcVars, vars, tables, heard
<1> QED
    BY <1>0, <1>10 DEF KeptInv

\* No client loses a session to a reply: whatever other requests present, spend
\* or fail, the token that goes on with the session is live and in the client's
\* hands or on its way, unless the session was signed out or deleted, or a
\* Refresh of it was answered Internal after its COMMIT (server.go:161-163,
\* service.go:303-318).
THEOREM SessionsSurviveReplies == GrpcSpec => []SessionsAreKept
<1>1. KeptInv => SessionsAreKept
      BY DEF KeptInv
<1> QED
    BY <1>1, KeptInit, KeptNext, ServiceInvariants, PTL DEF GrpcSpec

=============================================================================

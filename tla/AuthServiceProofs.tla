-------------------------- MODULE AuthServiceProofs --------------------------
(***************************************************************************)
(* Proofs about AuthService for all users, tokens, codes and requests.     *)
(***************************************************************************)
EXTENDS AuthService, TLAPS

USE NoneAssumption, TimeAssumption

-----------------------------------------------------------------------------
(* Rows.                                                                    *)

\* Mark changes the state of a code row and nothing else.
LEMMA MarkCode ==
    ASSUME NEW row \in Codes, NEW state \in {"used", "gone"}
    PROVE  Mark(row, state) \in Codes
BY DEF Codes, Mark

\* Mark changes the state of a token row and nothing else.
LEMMA MarkToken ==
    ASSUME NEW row \in Tokens, NEW state \in {"revoked", "gone"}
    PROVE  /\ Mark(row, state) \in Tokens
           /\ Mark(row, state).state = state
           /\ Mark(row, state).user = row.user
           /\ Mark(row, state).exp = row.exp
           /\ Mark(row, state).root = row.root
BY DEF Tokens, Mark

\* A new token row is live and carries what it was inserted with.
LEMMA NewToken ==
    ASSUME NEW u \in User, NEW e \in Int, NEW root \in Token
    PROVE  /\ TokenRow(u, e, root) \in Tokens
           /\ TokenRow(u, e, root).state = "live"
           /\ TokenRow(u, e, root).user = u
           /\ TokenRow(u, e, root).exp = e
           /\ TokenRow(u, e, root).root = root
BY DEF Tokens, TokenRow

\* Moving a request to its next step changes its pc and nothing else.
LEMMA MoveRequest ==
    ASSUME NEW q \in Requests,
           NEW pc \in {"rotate", "revoke", "reply"}
    PROVE  /\ [q EXCEPT !.pc = pc] \in Requests
           /\ [q EXCEPT !.pc = pc].pc = pc
           /\ [q EXCEPT !.pc = pc].user = q.user
           /\ [q EXCEPT !.pc = pc].code = q.code
           /\ [q EXCEPT !.pc = pc].tok = q.tok
           /\ [q EXCEPT !.pc = pc].new = q.new
           /\ [q EXCEPT !.pc = pc].at = q.at
BY DEF Requests

\* What the shape of a row or of a request says about its fields.
LEMMA Fields ==
    /\ \A row \in Tokens : /\ row.user \in User \cup {None}
                           /\ row.root \in Token \cup {None}
                           /\ row.exp \in Int
    /\ \A q \in Requests : /\ q.user \in User \cup {None}
                           /\ q.code \in Code \cup {None}
                           /\ q.tok \in Token \cup {None}
                           /\ q.new \in Token \cup {None}
                           /\ q.at \in Int
    /\ Idle \in Requests /\ Idle.pc = "idle" /\ Idle.new = None /\ Idle.tok = None
    /\ FreeToken \in Tokens /\ FreeToken.state = "free" /\ FreeToken.user = None
    /\ FreeCode \in Codes /\ FreeCode.state = "free"
    /\ NoCredential \in Credentials /\ NoCredential.status = "none"
BY DEF Tokens, Requests, Idle, FreeToken, FreeCode, NoCredential, Credentials, Codes

-----------------------------------------------------------------------------
(* Types.                                                                   *)

\* Rows that are or were stored belong to a user and to a session, free names
\* to nobody.
RowsOwned ==
    \A t \in Token :
        /\ token[t].state # "free" => token[t].user \in User /\ token[t].root \in Token
        /\ token[t].state = "free" => token[t].user = None

\* A request carries what its next step needs; the token it presents has been
\* stored, and so has the token it is about to hand out.
Equipped(q, rows) ==
    /\ q.pc \in {"insertCode", "verify"} => q.user \in User /\ q.code \in Code
    /\ q.pc = "insertToken" => q.user \in User
    /\ q.pc \in {"loadRotate", "loadRevoke", "rotate", "revoke"}
          => q.tok \in Token /\ rows[q.tok].state # "free"
    /\ q.pc \in {"insertToken", "loadRotate", "rotate", "reply"} => q.new \in Token
    /\ q.pc = "reply" => rows[q.new].state # "free"

Carries == \A r \in Req : Equipped(req[r], token)

\* What a request has drawn is not stored before its INSERT, and no two
\* requests draw the same.
Drawing(q) == q.pc \in {"insertToken", "loadRotate", "rotate"}

Draws ==
    /\ \A r \in Req : Drawing(req[r]) => token[req[r].new].state = "free"
    /\ \A r1, r2 \in Req :
         req[r1].new = req[r2].new /\ req[r1].new # None => r1 = r2

Types == TypeOK /\ RowsOwned /\ Carries /\ Draws /\ DeliveredTokensWereStored

\* The tables are empty and every request is idle at first.
LEMMA TypesInit == Init => Types
BY Fields
DEF Init, Types, TypeOK, RowsOwned, Carries, Equipped, Draws,
    Drawing, DeliveredTokensWereStored

\* Rows that were stored stay stored, at most they are marked.
KeepStored ==
    \A t \in Token : token[t].state # "free" =>
        /\ token'[t].state # "free"
        /\ token'[t].user = token[t].user
        /\ token'[t].root = token[t].root

\* What nobody stored stays free, but for what this step inserts.
KeepFree(n) ==
    \A t \in Token : token[t].state = "free" /\ t # n => token'[t].state = "free"

\* One request moves, to a state that is equipped for its next step; it has
\* drawn nothing new, or something nobody else has.
LEMMA RequestMoves ==
    ASSUME Types, token' \in [Token -> Tokens], KeepStored,
           NEW r \in Req, NEW q \in Requests, Goto(r, q), Equipped(q, token'),
           KeepFree(req[r].new),
           Drawing(q) => token'[q.new].state = "free",
           \/ q.new \in {req[r].new, None}
           \/ \A p \in Req : req[p].new # q.new
    PROVE  req' \in [Req -> Requests] /\ Carries' /\ Draws'
<1>1. req' = [req EXCEPT ![r] = q] /\ req \in [Req -> Requests]
      BY DEF Goto, Types, TypeOK
<1>2. ASSUME NEW p \in Req PROVE Equipped(req'[p], token')
  <2>1. CASE p = r
        BY <1>1, <2>1
  <2>2. CASE p # r
    <3>1. req'[p] = req[p] /\ Equipped(req[p], token)
          BY <1>1, <2>2 DEF Types, Carries
    <3> QED
        BY <3>1 DEF Equipped, KeepStored
  <2> QED
      BY <2>1, <2>2
<1>3. ASSUME NEW p \in Req, Drawing(req'[p])
      PROVE  token'[req'[p].new].state = "free"
  <2>1. CASE p = r
        BY <1>1, <1>3, <2>1
  <2>2. CASE p # r
    <3>1. req'[p] = req[p]
          BY <1>1, <2>2
    <3>2. req[p].new \in Token /\ token[req[p].new].state = "free"
          BY <1>3, <3>1 DEF Types, Carries, Equipped, Draws, Drawing
    <3>3. req[p].new # req[r].new
          BY <3>2, <2>2, NoneAssumption DEF Types, Draws
    <3> QED
        BY <3>1, <3>2, <3>3 DEF KeepFree
  <2> QED
      BY <2>1, <2>2
<1>4. ASSUME NEW p1 \in Req, NEW p2 \in Req,
             req'[p1].new = req'[p2].new, req'[p1].new # None
      PROVE  p1 = p2
      BY <1>1, <1>4 DEF Types, Draws
<1> QED
    BY <1>1, <1>2, <1>3, <1>4 DEF Carries, Draws

\* No request moves.
LEMMA RequestsStay ==
    ASSUME Types, token' \in [Token -> Tokens], KeepStored, KeepFree(None),
           UNCHANGED req
    PROVE  req' \in [Req -> Requests] /\ Carries' /\ Draws'
<1>1. req' \in [Req -> Requests] /\ Carries'
      BY DEF Types, TypeOK, Carries, Equipped, KeepStored
<1>2. ASSUME NEW r \in Req, Drawing(req[r]) PROVE token'[req[r].new].state = "free"
      BY <1>2, NoneAssumption
      DEF Types, Carries, Equipped, Draws, Drawing, KeepFree
<1> QED
    BY <1>1, <1>2 DEF Types, Draws

\* What an action that leaves the refresh tokens alone has to keep.
LEMMA TokensUntouched ==
    ASSUME Types, UNCHANGED token
    PROVE  /\ token' \in [Token -> Tokens] /\ KeepStored /\ RowsOwned'
           /\ \A n : KeepFree(n)
BY DEF Types, TypeOK, KeepStored, RowsOwned, KeepFree

\* What an INSERT of a refresh token has to keep.
LEMMA TokenInserted ==
    ASSUME Types, NEW n \in Token, token[n].state = "free",
           NEW u \in User, NEW e \in Int, NEW root \in Token,
           token' = [token EXCEPT ![n] = TokenRow(u, e, root)]
    PROVE  /\ token' \in [Token -> Tokens] /\ KeepStored /\ RowsOwned'
           /\ KeepFree(n) /\ token'[n].state = "live"
BY NewToken DEF Types, TypeOK, KeepStored, RowsOwned, KeepFree
\* Types' from its parts, when the rows and the requests are done with.
LEMMA TypesFrom ==
    ASSUME Types, token' \in [Token -> Tokens], KeepStored, RowsOwned',
           req' \in [Req -> Requests], Carries', Draws',
           cred' \in [User -> Credentials], code' \in [Code -> Codes],
           lock' \in [User -> Req \cup {None}], now' \in Int,
           delivered' \subseteq Token, ended' \subseteq Token,
           \A t \in delivered' : t \in delivered \/ token[t].state # "free"
    PROVE  Types'
BY DEF Types, TypeOK, KeepStored, DeliveredTokensWereStored

\* A request that starts carries what it was called with.
LEMMA TypesStart ==
    ASSUME Types, NEW r \in Req, Start(r)
    PROVE  Types'
<1>0. UNCHANGED <<token, lock, now, delivered, ended>>
      BY DEF Start, CreateCredential, CreatePendingRegistration, StartVerify,
             IssueRegistrationTokens, SignIn, ReadVerified, StartSignOut,
             StartRefresh, InsertCredential, tables
<1>1. token' \in [Token -> Tokens] /\ KeepStored /\ RowsOwned' /\ \A n : KeepFree(n)
      BY <1>0, TokensUntouched
<1>2. cred' \in [User -> Credentials] /\ code' \in [Code -> Codes]
  <2>1. ASSUME NEW u \in User, InsertCredential(u)
        PROVE  cred' \in [User -> Credentials] /\ code' \in [Code -> Codes]
        BY <2>1 DEF InsertCredential, Credentials, Types, TypeOK
  <2>2. ASSUME UNCHANGED tables
        PROVE  cred' \in [User -> Credentials] /\ code' \in [Code -> Codes]
        BY <2>2 DEF tables, Types, TypeOK
  <2> QED
      BY <2>1, <2>2
      DEF Start, CreateCredential, CreatePendingRegistration, StartVerify,
          IssueRegistrationTokens, SignIn, ReadVerified, StartSignOut, StartRefresh
<1>3. SUFFICES req' \in [Req -> Requests] /\ Carries' /\ Draws'
      BY <1>0, <1>1, <1>2, TypesFrom DEF Types, TypeOK
<1>4. ASSUME NEW u \in User, CreateCredential(r, u)
      PROVE  req' \in [Req -> Requests] /\ Carries' /\ Draws'
  <2>1. Goto(r, Idle) /\ Equipped(Idle, token') /\ ~Drawing(Idle)
        BY <1>4, Fields DEF CreateCredential, Return, Equipped, Drawing
  <2> QED
      BY <1>1, <2>1, Fields, RequestMoves
<1>5. ASSUME NEW u \in User, NEW c \in Code,
             CreatePendingRegistration(r, u, c) \/ StartVerify(r, u, c)
      PROVE  req' \in [Req -> Requests] /\ Carries' /\ Draws'
  <2>1. PICK pc \in {"insertCode", "verify"} :
             Goto(r, Locals(pc, u, c, None, None))
        BY <1>5 DEF CreatePendingRegistration, StartVerify
  <2> DEFINE q == Locals(pc, u, c, None, None)
  <2>2. q \in Requests /\ Equipped(q, token') /\ ~Drawing(q) /\ q.new = None
        BY DEF Locals, Requests, Equipped, Drawing, Types, TypeOK
  <2> QED
      BY <1>1, <2>1, <2>2, RequestMoves
<1>6. ASSUME NEW u \in User, NEW t \in Token, ReadVerified(r, u, t)
      PROVE  req' \in [Req -> Requests] /\ Carries' /\ Draws'
  <2> DEFINE q == Locals("insertToken", u, None, None, t)
  <2>1. Goto(r, q) /\ token[t].state = "free" /\ \A p \in Req : req[p].new # t
        BY <1>6 DEF ReadVerified, FreshToken, Drawn
  <2>2. q \in Requests /\ Equipped(q, token') /\ q.new = t
        BY DEF Locals, Requests, Equipped, Types, TypeOK
  <2> QED
      BY <1>0, <1>1, <2>1, <2>2, RequestMoves
<1>7. ASSUME NEW t \in Token, StartSignOut(r, t)
      PROVE  req' \in [Req -> Requests] /\ Carries' /\ Draws'
  <2> DEFINE q == Locals("loadRevoke", None, None, t, None)
  <2>1. Goto(r, q) /\ token[t].state # "free"
        BY <1>7 DEF StartSignOut, Types, DeliveredTokensWereStored
  <2>2. q \in Requests /\ Equipped(q, token') /\ ~Drawing(q) /\ q.new = None
        BY <1>0, <2>1 DEF Locals, Requests, Equipped, Drawing, Types, TypeOK
  <2> QED
      BY <1>1, <2>1, <2>2, RequestMoves
<1>8. ASSUME NEW t \in Token, NEW new \in Token, StartRefresh(r, t, new)
      PROVE  req' \in [Req -> Requests] /\ Carries' /\ Draws'
  <2> DEFINE q == Locals("loadRotate", None, None, t, new)
  <2>1. /\ Goto(r, q) /\ token[t].state # "free"
        /\ token[new].state = "free" /\ \A p \in Req : req[p].new # new
        BY <1>8 DEF StartRefresh, FreshToken, Drawn, Types, DeliveredTokensWereStored
  <2>2. q \in Requests /\ Equipped(q, token') /\ q.new = new
        BY <1>0, <2>1 DEF Locals, Requests, Equipped, Types, TypeOK
  <2> QED
      BY <1>0, <1>1, <2>1, <2>2, RequestMoves
<1> QED
    BY <1>4, <1>5, <1>6, <1>7, <1>8 DEF Start, IssueRegistrationTokens, SignIn

\* A request that goes on returns, or carries on with what it had.
LEMMA TypesContinue ==
    ASSUME Types, NEW r \in Req, Continue(r)
    PROVE  Types'
<1>1. Idle \in Requests /\ ~Drawing(Idle) /\ Idle.new = None /\ Equipped(Idle, token')
      BY Fields DEF Drawing, Equipped
<1>2. req[r] \in Requests /\ Equipped(req[r], token)
      BY DEF Types, TypeOK, Carries
<1>3. CASE CreateVerificationCode(r)
  <2> DEFINE q == req[r]
             row == [state |-> "fresh", user |-> q.user, exp |-> q.at + CodeTTL]
  <2>1. /\ UNCHANGED <<token, cred, lock, now, delivered, ended>>
        /\ Goto(r, Idle) /\ q.pc = "insertCode"
        /\ code' = [code EXCEPT ![q.code] = row]
        BY <1>3 DEF CreateVerificationCode, InsertCode, Return, Serves
  <2>2. row \in Codes
        BY <1>2, Fields, TimeAssumption DEF Codes
  <2>3. code' \in [Code -> Codes]
        BY <2>1, <2>2 DEF Types, TypeOK
  <2> QED
      BY <1>1, <2>1, <2>3, TokensUntouched, RequestMoves, TypesFrom DEF Types, TypeOK
<1>4. CASE VerifyRegistrationEmail(r)
  <2> DEFINE q == req[r]
             verified == [status |-> "email_verified", verified |-> TRUE]
  <2>1. /\ UNCHANGED <<token, lock, now, delivered, ended>>
        /\ Goto(r, Idle) /\ q.pc = "verify"
        /\ code' = [code EXCEPT ![q.code] = Mark(@, "used")]
        /\ cred' = [cred EXCEPT ![q.user] = verified]
        BY <1>4 DEF VerifyRegistrationEmail, VerifyEmail, Return, Serves
  <2>2. q.user \in User /\ q.code \in Code
        BY <1>2, <2>1 DEF Equipped
  <2>3. code' \in [Code -> Codes]
        BY <2>1, <2>2, MarkCode DEF Types, TypeOK
  <2>4. cred' \in [User -> Credentials]
        BY <2>1, <2>2 DEF Types, TypeOK, Credentials
  <2> QED
      BY <1>1, <2>1, <2>3, <2>4, TokensUntouched, RequestMoves, TypesFrom
      DEF Types, TypeOK
<1>5. CASE CreateRefreshToken(r)
  <2> DEFINE p == req[r]
             q == [p EXCEPT !.pc = "reply"]
  <2>1. /\ UNCHANGED <<cred, code, lock, now, delivered, ended>>
        /\ Goto(r, q) /\ p.pc = "insertToken"
        /\ token' = [token EXCEPT ![p.new] = TokenRow(p.user, p.at + TokenTTL, p.new)]
        BY <1>5 DEF CreateRefreshToken, InsertToken, GoOn, Serves
  <2>2. p.user \in User /\ p.new \in Token /\ p.at + TokenTTL \in Int
        /\ token[p.new].state = "free"
        BY <1>2, <2>1, Fields, TimeAssumption DEF Equipped, Types, Draws, Drawing
  <2>3. /\ token' \in [Token -> Tokens] /\ KeepStored /\ RowsOwned'
        /\ KeepFree(p.new) /\ token'[p.new].state = "live"
        BY <2>1, <2>2, TokenInserted
  <2>4. q \in Requests /\ q.pc = "reply" /\ q.new = p.new
        BY <1>2, MoveRequest
  <2>5. Equipped(q, token') /\ ~Drawing(q)
        BY <2>2, <2>3, <2>4 DEF Equipped, Drawing
  <2>6. req' \in [Req -> Requests] /\ Carries' /\ Draws'
        BY <2>1, <2>3, <2>4, <2>5, RequestMoves
  <2> QED
      BY <2>1, <2>3, <2>6, TypesFrom DEF Types, TypeOK
<1>6. CASE LoadRefreshTokenForMutation(r)
  <2> DEFINE p == req[r]
  <2>9. PICK pc \in {"rotate", "revoke"} :
             pc = IF p.pc = "loadRotate" THEN "rotate" ELSE "revoke"
        OBVIOUS
  <2> DEFINE q == [p EXCEPT !.pc = pc]
  <2>1. /\ UNCHANGED <<token, cred, code, now, delivered, ended>>
        /\ Goto(r, q) /\ p.pc \in {"loadRotate", "loadRevoke"}
        /\ lock' = [lock EXCEPT ![token[p.tok].user] = r]
        BY <1>6, <2>9 DEF LoadRefreshTokenForMutation, LoadForMutation, GoOn, Serves
  <2>2. token' \in [Token -> Tokens] /\ KeepStored /\ RowsOwned' /\ \A n : KeepFree(n)
        BY <2>1, TokensUntouched
  <2>3. q \in Requests /\ q.pc = pc /\ q.tok = p.tok /\ q.new = p.new
        BY <1>2, <2>9 DEF Requests
  <2>4. /\ p.tok \in Token /\ token'[p.tok].state # "free"
        /\ p.pc = "loadRotate" => p.new \in Token
        BY <1>2, <2>1 DEF Equipped
  <2>5. pc = "rotate" => p.new \in Token /\ token'[p.new].state = "free"
        BY <2>1, <2>4, <2>9 DEF Types, Draws, Drawing
  <2>8. Equipped(q, token') /\ (Drawing(q) => token'[q.new].state = "free")
        BY <2>3, <2>4, <2>5, <2>9 DEF Equipped, Drawing
  <2>6. req' \in [Req -> Requests] /\ Carries' /\ Draws'
        BY <2>1, <2>2, <2>3, <2>8, RequestMoves
  <2>7. lock' \in [User -> Req \cup {None}]
        BY <2>1 DEF Types, TypeOK
  <2> QED
      BY <2>1, <2>2, <2>6, <2>7, TypesFrom DEF Types, TypeOK
<1>7. CASE RotateRefreshToken(r)
  <2> DEFINE p == req[r]
             q == [p EXCEPT !.pc = "reply"]
             old == token[p.tok]
             row == TokenRow(old.user, p.at + TokenTTL, old.root)
  <2>1. /\ UNCHANGED <<cred, code, now, delivered, ended>>
        /\ Goto(r, q) /\ p.pc = "rotate" /\ Release(r)
        /\ token' = [token EXCEPT ![p.tok] = Mark(@, "revoked"), ![p.new] = row]
        BY <1>7 DEF RotateRefreshToken, CommitRotation, GoOn, Serves
  <2>2. /\ p.tok \in Token /\ old.state # "free"
        /\ p.new \in Token /\ token[p.new].state = "free"
        /\ p.at + TokenTTL \in Int
        BY <1>2, <2>1, Fields, TimeAssumption DEF Equipped, Types, Draws, Drawing
  <2>3. old.user \in User /\ old.root \in Token /\ old \in Tokens
        BY <2>2 DEF Types, TypeOK, RowsOwned
  <2>4. row \in Tokens /\ row.state = "live" /\ row.user = old.user /\ row.root = old.root
        BY <2>2, <2>3, NewToken
  <2>5. /\ Mark(old, "revoked") \in Tokens /\ Mark(old, "revoked").state = "revoked"
        /\ Mark(old, "revoked").user = old.user /\ Mark(old, "revoked").root = old.root
        BY <2>3, MarkToken
  <2>6. /\ token' \in [Token -> Tokens]
        /\ token'[p.new] = row /\ token'[p.tok] = Mark(old, "revoked")
        /\ \A x \in Token \ {p.new, p.tok} : token'[x] = token[x]
        BY <2>1, <2>2, <2>4, <2>5 DEF Types, TypeOK
  <2>7. KeepStored /\ KeepFree(p.new)
        BY <2>2, <2>5, <2>6 DEF KeepStored, KeepFree
  <2>8. RowsOwned'
        BY <2>2, <2>3, <2>4, <2>5, <2>6 DEF Types, RowsOwned
  <2>9. /\ q \in Requests /\ q.pc = "reply" /\ q.new = p.new
        BY <1>2, MoveRequest
  <2>10. Equipped(q, token') /\ ~Drawing(q)
        BY <2>2, <2>4, <2>6, <2>9 DEF Equipped, Drawing
  <2>11. req' \in [Req -> Requests] /\ Carries' /\ Draws'
        BY <2>1, <2>6, <2>7, <2>9, <2>10, RequestMoves
  <2>12. lock' \in [User -> Req \cup {None}]
        BY <2>1 DEF Types, TypeOK, Release
  <2> QED
      BY <2>1, <2>6, <2>7, <2>8, <2>11, <2>12, TypesFrom DEF Types, TypeOK
<1>8. CASE RevokeRefreshToken(r)
  <2> DEFINE p == req[r]
             old == token[p.tok]
  <2>1. /\ UNCHANGED <<cred, code, now, delivered>>
        /\ Goto(r, Idle) /\ p.pc = "revoke" /\ Release(r)
        /\ token' = [token EXCEPT ![p.tok] = Mark(@, "revoked")]
        /\ ended' = ended \cup {old.root}
        BY <1>8 DEF RevokeRefreshToken, CommitRevocation, Return, Serves
  <2>2. p.tok \in Token /\ old.state # "free"
        BY <1>2, <2>1 DEF Equipped
  <2>3. old.user \in User /\ old.root \in Token /\ old \in Tokens
        BY <2>2 DEF Types, TypeOK, RowsOwned
  <2>4. /\ Mark(old, "revoked") \in Tokens /\ Mark(old, "revoked").state = "revoked"
        /\ Mark(old, "revoked").user = old.user /\ Mark(old, "revoked").root = old.root
        BY <2>3, MarkToken
  <2>9. /\ token' \in [Token -> Tokens]
        /\ token'[p.tok] = Mark(old, "revoked")
        /\ \A x \in Token \ {p.tok} : token'[x] = token[x]
        BY <2>1, <2>2, <2>4 DEF Types, TypeOK
  <2>5. KeepStored /\ RowsOwned' /\ \A n : KeepFree(n)
        BY <2>2, <2>3, <2>4, <2>9 DEF Types, KeepStored, RowsOwned, KeepFree
  <2>6. req' \in [Req -> Requests] /\ Carries' /\ Draws'
        BY <1>1, <2>1, <2>5, <2>9, RequestMoves
  <2>7. lock' \in [User -> Req \cup {None}] /\ ended' \subseteq Token
        BY <2>1, <2>3 DEF Types, TypeOK, Release
  <2> QED
      BY <2>1, <2>5, <2>6, <2>7, <2>9, TypesFrom DEF Types, TypeOK
<1>9. CASE Reply(r)
  <2>1. /\ UNCHANGED <<token, cred, code, lock, now, ended>>
        /\ Goto(r, Idle) /\ req[r].pc = "reply"
        /\ delivered' = delivered \cup {req[r].new}
        BY <1>9 DEF Reply, Return, Serves, tables
  <2>2. req[r].new \in Token /\ token[req[r].new].state # "free"
        BY <1>2, <2>1 DEF Equipped
  <2> QED
      BY <1>1, <2>1, <2>2, TokensUntouched, RequestMoves, TypesFrom DEF Types, TypeOK
<1>10. CASE Reject(r)
  <2>1. UNCHANGED <<token, cred, code, lock, now, delivered, ended>> /\ Goto(r, Idle)
        BY <1>10 DEF Reject, Return, tables
  <2> QED
      BY <1>1, <2>1, TokensUntouched, RequestMoves, TypesFrom DEF Types, TypeOK
<1> QED
    BY <1>3, <1>4, <1>5, <1>6, <1>7, <1>8, <1>9, <1>10 DEF Continue, Proceed

\* Every step keeps the types, the shape of requests and what they have drawn.
LEMMA TypesNext == Types /\ [Next]_vars => Types'
<1> SUFFICES ASSUME Types, [Next]_vars PROVE Types'
    OBVIOUS
<1>1. ASSUME NEW r \in Req, Fail(r)
      PROVE  Types'
  <2>1. /\ UNCHANGED <<token, cred, code, now, delivered, ended>>
        /\ Goto(r, Idle) /\ Release(r)
        BY <1>1 DEF Fail, Return
  <2>2. Idle \in Requests /\ ~Drawing(Idle) /\ Idle.new = None /\ Equipped(Idle, token')
        BY Fields DEF Drawing, Equipped
  <2>3. lock' \in [User -> Req \cup {None}]
        BY <2>1 DEF Types, TypeOK, Release
  <2> QED
      BY <2>1, <2>2, <2>3, TokensUntouched, RequestMoves, TypesFrom DEF Types, TypeOK
<1>2. ASSUME NEW u \in User, DeactivateRegistrationAuth(u)
      PROVE  Types'
  <2>1. /\ UNCHANGED <<token, code, lock, req, now, delivered, ended>>
        /\ cred' \in [User -> Credentials]
        BY <1>2 DEF DeactivateRegistrationAuth, UpdateDeactivated, Types, TypeOK, Credentials
  <2> QED
      BY <2>1, TokensUntouched, RequestsStay, TypesFrom DEF Types, TypeOK
<1>3. ASSUME NEW u \in User, DeleteCredential(u)
      PROVE  Types'
  <2>1. /\ UNCHANGED <<lock, req, now, delivered, ended>>
        /\ cred' = [cred EXCEPT ![u] = NoCredential]
        /\ code' = [c \in Code |->
                      IF code[c].user = u THEN Mark(code[c], "gone") ELSE code[c]]
        /\ token' = [t \in Token |->
                       IF token[t].user = u THEN Mark(token[t], "gone") ELSE token[t]]
        BY <1>3 DEF DeleteCredential, DeleteRows
  <2>2. cred' \in [User -> Credentials] /\ code' \in [Code -> Codes]
    <3>1. ASSUME NEW c \in Code PROVE Mark(code[c], "gone") \in Codes /\ code[c] \in Codes
      <4>1. code[c] \in Codes
            BY DEF Types, TypeOK
      <4> QED
          BY <4>1, MarkCode
    <3> QED
        BY <2>1, <3>1, Fields DEF Types, TypeOK
  <2>3. \A t \in Token : \/ token'[t] = token[t]
                          \/ /\ token'[t] = Mark(token[t], "gone")
                             /\ token[t].user = u
        BY <2>1
  <2>7. ASSUME NEW t \in Token
        PROVE  /\ token[t] \in Tokens /\ Mark(token[t], "gone") \in Tokens
               /\ Mark(token[t], "gone").state # "free"
               /\ Mark(token[t], "gone").user = token[t].user
               /\ Mark(token[t], "gone").root = token[t].root
    <3>1. token[t] \in Tokens
          BY DEF Types, TypeOK
    <3> QED
        BY <3>1, MarkToken
  <2>4. token' \in [Token -> Tokens]
        BY <2>1, <2>7
  <2>5. KeepStored /\ RowsOwned'
        BY <2>3, <2>7, NoneAssumption DEF Types, KeepStored, RowsOwned
  <2>6. KeepFree(None)
        BY <2>3, NoneAssumption DEF KeepFree, Types, RowsOwned
  <2> QED
      BY <2>1, <2>2, <2>4, <2>5, <2>6, RequestsStay, TypesFrom DEF Types, TypeOK
<1>4. CASE Tick
  <2>1. UNCHANGED <<token, cred, code, lock, req, delivered, ended>> /\ now' \in Int
        BY <1>4 DEF Tick, tables, Types, TypeOK
  <2> QED
      BY <2>1, TokensUntouched, RequestsStay, TypesFrom DEF Types, TypeOK
<1>5. CASE UNCHANGED vars
      BY <1>5, TokensUntouched, RequestsStay, TypesFrom DEF vars, tables, Types, TypeOK
<1> QED
    BY <1>1, <1>2, <1>3, <1>4, <1>5, TypesStart, TypesContinue DEF Next

\* What TLC checks of the tables on two users holds of any number: Types is
\* inductive.
THEOREM TypesHold == Spec => []Types
BY TypesInit, TypesNext, PTL DEF Spec

\* Every variable stays in its domain (TypeOK of AuthService).
THEOREM TypeCorrect == Spec => []TypeOK
<1>1. Types => TypeOK
      BY DEF Types
<1> QED
    BY <1>1, TypesHold, PTL

\* A client never holds a refresh token that was not stored: the reply of
\* Issue, SignIn and Refresh follows a committed row (service.go:218-233,
\* 296-318), for any number of requests, users and tokens.
THEOREM OnlyStoredTokensDelivered == Spec => []DeliveredTokensWereStored
<1>1. Types => DeliveredTokensWereStored
      BY DEF Types
<1> QED
    BY <1>1, TypesHold, PTL

=============================================================================

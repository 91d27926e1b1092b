---------------------------- MODULE AuthRowProofs ----------------------------
(***************************************************************************)
(* The rows of AuthService: foreign keys, clocks and codes, for all users, *)
(* codes, tokens and requests.                                             *)
(*                                                                         *)
(* A row outlives its credential only if an INSERT did not look, or if a   *)
(* rotation copied the user of a row that was gone; the second is excluded *)
(* by LocksHeld.  What a rotation promises about expiries rests on the     *)
(* clock a request read before it waited: ClocksRead.                      *)
(***************************************************************************)
EXTENDS AuthSessionProofs

-----------------------------------------------------------------------------
(* Foreign keys.                                                            *)

\* Code rows belong to a user.
CodesOwned ==
    \A c \in Code : code[c].state \in {"fresh", "used"} => code[c].user \in User

OrphanInv == CodesOwned /\ NoOrphanRows

\* A step that removes no credential, and stores or spends only rows whose
\* credential is there.
LEMMA RowsKept ==
    ASSUME Types, OrphanInv,
           \A u \in User : cred[u].status # "none" => cred'[u].status # "none",
           \A t \in Token : token'[t].state \in {"live", "revoked"} =>
              \/ Stored(t) /\ token'[t].user = token[t].user
              \/ cred'[token'[t].user].status # "none",
           \A c \in Code : code'[c].state \in {"fresh", "used"} =>
              \/ /\ code[c].state \in {"fresh", "used"}
                 /\ code'[c].user = code[c].user
              \/ code'[c].user \in User /\ cred'[code'[c].user].status # "none"
    PROVE  OrphanInv'
<1>1. \A t \in Token : Stored(t) =>
          token[t].user \in User /\ cred[token[t].user].status # "none"
      BY DEF OrphanInv, NoOrphanRows, Exists, Stored, Types, RowsOwned
<1>2. \A c \in Code : code[c].state \in {"fresh", "used"} =>
          code[c].user \in User /\ cred[code[c].user].status # "none"
      BY DEF OrphanInv, NoOrphanRows, CodesOwned, Exists
<1>3. \A t \in Token : token'[t].state \in {"live", "revoked"} =>
          cred'[token'[t].user].status # "none"
      BY <1>1
<1>4. \A c \in Code : code'[c].state \in {"fresh", "used"} =>
          code'[c].user \in User /\ cred'[code'[c].user].status # "none"
      BY <1>2
<1> QED
    BY <1>3, <1>4 DEF OrphanInv, NoOrphanRows, CodesOwned, Exists, Stored

\* Nothing is stored at first.
LEMMA OrphanInit == Init => OrphanInv
BY Fields
DEF Init, OrphanInv, CodesOwned, NoOrphanRows, Stored, FreeToken, FreeCode

\* The steps of a request: an INSERT looks for its credential, a rotation
\* copies the user of a row that is still locked.
LEMMA OrphanRequest ==
    ASSUME SessionInv, OrphanInv, NEW r \in Req,
           Start(r) \/ Continue(r) \/ Fail(r)
    PROVE  OrphanInv'
<1>0. /\ Types /\ req[r] \in Requests /\ Equipped(req[r], token)
      /\ cred \in [User -> Credentials] /\ code \in [Code -> Codes]
      /\ token \in [Token -> Tokens]
      BY DEF SessionInv, Types, TypeOK, Carries
<1>1. ASSUME UNCHANGED <<cred, code, token>>
      PROVE  OrphanInv'
      BY <1>0, <1>1, RowsKept DEF Stored
<1>2. ASSUME NEW u \in User, InsertCredential(u)
      PROVE  OrphanInv'
  <2>1. UNCHANGED <<code, token>>
        /\ \A v \in User : cred[v].status # "none" => cred'[v].status # "none"
        BY <1>0, <1>2 DEF InsertCredential, Exists
  <2> QED
      BY <1>0, <2>1, RowsKept DEF Stored
<1>3. CASE CreateVerificationCode(r)
  <2>1. /\ UNCHANGED <<cred, token>> /\ req[r].user \in User
        /\ cred[req[r].user].status # "none"
        /\ code'[req[r].code].user = req[r].user
        /\ \A c \in Code \ {req[r].code} : code'[c] = code[c]
        BY <1>0, <1>3
        DEF CreateVerificationCode, InsertCode, ForeignKeyHolds, Exists, Serves, Equipped
  <2> QED
      BY <1>0, <2>1, RowsKept DEF Stored
<1>4. CASE VerifyRegistrationEmail(r)
  <2>1. /\ UNCHANGED token /\ code[req[r].code].state = "fresh"
        /\ code'[req[r].code] = Mark(code[req[r].code], "used")
        /\ \A c \in Code \ {req[r].code} : code'[c] = code[c]
        /\ \A v \in User : cred[v].status # "none" => cred'[v].status # "none"
        BY <1>0, <1>4
        DEF VerifyRegistrationEmail, VerifyEmail, CodeMatches, Serves, Equipped
  <2>2. code'[req[r].code].user = code[req[r].code].user
        BY <1>0, <1>4, <2>1
        DEF Mark, Codes, VerifyRegistrationEmail, Serves, Equipped
  <2> QED
      BY <1>0, <2>1, <2>2, RowsKept DEF Stored
<1>5. CASE CreateRefreshToken(r)
  <2>1. /\ UNCHANGED <<cred, code>> /\ req[r].user \in User /\ req[r].new \in Token
        /\ cred[req[r].user].status # "none"
        /\ token'[req[r].new] = TokenRow(req[r].user, req[r].at + TokenTTL, req[r].new)
        /\ \A t \in Token \ {req[r].new} : token'[t] = token[t]
        BY <1>0, <1>5
        DEF CreateRefreshToken, InsertToken, ForeignKeyHolds, Exists, Serves, Equipped
  <2>2. token'[req[r].new].user = req[r].user
        BY <2>1 DEF TokenRow
  <2> QED
      BY <1>0, <2>1, <2>2, RowsKept DEF Stored
<1>6. CASE RotateRefreshToken(r)
  <2> DEFINE old == req[r].tok
             new == req[r].new
             row == TokenRow(token[old].user, req[r].at + TokenTTL, token[old].root)
  <2>1. /\ old \in Token /\ new \in Token /\ token[old].state = "live"
        /\ token[new].state = "free"
        BY <1>0, <1>6
        DEF RotateRefreshToken, Serves, SessionInv, LocksHeld, Mutates, Live, Equipped,
            Types, Draws, Drawing
  <2>2. /\ UNCHANGED <<cred, code>>
        /\ token' = [token EXCEPT ![old] = Mark(@, "revoked"), ![new] = row]
        BY <1>6 DEF RotateRefreshToken, CommitRotation
  <2>3. /\ token'[old].user = token[old].user /\ token'[new].user = token[old].user
        /\ \A t \in Token \ {old, new} : token'[t] = token[t]
        BY <1>0, <2>1, <2>2, MarkToken DEF TokenRow
  <2>4. cred[token[old].user].status # "none"
        BY <2>1 DEF OrphanInv, NoOrphanRows, Stored, Exists
  <2> QED
      BY <1>0, <2>1, <2>2, <2>3, <2>4, RowsKept DEF Stored
<1>7. CASE RevokeRefreshToken(r)
  <2> DEFINE old == req[r].tok
  <2>1. old \in Token /\ token[old].state = "live"
        BY <1>0, <1>7
        DEF RevokeRefreshToken, Serves, SessionInv, LocksHeld, Mutates, Live, Equipped
  <2>2. UNCHANGED <<cred, code>> /\ token' = [token EXCEPT ![old] = Mark(@, "revoked")]
        BY <1>7 DEF RevokeRefreshToken, CommitRevocation
  <2>3. /\ token'[old].user = token[old].user
        /\ \A t \in Token \ {old} : token'[t] = token[t]
        BY <1>0, <2>1, <2>2, MarkToken
  <2> QED
      BY <1>0, <2>1, <2>2, <2>3, RowsKept DEF Stored
<1>8. ASSUME NEW u \in User, NEW c \in Code, CreatePendingRegistration(r, u, c)
      PROVE  OrphanInv'
      BY <1>2, <1>8 DEF CreatePendingRegistration
<1>9. ASSUME NEW u \in User, CreateCredential(r, u)
      PROVE  OrphanInv'
      BY <1>2, <1>9 DEF CreateCredential
<1> QED
    BY <1>1, <1>3, <1>4, <1>5, <1>6, <1>7, <1>8, <1>9
    DEF Start, Continue, Proceed, StartVerify, IssueRegistrationTokens, SignIn,
        ReadVerified, StartSignOut, StartRefresh, LoadRefreshTokenForMutation,
        LoadForMutation, Reply, Reject, Fail, tables

\* Every step, the cascade of a DELETE among them.
LEMMA OrphanNext == SessionInv /\ OrphanInv /\ [Next]_vars => OrphanInv'
<1> SUFFICES ASSUME SessionInv, OrphanInv, [Next]_vars PROVE OrphanInv'
    OBVIOUS
<1>0. /\ Types /\ cred \in [User -> Credentials] /\ code \in [Code -> Codes]
      /\ token \in [Token -> Tokens]
      BY DEF SessionInv, Types, TypeOK
<1>1. ASSUME NEW u \in User, DeactivateRegistrationAuth(u)
      PROVE  OrphanInv'
  <2>1. UNCHANGED <<code, token>>
        /\ \A v \in User : cred[v].status # "none" => cred'[v].status # "none"
        BY <1>0, <1>1 DEF DeactivateRegistrationAuth, UpdateDeactivated, Exists
  <2> QED
      BY <1>0, <2>1, RowsKept DEF Stored
<1>2. ASSUME NEW u \in User, DeleteCredential(u)
      PROVE  OrphanInv'
  <2>1. /\ cred' = [cred EXCEPT ![u] = NoCredential]
        /\ code' = [c \in Code |->
                      IF code[c].user = u THEN Mark(code[c], "gone") ELSE code[c]]
        /\ token' = [t \in Token |->
                       IF token[t].user = u THEN Mark(token[t], "gone") ELSE token[t]]
        BY <1>2 DEF DeleteCredential, DeleteRows
  <2>2. ASSUME NEW t \in Token PROVE Mark(token[t], "gone").state = "gone"
        BY <1>0, MarkToken
  <2>3. ASSUME NEW c \in Code PROVE Mark(code[c], "gone").state = "gone"
        BY <1>0 DEF Mark, Codes
  <2>4. ASSUME NEW t \in Token, Stored(t)'
        PROVE  cred'[token'[t].user].status # "none"
    <3>1. token'[t] = token[t] /\ token[t].user # u /\ Stored(t)
          BY <2>1, <2>2, <2>4 DEF Stored
    <3>2. token[t].user \in User /\ cred[token[t].user].status # "none"
          BY <1>0, <3>1 DEF Types, RowsOwned, OrphanInv, NoOrphanRows, Stored, Exists
    <3> QED
        BY <1>0, <2>1, <3>1, <3>2
  <2>5. ASSUME NEW c \in Code, code'[c].state \in {"fresh", "used"}
        PROVE  code'[c].user \in User /\ cred'[code'[c].user].status # "none"
    <3>1. code'[c] = code[c] /\ code[c].user # u
          BY <2>1, <2>3, <2>5
    <3>2. code[c].user \in User /\ cred[code[c].user].status # "none"
          BY <2>5, <3>1 DEF OrphanInv, CodesOwned, NoOrphanRows, Exists
    <3> QED
        BY <1>0, <2>1, <3>1, <3>2
  <2> QED
      BY <2>4, <2>5 DEF OrphanInv, CodesOwned, NoOrphanRows, Exists
<1>3. CASE Tick \/ UNCHANGED vars
      BY <1>0, <1>3, RowsKept DEF Tick, tables, vars, Stored
<1> QED
    BY <1>1, <1>2, <1>3, OrphanRequest DEF Next

\* Every code and every token row has a credential of its user (migrations
\* 000001:12 and 000002:3): a slow INSERT finds none after the DELETE, or that of a
\* re-registration, for any number of requests, users, codes and tokens.
THEOREM ForeignKeysHold == Spec => []NoOrphanRows
<1>1. OrphanInv => NoOrphanRows
      BY DEF OrphanInv
<1> QED
    BY <1>1, OrphanInit, OrphanNext, SessionsHold, PTL DEF Spec

-----------------------------------------------------------------------------
(* Clocks.                                                                  *)

\* The clock a request carries was read before; the token it presents expires
\* no later than one issued at that instant would, and, once it has passed the
\* re-check, later than that instant.
Timely(q, rows, time) ==
    /\ q.pc \in {"insertToken", "loadRotate", "loadRevoke", "rotate"} => q.at <= time
    /\ q.pc \in {"loadRotate", "rotate"} => rows[q.tok].exp <= q.at + TokenTTL
    /\ q.pc = "rotate" => q.at < rows[q.tok].exp

ClocksRead == \A r \in Req : Timely(req[r], token, now)

\* No token expires later than one issued now would.
ExpiriesBounded ==
    \A t \in Token : token[t].state # "free" => token[t].exp <= now + TokenTTL

ClockInv == ClocksRead /\ ExpiriesBounded

\* The expiry of a row never changes.
KeepExpiry ==
    \A t \in Token : token[t].state # "free" => token'[t].exp = token[t].exp

\* A request moves to a state that is timely; the others stay timely.
LEMMA ClocksMove ==
    ASSUME Types, ClockInv, KeepExpiry, UNCHANGED now,
           NEW r \in Req, NEW q, Goto(r, q), Timely(q, token', now)
    PROVE  ClocksRead'
<1>1. req' = [req EXCEPT ![r] = q] /\ req \in [Req -> Requests]
      BY DEF Goto, Types, TypeOK
<1> SUFFICES ASSUME NEW p \in Req PROVE Timely(req'[p], token', now)
    BY DEF ClocksRead, Timely
<1>2. CASE p = r
      BY <1>1, <1>2
<1>3. CASE p # r
  <2>1. req'[p] = req[p] /\ Timely(req[p], token, now) /\ Equipped(req[p], token)
        BY <1>1, <1>3 DEF ClockInv, ClocksRead, Types, Carries
  <2>2. req[p].pc \in {"loadRotate", "rotate"} =>
           token'[req[p].tok].exp = token[req[p].tok].exp
        BY <2>1 DEF Equipped, KeepExpiry
  <2> QED
      BY <2>1, <2>2 DEF Timely
<1> QED
    BY <1>2, <1>3

\* No request moves; the clock may.
LEMMA ClocksStay ==
    ASSUME Types, ClockInv, KeepExpiry, UNCHANGED req, now' \in Int, now <= now'
    PROVE  ClocksRead'
<1> SUFFICES ASSUME NEW p \in Req PROVE Timely(req[p], token', now')
    BY DEF ClocksRead, Timely
<1>1. Timely(req[p], token, now) /\ Equipped(req[p], token) /\ req[p] \in Requests
      BY DEF ClockInv, ClocksRead, Types, Carries, TypeOK
<1>2. req[p].at \in Int /\ now \in Int
      BY <1>1, Fields DEF Types, TypeOK
<1>3. req[p].pc \in {"loadRotate", "rotate"} =>
         token'[req[p].tok].exp = token[req[p].tok].exp
      BY <1>1 DEF Equipped, KeepExpiry
<1> QED
    BY <1>1, <1>2, <1>3 DEF Timely

\* Nothing is stored and nobody is waiting at first.
LEMMA ClockInit == Init => ClockInv
BY Fields DEF Init, ClockInv, ClocksRead, ExpiriesBounded, Timely

\* A request that starts reads the clock; the token it presents is stored.
LEMMA ClockStart ==
    ASSUME Types, ClockInv, NEW r \in Req, Start(r)
    PROVE  ClockInv'
<1>0. UNCHANGED <<token, now>> /\ KeepExpiry /\ now \in Int
      BY DEF Start, CreateCredential, CreatePendingRegistration, StartVerify,
             IssueRegistrationTokens, SignIn, ReadVerified, StartSignOut,
             StartRefresh, InsertCredential, tables, KeepExpiry, Types, TypeOK
<1>1. ExpiriesBounded'
      BY <1>0 DEF ClockInv, ExpiriesBounded
<1>2. PICK q : Goto(r, q) /\ Timely(q, token', now)
  <2>1. ASSUME NEW u \in User, CreateCredential(r, u)
        PROVE  Goto(r, Idle) /\ Timely(Idle, token', now)
        BY <2>1, Fields DEF CreateCredential, Return, Timely
  <2>2. ASSUME NEW u \in User, NEW c \in Code, NEW pc \in {"insertCode", "verify"}
        PROVE  Timely(Locals(pc, u, c, None, None), token', now)
        BY DEF Locals, Timely
  <2>3. ASSUME NEW u \in User, NEW t \in Token
        PROVE  Timely(Locals("insertToken", u, None, None, t), token', now)
        BY <1>0 DEF Locals, Timely
  <2>4. ASSUME NEW t \in Token
        PROVE  Timely(Locals("loadRevoke", None, None, t, None), token', now)
        BY <1>0 DEF Locals, Timely
  <2>5. ASSUME NEW t \in Token, NEW new \in Token, t \in delivered
        PROVE  Timely(Locals("loadRotate", None, None, t, new), token', now)
    <3>1. token'[t].exp <= now + TokenTTL
          BY <1>0, <2>5 DEF Types, DeliveredTokensWereStored, ClockInv, ExpiriesBounded
    <3> QED
        BY <1>0, <3>1 DEF Locals, Timely
  <2> QED
      BY <2>1, <2>2, <2>3, <2>4, <2>5
      DEF Start, CreatePendingRegistration, StartVerify, IssueRegistrationTokens,
          SignIn, ReadVerified, StartSignOut, StartRefresh
<1>3. ClocksRead'
      BY <1>0, <1>2, ClocksMove
<1> QED
    BY <1>1, <1>3 DEF ClockInv

\* COMMIT of a rotation: the successor was drawn, and its predecessor locked.
LEMMA Rotation ==
    ASSUME SessionInv, NEW r \in Req, RotateRefreshToken(r)
    PROVE  /\ req[r].tok \in Token /\ req[r].new \in Token /\ req[r].at \in Int
           /\ req[r].pc = "rotate"
           /\ token[req[r].tok].state = "live" /\ token[req[r].tok].exp \in Int
           /\ token[req[r].new].state = "free"
           /\ token'[req[r].tok].state = "revoked"
           /\ token'[req[r].tok].exp = token[req[r].tok].exp
           /\ token'[req[r].new].state = "live"
           /\ token'[req[r].new].exp = req[r].at + TokenTTL
           /\ \A t \in {req[r].tok, req[r].new} :
                /\ token'[t].user = token[req[r].tok].user
                /\ token'[t].root = token[req[r].tok].root
           /\ \A t \in Token \ {req[r].tok, req[r].new} : token'[t] = token[t]
           /\ UNCHANGED <<now, cred>>
<1> DEFINE old == req[r].tok
           new == req[r].new
           row == TokenRow(token[old].user, req[r].at + TokenTTL, token[old].root)
<1>1. /\ old \in Token /\ new \in Token /\ token[old].state = "live"
      /\ token[new].state = "free" /\ req[r].at \in Int /\ req[r].pc = "rotate"
      BY Fields
      DEF RotateRefreshToken, Serves, SessionInv, LocksHeld, Mutates, Live, Types,
          TypeOK, Carries, Equipped, Draws, Drawing
<1>2. /\ token[old] \in Tokens /\ token[old].exp \in Int
      /\ token[old].user \in User /\ token[old].root \in Token
      /\ token \in [Token -> Tokens]
      BY <1>1, Fields DEF SessionInv, Types, TypeOK, RowsOwned
<1>3. /\ token' = [token EXCEPT ![old] = Mark(@, "revoked"), ![new] = row]
      /\ UNCHANGED <<now, cred>>
      BY DEF RotateRefreshToken, CommitRotation
<1>4. /\ row.state = "live" /\ row.exp = req[r].at + TokenTTL
      /\ row.user = token[old].user /\ row.root = token[old].root
      BY DEF TokenRow
<1>5. LET spent == Mark(token[old], "revoked") IN
      /\ spent.state = "revoked" /\ spent.exp = token[old].exp
      /\ spent.user = token[old].user /\ spent.root = token[old].root
      BY <1>2, MarkToken
<1> QED
    BY <1>1, <1>2, <1>3, <1>4, <1>5

\* A request that goes on passes the re-check, stores a token, or returns.
LEMMA ClockContinue ==
    ASSUME SessionInv, ClockInv, NEW r \in Req, Continue(r) \/ Fail(r)
    PROVE  ClockInv'
<1>0. /\ Types /\ req[r] \in Requests /\ Equipped(req[r], token) /\ now \in Int
      /\ token \in [Token -> Tokens] /\ Timely(req[r], token, now)
      /\ req[r].at \in Int
      BY Fields DEF SessionInv, Types, TypeOK, Carries, ClockInv, ClocksRead
<1>1. ASSUME UNCHANGED <<token, now>>, Goto(r, Idle)
      PROVE  ClockInv'
  <2>1. KeepExpiry /\ Timely(Idle, token', now)
        BY <1>1, Fields DEF KeepExpiry, Timely
  <2> QED
      BY <1>0, <1>1, <2>1, ClocksMove DEF ClockInv, ExpiriesBounded
<1>2. CASE CreateRefreshToken(r)
  <2> DEFINE p == req[r]
             q == [p EXCEPT !.pc = "reply"]
  <2>1. /\ UNCHANGED now /\ Goto(r, q) /\ p.pc = "insertToken"
        /\ token' = [token EXCEPT ![p.new] = TokenRow(p.user, p.at + TokenTTL, p.new)]
        BY <1>2 DEF CreateRefreshToken, InsertToken, GoOn, Serves
  <2>2. p.new \in Token /\ token[p.new].state = "free" /\ p.at <= now
        BY <1>0, <2>1 DEF Equipped, Types, Draws, Drawing, Timely
  <2>3. /\ token'[p.new].exp = p.at + TokenTTL
        /\ \A t \in Token \ {p.new} : token'[t] = token[t]
        BY <1>0, <2>1, <2>2 DEF TokenRow
  <2>4. KeepExpiry
        BY <2>2, <2>3 DEF KeepExpiry
  <2>5. Timely(q, token', now)
        BY <1>0, MoveRequest DEF Timely
  <2>6. ClocksRead'
        BY <1>0, <2>1, <2>4, <2>5, ClocksMove
  <2>7. token'[p.new].exp <= now + TokenTTL
        BY <1>0, <2>2, <2>3, TimeAssumption
  <2> QED
      BY <2>1, <2>3, <2>6, <2>7 DEF ClockInv, ExpiriesBounded
<1>3. CASE LoadRefreshTokenForMutation(r)
  <2> DEFINE p == req[r]
  <2>1. PICK pc \in {"rotate", "revoke"} :
             pc = IF p.pc = "loadRotate" THEN "rotate" ELSE "revoke"
        OBVIOUS
  <2> DEFINE q == [p EXCEPT !.pc = pc]
  <2>2. /\ UNCHANGED <<token, now>> /\ Goto(r, q)
        /\ p.pc \in {"loadRotate", "loadRevoke"} /\ token[p.tok].exp > p.at
        BY <1>3, <2>1 DEF LoadRefreshTokenForMutation, LoadForMutation, Usable, GoOn, Serves
  <2>3. q.pc = pc /\ q.tok = p.tok /\ q.at = p.at
        BY <1>0, <2>1, MoveRequest
  <2>4. p.tok \in Token /\ token[p.tok].exp \in Int
        BY <1>0, <2>2, Fields DEF Equipped
  <2>5. pc = "rotate" => p.pc = "loadRotate"
        BY <2>1, <2>2
  <2>6. Timely(q, token', now)
        BY <1>0, <2>2, <2>3, <2>4, <2>5, <2>1 DEF Timely
  <2>7. KeepExpiry
        BY <2>2 DEF KeepExpiry
  <2> QED
      BY <1>0, <2>2, <2>6, <2>7, ClocksMove DEF ClockInv, ExpiriesBounded
<1>4. CASE RotateRefreshToken(r)
  <2> DEFINE p == req[r]
             q == [p EXCEPT !.pc = "reply"]
  <2>1. Goto(r, q)
        BY <1>4 DEF RotateRefreshToken, GoOn
  <2>2. KeepExpiry
        BY <1>4, Rotation DEF KeepExpiry
  <2>3. Timely(q, token', now)
        BY <1>0, MoveRequest DEF Timely
  <2>4. ClocksRead'
        BY <1>0, <1>4, <2>1, <2>2, <2>3, ClocksMove, Rotation
  <2>5. p.at <= now
        BY <1>0, <1>4, Rotation DEF Timely
  <2>6. token'[p.new].exp <= now + TokenTTL
        BY <1>0, <1>4, <2>5, Rotation, TimeAssumption
  <2>7. token'[p.tok].exp <= now + TokenTTL
        BY <1>4, Rotation DEF ClockInv, ExpiriesBounded
  <2> QED
      BY <1>4, <2>4, <2>6, <2>7, Rotation DEF ClockInv, ExpiriesBounded
<1>5. CASE RevokeRefreshToken(r)
  <2>1. /\ UNCHANGED now /\ Goto(r, Idle) /\ req[r].tok \in Token
        /\ token[req[r].tok].state # "free"
        /\ token' = [token EXCEPT ![req[r].tok] = Mark(@, "revoked")]
        BY <1>0, <1>5 DEF RevokeRefreshToken, CommitRevocation, Return, Serves, Equipped
  <2>2. /\ token'[req[r].tok].exp = token[req[r].tok].exp
        /\ \A t \in Token \ {req[r].tok} : token'[t] = token[t]
        BY <1>0, <2>1, MarkToken
  <2>3. KeepExpiry /\ Timely(Idle, token', now)
        BY <2>2, Fields DEF KeepExpiry, Timely
  <2> QED
      BY <1>0, <2>1, <2>2, <2>3, ClocksMove DEF ClockInv, ExpiriesBounded
<1> QED
    BY <1>1, <1>2, <1>3, <1>4, <1>5
    DEF Continue, Proceed, Fail, CreateVerificationCode, InsertCode,
        VerifyRegistrationEmail, VerifyEmail, Reply, Reject, Return, tables

\* Every step; the clock only moves forward.
LEMMA ClockNext == SessionInv /\ ClockInv /\ [Next]_vars => ClockInv'
<1> SUFFICES ASSUME SessionInv, ClockInv, [Next]_vars PROVE ClockInv'
    OBVIOUS
<1>0. Types /\ now \in Int /\ token \in [Token -> Tokens]
      BY DEF SessionInv, Types, TypeOK
<1>1. ASSUME UNCHANGED <<token, req, now>>
      PROVE  ClockInv'
      BY <1>0, <1>1, ClocksStay DEF ClockInv, ExpiriesBounded, KeepExpiry
<1>2. ASSUME NEW u \in User, DeleteCredential(u)
      PROVE  ClockInv'
  <2>1. /\ UNCHANGED <<req, now>>
        /\ token' = [t \in Token |->
                       IF token[t].user = u THEN Mark(token[t], "gone") ELSE token[t]]
        BY <1>2 DEF DeleteCredential, DeleteRows
  <2>2. ASSUME NEW t \in Token PROVE token'[t].exp = token[t].exp
        BY <1>0, <2>1, MarkToken
  <2>3. ASSUME NEW t \in Token, token[t].state = "free" PROVE token'[t].state = "free"
        BY <1>0, <2>1, <2>3, NoneAssumption DEF Types, RowsOwned
  <2>4. ClocksRead'
        BY <1>0, <2>1, <2>2, ClocksStay DEF KeepExpiry
  <2> QED
      BY <2>1, <2>2, <2>3, <2>4 DEF ClockInv, ExpiriesBounded
<1>3. CASE Tick
  <2>1. UNCHANGED <<token, req>> /\ now' = now + 1
        BY <1>3 DEF Tick, tables
  <2>2. ClocksRead'
        BY <1>0, <2>1, ClocksStay DEF KeepExpiry
  <2>3. ASSUME NEW t \in Token, token[t].state # "free"
        PROVE  token[t].exp <= now' + TokenTTL
    <3>1. token[t].exp <= now + TokenTTL /\ token[t].exp \in Int
          BY <1>0, <2>3, Fields DEF ClockInv, ExpiriesBounded
    <3> QED
        BY <1>0, <2>1, <3>1, TimeAssumption
  <2> QED
      BY <2>1, <2>2, <2>3 DEF ClockInv, ExpiriesBounded
<1> QED
    BY <1>0, <1>1, <1>2, <1>3, ClockStart, ClockContinue
    DEF Next, DeactivateRegistrationAuth, UpdateDeactivated, vars, tables

\* The inductive invariant of the clocks.
THEOREM ClocksHold == Spec => []ClockInv
BY ClockInit, ClockNext, SessionsHold, PTL DEF Spec

\* Only a rotation revokes one token and stores another.
LEMMA OnlyRotation ==
    ASSUME SessionInv, [Next]_vars, NEW t \in Token, NEW new \in Token,
           token[t].state = "live", token'[t].state = "revoked",
           token[new].state = "free", token'[new].state = "live"
    PROVE  \E r \in Req : RotateRefreshToken(r)
<1>0. Types /\ token \in [Token -> Tokens]
      BY DEF SessionInv, Types, TypeOK
<1>1. ASSUME NEW r \in Req, CreateRefreshToken(r)
      PROVE  FALSE
  <2>1. /\ token' = [token EXCEPT ![req[r].new] =
                       TokenRow(req[r].user, req[r].at + TokenTTL, req[r].new)]
        /\ req[r].new \in Token /\ token[req[r].new].state = "free"
        BY <1>0, <1>1
        DEF CreateRefreshToken, InsertToken, Serves, Types, Carries, Equipped, Draws, Drawing
  <2> QED
      BY <1>0, <2>1
<1>2. ASSUME NEW r \in Req, RevokeRefreshToken(r)
      PROVE  FALSE
  <2>1. /\ token' = [token EXCEPT ![req[r].tok] = Mark(@, "revoked")]
        /\ req[r].tok \in Token /\ token[req[r].tok].state # "free"
        BY <1>0, <1>2
        DEF RevokeRefreshToken, CommitRevocation, Serves, Types, Carries, Equipped
  <2> QED
      BY <1>0, <2>1
<1>3. ASSUME NEW u \in User, DeleteCredential(u)
      PROVE  FALSE
  <2>1. token' = [x \in Token |->
                    IF token[x].user = u THEN Mark(token[x], "gone") ELSE token[x]]
        BY <1>3 DEF DeleteCredential, DeleteRows
  <2> QED
      BY <1>0, <2>1, MarkToken
<1>4. ASSUME UNCHANGED token
      PROVE  FALSE
      BY <1>4
<1>5. ASSUME NEW r \in Req, Start(r) \/ Fail(r)
      PROVE  UNCHANGED token
      BY <1>5
      DEF Start, Fail, CreateCredential, CreatePendingRegistration, StartVerify,
          IssueRegistrationTokens, SignIn, ReadVerified, StartSignOut, StartRefresh,
          InsertCredential, tables
<1> QED
    BY <1>1, <1>2, <1>3, <1>4, <1>5
    DEF Next, Continue, Proceed, CreateVerificationCode, InsertCode,
        VerifyRegistrationEmail, VerifyEmail, LoadRefreshTokenForMutation,
        LoadForMutation, Reply, Reject, DeactivateRegistrationAuth, UpdateDeactivated,
        Tick, vars, tables

\* Rotation hands a session on without a gap: the successor was asked for
\* before its predecessor expired and never expires earlier than it, however
\* long the request waited for the row lock after reading the clock
\* (service.go:291-302, repository.go:261).
THEOREM RotationsLeaveNoGap == Spec => RotationExtendsUnexpiredSession
<1> DEFINE Gapless ==
      \A t, new \in Token :
         /\ token[t].state = "live" /\ token'[t].state = "revoked"
         /\ token[new].state = "free" /\ token'[new].state = "live"
         => /\ token[t].exp <= token'[new].exp
            /\ token'[new].exp < token[t].exp + TokenTTL
<1>1. SessionInv /\ ClockInv /\ [Next]_vars => Gapless
  <2> SUFFICES ASSUME SessionInv, ClockInv, [Next]_vars,
                      NEW t \in Token, NEW new \in Token,
                      token[t].state = "live", token'[t].state = "revoked",
                      token[new].state = "free", token'[new].state = "live"
               PROVE  /\ token[t].exp <= token'[new].exp
                      /\ token'[new].exp < token[t].exp + TokenTTL
      OBVIOUS
  <2>1. PICK r \in Req : RotateRefreshToken(r)
        BY OnlyRotation
  <2>2. t = req[r].tok /\ new = req[r].new
        BY <2>1, Rotation
  <2>3. /\ token[t].exp <= req[r].at + TokenTTL
        /\ req[r].at < token[t].exp
        BY <2>1, <2>2, Rotation DEF ClockInv, ClocksRead, Timely
  <2> QED
      BY <2>1, <2>2, <2>3, Rotation, TimeAssumption
<1>2. SessionInv /\ ClockInv /\ [Next]_vars => [Gapless]_vars
      BY <1>1
<1>3. Spec => [][Gapless]_vars
  <2> HIDE DEF Gapless
  <2> QED
      BY <1>2, SessionsHold, ClocksHold, PTL DEF Spec
<1> QED
    BY <1>3 DEF RotationExtendsUnexpiredSession

-----------------------------------------------------------------------------
(* Codes.                                                                   *)

\* Nobody becomes e-mail verified but by spending an unused code that was
\* issued to the same user (query.go:15-38), whatever else happens to the
\* credential and whoever presents the code.
THEOREM VerificationsAreEarned == Spec => VerificationSpendsOwnCode
<1> DEFINE Earned ==
      \A u \in User :
         ~cred[u].verified /\ cred'[u].verified =>
            \E c \in Code : /\ code[c].state = "fresh" /\ code[c].user = u
                            /\ code'[c].state = "used"
<1>1. SessionInv /\ [Next]_vars => Earned
  <2> SUFFICES ASSUME SessionInv, [Next]_vars, NEW u \in User,
                      ~cred[u].verified, cred'[u].verified
               PROVE  \E c \in Code : /\ code[c].state = "fresh" /\ code[c].user = u
                                      /\ code'[c].state = "used"
      OBVIOUS
  <2>0. /\ Types /\ cred \in [User -> Credentials] /\ code \in [Code -> Codes]
        BY DEF SessionInv, Types, TypeOK
  <2>1. ASSUME NEW v \in User, InsertCredential(v) \/ UpdateDeactivated(v) \/ DeleteRows(v)
        PROVE  FALSE
        BY <2>0, <2>1
        DEF InsertCredential, UpdateDeactivated, DeleteRows, NoCredential
  <2>2. ASSUME NEW r \in Req, VerifyRegistrationEmail(r)
        PROVE  \E c \in Code : /\ code[c].state = "fresh" /\ code[c].user = u
                               /\ code'[c].state = "used"
    <3>1. req[r].user \in User /\ req[r].code \in Code
          BY <2>0, <2>2
          DEF VerifyRegistrationEmail, Serves, Types, Carries, Equipped
    <3>2. /\ code[req[r].code].state = "fresh" /\ code[req[r].code].user = req[r].user
          /\ code' = [code EXCEPT ![req[r].code] = Mark(@, "used")]
          /\ \A v \in User \ {req[r].user} : cred'[v] = cred[v]
          BY <2>0, <2>2, <3>1
          DEF VerifyRegistrationEmail, VerifyEmail, CodeMatches
    <3>3. u = req[r].user
          BY <3>2
    <3>4. code'[req[r].code].state = "used"
          BY <2>0, <3>1, <3>2 DEF Mark, Codes
    <3> QED
        BY <3>1, <3>2, <3>3, <3>4
  <2>3. ASSUME UNCHANGED cred
        PROVE  FALSE
        BY <2>3
  <2>4. ASSUME NEW r \in Req, Start(r)
        PROVE  UNCHANGED cred \/ \E v \in User : InsertCredential(v)
        BY <2>4
        DEF Start, CreateCredential, CreatePendingRegistration, StartVerify,
            IssueRegistrationTokens, SignIn, ReadVerified, StartSignOut, StartRefresh,
            tables
  <2> QED
      BY <2>1, <2>2, <2>3, <2>4
      DEF Next, Continue, Proceed, CreateVerificationCode, InsertCode,
          CreateRefreshToken, InsertToken, LoadRefreshTokenForMutation,
          LoadForMutation, RotateRefreshToken, CommitRotation, RevokeRefreshToken,
          CommitRevocation, Reply, Reject, Fail, DeactivateRegistrationAuth,
          DeleteCredential, Tick, vars, tables
<1>2. SessionInv /\ [Next]_vars => [Earned]_vars
      BY <1>1
<1>3. Spec => [][Earned]_vars
  <2> HIDE DEF Earned
  <2> QED
      BY <1>2, SessionsHold, PTL DEF Spec
<1> QED
    BY <1>3 DEF VerificationSpendsOwnCode

=============================================================================

---------------------------- MODULE RowLocksProofs ----------------------------
(***************************************************************************)
(* RowLocks implements AuthService, and nobody waits for ever in it, for   *)
(* all users, codes, tokens and requests.                                  *)
(*                                                                         *)
(* SessionInv holds with the lock of the credential row as well.  What is  *)
(* added says who can hold what (Own): a request holds rows only for the   *)
(* statement it is in, and a DELETE has found every row it has to delete,  *)
(* because it holds the credential row that an INSERT has to look at.      *)
(***************************************************************************)
EXTENDS RowLocks, AuthSessionProofs

USE RowsAssumption

Cascades == [pc : {"idle", "row", "codes", "tokens"}, user : User \cup {None},
             todo : SUBSET Child]

RowTypes ==
    /\ held \in [Child -> Req \cup {None}]
    /\ cascade \in [Req -> Cascades]

\* A code that a registration has drawn is not stored before its INSERT, and
\* nobody else's.
CodesDrawn ==
    /\ \A c \in Code : code[c].state = "free" => code[c].user = None
    /\ \A r \in Req : req[r].pc = "insertCode" => code[req[r].code].state = "free"
    /\ \A r1, r2 \in Req : /\ req[r1].pc = "insertCode" /\ req[r2].pc = "insertCode"
                           /\ req[r1].code = req[r2].code
                           => r1 = r2

\* A DELETE holds the credential row, no INSERT can add to the rows it has found,
\* and each of these is locked or still to be locked.
OwnCascade(r) ==
    LET u == cascade[r].user
        todo == cascade[r].todo
        pc == cascade[r].pc
    IN  /\ pc # "idle" => /\ u \in User /\ lock[u] = r /\ Exists(u)
                          /\ req[r].pc = "idle" /\ "Delete" \in Ops
        /\ pc = "idle" => cascade[r] = NoCascade
        /\ pc = "row" => todo = {}
        /\ pc = "codes" => todo \subseteq CodesOf(u)
        /\ pc = "tokens" => todo \subseteq TokensOf(u)
        /\ pc = "codes" => \A c \in CodesOf(u) : held[c] = r \/ c \in todo
        /\ pc = "tokens" => \A c \in CodesOf(u) : held[c] = r
        /\ pc = "tokens" => \A t \in TokensOf(u) : held[t] = r \/ t \in todo

Locks(q) == q.pc \in {"loadRotate", "loadRevoke", "rotate", "revoke"}

\* What r holds is what its statement has come to.
OwnRows(r) ==
    /\ \A t \in Token : held[t] = r =>
         \/ Locks(req[r]) /\ req[r].tok = t /\ Stored(t)
         \/ cascade[r].pc = "tokens" /\ t \in TokensOf(cascade[r].user)
    /\ \A c \in Code : held[c] = r =>
         \/ /\ req[r].pc = "verify" /\ req[r].code = c
            /\ CodeMatches(req[r].user, c, req[r].at)
         \/ /\ cascade[r].pc \in {"codes", "tokens"}
            /\ c \in CodesOf(cascade[r].user)
    /\ \A u \in User : lock[u] = r =>
         \/ Locks(req[r]) /\ held[req[r].tok] = r /\ token[req[r].tok].user = u
         \/ Deleting(r) /\ cascade[r].user = u
    /\ Mutates(req[r]) => held[req[r].tok] = r

Own(r) == OwnCascade(r) /\ OwnRows(r)

RowInv == SessionInv /\ RowTypes /\ CodesDrawn /\ \A r \in Req : Own(r)

-----------------------------------------------------------------------------
(* What a step of one request leaves to the others.                         *)

\* What p holds and has found is not touched.
Undisturbed(p) ==
    /\ req'[p] = req[p] /\ cascade'[p] = cascade[p]
    /\ \A x \in Child : held'[x] = p <=> held[x] = p
    /\ \A u \in User : lock'[u] = p <=> lock[u] = p
    /\ \A t \in Token : held[t] = p => token'[t] = token[t]
    /\ \A c \in Code : held[c] = p => code'[c] = code[c]
    /\ \A u \in User : lock[u] = p =>
         /\ Exists(u) => cred'[u].status # "none"
         /\ \A t \in Token : t \in TokensOf(u)' <=> t \in TokensOf(u)
         /\ \A c \in Code : c \in CodesOf(u)' <=> c \in CodesOf(u)

\* The types a step needs again and again.
LEMMA Shapes ==
    ASSUME RowInv, NEW r \in Req
    PROVE  /\ r # None
           /\ req \in [Req -> Requests] /\ req[r] \in Requests
           /\ cascade[r] \in Cascades /\ cascade \in [Req -> Cascades]
           /\ held \in [Child -> Req \cup {None}]
           /\ lock \in [User -> Req \cup {None}]
           /\ Equipped(req[r], token)
           /\ OwnCascade(r) /\ OwnRows(r)
BY NoneAssumption DEF RowInv, SessionInv, Types, TypeOK, RowTypes, Carries, Own

\* A request that is left alone still owns what it holds.
LEMMA OwnKept ==
    ASSUME RowInv, NEW p \in Req, Undisturbed(p)
    PROVE  Own(p)'
<1>1. OwnCascade(p)
      BY Shapes
<1>2. OwnRows(p)
      BY Shapes
<1>3. OwnCascade(p)'
  <2> DEFINE u == cascade[p].user
             pc == cascade[p].pc
             todo == cascade[p].todo
  <2>1. cascade'[p].user = u /\ cascade'[p].pc = pc /\ cascade'[p].todo = todo
        /\ req'[p].pc = req[p].pc /\ cascade'[p] = cascade[p]
        BY DEF Undisturbed
  <2>2. todo \subseteq Child
        BY Shapes DEF Cascades
  <2>3. CASE pc = "idle"
        BY <1>1, <2>1, <2>3 DEF OwnCascade, NoCascade
  <2>4. CASE pc # "idle"
    <3>1. u \in User /\ lock[u] = p /\ Exists(u) /\ req[p].pc = "idle"
          BY <1>1, <2>4 DEF OwnCascade
    <3>2. lock'[u] = p /\ cred'[u].status # "none"
          BY <3>1 DEF Undisturbed
    <3>3. /\ \A t \in Token : t \in TokensOf(u)' <=> t \in TokensOf(u)
          /\ \A c \in Code : c \in CodesOf(u)' <=> c \in CodesOf(u)
          BY <3>1 DEF Undisturbed
    <3>4. \A x \in Child : held'[x] = p <=> held[x] = p
          BY DEF Undisturbed
    <3> QED
        BY <1>1, <2>1, <2>4, <3>1, <3>2, <3>3, <3>4
        DEF OwnCascade, TokensOf, CodesOf, Stored, Exists, Child
  <2> QED
      BY <2>3, <2>4
<1>4. OwnRows(p)'
  <2>1. req'[p] = req[p] /\ cascade'[p] = cascade[p]
        BY DEF Undisturbed
  <2>2. ASSUME NEW t \in Token, held'[t] = p
        PROVE  \/ Locks(req[p]) /\ req[p].tok = t /\ Stored(t)'
               \/ cascade[p].pc = "tokens" /\ t \in TokensOf(cascade[p].user)'
    <3>1. held[t] = p /\ token'[t] = token[t]
          BY <2>2 DEF Undisturbed, Child
    <3> QED
        BY <1>2, <2>1, <3>1 DEF OwnRows, Stored, TokensOf
  <2>3. ASSUME NEW c \in Code, held'[c] = p
        PROVE  \/ /\ req[p].pc = "verify" /\ req[p].code = c
                  /\ CodeMatches(req[p].user, c, req[p].at)'
               \/ /\ cascade[p].pc \in {"codes", "tokens"}
                  /\ c \in CodesOf(cascade[p].user)'
    <3>1. held[c] = p /\ code'[c] = code[c]
          BY <2>3 DEF Undisturbed, Child
    <3> QED
        BY <1>2, <2>1, <3>1 DEF OwnRows, CodeMatches, CodesOf
  <2>4. ASSUME NEW u \in User, lock'[u] = p
        PROVE  \/ Locks(req[p]) /\ held'[req[p].tok] = p /\ token'[req[p].tok].user = u
               \/ Deleting(p)' /\ cascade[p].user = u
    <3>1. lock[u] = p
          BY <2>4 DEF Undisturbed
    <3>2. CASE Locks(req[p]) /\ held[req[p].tok] = p /\ token[req[p].tok].user = u
      <4>1. req[p].tok \in Token
            BY <3>2, Shapes DEF Equipped, Locks
      <4> QED
          BY <3>2, <4>1 DEF Undisturbed, Child
    <3>3. CASE Deleting(p) /\ cascade[p].user = u
          BY <3>3, <2>1 DEF Deleting
    <3> QED
        BY <1>2, <3>1, <3>2, <3>3 DEF OwnRows
  <2>5. Mutates(req[p]) => held'[req[p].tok] = p
    <3> SUFFICES ASSUME Mutates(req[p]) PROVE held'[req[p].tok] = p
        OBVIOUS
    <3>1. req[p].tok \in Token /\ held[req[p].tok] = p
          BY <1>2, Shapes DEF Equipped, Mutates, OwnRows
    <3> QED
        BY <3>1 DEF Undisturbed, Child
  <2> QED
      BY <2>1, <2>2, <2>3, <2>4, <2>5
      DEF OwnRows, Stored, TokensOf, CodesOf, CodeMatches, Deleting
<1> QED
    BY <1>3, <1>4 DEF Own

\* A request without a lock has nothing to own.
LEMMA OwnNothing ==
    ASSUME NEW r \in Req, cascade'[r] = NoCascade, ~Mutates(req'[r]),
           \A x \in Child : held'[x] # r, \A u \in User : lock'[u] # r
    PROVE  Own(r)'
BY DEF Own, OwnCascade, OwnRows, NoCascade, Child, Deleting

\* Outside its loads, its verification and its DELETE a request holds no row.
LEMMA HoldsNothing ==
    ASSUME RowInv, NEW r \in Req, ~Deleting(r), ~Locks(req[r]), req[r].pc # "verify"
    PROVE  /\ \A x \in Child : held[x] # r
           /\ \A u \in User : lock[u] # r
           /\ ~Mutates(req[r])
BY Shapes DEF OwnRows, Deleting, Locks, Mutates, Child

\* COMMIT or ROLLBACK gives up what r holds, and nothing else.
LEMMA GivesUp ==
    ASSUME RowInv, NEW r \in Req
    PROVE  /\ LetGo(r) => /\ held' \in [Child -> Req \cup {None}]
                          /\ \A x \in Child : held'[x] # r
                          /\ \A p \in Req \ {r} : \A x \in Child :
                               held'[x] = p <=> held[x] = p
           /\ Release(r) => /\ lock' \in [User -> Req \cup {None}]
                            /\ \A u \in User : lock'[u] # r
                            /\ \A p \in Req \ {r} : \A u \in User :
                                 lock'[u] = p <=> lock[u] = p
<1>1. r # None /\ held \in [Child -> Req \cup {None}] /\ lock \in [User -> Req \cup {None}]
      BY Shapes
<1>2. \A p \in Req : p # None
      BY NoneAssumption
<1> QED
    BY <1>1, <1>2 DEF LetGo, Release

-----------------------------------------------------------------------------
(* The steps, one by one.                                                   *)

\* What a step of r has to keep besides SessionInv.
Moves(r) == RowTypes' /\ CodesDrawn' /\ Own(r)' /\ \A p \in Req \ {r} : Undisturbed(p)

\* One request moves, the others stay.
LEMMA OthersStay ==
    ASSUME RowInv, NEW r \in Req, NEW q, Goto(r, q)
    PROVE  req'[r] = q /\ \A p \in Req \ {r} : req'[p] = req[p]
BY Shapes DEF Goto

\* A step that writes no row disturbs nobody whose locks it leaves alone.
LEMMA TablesStay ==
    ASSUME NEW p \in Req, UNCHANGED <<cred, code, token>>,
           req'[p] = req[p], cascade'[p] = cascade[p],
           \A x \in Child : held'[x] = p <=> held[x] = p,
           \A u \in User : lock'[u] = p <=> lock[u] = p
    PROVE  Undisturbed(p)
BY DEF Undisturbed, TokensOf, CodesOf, Stored, Exists

\* No code row is written, and who draws a code draws a free one.
LEMMA CodesStay ==
    ASSUME RowInv, NEW r \in Req, NEW q, Goto(r, q), UNCHANGED code,
           q.pc = "insertCode" => code[q.code].state = "free"
                                  /\ \A p \in Req : req[p].code # q.code
    PROVE  CodesDrawn'
<1>1. req'[r] = q /\ \A p \in Req \ {r} : req'[p] = req[p]
      BY OthersStay
<1> QED
    BY <1>1 DEF CodesDrawn, RowInv

\* ... or nobody moves at all.
LEMMA CodesAlone ==
    ASSUME RowInv, UNCHANGED <<code, req>>
    PROVE  CodesDrawn'
BY DEF CodesDrawn, RowInv

\* A request that starts has no locks yet.
LEMMA StartMoves ==
    ASSUME RowInv, NEW r \in Req, StartRequest(r)
    PROVE  Moves(r)
<1>1. UNCHANGED <<code, token, lock, held, cascade>> /\ ~Deleting(r) /\ req[r].pc = "idle"
      BY DEF StartRequest, Start, CreateCredential, CreatePendingRegistration, StartVerify,
             IssueRegistrationTokens, SignIn, ReadVerified, StartSignOut,
             StartRefresh, InsertCredential, tables, Serves
<1>2. \A u \in User : Exists(u) => cred'[u].status # "none"
  <2>1. ASSUME NEW v \in User, InsertCredential(v)
        PROVE  \A u \in User : Exists(u) => cred'[u].status # "none"
        BY <2>1 DEF InsertCredential, Exists, RowInv, SessionInv, Types, TypeOK
  <2>2. UNCHANGED tables => \A u \in User : Exists(u) => cred'[u].status # "none"
        BY DEF tables, Exists
  <2> QED
      BY <2>1, <2>2
      DEF StartRequest, Start, CreateCredential, CreatePendingRegistration, StartVerify,
          IssueRegistrationTokens, SignIn, ReadVerified, StartSignOut, StartRefresh
<1>3. PICK q : /\ Goto(r, q) /\ ~Mutates(q)
               /\ q.pc = "insertCode" => code[q.code].state = "free"
                                         /\ \A p \in Req : req[p].code # q.code
  <2> DEFINE Good(q) == /\ Goto(r, q) /\ ~Mutates(q)
                        /\ q.pc = "insertCode" => code[q.code].state = "free"
                                                  /\ \A p \in Req : req[p].code # q.code
  <2> SUFFICES \E q : Good(q)
      OBVIOUS
  <2>1. ASSUME NEW u \in User, CreateCredential(r, u) PROVE \E q : Good(q)
    <3>1. Goto(r, Idle) /\ Idle.pc = "idle"
          BY <2>1, Fields DEF CreateCredential, Return
    <3> QED
        BY <3>1 DEF Mutates
  <2>2. ASSUME NEW u \in User, NEW c \in Code, CreatePendingRegistration(r, u, c)
        PROVE  \E q : Good(q)
    <3> DEFINE q == Locals("insertCode", u, c, None, None)
    <3>1. Goto(r, q) /\ FreshCode(c) /\ q.pc = "insertCode" /\ q.code = c
          BY <2>2 DEF CreatePendingRegistration, Locals
    <3>2. Good(q)
          BY <3>1 DEF Mutates, FreshCode, Drawn
    <3> QED
        BY <3>2
  <2>3. ASSUME NEW u, NEW c, NEW t, NEW new,
               NEW pc \in {"verify", "insertToken", "loadRotate", "loadRevoke"},
               Goto(r, Locals(pc, u, c, t, new))
        PROVE  \E q : Good(q)
    <3>1. Locals(pc, u, c, t, new).pc = pc
          BY DEF Locals
    <3>2. Good(Locals(pc, u, c, t, new))
          BY <2>3, <3>1 DEF Mutates
    <3> QED
        BY <3>2
  <2>4. ASSUME NEW u \in User, NEW c \in Code, StartVerify(r, u, c) PROVE \E q : Good(q)
        BY <2>3, <2>4 DEF StartVerify
  <2>5. ASSUME NEW u \in User, NEW t \in Token, ReadVerified(r, u, t) PROVE \E q : Good(q)
        BY <2>3, <2>5 DEF ReadVerified
  <2>6. ASSUME NEW t \in Token, StartSignOut(r, t) PROVE \E q : Good(q)
        BY <2>3, <2>6 DEF StartSignOut
  <2>7. ASSUME NEW t \in Token, NEW new \in Token, StartRefresh(r, t, new)
        PROVE  \E q : Good(q)
        BY <2>3, <2>7 DEF StartRefresh
  <2> QED
      BY <2>1, <2>2, <2>4, <2>5, <2>6, <2>7
      DEF StartRequest, Start, IssueRegistrationTokens, SignIn
<1>4. CodesDrawn'
      BY <1>1, <1>3, CodesStay
<1>5. \A p \in Req \ {r} : Undisturbed(p)
      BY <1>1, <1>2, <1>3, OthersStay DEF Undisturbed, TokensOf, CodesOf, Stored
<1>6. (\A x \in Child : held'[x] # r) /\ (\A u \in User : lock'[u] # r)
      BY <1>1, HoldsNothing DEF Locks
<1>7. OwnCascade(r) /\ req'[r] = q
      BY <1>3, Shapes, OthersStay
<1>8. Own(r)'
      BY <1>1, <1>3, <1>6, <1>7 DEF Own, OwnCascade, OwnRows, Deleting, Child
<1> QED
    BY <1>1, <1>4, <1>5, <1>8 DEF Moves, RowTypes, RowInv

\* The INSERT of a code adds to no row that a DELETE has found: the foreign key
\* needs the credential row, which the DELETE holds.
LEMMA InsertCodeMoves ==
    ASSUME RowInv, NEW r \in Req, CreateVerificationCode(r), UNCHANGED <<held, cascade>>
    PROVE  Moves(r)
<1> DEFINE c == req[r].code
           u == req[r].user
           row == [state |-> "fresh", user |-> u, exp |-> req[r].at + CodeTTL]
<1>1. /\ UNCHANGED <<cred, token, lock>> /\ Goto(r, Idle) /\ req[r].pc = "insertCode"
      /\ code' = [code EXCEPT ![c] = row] /\ lock[u] = None
      BY DEF CreateVerificationCode, InsertCode, Return, Serves, ForeignKeyHolds, Unlocked
<1>2. /\ c \in Code /\ u \in User /\ code[c].state = "free" /\ code[c].user = None
      /\ code \in [Code -> Codes]
      BY <1>1, Shapes DEF Equipped, RowInv, CodesDrawn, SessionInv, Types, TypeOK
<1>3. /\ code'[c] = row /\ \A d \in Code \ {c} : code'[d] = code[d]
      /\ row.state = "fresh" /\ row.user = u
      BY <1>1, <1>2
<1>4. req'[r] = Idle /\ Idle.pc = "idle" /\ \A p \in Req \ {r} : req'[p] = req[p]
      BY <1>1, OthersStay, Fields
<1>5. CodesDrawn'
      BY <1>1, <1>2, <1>3, <1>4 DEF CodesDrawn, RowInv
<1>6. ASSUME NEW p \in Req \ {r} PROVE Undisturbed(p)
  <2>1. p # None
        BY Shapes
  <2>2. held[c] # p
        BY <1>2, Shapes DEF OwnRows, CodeMatches, CodesOf
  <2>3. \A v \in User : lock[v] = p => \A d \in Code : d \in CodesOf(v)' <=> d \in CodesOf(v)
        BY <1>1, <1>2, <1>3, <2>1 DEF CodesOf
  <2> QED
      BY <1>1, <1>3, <1>4, <2>2, <2>3 DEF Undisturbed, TokensOf, Stored, Exists
<1>7. ~Deleting(r)
      BY <1>1, Shapes DEF OwnCascade, Deleting
<1>8. (\A x \in Child : held'[x] # r) /\ (\A v \in User : lock'[v] # r)
      BY <1>1, <1>7, HoldsNothing DEF Locks
<1>9. Own(r)'
      BY <1>4, <1>7, <1>8, Shapes DEF Own, OwnCascade, OwnRows, Deleting, Child, Mutates
<1> QED
    BY <1>5, <1>6, <1>9 DEF Moves, RowTypes, RowInv

\* So does the INSERT of a token.
LEMMA InsertTokenMoves ==
    ASSUME RowInv, NEW r \in Req, CreateRefreshToken(r), UNCHANGED <<held, cascade>>
    PROVE  Moves(r)
<1> DEFINE t == req[r].new
           u == req[r].user
           row == TokenRow(u, req[r].at + TokenTTL, t)
           q == [req[r] EXCEPT !.pc = "reply"]
<1>1. /\ UNCHANGED <<cred, code, lock>> /\ Goto(r, q) /\ req[r].pc = "insertToken"
      /\ token' = [token EXCEPT ![t] = row] /\ lock[u] = None
      BY DEF CreateRefreshToken, InsertToken, GoOn, Serves, ForeignKeyHolds, Unlocked
<1>2. /\ t \in Token /\ u \in User /\ token[t].state = "free" /\ token[t].user = None
      /\ token \in [Token -> Tokens] /\ req[r].at + TokenTTL \in Int
      BY <1>1, Shapes, Fields, TimeAssumption
      DEF Equipped, RowInv, SessionInv, Types, TypeOK, Draws, Drawing, RowsOwned
<1>3. /\ token'[t] = row /\ \A x \in Token \ {t} : token'[x] = token[x]
      /\ row.state = "live" /\ row.user = u
      BY <1>1, <1>2, NewToken
<1>4. req'[r] = q /\ q.pc = "reply" /\ \A p \in Req \ {r} : req'[p] = req[p]
      BY <1>1, OthersStay, Shapes, MoveRequest
<1>5. CodesDrawn'
      BY <1>1, <1>4, CodesStay
<1>6. ASSUME NEW p \in Req \ {r} PROVE Undisturbed(p)
  <2>1. p # None
        BY Shapes
  <2>2. held[t] # p
        BY <1>2, Shapes DEF OwnRows, TokensOf, Stored
  <2>3. \A v \in User : lock[v] = p =>
          \A x \in Token : x \in TokensOf(v)' <=> x \in TokensOf(v)
        BY <1>1, <1>2, <1>3, <2>1 DEF TokensOf, Stored
  <2> QED
      BY <1>1, <1>3, <1>4, <2>2, <2>3 DEF Undisturbed, CodesOf, Exists
<1>7. ~Deleting(r)
      BY <1>1, Shapes DEF OwnCascade, Deleting
<1>8. (\A x \in Child : held'[x] # r) /\ (\A v \in User : lock'[v] # r)
      BY <1>1, <1>7, HoldsNothing DEF Locks
<1>9. Own(r)'
      BY <1>4, <1>7, <1>8, Shapes DEF Own, OwnCascade, OwnRows, Deleting, Child, Mutates
<1> QED
    BY <1>5, <1>6, <1>9 DEF Moves, RowTypes, RowInv

\* A reply locks nothing.
LEMMA ReplyMoves ==
    ASSUME RowInv, NEW r \in Req, Reply(r), UNCHANGED <<held, cascade>>
    PROVE  Moves(r)
<1>1. /\ UNCHANGED <<cred, code, token, lock>> /\ Goto(r, Idle) /\ req[r].pc = "reply"
      BY DEF Reply, Return, Serves, tables
<1>2. req'[r] = Idle /\ Idle.pc = "idle" /\ \A p \in Req \ {r} : req'[p] = req[p]
      BY <1>1, OthersStay, Fields
<1>3. CodesDrawn'
      BY <1>1, <1>2, CodesStay
<1>4. \A p \in Req \ {r} : Undisturbed(p)
      BY <1>1, <1>2, TablesStay
<1>5. ~Deleting(r)
      BY <1>1, Shapes DEF OwnCascade, Deleting
<1>6. (\A x \in Child : held'[x] # r) /\ (\A v \in User : lock'[v] # r)
      BY <1>1, <1>5, HoldsNothing DEF Locks
<1>7. Own(r)'
      BY <1>2, <1>5, <1>6, Shapes DEF Own, OwnCascade, OwnRows, Deleting, Child, Mutates
<1> QED
    BY <1>3, <1>4, <1>7 DEF Moves, RowTypes, RowInv

\* A free row is taken from nobody.
LEMMA RowTaken ==
    ASSUME RowInv, NEW r \in Req, NEW x \in Child, Free(x), Lock(r, x)
    PROVE  /\ held' \in [Child -> Req \cup {None}]
           /\ held'[x] = r /\ \A y \in Child \ {x} : held'[y] = held[y]
           /\ \A p \in Req \ {r} : \A y \in Child : held'[y] = p <=> held[y] = p
<1>1. held \in [Child -> Req \cup {None}] /\ \A p \in Req : p # None
      BY Shapes
<1> QED
    BY <1>1 DEF Free, Lock

\* The verification takes the code row it is going to spend.
LEMMA LockCodeRowMoves ==
    ASSUME RowInv, NEW r \in Req, LockCodeRow(r)
    PROVE  Moves(r)
<1> DEFINE c == req[r].code
<1>1. /\ UNCHANGED <<cred, code, token, lock, req, cascade>> /\ req[r].pc = "verify"
      /\ Free(c) /\ Lock(r, c) /\ CodeMatches(req[r].user, c, req[r].at)
      BY DEF LockCodeRow, vars, tables, Serves
<1>2. c \in Code /\ c \in Child
      BY <1>1, Shapes DEF Equipped, Child
<1>3. /\ held' \in [Child -> Req \cup {None}]
      /\ held'[c] = r /\ \A y \in Child \ {c} : held'[y] = held[y]
      /\ \A p \in Req \ {r} : \A y \in Child : held'[y] = p <=> held[y] = p
      BY <1>1, <1>2, RowTaken
<1>4. \A p \in Req \ {r} : Undisturbed(p)
      BY <1>1, <1>3, TablesStay
<1>5. OwnCascade(r)'
      BY <1>1, Shapes DEF OwnCascade, Exists
<1>6. OwnRows(r)'
  <2>1. OwnRows(r) /\ cascade[r].pc = "idle"
        BY <1>1, Shapes DEF OwnCascade
  <2>2. \A t \in Token : held'[t] = held[t]
        BY <1>2, <1>3, RowsAssumption DEF Child
  <2> QED
      BY <1>1, <1>2, <1>3, <2>1, <2>2
      DEF OwnRows, CodeMatches, Locks, Mutates, Child, Deleting
<1> QED
    BY <1>1, <1>3, <1>4, <1>5, <1>6, CodesAlone DEF Moves, Own, RowTypes, RowInv

\* The load of a token takes the token row first, ...
LEMMA LockTokenRowMoves ==
    ASSUME RowInv, NEW r \in Req, LockTokenRow(r)
    PROVE  Moves(r)
<1> DEFINE t == req[r].tok
<1>1. /\ UNCHANGED <<cred, code, token, lock, req, cascade>>
      /\ req[r].pc \in {"loadRotate", "loadRevoke"}
      /\ Free(t) /\ Lock(r, t) /\ Stored(t)
      BY DEF LockTokenRow, Loads, vars, tables, Serves
<1>2. t \in Token /\ t \in Child
      BY <1>1, Shapes DEF Equipped, Child
<1>3. /\ held' \in [Child -> Req \cup {None}]
      /\ held'[t] = r /\ \A y \in Child \ {t} : held'[y] = held[y]
      /\ \A p \in Req \ {r} : \A y \in Child : held'[y] = p <=> held[y] = p
      BY <1>1, <1>2, RowTaken
<1>4. \A p \in Req \ {r} : Undisturbed(p)
      BY <1>1, <1>3, TablesStay
<1>5. OwnCascade(r)'
      BY <1>1, Shapes DEF OwnCascade, Exists
<1>6. OwnRows(r)'
  <2>1. OwnRows(r) /\ cascade[r].pc = "idle"
        BY <1>1, Shapes DEF OwnCascade
  <2>2. \A c \in Code : held'[c] = held[c]
        BY <1>2, <1>3, RowsAssumption DEF Child
  <2> QED
      BY <1>1, <1>2, <1>3, <2>1, <2>2
      DEF OwnRows, CodeMatches, Stored, Locks, Mutates, Child, Deleting
<1> QED
    BY <1>1, <1>3, <1>4, <1>5, <1>6, CodesAlone DEF Moves, Own, RowTypes, RowInv

\* ... then its credential row.
LEMMA LockCredentialRowMoves ==
    ASSUME RowInv, NEW r \in Req, LockCredentialRow(r)
    PROVE  Moves(r)
<1> DEFINE t == req[r].tok
           u == token[t].user
<1>1. /\ UNCHANGED <<cred, code, token, req, held, cascade>>
      /\ req[r].pc \in {"loadRotate", "loadRevoke"}
      /\ held[t] = r /\ lock[u] = None /\ lock' = [lock EXCEPT ![u] = r]
      BY DEF LockCredentialRow, Loads, Serves, Unlocked
<1>2. \A p \in Req \ {r} : \A v \in User : lock'[v] = p <=> lock[v] = p
      BY <1>1, Shapes
<1>3. \A p \in Req \ {r} : Undisturbed(p)
      BY <1>1, <1>2, TablesStay
<1>4. OwnCascade(r) /\ OwnRows(r) /\ cascade[r].pc = "idle"
      BY <1>1, Shapes DEF OwnCascade
<1>5. \A v \in User : lock'[v] = r => lock[v] = r \/ v = u
      BY <1>1, Shapes
<1>6. OwnCascade(r)'
      BY <1>1, <1>4 DEF OwnCascade
<1>7. OwnRows(r)'
      BY <1>1, <1>4, <1>5
      DEF OwnRows, CodeMatches, Stored, Locks, Mutates, Child, Deleting
<1> QED
    BY <1>1, <1>3, <1>6, <1>7, CodesAlone DEF Moves, Own, RowTypes, RowInv

\* The row passes the check: it is the one that r holds.
LEMMA PassCheckMoves ==
    ASSUME RowInv, NEW r \in Req, PassCheck(r)
    PROVE  Moves(r)
<1>1. PICK pc \in {"rotate", "revoke"} :
           pc = IF Serves(r, "loadRotate") THEN "rotate" ELSE "revoke"
      OBVIOUS
<1> DEFINE q == [req[r] EXCEPT !.pc = pc]
<1>2. /\ UNCHANGED <<cred, code, token, lock, held, cascade>> /\ Goto(r, q)
      /\ req[r].pc \in {"loadRotate", "loadRevoke"} /\ held[req[r].tok] = r
      BY <1>1 DEF PassCheck, Loads, HoldsBoth, Serves, GoOn, tables
<1>3. q \in Requests /\ q.pc = pc /\ q.tok = req[r].tok
  <2>1. req[r] \in Requests /\ pc \in {"rotate", "revoke", "reply"}
        BY Shapes
  <2> QED
      BY <2>1, MoveRequest
<1>4. req'[r] = q /\ \A p \in Req \ {r} : req'[p] = req[p]
      BY <1>2, OthersStay
<1>5. CodesDrawn'
      BY <1>2, <1>3, CodesStay
<1>6. \A p \in Req \ {r} : Undisturbed(p)
      BY <1>2, <1>4, TablesStay
<1>7. OwnCascade(r) /\ OwnRows(r) /\ cascade[r].pc = "idle"
      BY <1>2, Shapes DEF OwnCascade
<1>8. OwnCascade(r)' /\ OwnRows(r)'
      BY <1>2, <1>3, <1>4, <1>7
      DEF OwnCascade, OwnRows, CodeMatches, Stored, Locks, Mutates, Child, Deleting
<1> QED
    BY <1>2, <1>5, <1>6, <1>8 DEF Moves, Own, RowTypes, RowInv

\* The end of a transaction: nothing is left to own.
LEMMA EndMoves ==
    ASSUME RowInv, NEW r \in Req, NEW q, Goto(r, q), ~Mutates(q),
           cascade'[r] = NoCascade, cascade' \in [Req -> Cascades],
           \A p \in Req \ {r} : cascade'[p] = cascade[p],
           LetGo(r), \A u \in User : lock'[u] # r, CodesDrawn',
           \A p \in Req \ {r} : Undisturbed(p)
    PROVE  Moves(r)
<1>1. held' \in [Child -> Req \cup {None}] /\ \A x \in Child : held'[x] # r
      BY GivesUp
<1>2. req'[r] = q
      BY OthersStay
<1>3. Own(r)'
      BY <1>1, <1>2, OwnNothing
<1> QED
    BY <1>1, <1>3 DEF Moves, RowTypes

\* A request that is not idle has no DELETE.
LEMMA NoDelete ==
    ASSUME RowInv, NEW r \in Req, ~Serves(r, "idle"), UNCHANGED cascade
    PROVE  /\ ~Deleting(r) /\ cascade'[r] = NoCascade
           /\ cascade' \in [Req -> Cascades]
           /\ \A p \in Req : cascade'[p] = cascade[p]
BY Shapes DEF OwnCascade, Deleting, Serves

\* COMMIT of a rotation or a sign-out.  It writes the row that r holds, and a row
\* nobody has found; both belong to the user whose credential row r holds.
LEMMA CommitMoves ==
    ASSUME RowInv, NEW r \in Req, Commit(r)
    PROVE  Moves(r)
<1> DEFINE old == req[r].tok
           new == req[r].new
           u == token[old].user
<1>1. /\ UNCHANGED <<cred, code, cascade>> /\ LetGo(r) /\ Release(r) /\ Mutates(req[r])
      BY DEF Commit, RotateRefreshToken, RevokeRefreshToken, CommitRotation,
             CommitRevocation, Serves, Mutates
<1>2. PICK q : Goto(r, q) /\ ~Mutates(q) /\ q.pc # "insertCode"
  <2>1. [req[r] EXCEPT !.pc = "reply"].pc = "reply" /\ Idle.pc = "idle"
        BY Shapes, MoveRequest, Fields
  <2>2. Goto(r, Idle) \/ Goto(r, [req[r] EXCEPT !.pc = "reply"])
        BY DEF Commit, RotateRefreshToken, RevokeRefreshToken, GoOn, Return
  <2> QED
      BY <2>1, <2>2 DEF Mutates
<1>3. /\ old \in Token /\ u \in User /\ held[old] = r /\ lock[u] = r
      /\ token[old] \in Tokens /\ token[old].state = "live" /\ token[old].root \in Token
      BY <1>1, Shapes
      DEF OwnRows, Equipped, RowInv, SessionInv, LocksHeld, Live, Types, TypeOK,
          RowsOwned, Mutates
<1>4. \A t \in Token : t # old => \/ token'[t] = token[t]
                                  \/ token[t].state = "free" /\ token'[t].user = u
  <2>1. CASE RevokeRefreshToken(r)
        BY <2>1 DEF RevokeRefreshToken, CommitRevocation, RowInv, SessionInv, Types, TypeOK
  <2>2. CASE RotateRefreshToken(r)
    <3>1. /\ new \in Token /\ token[new].state = "free" /\ req[r].at + TokenTTL \in Int
          BY <2>2, Shapes, Fields, TimeAssumption
          DEF RotateRefreshToken, Serves, Equipped, RowInv, SessionInv, Types, Draws, Drawing
    <3>2. TokenRow(u, req[r].at + TokenTTL, token[old].root).user = u
          BY <1>3, <3>1, NewToken
    <3>3. token' = [token EXCEPT
                      ![old] = Mark(@, "revoked"),
                      ![new] = TokenRow(u, req[r].at + TokenTTL, token[old].root)]
          BY <2>2 DEF RotateRefreshToken, CommitRotation
    <3> QED
        BY <3>1, <3>2, <3>3 DEF RowInv, SessionInv, Types, TypeOK
  <2> QED
      BY <1>1, <2>1, <2>2 DEF Commit
<1>5. token'[old].user = u
  <2>1. Mark(token[old], "revoked").user = u
        BY <1>3, MarkToken
  <2>2. CASE RevokeRefreshToken(r)
        BY <1>3, <2>1, <2>2
        DEF RevokeRefreshToken, CommitRevocation, RowInv, SessionInv, Types, TypeOK
  <2>3. CASE RotateRefreshToken(r)
    <3>1. new \in Token /\ token[new].state = "free"
          BY <2>3, Shapes
          DEF RotateRefreshToken, Serves, Equipped, RowInv, SessionInv, Types, Draws, Drawing
    <3>2. new # old
          BY <1>3, <3>1
    <3> QED
        BY <1>3, <2>1, <2>3, <3>1, <3>2
        DEF RotateRefreshToken, CommitRotation, RowInv, SessionInv, Types, TypeOK
  <2> QED
      BY <2>2, <2>3 DEF Commit
<1>6. ASSUME NEW p \in Req \ {r} PROVE Undisturbed(p)
  <2>1. p # None /\ req'[p] = req[p]
        BY <1>2, Shapes, OthersStay
  <2>2. \A t \in Token : held[t] = p => Stored(t) /\ t # old
        BY <1>3, Shapes DEF OwnRows, TokensOf
  <2>3. \A t \in Token : held[t] = p => token'[t] = token[t]
        BY <1>4, <2>2 DEF Stored
  <2>4. ASSUME NEW v \in User, lock[v] = p, NEW t \in Token
        PROVE  t \in TokensOf(v)' <=> t \in TokensOf(v)
    <3>1. v # u
          BY <1>3, <2>4
    <3> QED
        BY <1>3, <1>4, <1>5, <3>1 DEF TokensOf, Stored
  <2>5. /\ \A x \in Child : held'[x] = p <=> held[x] = p
        /\ \A v \in User : lock'[v] = p <=> lock[v] = p
        BY <1>1, GivesUp
  <2> QED
      BY <1>1, <2>1, <2>3, <2>4, <2>5 DEF Undisturbed, CodesOf, Exists
<1>7. ~Serves(r, "idle")
      BY <1>1 DEF Mutates, Serves
<1>8. /\ cascade'[r] = NoCascade /\ cascade' \in [Req -> Cascades]
      /\ \A p \in Req : cascade'[p] = cascade[p]
      BY <1>1, <1>7, NoDelete
<1>9. \A v \in User : lock'[v] # r
      BY <1>1, GivesUp
<1>10. CodesDrawn'
       BY <1>1, <1>2, CodesStay
<1> QED
    BY <1>1, <1>2, <1>6, <1>8, <1>9, <1>10, EndMoves

\* The verification commits: the code it spends is its own, and the credential
\* was locked by nobody.
LEMMA FinishVerificationMoves ==
    ASSUME RowInv, NEW r \in Req, FinishVerification(r)
    PROVE  Moves(r)
<1> DEFINE c == req[r].code
           u == req[r].user
<1>1. /\ UNCHANGED <<token, lock, cascade>> /\ LetGo(r) /\ Goto(r, Idle)
      /\ req[r].pc = "verify" /\ held[c] = r /\ lock[u] = None
      /\ code[c].state = "fresh"
      /\ code' = [code EXCEPT ![c] = Mark(@, "used")]
      /\ cred' = [cred EXCEPT ![u] = [status |-> "email_verified", verified |-> TRUE]]
      BY DEF FinishVerification, VerifyRegistrationEmail, VerifyEmail, CodeMatches,
             Unlocked, Return, Serves
<1>2. c \in Code /\ u \in User /\ code \in [Code -> Codes] /\ cred \in [User -> Credentials]
      BY <1>1, Shapes DEF Equipped, RowInv, SessionInv, Types, TypeOK
<1>3. /\ code'[c].state = "used" /\ code'[c].user = code[c].user
      /\ \A d \in Code \ {c} : code'[d] = code[d]
  <2>1. Mark(code[c], "used").state = "used" /\ Mark(code[c], "used").user = code[c].user
    <3>1. code[c] \in Codes
          BY <1>2
    <3> QED
        BY <3>1 DEF Mark, Codes
  <2> QED
      BY <1>1, <1>2, <2>1
<1>4. \A v \in User : Exists(v) => cred'[v].status # "none"
      BY <1>1, <1>2 DEF Exists
<1>5. req'[r] = Idle /\ Idle.pc = "idle" /\ \A p \in Req \ {r} : req'[p] = req[p]
      BY <1>1, OthersStay, Fields
<1>6. CodesDrawn'
      BY <1>1, <1>3, <1>5 DEF CodesDrawn, RowInv
<1>7. /\ \A x \in Child : held'[x] # r
      /\ \A p \in Req \ {r} : \A x \in Child : held'[x] = p <=> held[x] = p
      BY <1>1, GivesUp
<1>8. ASSUME NEW p \in Req \ {r} PROVE Undisturbed(p)
  <2>1. \A d \in Code : held[d] = p => code'[d] = code[d]
        BY <1>1, <1>3
  <2>2. \A v \in User : \A d \in Code : d \in CodesOf(v)' <=> d \in CodesOf(v)
        BY <1>1, <1>3 DEF CodesOf
  <2> QED
      BY <1>1, <1>4, <1>5, <1>7, <2>1, <2>2 DEF Undisturbed, TokensOf, Stored
<1>9. ~Serves(r, "idle")
      BY <1>1 DEF Serves
<1>10. /\ ~Deleting(r) /\ cascade'[r] = NoCascade /\ cascade' \in [Req -> Cascades]
       /\ \A p \in Req : cascade'[p] = cascade[p]
       BY <1>1, <1>9, NoDelete
<1>11. \A v \in User : lock'[v] # r
       BY <1>1, <1>10, Shapes DEF OwnRows, Locks
<1> QED
    BY <1>1, <1>5, <1>6, <1>8, <1>10, <1>11, EndMoves DEF Mutates

\* ROLLBACK, and a request that is answered "no".
LEMMA RollbackMoves ==
    ASSUME RowInv, NEW r \in Req, ~Serves(r, "idle"), Goto(r, Idle), Release(r), LetGo(r),
           UNCHANGED <<cred, code, token, cascade>>
    PROVE  Moves(r)
<1>1. Idle.pc = "idle" /\ \A p \in Req \ {r} : req'[p] = req[p]
      BY OthersStay, Fields
<1>2. CodesDrawn'
      BY <1>1, CodesStay
<1>3. /\ cascade'[r] = NoCascade /\ cascade' \in [Req -> Cascades]
      /\ \A p \in Req : cascade'[p] = cascade[p]
      BY NoDelete
<1>4. /\ \A u \in User : lock'[u] # r
      /\ \A p \in Req \ {r} : /\ \A x \in Child : held'[x] = p <=> held[x] = p
                              /\ \A u \in User : lock'[u] = p <=> lock[u] = p
      BY GivesUp
<1>5. \A p \in Req \ {r} : Undisturbed(p)
      BY <1>1, <1>3, <1>4, TablesStay
<1> QED
    BY <1>1, <1>2, <1>3, <1>4, <1>5, EndMoves DEF Mutates

LEMMA RefuseAbortMoves ==
    ASSUME RowInv, NEW r \in Req, Refuse(r) \/ Abort(r)
    PROVE  Moves(r)
<1>1. ~Serves(r, "idle")
      BY DEF Refuse, Abort, Fail, Loads, Serves
<1>2. /\ Goto(r, Idle) /\ Release(r) /\ LetGo(r)
      /\ UNCHANGED <<cred, code, token, cascade>>
      BY DEF Refuse, Abort, Fail, Return
<1> QED
    BY <1>1, <1>2, RollbackMoves

\* The DELETE takes a credential row that nobody holds.
LEMMA LockDeletedRowMoves ==
    ASSUME RowInv, NEW r \in Req, NEW u \in User, LockDeletedRow(r, u)
    PROVE  Moves(r)
<1> DEFINE row == [pc |-> "row", user |-> u, todo |-> {}]
<1>1. /\ UNCHANGED <<cred, code, token, req, held>> /\ req[r].pc = "idle" /\ ~Deleting(r)
      /\ Exists(u) /\ lock[u] = None /\ "Delete" \in Ops
      /\ lock' = [lock EXCEPT ![u] = r] /\ cascade' = [cascade EXCEPT ![r] = row]
      BY DEF LockDeletedRow, Serves, Unlocked, Call
<1>2. row \in Cascades /\ row.pc = "row" /\ row.user = u /\ row.todo = {}
      BY DEF Cascades
<1>3. /\ cascade' \in [Req -> Cascades] /\ cascade'[r] = row
      /\ \A p \in Req \ {r} : cascade'[p] = cascade[p]
      BY <1>1, <1>2, Shapes
<1>4. /\ lock'[u] = r
      /\ \A p \in Req \ {r} : \A v \in User : lock'[v] = p <=> lock[v] = p
      BY <1>1, Shapes
<1>5. \A p \in Req \ {r} : Undisturbed(p)
      BY <1>1, <1>3, <1>4, TablesStay
<1>6. /\ \A x \in Child : held[x] # r
      /\ \A v \in User : lock[v] # r
      BY <1>1, HoldsNothing DEF Locks
<1>7. \A v \in User : lock'[v] = r => v = u
      BY <1>1, <1>6, Shapes
<1>8. OwnCascade(r)'
      BY <1>1, <1>2, <1>3, <1>4 DEF OwnCascade, Exists
<1>9. OwnRows(r)'
      BY <1>1, <1>2, <1>3, <1>6, <1>7
      DEF OwnRows, Deleting, Mutates, Child
<1> QED
    BY <1>1, <1>3, <1>5, <1>8, <1>9, CodesAlone DEF Moves, Own, RowTypes, RowInv

\* A cascade looks for the rows it has to delete: r has all rows of the credential
\* in its list or in its hands.
LEMMA CascadeMoves ==
    ASSUME RowInv, NEW r \in Req, CascadeToCodes(r) \/ CascadeToTokens(r)
    PROVE  Moves(r)
<1> DEFINE u == cascade[r].user
<1>1. PICK pc \in {"codes", "tokens"}, todo \in SUBSET Child :
           /\ Cascade(r, pc, todo)
           /\ pc = "codes" => todo = CodesOf(u)
           /\ pc = "tokens" => todo = TokensOf(u)
           /\ IF pc = "codes" THEN cascade[r].pc = "row"
              ELSE cascade[r].pc = "codes" /\ cascade[r].todo = {}
  <2>1. CodesOf(u) \in SUBSET Child /\ TokensOf(u) \in SUBSET Child
        BY DEF CodesOf, TokensOf, Child
  <2> QED
      BY <2>1 DEF CascadeToCodes, CascadeToTokens
<1>2. UNCHANGED <<cred, code, token, lock, req, held>>
      BY <1>1 DEF Cascade, vars, tables
<1>3. /\ cascade' \in [Req -> Cascades]
      /\ cascade'[r].pc = pc /\ cascade'[r].user = u /\ cascade'[r].todo = todo
      /\ \A p \in Req \ {r} : cascade'[p] = cascade[p]
  <2>1. cascade[r] \in Cascades /\ cascade \in [Req -> Cascades]
        BY Shapes
  <2>2. cascade' = [cascade EXCEPT ![r] = [cascade[r] EXCEPT !.pc = pc, !.todo = todo]]
        BY <1>1, <2>1 DEF Cascade
  <2>3. [cascade[r] EXCEPT !.pc = pc, !.todo = todo] \in Cascades
        BY <2>1 DEF Cascades
  <2> QED
      BY <2>1, <2>2, <2>3 DEF Cascades
<1>4. \A p \in Req \ {r} : Undisturbed(p)
      BY <1>2, <1>3, TablesStay
<1>5. OwnCascade(r) /\ OwnRows(r) /\ cascade[r].pc # "idle"
      BY <1>1, Shapes
<1>6. OwnCascade(r)'
  <2>1. UNCHANGED <<CodesOf(u), TokensOf(u)>>
        BY <1>2, <1>3 DEF CodesOf, TokensOf, Stored
  <2> QED
      BY <1>1, <1>2, <1>3, <1>5, <2>1 DEF OwnCascade, Exists, CodesOf, TokensOf, Stored
<1>7. OwnRows(r)'
      BY <1>1, <1>2, <1>3, <1>5
      DEF OwnCascade, OwnRows, CodeMatches, CodesOf, TokensOf, Stored, Locks, Mutates, Deleting
<1> QED
    BY <1>2, <1>3, <1>4, <1>6, <1>7, Shapes, CodesAlone DEF Moves, Own, RowTypes

\* ... and locks one of them.
LEMMA LockChildMoves ==
    ASSUME RowInv, NEW r \in Req, NEW x \in Child, LockChild(r, x)
    PROVE  Moves(r)
<1> DEFINE u == cascade[r].user
           row == [cascade[r] EXCEPT !.todo = @ \ {x}]
<1>1. /\ UNCHANGED <<cred, code, token, lock, req>> /\ Free(x) /\ Lock(r, x)
      /\ x \in cascade[r].todo /\ cascade' = [cascade EXCEPT ![r] = row]
  <2>1. cascade \in [Req -> Cascades]
        BY Shapes
  <2> QED
      BY <2>1 DEF LockChild, vars, tables
<1>2. /\ row \in Cascades
      /\ row.pc = cascade[r].pc /\ row.user = u /\ row.todo = cascade[r].todo \ {x}
  <2>1. cascade[r] \in Cascades
        BY Shapes
  <2> QED
      BY <2>1 DEF Cascades
<1>3. /\ cascade' \in [Req -> Cascades] /\ cascade'[r] = row
      /\ \A p \in Req \ {r} : cascade'[p] = cascade[p]
      BY <1>1, <1>2, Shapes
<1>4. /\ held' \in [Child -> Req \cup {None}]
      /\ held'[x] = r /\ \A y \in Child \ {x} : held'[y] = held[y]
      /\ \A p \in Req \ {r} : \A y \in Child : held'[y] = p <=> held[y] = p
      BY <1>1, RowTaken
<1>5. \A p \in Req \ {r} : Undisturbed(p)
      BY <1>1, <1>3, <1>4, TablesStay
<1>6. OwnCascade(r) /\ OwnRows(r) /\ cascade[r].pc \in {"codes", "tokens"}
  <2>1. cascade[r] \in Cascades /\ OwnCascade(r) /\ OwnRows(r)
        BY Shapes
  <2> QED
      BY <1>1, <2>1 DEF OwnCascade, NoCascade, Cascades
<1>7. \A y \in Child : held'[y] = r <=> held[y] = r \/ y = x
      BY <1>4
<1>8. OwnCascade(r)'
  <2>1. UNCHANGED <<CodesOf(u), TokensOf(u), Exists(u)>>
        BY <1>1 DEF CodesOf, TokensOf, Stored, Exists
  <2> QED
      BY <1>1, <1>2, <1>3, <1>6, <1>7, <2>1
      DEF OwnCascade, CodesOf, TokensOf, Stored, Exists, Child
<1>9. OwnRows(r)'
  <2>1. /\ x \in Token => cascade[r].pc = "tokens" /\ x \in TokensOf(u)
        /\ x \in Code => cascade[r].pc = "codes" /\ x \in CodesOf(u)
        BY <1>1, <1>6, RowsAssumption DEF OwnCascade, CodesOf, TokensOf
  <2>2. ~Locks(req[r]) /\ ~Mutates(req[r])
        BY <1>6 DEF OwnCascade, Locks, Mutates
  <2> QED
      BY <1>1, <1>2, <1>3, <1>6, <1>7, <2>1, <2>2
      DEF OwnRows, CodeMatches, CodesOf, TokensOf, Stored, Child, Deleting
<1> QED
    BY <1>1, <1>3, <1>4, <1>5, <1>8, <1>9, CodesAlone DEF Moves, Own, RowTypes

\* What a DELETE holds when it commits: the rows of its credential, and no other.
LEMMA DeletesAll ==
    ASSUME RowInv, NEW r \in Req, cascade[r].pc = "tokens", cascade[r].todo = {}
    PROVE  /\ \A c \in Code : held[c] = r <=> c \in CodesOf(cascade[r].user)
           /\ \A t \in Token : held[t] = r <=> t \in TokensOf(cascade[r].user)
           /\ cascade[r].user \in User /\ lock[cascade[r].user] = r
           /\ Exists(cascade[r].user) /\ req[r].pc = "idle"
           /\ \A u \in User : lock[u] = r => u = cascade[r].user
<1>1. OwnCascade(r) /\ OwnRows(r)
      BY Shapes
<1>2. req[r].pc = "idle"
      BY <1>1 DEF OwnCascade
<1> QED
    BY <1>1, <1>2 DEF OwnCascade, OwnRows, Locks

\* Deleted rows, and all others.
LEMMA RowsGone ==
    ASSUME RowInv, NEW r \in Req, CommitDelete(r)
    PROVE  LET u == cascade[r].user
           IN  /\ \A c \in Code : IF c \in CodesOf(u)
                                  THEN code'[c] = Mark(code[c], "gone")
                                  ELSE code'[c] = code[c]
               /\ \A t \in Token : IF t \in TokensOf(u)
                                   THEN token'[t] = Mark(token[t], "gone")
                                   ELSE token'[t] = token[t]
               /\ \A c \in Code : /\ Mark(code[c], "gone").state = "gone"
                                  /\ Mark(code[c], "gone") \in Codes
               /\ \A t \in Token : /\ Mark(token[t], "gone").state = "gone"
                                   /\ Mark(token[t], "gone") \in Tokens
                                   /\ Mark(token[t], "gone").user = token[t].user
                                   /\ Mark(token[t], "gone").root = token[t].root
<1>1. code \in [Code -> Codes] /\ token \in [Token -> Tokens]
      BY DEF RowInv, SessionInv, Types, TypeOK
<1>2. \A c \in Code : Mark(code[c], "gone") \in Codes /\ Mark(code[c], "gone").state = "gone"
      BY <1>1, MarkCode DEF Mark, Codes
<1>3. \A t \in Token : /\ Mark(token[t], "gone").state = "gone"
                       /\ Mark(token[t], "gone") \in Tokens
                       /\ Mark(token[t], "gone").user = token[t].user
                       /\ Mark(token[t], "gone").root = token[t].root
      BY <1>1, MarkToken
<1>4. /\ code' = [c \in Code |-> IF held[c] = r THEN Mark(code[c], "gone") ELSE code[c]]
      /\ token' = [t \in Token |-> IF held[t] = r THEN Mark(token[t], "gone") ELSE token[t]]
      /\ cascade[r].pc = "tokens" /\ cascade[r].todo = {}
      BY DEF CommitDelete
<1> QED
    BY <1>2, <1>3, <1>4, DeletesAll

\* The end of a DELETE gives up all its rows.
LEMMA EndDeleteFrees ==
    ASSUME RowInv, NEW r \in Req, Deleting(r), EndDelete(r)
    PROVE  /\ cascade' \in [Req -> Cascades] /\ cascade'[r] = NoCascade
           /\ \A p \in Req \ {r} : cascade'[p] = cascade[p]
           /\ held' \in [Child -> Req \cup {None}] /\ \A x \in Child : held'[x] # r
           /\ lock' \in [User -> Req \cup {None}] /\ \A v \in User : lock'[v] # r
           /\ \A p \in Req \ {r} : /\ \A x \in Child : held'[x] = p <=> held[x] = p
                                   /\ \A v \in User : lock'[v] = p <=> lock[v] = p
           /\ UNCHANGED <<req, now, delivered, ended>>
<1>1. NoCascade \in Cascades /\ cascade \in [Req -> Cascades]
      BY Shapes DEF NoCascade, Cascades
<1> QED
    BY <1>1, GivesUp DEF EndDelete

\* The DELETE commits or is rolled back: the rows that go are its own.
LEMMA EndDeleteMoves ==
    ASSUME RowInv, NEW r \in Req, CommitDelete(r) \/ AbortDelete(r)
    PROVE  Moves(r)
<1> DEFINE u == cascade[r].user
<1>1. Deleting(r) /\ EndDelete(r)
      BY DEF CommitDelete, AbortDelete, Deleting
<1>2. /\ cascade' \in [Req -> Cascades] /\ cascade'[r] = NoCascade
      /\ \A p \in Req \ {r} : cascade'[p] = cascade[p]
      /\ held' \in [Child -> Req \cup {None}] /\ \A x \in Child : held'[x] # r
      /\ \A v \in User : lock'[v] # r
      /\ \A p \in Req \ {r} : /\ \A x \in Child : held'[x] = p <=> held[x] = p
                              /\ \A v \in User : lock'[v] = p <=> lock[v] = p
      /\ UNCHANGED req
      BY <1>1, EndDeleteFrees
<1>3. req[r].pc = "idle"
      BY <1>1, Shapes DEF OwnCascade, Deleting
<1>4. Own(r)'
      BY <1>2, <1>3, OwnNothing DEF Mutates
<1>5. CASE AbortDelete(r)
  <2>1. UNCHANGED <<cred, code, token>>
        BY <1>5 DEF AbortDelete
  <2>2. \A p \in Req \ {r} : Undisturbed(p)
        BY <1>2, <2>1, TablesStay
  <2> QED
      BY <1>2, <1>4, <2>1, <2>2, CodesAlone DEF Moves, RowTypes
<1>6. CASE CommitDelete(r)
  <2>1. cascade[r].pc = "tokens" /\ cascade[r].todo = {}
        /\ cred' = [cred EXCEPT ![u] = NoCredential]
        BY <1>6 DEF CommitDelete
  <2>2. /\ u \in User /\ lock[u] = r
        /\ \A c \in Code : held[c] = r <=> c \in CodesOf(u)
        /\ \A t \in Token : held[t] = r <=> t \in TokensOf(u)
        BY <2>1, DeletesAll
  <2>3. /\ \A c \in Code : IF c \in CodesOf(u) THEN code'[c].state = "gone"
                           ELSE code'[c] = code[c]
        /\ \A t \in Token : IF t \in TokensOf(u) THEN token'[t].state = "gone"
                            ELSE token'[t] = token[t]
        BY <1>6, RowsGone
  <2>4. ASSUME NEW p \in Req \ {r} PROVE Undisturbed(p)
    <3>1. /\ \A t \in Token : held[t] = p => token'[t] = token[t]
          /\ \A c \in Code : held[c] = p => code'[c] = code[c]
          BY <2>2, <2>3
    <3>2. ASSUME NEW v \in User, lock[v] = p
          PROVE  /\ cred'[v] = cred[v]
                 /\ \A t \in Token : t \in TokensOf(v)' <=> t \in TokensOf(v)
                 /\ \A c \in Code : c \in CodesOf(v)' <=> c \in CodesOf(v)
      <4>1. v # u
            BY <2>2, <3>2
      <4>2. cred'[v] = cred[v]
            BY <2>1, <4>1 DEF RowInv, SessionInv, Types, TypeOK
      <4> QED
          BY <2>3, <4>1, <4>2 DEF TokensOf, CodesOf, Stored
    <3> QED
        BY <1>2, <3>1, <3>2 DEF Undisturbed, Exists
  <2>5. CodesDrawn'
    <3>1. \A p \in Req : req[p].pc = "insertCode" => req[p].code \in Code
          BY Shapes DEF Equipped
    <3> QED
        BY <1>2, <2>3, <3>1 DEF CodesDrawn, RowInv, CodesOf
  <2> QED
      BY <1>2, <1>4, <2>4, <2>5 DEF Moves, RowTypes
<1> QED
    BY <1>5, <1>6

\* The rest is one statement without a transaction, or the clock: nobody moves.
LEMMA Nobody ==
    ASSUME RowInv, UNCHANGED <<code, token, lock, req, held, cascade>>,
           \A u \in User : Exists(u) => cred'[u].status # "none"
    PROVE  RowTypes' /\ CodesDrawn' /\ \A r \in Req : Own(r)'
<1>1. \A r \in Req : Undisturbed(r)
      BY DEF Undisturbed, TokensOf, CodesOf, Stored
<1> QED
    BY <1>1, OwnKept, CodesAlone DEF RowTypes, RowInv

-----------------------------------------------------------------------------
(* The tables.  Most steps are steps of AuthService, or leave its variables *)
(* alone; the others are these.                                             *)

\* A step of a transaction that writes no row: it takes a free lock, gives up its
\* own, or goes on.
LEMMA TablesKept ==
    ASSUME RowInv, NEW r \in Req, NEW q \in Requests, Goto(r, q),
           UNCHANGED <<cred, code, token, now, delivered, ended>>,
           lock' \in [User -> Req \cup {None}],
           \A u \in User : lock[u] \notin {r, None} => lock'[u] = lock[u],
           Equipped(q, token), Drawing(q) => Drawing(req[r]) /\ q.new = req[r].new,
           q.new \in {req[r].new, None},
           Mutates(q) => token[q.tok].state = "live" /\ lock'[token[q.tok].user] = r
    PROVE  SessionInv'
<1>1. SessionInv /\ Types
      BY DEF RowInv, SessionInv
<1>2. token' \in [Token -> Tokens] /\ KeepStored /\ RowsOwned' /\ \A n : KeepFree(n)
      BY <1>1, TokensUntouched
<1>3. Drawing(q) => token[q.new].state = "free"
      BY <1>1 DEF Types, Draws
<1>4. req' \in [Req -> Requests] /\ Carries' /\ Draws'
      BY <1>1, <1>2, <1>3, RequestMoves
<1>5. Types'
      BY <1>1, <1>2, <1>4, TypesFrom DEF Types, TypeOK
<1>6. LocksHeld'
      BY <1>1, LocksMove
<1>7. Sessions'
      BY <1>1, <1>2, SessionsShrink
<1> QED
    BY <1>5, <1>6, <1>7 DEF SessionInv

\* A request that stays where it is.
LEMMA StaysPut ==
    ASSUME RowInv, NEW r \in Req, UNCHANGED req
    PROVE  Goto(r, req[r]) /\ req[r] \in Requests /\ Equipped(req[r], token)
BY Shapes DEF Goto

LEMMA LockKept ==
    ASSUME RowInv, NEW r \in Req, NEW u \in User, lock[u] = None,
           lock' = [lock EXCEPT ![u] = r]
    PROVE  /\ lock' \in [User -> Req \cup {None}]
           /\ \A v \in User : lock[v] \notin {r, None} => lock'[v] = lock[v]
BY Shapes

LEMMA LockCredentialRowKeeps ==
    ASSUME RowInv, NEW r \in Req, LockCredentialRow(r)
    PROVE  SessionInv'
<1> DEFINE u == token[req[r].tok].user
<1>1. /\ UNCHANGED <<cred, code, token, req, now, delivered, ended>>
      /\ req[r].pc \in {"loadRotate", "loadRevoke"}
      /\ lock[u] = None /\ lock' = [lock EXCEPT ![u] = r]
      BY DEF LockCredentialRow, Loads, Serves, Unlocked
<1>2. u \in User
      BY <1>1, Shapes DEF Equipped, RowInv, SessionInv, Types, RowsOwned
<1> QED
    BY <1>1, <1>2, StaysPut, LockKept, TablesKept DEF Mutates

LEMMA LockDeletedRowKeeps ==
    ASSUME RowInv, NEW r \in Req, NEW u \in User, LockDeletedRow(r, u)
    PROVE  SessionInv'
<1>1. /\ UNCHANGED <<cred, code, token, req, now, delivered, ended>>
      /\ req[r].pc = "idle"
      /\ lock[u] = None /\ lock' = [lock EXCEPT ![u] = r]
      BY DEF LockDeletedRow, Serves, Unlocked
<1> QED
    BY <1>1, StaysPut, LockKept, TablesKept DEF Mutates

LEMMA PassCheckKeeps ==
    ASSUME RowInv, NEW r \in Req, PassCheck(r)
    PROVE  SessionInv'
<1>1. PICK pc \in {"rotate", "revoke"} :
           pc = IF Serves(r, "loadRotate") THEN "rotate" ELSE "revoke"
      OBVIOUS
<1> DEFINE q == [req[r] EXCEPT !.pc = pc]
<1>2. /\ UNCHANGED <<cred, code, token, lock, now, delivered, ended>> /\ Goto(r, q)
      /\ req[r].pc = IF pc = "rotate" THEN "loadRotate" ELSE "loadRevoke"
      /\ lock[token[req[r].tok].user] = r /\ token[req[r].tok].state = "live"
      BY <1>1 DEF PassCheck, Loads, HoldsBoth, Usable, Serves, GoOn, tables
<1>3. req[r] \in Requests /\ Equipped(req[r], token) /\ lock \in [User -> Req \cup {None}]
      BY Shapes
<1>4. q \in Requests /\ q.pc = pc /\ q.tok = req[r].tok /\ q.new = req[r].new
  <2>1. pc \in {"rotate", "revoke", "reply"}
        OBVIOUS
  <2> QED
      BY <1>3, <2>1, MoveRequest
<1>5. Equipped(q, token) /\ (Drawing(q) => Drawing(req[r]))
      BY <1>2, <1>3, <1>4 DEF Equipped, Drawing
<1> QED
    BY <1>2, <1>3, <1>4, <1>5, TablesKept

LEMMA RefuseKeeps ==
    ASSUME RowInv, NEW r \in Req, Refuse(r)
    PROVE  SessionInv'
<1>1. /\ UNCHANGED <<cred, code, token, now, delivered, ended>>
      /\ Goto(r, Idle) /\ Release(r)
      BY DEF Refuse, Return
<1>2. Idle \in Requests /\ Idle.pc = "idle" /\ Idle.new = None
      BY Fields
<1>3. /\ lock' \in [User -> Req \cup {None}]
      /\ \A v \in User : lock[v] \notin {r, None} => lock'[v] = lock[v]
      BY <1>1, Shapes DEF Release
<1> QED
    BY <1>1, <1>2, <1>3, TablesKept DEF Equipped, Drawing, Mutates

LEMMA AbortDeleteKeeps ==
    ASSUME RowInv, NEW r \in Req, AbortDelete(r)
    PROVE  SessionInv'
<1>1. /\ UNCHANGED <<cred, code, token, req, now, delivered, ended>> /\ Release(r)
      /\ Deleting(r)
      BY DEF AbortDelete, EndDelete
<1>2. req[r].pc = "idle"
      BY <1>1, Shapes DEF OwnCascade, Deleting
<1>3. /\ lock' \in [User -> Req \cup {None}]
      /\ \A v \in User : lock[v] \notin {r, None} => lock'[v] = lock[v]
      BY <1>1, Shapes DEF Release
<1> QED
    BY <1>1, <1>2, <1>3, StaysPut, TablesKept DEF Mutates, Drawing

\* The tokens that go are not about to be rotated or revoked: who is about to
\* holds the credential row, and that is the DELETE.
LEMMA CommitDeleteKeeps ==
    ASSUME RowInv, NEW r \in Req, CommitDelete(r)
    PROVE  SessionInv'
<1> DEFINE u == cascade[r].user
<1>1. /\ cascade[r].pc = "tokens" /\ cascade[r].todo = {}
      /\ cred' = [cred EXCEPT ![u] = NoCredential]
      /\ Release(r) /\ UNCHANGED <<req, now, delivered, ended>>
      /\ code' = [c \in Code |-> IF held[c] = r THEN Mark(code[c], "gone") ELSE code[c]]
      /\ token' = [t \in Token |-> IF held[t] = r THEN Mark(token[t], "gone") ELSE token[t]]
      BY DEF CommitDelete, EndDelete
<1>2. u \in User /\ lock[u] = r /\ req[r].pc = "idle"
      BY <1>1, DeletesAll
<1>3. SessionInv /\ Types /\ TypeOK
      BY DEF RowInv, SessionInv, Types
<1>4. \A t \in Token : IF t \in TokensOf(u)
                       THEN /\ token'[t] = Mark(token[t], "gone")
                            /\ token'[t].state = "gone"
                            /\ token'[t].user = token[t].user
                            /\ token'[t].root = token[t].root
                       ELSE token'[t] = token[t]
      BY RowsGone
<1>5. token' \in [Token -> Tokens] /\ code' \in [Code -> Codes]
      BY <1>1, <1>3, RowsGone DEF TypeOK
<1>6. KeepStored /\ KeepFree(None) /\ RowsOwned'
  <2>1. KeepStored /\ KeepFree(None)
        BY <1>4 DEF KeepStored, KeepFree, TokensOf, Stored
  <2> QED
      BY <1>3, <1>4, <2>1 DEF RowsOwned, Types, TokensOf, Stored
<1>7. req' \in [Req -> Requests] /\ Carries' /\ Draws'
      BY <1>1, <1>3, <1>5, <1>6, RequestsStay
<1>8. cred' \in [User -> Credentials] /\ lock' \in [User -> Req \cup {None}]
      BY <1>1, <1>3, Fields DEF TypeOK, Release
<1>9. Types'
      BY <1>1, <1>3, <1>5, <1>6, <1>7, <1>8, TypesFrom DEF TypeOK
<1>10. LocksHeld'
  <2>1. \A t \in Token : token[t].state = "live" /\ lock[token[t].user] \notin {r, None}
                            => token'[t] = token[t]
        BY <1>2, <1>4 DEF TokensOf
  <2>2. \A v \in User : lock[v] \notin {r, None} => lock'[v] = lock[v]
        BY <1>1 DEF Release
  <2> QED
      BY <1>1, <1>2, <1>3, <2>1, <2>2, StaysPut, LocksMove DEF Mutates
<1>11. Sessions'
      BY <1>1, <1>3, <1>4, <1>6, SessionsShrink
<1> QED
    BY <1>9, <1>10, <1>11 DEF SessionInv

-----------------------------------------------------------------------------
(* The invariant.                                                           *)

\* No row, no lock and no DELETE at first.
LEMMA RowsAtFirst == RowInit => RowInv
<1> SUFFICES ASSUME RowInit PROVE RowInv
    OBVIOUS
<1>1. SessionInv
      BY SessionInit DEF RowInit
<1>2. NoCascade \in Cascades /\ NoCascade.pc = "idle"
      BY DEF NoCascade, Cascades
<1>3. /\ held = [x \in Child |-> None] /\ cascade = [r \in Req |-> NoCascade]
      /\ lock = [u \in User |-> None] /\ req = [r \in Req |-> Idle]
      /\ code = [c \in Code |-> FreeCode]
      BY DEF RowInit, Init
<1>4. RowTypes /\ CodesDrawn
      BY <1>2, <1>3, Fields DEF RowTypes, CodesDrawn, FreeCode
<1>5. ASSUME NEW r \in Req PROVE Own(r)
  <2>1. cascade[r] = NoCascade /\ req[r].pc = "idle" /\ r # None
        BY <1>3, Fields, NoneAssumption
  <2>2. OwnCascade(r)
        BY <1>2, <2>1 DEF OwnCascade
  <2>3. OwnRows(r)
        BY <1>3, <2>1 DEF OwnRows, Child, Mutates
  <2> QED
      BY <2>2, <2>3 DEF Own
<1> QED
    BY <1>1, <1>4, <1>5 DEF RowInv

\* A step of one request: it moves as its statement says, the others own what
\* they owned.
LEMMA MoveKeepsRows ==
    ASSUME RowInv, NEW r \in Req, Moves(r), SessionInv'
    PROVE  RowInv'
<1>1. \A p \in Req \ {r} : Own(p)'
      BY OwnKept DEF Moves
<1> QED
    BY <1>1 DEF Moves, RowInv

LEMMA WorkMoves ==
    ASSUME RowInv, NEW r \in Req, Work(r)
    PROVE  RowInv'
<1>0. SessionInv
      BY DEF RowInv
<1>1. CASE SingleRow(r)
  <2>1. SessionInv'
        BY <1>0, <1>1, SessionNext DEF SingleRow, Next, Continue, Proceed
  <2> QED
      BY <1>1, <2>1, InsertCodeMoves, InsertTokenMoves, ReplyMoves, MoveKeepsRows
      DEF SingleRow
<1>2. ASSUME \/ LockCodeRow(r) \/ LockTokenRow(r) \/ CascadeToCodes(r)
             \/ CascadeToTokens(r) \/ \E x \in Child : LockChild(r, x)
      PROVE  RowInv'
  <2>1. UNCHANGED vars
        BY <1>2 DEF LockCodeRow, LockTokenRow, CascadeToCodes, CascadeToTokens, Cascade,
                    LockChild
  <2>2. SessionInv'
        BY <1>0, <2>1, SessionNext
  <2> QED
      BY <1>2, <2>2, LockCodeRowMoves, LockTokenRowMoves, CascadeMoves, LockChildMoves,
         MoveKeepsRows
<1>3. CASE FinishVerification(r)
  <2>1. SessionInv'
        BY <1>0, <1>3, SessionNext DEF FinishVerification, Next, Continue, Proceed
  <2> QED
      BY <1>3, <2>1, FinishVerificationMoves, MoveKeepsRows
<1>4. CASE Commit(r)
  <2>1. SessionInv'
        BY <1>0, <1>4, SessionNext DEF Commit, Next, Continue, Proceed
  <2> QED
      BY <1>4, <2>1, CommitMoves, MoveKeepsRows
<1>5. CASE LockCredentialRow(r)
      BY <1>5, LockCredentialRowMoves, LockCredentialRowKeeps, MoveKeepsRows
<1>6. CASE PassCheck(r)
      BY <1>6, PassCheckMoves, PassCheckKeeps, MoveKeepsRows
<1>7. CASE Refuse(r)
      BY <1>7, RefuseAbortMoves, RefuseKeeps, MoveKeepsRows
<1>8. CASE CommitDelete(r)
      BY <1>8, EndDeleteMoves, CommitDeleteKeeps, MoveKeepsRows
<1> QED
    BY <1>1, <1>2, <1>3, <1>4, <1>5, <1>6, <1>7, <1>8 DEF Work

LEMMA RowStep == RowInv /\ [RowNext]_rowVars => RowInv'
<1> SUFFICES ASSUME RowInv, [RowNext]_rowVars PROVE RowInv'
    OBVIOUS
<1>0. SessionInv
      BY DEF RowInv
<1>1. ASSUME NEW r \in Req, StartRequest(r) PROVE RowInv'
  <2>1. SessionInv'
        BY <1>0, <1>1, SessionNext DEF StartRequest, Next
  <2> QED
      BY <1>1, <2>1, StartMoves, MoveKeepsRows
<1>2. ASSUME NEW r \in Req, NEW u \in User, LockDeletedRow(r, u) PROVE RowInv'
      BY <1>2, LockDeletedRowMoves, LockDeletedRowKeeps, MoveKeepsRows
<1>3. ASSUME NEW r \in Req, Abort(r) PROVE RowInv'
  <2>1. SessionInv'
        BY <1>0, <1>3, SessionNext DEF Abort, Next
  <2> QED
      BY <1>3, <2>1, RefuseAbortMoves, MoveKeepsRows
<1>4. ASSUME NEW r \in Req, AbortDelete(r) PROVE RowInv'
      BY <1>4, EndDeleteMoves, AbortDeleteKeeps, MoveKeepsRows
<1>5. ASSUME [Next]_vars, UNCHANGED <<code, token, lock, req, held, cascade>>,
             \A u \in User : Exists(u) => cred'[u].status # "none"
      PROVE  RowInv'
      BY <1>0, <1>5, SessionNext, Nobody DEF RowInv
<1>6. ASSUME NEW u \in User, DeactivateRegistrationAuth(u), UNCHANGED <<held, cascade>>
      PROVE  RowInv'
  <2>1. \A v \in User : Exists(v) => cred'[v].status # "none"
    <3>1. cred' = [cred EXCEPT ![u] = [status |-> "registration_failed", verified |-> FALSE]]
          BY <1>6 DEF DeactivateRegistrationAuth, UpdateDeactivated
    <3> QED
        BY <1>0, <3>1 DEF Exists, SessionInv, Types, TypeOK
  <2>2. UNCHANGED <<code, token, lock, req>>
        BY <1>6 DEF DeactivateRegistrationAuth, UpdateDeactivated
  <2> QED
      BY <1>5, <1>6, <2>1, <2>2 DEF Next
<1>7. ASSUME Tick \/ UNCHANGED vars, UNCHANGED <<held, cascade>> PROVE RowInv'
      BY <1>5, <1>7 DEF Next, Tick, vars, tables, Exists
<1> QED
    BY <1>1, <1>2, <1>3, <1>4, <1>6, <1>7, WorkMoves DEF RowNext, rowVars

\* The inductive invariant of the row locks: a request holds rows only for the
\* statement it is in, and a DELETE that has locked its credential row finds all
\* of its children.
THEOREM RowsHold == RowSpec => []RowInv
BY RowsAtFirst, RowStep, PTL DEF RowSpec

-----------------------------------------------------------------------------
(* Waiting.                                                                 *)

\* What is waited for is a row, and rows are held by transactions in progress.
LEMMA WaitedFor ==
    ASSUME RowInv, NEW p \in Req, NEW q \in Req, WaitsFor(p, q)
    PROVE  \/ \E u \in User : lock[u] = q
           \/ \E x \in Child : held[x] = q
<1>1. Equipped(req[p], token) /\ cascade[p] \in Cascades
      BY Shapes
<1>2. Loads(p) => req[p].tok \in Token /\ token[req[p].tok].user \in User
      BY <1>1 DEF Equipped, Loads, Serves, RowInv, SessionInv, Types, RowsOwned
<1>3. /\ Serves(p, "insertCode") \/ Serves(p, "insertToken") => req[p].user \in User
      /\ Serves(p, "verify") => req[p].user \in User /\ req[p].code \in Code
      BY <1>1 DEF Equipped, Serves
<1>4. cascade[p].todo \subseteq Child
      BY <1>1 DEF Cascades
<1> QED
    BY <1>2, <1>3, <1>4 DEF WaitsFor, Child

LEMMA HoldersWork ==
    ASSUME RowInv, NEW q \in Req,
           (\E u \in User : lock[u] = q) \/ (\E x \in Child : held[x] = q)
    PROVE  Runs(q) \/ Waits(q)
<1>1. OwnRows(q)
      BY Shapes
<1>2. ~Serves(q, "idle") \/ Deleting(q)
      BY <1>1 DEF OwnRows, Serves, Deleting, Locks, Child
<1> QED
    BY <1>2 DEF Runs

\* What a request waits for, by the statement it is in.
LEMMA RequestWaits ==
    ASSUME RowInv, NEW q \in Req, NEW s \in Req, WaitsFor(q, s)
    PROVE  /\ Locks(req[q]) /\ held[req[q].tok] = q =>
                /\ Loads(q)
                /\ lock[token[req[q].tok].user] = s /\ token[req[q].tok].user \in User
           /\ req[q].pc = "verify" /\ held[req[q].code] = q =>
                lock[req[q].user] = s /\ req[q].user \in User
           /\ Deleting(q) => \E x \in cascade[q].todo : held[x] = s
<1>1. q # s /\ OwnCascade(q) /\ Equipped(req[q], token)
      BY Shapes DEF WaitsFor
<1>2. req[q].pc # "idle" => cascade[q].todo = {}
      BY <1>1 DEF OwnCascade, NoCascade
<1>3. CASE Locks(req[q]) /\ held[req[q].tok] = q
  <2>1. token[req[q].tok].user \in User
        BY <1>1, <1>3 DEF Locks, Equipped, RowInv, SessionInv, Types, RowsOwned
  <2>2. req[q].pc # "idle"
        BY <1>3 DEF Locks
  <2> QED
      BY <1>1, <1>2, <1>3, <2>1, <2>2 DEF WaitsFor, Serves, Loads, Locks, OwnCascade, Deleting
<1>4. CASE req[q].pc = "verify" /\ held[req[q].code] = q
      BY <1>1, <1>2, <1>4 DEF WaitsFor, Serves, Loads, Locks, OwnCascade, Deleting, Equipped
<1>5. CASE Deleting(q)
      BY <1>1, <1>5 DEF WaitsFor, Serves, Loads, Locks, OwnCascade, Deleting
<1> QED
    BY <1>3, <1>4, <1>5

\* A DELETE waits for a row of the credential it has locked; whoever holds that
\* row waits for the credential.
LEMMA DeleteDeadlocks ==
    ASSUME RowInv, NEW q \in Req, Deleting(q), NEW s \in Req, WaitsFor(q, s)
    PROVE  WaitsFor(s, q)
<1> DEFINE u == cascade[q].user
<1>1. PICK x \in cascade[q].todo : held[x] = s
      BY RequestWaits
<1>2. /\ q # s /\ OwnCascade(q) /\ OwnRows(s) /\ OwnCascade(s)
      /\ cascade[q] \in Cascades
      BY Shapes DEF WaitsFor
<1>3. u \in User /\ lock[u] = q
      BY <1>2 DEF OwnCascade, Deleting
<1>4. \A v \in User : Deleting(s) /\ cascade[s].user = v => v # u
      BY <1>2, <1>3 DEF OwnCascade, Deleting
<1>5. \/ cascade[q].pc = "codes" /\ x \in CodesOf(u)
      \/ cascade[q].pc = "tokens" /\ x \in TokensOf(u)
      BY <1>1, <1>2 DEF OwnCascade, Cascades, Deleting
<1>6. CASE x \in CodesOf(u)
  <2>1. x \in Code /\ code[x].user = u
        BY <1>6 DEF CodesOf
  <2>2. CASE /\ req[s].pc = "verify" /\ req[s].code = x
             /\ CodeMatches(req[s].user, x, req[s].at)
    <3>1. req[s].user = u
          BY <2>1, <2>2 DEF CodeMatches
    <3> QED
        BY <1>1, <1>2, <1>3, <2>2, <3>1 DEF WaitsFor, Serves
  <2>3. CASE cascade[s].pc \in {"codes", "tokens"} /\ x \in CodesOf(cascade[s].user)
        BY <1>3, <1>4, <2>1, <2>3 DEF CodesOf, Deleting
  <2> QED
      BY <1>1, <1>2, <2>1, <2>2, <2>3 DEF OwnRows
<1>7. CASE x \in TokensOf(u)
  <2>1. x \in Token /\ token[x].user = u
        BY <1>7 DEF TokensOf
  <2>2. CASE Locks(req[s]) /\ req[s].tok = x
    <3>1. ~Mutates(req[s])
          BY <1>2, <1>3, <2>1, <2>2 DEF RowInv, SessionInv, LocksHeld
    <3>2. Loads(s)
          BY <2>2, <3>1 DEF Loads, Serves, Locks, Mutates
    <3> QED
        BY <1>1, <1>2, <1>3, <2>1, <2>2, <3>2 DEF WaitsFor
  <2>3. CASE cascade[s].pc = "tokens" /\ x \in TokensOf(cascade[s].user)
        BY <1>3, <1>4, <2>1, <2>3 DEF TokensOf, Deleting
  <2> QED
      BY <1>1, <1>2, <2>1, <2>2, <2>3 DEF OwnRows
<1> QED
    BY <1>5, <1>6, <1>7

\* Whoever has locked a credential row has it last, but for a DELETE.
LEMMA CredentialHolder ==
    ASSUME RowInv, NEW q \in Req, NEW u \in User, lock[u] = q
    PROVE  Runs(q) \/ Deadlocked(q)
<1>1. CASE Waits(q)
  <2>1. PICK s \in Req : WaitsFor(q, s)
        BY <1>1 DEF Waits
  <2>2. q # s /\ OwnRows(q)
        BY <2>1, Shapes DEF WaitsFor
  <2>3. ~(Locks(req[q]) /\ held[req[q].tok] = q /\ token[req[q].tok].user = u)
        BY <2>1, <2>2, RequestWaits
  <2>4. Deleting(q)
        BY <2>2, <2>3 DEF OwnRows
  <2> QED
      BY <2>1, <2>4, DeleteDeadlocks DEF Deadlocked
<1>2. CASE ~Waits(q)
      BY <1>2, HoldersWork
<1> QED
    BY <1>1, <1>2

\* Whoever has locked a child row waits at most for a credential row.
LEMMA ChildHolder ==
    ASSUME RowInv, NEW q \in Req, NEW x \in Child, held[x] = q
    PROVE  \/ Runs(q) \/ Deadlocked(q)
           \/ \E s \in Req : WaitsFor(q, s) /\ (Runs(s) \/ Deadlocked(s))
<1>1. CASE Waits(q)
  <2>1. PICK s \in Req : WaitsFor(q, s)
        BY <1>1 DEF Waits
  <2>2. OwnRows(q)
        BY Shapes
  <2>3. CASE Deleting(q)
        BY <2>1, <2>3, DeleteDeadlocks DEF Deadlocked
  <2>4. CASE ~Deleting(q)
    <3>1. \/ Locks(req[q]) /\ held[req[q].tok] = q
          \/ req[q].pc = "verify" /\ held[req[q].code] = q
          BY <2>2, <2>4 DEF OwnRows, Child, Deleting
    <3>2. \E u \in User : lock[u] = s
          BY <2>1, <3>1, RequestWaits
    <3> QED
        BY <2>1, <3>2, CredentialHolder
  <2> QED
      BY <2>3, <2>4
<1>2. CASE ~Waits(q)
      BY <1>2, HoldersWork
<1> QED
    BY <1>1, <1>2

\* Nobody waits for ever: the requests that wait for each other are a DELETE and
\* one other, for which PostgreSQL aborts one of the two; any other wait ends
\* with one that runs, two steps away at most.  Rotations, sign-outs and
\* verifications alone never deadlock (query.go:15-38, 67-100).
THEOREM NobodyWaitsForEver == RowSpec => []WaitsEnd
<1>1. RowInv => WaitsEnd
      BY WaitedFor, CredentialHolder, ChildHolder DEF WaitsEnd
<1> QED
    BY <1>1, RowsHold, PTL

-----------------------------------------------------------------------------
(* RowLocks implements AuthService: a commit is the step that AuthService   *)
(* takes, and so is the check of a row that has come back with its locks;   *)
(* taking a lock is no step.                                                *)

\* AuthService sees a lock from the check of the row to the commit.
LEMMA LockSeen ==
    ASSUME RowInv
    PROVE  /\ TransactionLock \in [User -> Req \cup {None}]
           /\ \A u \in User : \A r \in Req :
                TransactionLock[u] = r <=> lock[u] = r /\ Mutates(req[r])
           /\ \A u \in User :
                TransactionLock[u] = None <=>
                  \A r \in Req : ~(lock[u] = r /\ Mutates(req[r]))
<1>1. lock \in [User -> Req \cup {None}] /\ \A r \in Req : r # None
      BY Shapes, NoneAssumption DEF RowInv, SessionInv, Types, TypeOK
<1> QED
    BY <1>1 DEF TransactionLock, Mutates

LEMMA LockSeenNext ==
    ASSUME RowInv'
    PROVE  /\ TransactionLock' \in [User -> Req \cup {None}]
           /\ \A u \in User : \A r \in Req :
                TransactionLock'[u] = r <=> lock'[u] = r /\ Mutates(req'[r])
           /\ \A u \in User :
                TransactionLock'[u] = None <=>
                  \A r \in Req : ~(lock'[u] = r /\ Mutates(req'[r]))
<1>1. lock' \in [User -> Req \cup {None}] /\ \A r \in Req : r # None
      BY NoneAssumption DEF RowInv, SessionInv, Types, TypeOK
<1> QED
    BY <1>1 DEF TransactionLock, Mutates

\* A lock of r that AuthService does not see before or after a step is none.
LEMMA LockUnseen ==
    ASSUME RowInv, RowInv', NEW r \in Req,
           \A p \in Req \ {r} : /\ req'[p] = req[p]
                                /\ \A u \in User : lock'[u] = p <=> lock[u] = p,
           \A u \in User : ~(lock[u] = r /\ Mutates(req[r])),
           \A u \in User : ~(lock'[u] = r /\ Mutates(req'[r]))
    PROVE  TransactionLock' = TransactionLock
<1>1. \A u \in User : TransactionLock'[u] = TransactionLock[u]
  <2> TAKE u \in User
  <2>1. \A p \in Req : TransactionLock'[u] = p <=> TransactionLock[u] = p
        BY LockSeen, LockSeenNext
  <2>2. TransactionLock'[u] \in Req \cup {None} /\ TransactionLock[u] \in Req \cup {None}
        BY LockSeen, LockSeenNext
  <2> QED
      BY <2>1, <2>2
<1> QED
    BY <1>1, LockSeen, LockSeenNext

\* The end of a transaction is the same to AuthService.
LEMMA LockReleased ==
    ASSUME RowInv, RowInv', NEW r \in Req, Release(r), \A p \in Req \ {r} : req'[p] = req[p]
    PROVE  TransactionLock' =
             [u \in User |-> IF TransactionLock[u] = r THEN None ELSE TransactionLock[u]]
<1>1. /\ \A u \in User : lock'[u] # r
      /\ \A p \in Req \ {r} : \A u \in User : lock'[u] = p <=> lock[u] = p
      BY GivesUp
<1>2. ASSUME NEW u \in User
      PROVE  TransactionLock'[u] =
               IF TransactionLock[u] = r THEN None ELSE TransactionLock[u]
  <2>1. /\ TransactionLock'[u] # r
        /\ \A p \in Req \ {r} : TransactionLock'[u] = p <=> TransactionLock[u] = p
        BY <1>1, LockSeen, LockSeenNext
  <2>2. TransactionLock'[u] \in Req \cup {None} /\ TransactionLock[u] \in Req \cup {None}
        BY LockSeen, LockSeenNext
  <2> QED
      BY <2>1, <2>2, Shapes
<1> QED
    BY <1>2, LockSeenNext

\* What is free is free to AuthService.
LEMMA FreeIsUnlocked ==
    ASSUME RowInv, NEW u \in User,
           \/ Unlocked(u)
           \/ \E r \in Req : lock[u] = r /\ ~Mutates(req[r])
    PROVE  Atomic!Unlocked(u)
<1>1. \A r \in Req : r # None
      BY NoneAssumption
<1> QED
    BY <1>1, LockSeen DEF Unlocked, Atomic!Unlocked

\* A request that moves leaves the locks of the others, as AuthService sees them.
LEMMA MovedAlone ==
    ASSUME NEW r \in Req, Moves(r)
    PROVE  \A p \in Req \ {r} : /\ req'[p] = req[p]
                                /\ \A u \in User : lock'[u] = p <=> lock[u] = p
BY DEF Moves, Undisturbed

LEMMA StartIsAtomic ==
    ASSUME RowInv, RowInv', NEW r \in Req, StartRequest(r)
    PROVE  Atomic!Start(r)
<1>1. TransactionLock' = TransactionLock
  <2>1. ~Deleting(r) /\ req[r].pc = "idle" /\ UNCHANGED lock
        BY DEF StartRequest, Start, CreateCredential, CreatePendingRegistration,
               StartVerify, IssueRegistrationTokens, SignIn, ReadVerified, StartSignOut,
               StartRefresh, InsertCredential, tables, Serves
  <2>2. \A u \in User : lock[u] # r
        BY <2>1, HoldsNothing DEF Locks
  <2> QED
      BY <2>1, <2>2, StartMoves, MovedAlone, LockUnseen
<1>2. ASSUME NEW u \in User, CreateCredential(r, u) PROVE Atomic!CreateCredential(r, u)
      BY <1>1, <1>2
      DEF CreateCredential, InsertCredential, Exists, Call, Serves, Return, Goto,
          Atomic!CreateCredential, Atomic!InsertCredential, Atomic!Exists, Atomic!Call,
          Atomic!Serves, Atomic!Return, Atomic!Goto, Idle, Atomic!Idle
<1>3. ASSUME NEW u \in User, NEW c \in Code, CreatePendingRegistration(r, u, c)
      PROVE  Atomic!CreatePendingRegistration(r, u, c)
      BY <1>1, <1>3
      DEF CreatePendingRegistration, InsertCredential, Exists, FreshCode, Drawn, Call,
          Serves, Goto, Locals, Atomic!CreatePendingRegistration,
          Atomic!InsertCredential, Atomic!Exists, Atomic!FreshCode, Atomic!Drawn,
          Atomic!Call, Atomic!Serves, Atomic!Goto, Atomic!Locals
<1>4. ASSUME NEW u \in User, NEW c \in Code, StartVerify(r, u, c)
      PROVE  Atomic!StartVerify(r, u, c)
      BY <1>1, <1>4
      DEF StartVerify, Call, Serves, Goto, Locals, tables, Atomic!StartVerify,
          Atomic!Call, Atomic!Serves, Atomic!Goto, Atomic!Locals, Atomic!tables
<1>5. ASSUME NEW u \in User, NEW t \in Token, ReadVerified(r, u, t)
      PROVE  Atomic!ReadVerified(r, u, t)
      BY <1>1, <1>5
      DEF ReadVerified, FreshToken, Drawn, Serves, Goto, Locals, tables,
          Atomic!ReadVerified, Atomic!FreshToken, Atomic!Drawn, Atomic!Serves,
          Atomic!Goto, Atomic!Locals, Atomic!tables
<1>6. ASSUME NEW t \in Token, StartSignOut(r, t) PROVE Atomic!StartSignOut(r, t)
      BY <1>1, <1>6
      DEF StartSignOut, Call, Serves, Goto, Locals, tables, Atomic!StartSignOut,
          Atomic!Call, Atomic!Serves, Atomic!Goto, Atomic!Locals, Atomic!tables
<1>7. ASSUME NEW t \in Token, NEW new \in Token, StartRefresh(r, t, new)
      PROVE  Atomic!StartRefresh(r, t, new)
      BY <1>1, <1>7
      DEF StartRefresh, FreshToken, Drawn, Call, Serves, Goto, Locals, tables,
          Atomic!StartRefresh, Atomic!FreshToken, Atomic!Drawn, Atomic!Call,
          Atomic!Serves, Atomic!Goto, Atomic!Locals, Atomic!tables
<1> QED
    BY <1>2, <1>3, <1>4, <1>5, <1>6, <1>7
    DEF StartRequest, Start, IssueRegistrationTokens, SignIn, Call, Atomic!Start,
        Atomic!IssueRegistrationTokens, Atomic!SignIn, Atomic!Call

\* One statement, one step.
LEMMA SingleRowIsAtomic ==
    ASSUME RowInv, RowInv', NEW r \in Req, SingleRow(r) \/ FinishVerification(r)
    PROVE  Atomic!Proceed(r)
<1>1. Moves(r)
      BY InsertCodeMoves, InsertTokenMoves, ReplyMoves, FinishVerificationMoves
      DEF SingleRow
<1>2. /\ req[r].pc \in {"insertCode", "insertToken", "reply", "verify"} /\ UNCHANGED lock
      BY DEF SingleRow, FinishVerification, CreateVerificationCode, InsertCode,
             CreateRefreshToken, InsertToken, Reply, VerifyRegistrationEmail, VerifyEmail,
             Serves, tables
<1>3. \A u \in User : lock[u] # r
      BY <1>2, Shapes DEF OwnRows, OwnCascade, Locks, Deleting
<1>4. TransactionLock' = TransactionLock
      BY <1>1, <1>2, <1>3, MovedAlone, LockUnseen
<1>5. req[r].pc # "reply" => req[r].user \in User
      BY <1>2, Shapes DEF Equipped
<1>6. CASE CreateVerificationCode(r)
  <2>1. Atomic!Unlocked(req[r].user)
        BY <1>5, <1>6, FreeIsUnlocked
        DEF CreateVerificationCode, InsertCode, ForeignKeyHolds, Serves
  <2>2. Atomic!CreateVerificationCode(r)
        BY <1>4, <1>6, <2>1
        DEF CreateVerificationCode, InsertCode, ForeignKeyHolds, Exists, Serves, Return,
            Goto, Idle, Atomic!CreateVerificationCode, Atomic!InsertCode,
            Atomic!ForeignKeyHolds, Atomic!Exists, Atomic!Serves, Atomic!Return,
            Atomic!Goto, Atomic!Idle
  <2> QED
      BY <2>2 DEF Atomic!Proceed
<1>7. CASE CreateRefreshToken(r)
  <2>1. Atomic!Unlocked(req[r].user)
        BY <1>5, <1>7, FreeIsUnlocked
        DEF CreateRefreshToken, InsertToken, ForeignKeyHolds, Serves
  <2>2. Atomic!CreateRefreshToken(r)
        BY <1>4, <1>7, <2>1
        DEF CreateRefreshToken, InsertToken, ForeignKeyHolds, Exists, TokenRow, Serves,
            GoOn, Goto, Atomic!CreateRefreshToken, Atomic!InsertToken, Atomic!TokenRow,
            Atomic!ForeignKeyHolds, Atomic!Exists, Atomic!Serves, Atomic!GoOn,
            Atomic!Goto
  <2> QED
      BY <2>2 DEF Atomic!Proceed
<1>8. CASE Reply(r)
  <2>1. Atomic!Reply(r)
        BY <1>4, <1>8
        DEF Reply, Serves, Return, Goto, Idle, tables, Atomic!Reply, Atomic!Serves,
            Atomic!Return, Atomic!Goto, Atomic!Idle, Atomic!tables
  <2> QED
      BY <2>1 DEF Atomic!Proceed
<1>9. CASE VerifyRegistrationEmail(r)
  <2>1. Atomic!Unlocked(req[r].user)
        BY <1>5, <1>9, FreeIsUnlocked DEF VerifyRegistrationEmail, VerifyEmail, Serves
  <2>2. Atomic!VerifyRegistrationEmail(r)
        BY <1>4, <1>9, <2>1
        DEF VerifyRegistrationEmail, VerifyEmail, CodeMatches, Mark, Serves, Return, Goto,
            Idle, Atomic!VerifyRegistrationEmail, Atomic!VerifyEmail, Atomic!CodeMatches,
            Atomic!Mark, Atomic!Serves, Atomic!Return, Atomic!Goto, Atomic!Idle
  <2> QED
      BY <2>2 DEF Atomic!Proceed
<1> QED
    BY <1>6, <1>7, <1>8, <1>9 DEF SingleRow, FinishVerification

\* The check of a row that has come back with its locks is the SELECT ... FOR
\* UPDATE of AuthService.
LEMMA PassCheckIsAtomic ==
    ASSUME RowInv, RowInv', NEW r \in Req, PassCheck(r)
    PROVE  Atomic!LoadRefreshTokenForMutation(r)
<1> DEFINE u == token[req[r].tok].user
           pc == IF Serves(r, "loadRotate") THEN "rotate" ELSE "revoke"
           q == [req[r] EXCEPT !.pc = pc]
<1>1. /\ UNCHANGED <<cred, code, token, lock>> /\ Goto(r, q)
      /\ req[r].pc \in {"loadRotate", "loadRevoke"}
      /\ held[req[r].tok] = r /\ lock[u] = r /\ Usable(req[r].tok, req[r].at)
      BY DEF PassCheck, Loads, HoldsBoth, Serves, GoOn, tables
<1>2. u \in User
      BY <1>1, Shapes DEF Equipped, RowInv, SessionInv, Types, RowsOwned
<1>3. \A v \in User : lock[v] = r <=> v = u
      BY <1>1, <1>2, Shapes DEF OwnRows, OwnCascade, Deleting
<1>4. /\ req'[r] = q /\ Mutates(q) /\ ~Mutates(req[r])
      /\ \A p \in Req \ {r} : req'[p] = req[p]
  <2>1. pc \in {"rotate", "revoke", "reply"} /\ pc \in {"rotate", "revoke"}
        OBVIOUS
  <2>2. q.pc = pc
        BY <2>1, Shapes, MoveRequest
  <2> QED
      BY <1>1, <2>1, <2>2, OthersStay DEF Mutates
<1>5. TransactionLock' = [TransactionLock EXCEPT ![u] = r]
  <2>1. TransactionLock'[u] = r
        BY <1>1, <1>2, <1>4, LockSeenNext
  <2>2. ASSUME NEW v \in User, v # u PROVE TransactionLock'[v] = TransactionLock[v]
    <3>1. \A p \in Req : TransactionLock'[v] = p <=> TransactionLock[v] = p
          BY <1>1, <1>3, <1>4, <2>2, LockSeen, LockSeenNext
    <3>2. TransactionLock'[v] \in Req \cup {None} /\ TransactionLock[v] \in Req \cup {None}
          BY LockSeen, LockSeenNext
    <3> QED
        BY <3>1, <3>2
  <2> QED
      BY <2>1, <2>2, LockSeen, LockSeenNext
<1>6. Atomic!Unlocked(u)
      BY <1>1, <1>2, <1>4, FreeIsUnlocked
<1>7. Atomic!LoadForMutation(r, req[r].tok, req[r].at)
      BY <1>1, <1>5, <1>6
      DEF Usable, Atomic!LoadForMutation, Atomic!Usable, Atomic!Stored
<1>8. Atomic!GoOn(r, IF Atomic!Serves(r, "loadRotate") THEN "rotate" ELSE "revoke")
      BY <1>1 DEF Goto, Serves, Atomic!GoOn, Atomic!Goto, Atomic!Serves
<1> QED
    BY <1>1, <1>7, <1>8
    DEF PassCheck, Atomic!LoadRefreshTokenForMutation, Atomic!Serves

\* COMMIT of a rotation or a sign-out.
LEMMA CommitIsAtomic ==
    ASSUME RowInv, RowInv', NEW r \in Req, Commit(r)
    PROVE  Atomic!RotateRefreshToken(r) \/ Atomic!RevokeRefreshToken(r)
<1>1. Release(r) /\ \A p \in Req \ {r} : req'[p] = req[p]
      BY CommitMoves, MovedAlone
      DEF Commit, RotateRefreshToken, RevokeRefreshToken, CommitRotation, CommitRevocation
<1>2. Atomic!Release(r)
      BY <1>1, LockReleased DEF Atomic!Release
<1>3. CASE RotateRefreshToken(r)
      BY <1>2, <1>3
      DEF RotateRefreshToken, CommitRotation, TokenRow, Mark, Serves, GoOn, Goto,
          Atomic!RotateRefreshToken, Atomic!CommitRotation, Atomic!TokenRow, Atomic!Mark,
          Atomic!Serves, Atomic!GoOn, Atomic!Goto
<1>4. CASE RevokeRefreshToken(r)
      BY <1>2, <1>4
      DEF RevokeRefreshToken, CommitRevocation, Mark, Serves, Return, Goto, Idle,
          Atomic!RevokeRefreshToken, Atomic!CommitRevocation, Atomic!Mark,
          Atomic!Serves, Atomic!Return, Atomic!Goto, Atomic!Idle
<1> QED
    BY <1>3, <1>4 DEF Commit

\* A refusal: the locks it gives up are none that AuthService has seen.
LEMMA RefuseIsAtomic ==
    ASSUME RowInv, RowInv', NEW r \in Req, Refuse(r)
    PROVE  Atomic!Reject(r)
<1> DEFINE u == token[req[r].tok].user
<1>1. Release(r) /\ Return(r) /\ UNCHANGED <<cred, code, token, now, delivered, ended>>
      BY DEF Refuse
<1>2. ~Mutates(req[r]) /\ \A v \in User : lock'[v] # r
      BY <1>1, GivesUp DEF Refuse, Loads, Serves, Mutates
<1>3. TransactionLock' = TransactionLock
      BY <1>2, RefuseAbortMoves, MovedAlone, LockUnseen
<1>4. Loads(r) /\ Stored(req[r].tok) /\ lock[u] = r => Atomic!Unlocked(u)
  <2>1. Loads(r) => u \in User
        BY Shapes DEF Loads, Serves, Equipped, RowInv, SessionInv, Types, RowsOwned
  <2> QED
      BY <1>2, <2>1, FreeIsUnlocked
<1>5. \/ Atomic!Serves(r, "insertCode") /\ ~Atomic!Exists(req[r].user)
      \/ Atomic!Serves(r, "insertToken") /\ ~Atomic!Exists(req[r].user)
      \/ /\ Atomic!Serves(r, "verify")
         /\ ~Atomic!CodeMatches(req[r].user, req[r].code, req[r].at)
      \/ /\ Atomic!Serves(r, "loadRotate") \/ Atomic!Serves(r, "loadRevoke")
         /\ Atomic!Stored(req[r].tok) => /\ Atomic!Unlocked(u)
                                         /\ ~Atomic!Usable(req[r].tok, req[r].at)
      BY <1>4
      DEF Refuse, Loads, HoldsBoth, Serves, Exists, CodeMatches, Stored, Usable,
          Atomic!Serves, Atomic!Exists, Atomic!CodeMatches, Atomic!Stored, Atomic!Usable
<1> QED
    BY <1>1, <1>3, <1>5
    DEF Return, Goto, Idle, Atomic!Reject, Atomic!Return, Atomic!Goto, Atomic!Idle,
        Atomic!tables

\* ROLLBACK.
LEMMA AbortIsAtomic ==
    ASSUME RowInv, RowInv', NEW r \in Req, Abort(r)
    PROVE  Atomic!Fail(r)
<1>1. Release(r) /\ \A p \in Req \ {r} : req'[p] = req[p]
      BY RefuseAbortMoves, MovedAlone DEF Abort, Fail
<1>2. Atomic!Release(r)
      BY <1>1, LockReleased DEF Atomic!Release
<1> QED
    BY <1>2
    DEF Abort, Fail, Serves, Return, Goto, Idle, Atomic!Fail, Atomic!Serves,
        Atomic!Return, Atomic!Goto, Atomic!Idle

\* A DELETE moves alone, and AuthService sees none of its locks.
LEMMA DeleteUnseen ==
    ASSUME RowInv, RowInv', NEW r \in Req, Moves(r), req[r].pc = "idle", UNCHANGED req
    PROVE  TransactionLock' = TransactionLock
BY MovedAlone, LockUnseen DEF Mutates

\* The COMMIT of a DELETE is the whole DELETE of AuthService: the rows it has
\* locked one by one are all rows of the credential.
LEMMA DeleteIsAtomic ==
    ASSUME RowInv, RowInv', NEW r \in Req, CommitDelete(r)
    PROVE  \E u \in User : Atomic!DeleteCredential(u)
<1>1. /\ cascade[r].pc = "tokens" /\ cascade[r].todo = {}
      /\ cred' = [cred EXCEPT ![cascade[r].user] = NoCredential]
      /\ code' = [c \in Code |-> IF held[c] = r THEN Mark(code[c], "gone") ELSE code[c]]
      /\ token' = [t \in Token |-> IF held[t] = r THEN Mark(token[t], "gone") ELSE token[t]]
      /\ UNCHANGED <<req, now, delivered, ended>>
      BY DEF CommitDelete, EndDelete
<1>2. PICK u \in User : u = cascade[r].user
      BY <1>1, DeletesAll
<1>3. /\ \A c \in Code : held[c] = r <=> c \in CodesOf(u)
      /\ \A t \in Token : held[t] = r <=> t \in TokensOf(u)
      /\ lock[u] = r /\ Exists(u) /\ req[r].pc = "idle" /\ "Delete" \in Ops
      BY <1>1, <1>2, DeletesAll, Shapes DEF OwnCascade
<1>4. /\ code \in [Code -> Codes] /\ token \in [Token -> Tokens] /\ RowsOwned
      /\ \A c \in Code : code[c].state = "free" => code[c].user = None
      BY DEF RowInv, SessionInv, Types, TypeOK, CodesDrawn
<1>5. /\ \A row \in Codes : row.state = "gone" => Mark(row, "gone") = row
      /\ \A row \in Tokens : row.state = "gone" => Mark(row, "gone") = row
      BY DEF Mark, Codes, Tokens
<1>6. ASSUME NEW c \in Code
      PROVE  code'[c] = IF code[c].user = u THEN Mark(code[c], "gone") ELSE code[c]
  <2>1. code[c].state \in {"free", "fresh", "used", "gone"} /\ code[c] \in Codes
        BY <1>4 DEF Codes
  <2>2. u # None
        BY NoneAssumption
  <2> QED
      BY <1>1, <1>3, <1>4, <1>5, <2>1, <2>2 DEF CodesOf
<1>7. ASSUME NEW t \in Token
      PROVE  token'[t] = IF token[t].user = u THEN Mark(token[t], "gone") ELSE token[t]
  <2>1. token[t].state \in {"free", "live", "revoked", "gone"} /\ token[t] \in Tokens
        BY <1>4 DEF Tokens
  <2>2. u # None
        BY NoneAssumption
  <2> QED
      BY <1>1, <1>3, <1>4, <1>5, <2>1, <2>2 DEF TokensOf, Stored, RowsOwned
<1>8. /\ code' = [c \in Code |->
                    IF code[c].user = u THEN Mark(code[c], "gone") ELSE code[c]]
      /\ token' = [t \in Token |->
                     IF token[t].user = u THEN Mark(token[t], "gone") ELSE token[t]]
      BY <1>1, <1>6, <1>7
<1>9. TransactionLock' = TransactionLock
      BY <1>1, <1>3, EndDeleteMoves, DeleteUnseen
<1>10. Atomic!Unlocked(u)
       BY <1>3, FreeIsUnlocked DEF Mutates
<1>11. Atomic!DeleteCredential(u)
       BY <1>1, <1>2, <1>3, <1>8, <1>9, <1>10
       DEF Exists, Mark, NoCredential, Atomic!DeleteCredential, Atomic!DeleteRows,
           Atomic!Call, Atomic!Exists, Atomic!Mark, Atomic!NoCredential
<1> QED
    BY <1>11

\* Taking a lock, finding rows and rolling a DELETE back are no steps.
LEMMA LockingStutters ==
    ASSUME RowInv, RowInv', NEW r \in Req,
           \/ LockCodeRow(r) \/ LockTokenRow(r) \/ LockCredentialRow(r)
           \/ CascadeToCodes(r) \/ CascadeToTokens(r) \/ \E x \in Child : LockChild(r, x)
           \/ \E u \in User : LockDeletedRow(r, u)
           \/ AbortDelete(r)
    PROVE  UNCHANGED Atomic!vars
<1>1. CASE \/ LockCodeRow(r) \/ LockTokenRow(r)
           \/ CascadeToCodes(r) \/ CascadeToTokens(r) \/ \E x \in Child : LockChild(r, x)
  <2>1. UNCHANGED vars
        BY <1>1 DEF LockCodeRow, LockTokenRow, CascadeToCodes, CascadeToTokens, Cascade,
                    LockChild
  <2> QED
      BY <2>1 DEF vars, tables, Atomic!vars, Atomic!tables, TransactionLock
<1>2. CASE LockCredentialRow(r)
  <2>1. /\ UNCHANGED <<cred, code, token, req, now, delivered, ended>>
        /\ ~Mutates(req[r])
        BY <1>2 DEF LockCredentialRow, Loads, Serves, Mutates
  <2>2. TransactionLock' = TransactionLock
        BY <1>2, <2>1, LockCredentialRowMoves, MovedAlone, LockUnseen
  <2> QED
      BY <2>1, <2>2 DEF Atomic!vars, Atomic!tables
<1>3. CASE (\E u \in User : LockDeletedRow(r, u)) \/ AbortDelete(r)
  <2>1. UNCHANGED <<cred, code, token, req, now, delivered, ended>>
        BY <1>3 DEF LockDeletedRow, AbortDelete, EndDelete
  <2>2. req[r].pc = "idle"
        BY <1>3, Shapes DEF LockDeletedRow, Serves, AbortDelete, OwnCascade, Deleting
  <2>3. TransactionLock' = TransactionLock
        BY <1>3, <2>1, <2>2, LockDeletedRowMoves, EndDeleteMoves, DeleteUnseen
  <2> QED
      BY <2>1, <2>3 DEF Atomic!vars, Atomic!tables
<1> QED
    BY <1>1, <1>2, <1>3

\* The statements without a transaction, and the clock.
LEMMA SinglesAreAtomic ==
    ASSUME RowInv, RowInv', UNCHANGED <<held, cascade>>,
           (\E u \in User : DeactivateRegistrationAuth(u)) \/ Tick
    PROVE  Atomic!Next
<1>1. UNCHANGED <<lock, req>>
      BY DEF DeactivateRegistrationAuth, UpdateDeactivated, Tick, tables
<1>2. TransactionLock' = TransactionLock
      BY <1>1 DEF TransactionLock
<1>3. ASSUME NEW u \in User, DeactivateRegistrationAuth(u)
      PROVE  Atomic!DeactivateRegistrationAuth(u)
  <2>1. Atomic!Unlocked(u)
        BY <1>3, FreeIsUnlocked DEF DeactivateRegistrationAuth, UpdateDeactivated
  <2> QED
      BY <1>2, <1>3, <2>1
      DEF DeactivateRegistrationAuth, UpdateDeactivated, Call, Exists,
          Atomic!DeactivateRegistrationAuth, Atomic!UpdateDeactivated, Atomic!Call,
          Atomic!Exists
<1>4. Tick => Atomic!Tick
      BY <1>2 DEF Tick, tables, Atomic!Tick, Atomic!tables
<1> QED
    BY <1>3, <1>4 DEF Atomic!Next

\* Every step on the rows is a step of AuthService, or none.
LEMMA RowStepIsAtomic ==
    ASSUME RowInv, RowInv', [RowNext]_rowVars
    PROVE  [Atomic!Next]_(Atomic!vars)
<1>1. ASSUME NEW r \in Req, Work(r) PROVE [Atomic!Next]_(Atomic!vars)
  <2>1. CASE SingleRow(r) \/ FinishVerification(r)
        BY <2>1, SingleRowIsAtomic DEF Atomic!Next, Atomic!Continue
  <2>2. CASE PassCheck(r)
        BY <2>2, PassCheckIsAtomic DEF Atomic!Next, Atomic!Continue, Atomic!Proceed
  <2>3. CASE Commit(r)
        BY <2>3, CommitIsAtomic DEF Atomic!Next, Atomic!Continue, Atomic!Proceed
  <2>4. CASE Refuse(r)
        BY <2>4, RefuseIsAtomic DEF Atomic!Next, Atomic!Continue
  <2>5. CASE CommitDelete(r)
        BY <2>5, DeleteIsAtomic DEF Atomic!Next
  <2> QED
      BY <1>1, <2>1, <2>2, <2>3, <2>4, <2>5, LockingStutters DEF Work
<1>2. ASSUME NEW r \in Req, StartRequest(r) \/ Abort(r) PROVE Atomic!Next
      BY <1>2, StartIsAtomic, AbortIsAtomic DEF Atomic!Next
<1>3. ASSUME NEW r \in Req, (\E u \in User : LockDeletedRow(r, u)) \/ AbortDelete(r)
      PROVE  UNCHANGED Atomic!vars
      BY <1>3, LockingStutters
<1>4. UNCHANGED rowVars => UNCHANGED Atomic!vars
      BY DEF rowVars, vars, tables, Atomic!vars, Atomic!tables, TransactionLock
<1> QED
    BY <1>1, <1>2, <1>3, <1>4, SinglesAreAtomic DEF RowNext

LEMMA RowsStartAtomic == RowInit => Atomic!Init
<1> SUFFICES ASSUME RowInit PROVE Atomic!Init
    OBVIOUS
<1>1. TransactionLock = [u \in User |-> None]
      BY NoneAssumption DEF RowInit, Init, TransactionLock
<1> QED
    BY <1>1
    DEF RowInit, Init, NoCredential, FreeCode, FreeToken, Idle, Atomic!Init,
        Atomic!NoCredential, Atomic!FreeCode, Atomic!FreeToken, Atomic!Idle

\* One lock per user stands for the locks of the rows: with its rows locked one
\* by one each statement is still the one step it is in AuthService, the cascade
\* of a DELETE included (query.go:15-38, 67-100; repository.go:122-240).
THEOREM RowLocksAreAtomic == RowSpec => StatementsAreAtomic
<1>1. RowInv /\ RowInv' /\ [RowNext]_rowVars => [Atomic!Next]_(Atomic!vars)
      BY RowStepIsAtomic
<1> QED
    BY <1>1, RowsStartAtomic, RowsHold, PTL DEF RowSpec, StatementsAreAtomic, Atomic!Spec

=============================================================================

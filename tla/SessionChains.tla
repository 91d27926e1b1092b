---------------------------- MODULE SessionChains ----------------------------
(***************************************************************************)
(* What the auth service promises about sessions, without its tables,      *)
(* transactions and requests: a session is a chain of refresh tokens.  It  *)
(* is opened with one usable token; a rotation replaces that token by one  *)
(* never used before; only a sign-out or the deletion of its user ends it, *)
(* and then for good.                                                      *)
(*                                                                         *)
(* AuthService implements this: see SessionsAreChains there.               *)
(***************************************************************************)
CONSTANT Token      \* refresh tokens; a session is named for its first one

VARIABLES
    usable,         \* session -> its usable tokens, at most one
    spent,          \* tokens that were rotated or signed out
    forgotten,      \* tokens that were deleted with their user
    closed          \* sessions that were signed out

vars == <<usable, spent, forgotten, closed>>

Init ==
    /\ usable = [s \in Token |-> {}]
    /\ spent = {}
    /\ forgotten = {}
    /\ closed = {}

Usable == UNION {usable[s] : s \in Token}
NeverUsed(t) == t \notin spent \cup forgotten \cup Usable

\* IssueRegistrationTokens or SignIn.
Open(s) ==
    /\ NeverUsed(s)
    /\ usable[s] = {}
    /\ usable' = [usable EXCEPT ![s] = {s}]
    /\ UNCHANGED <<spent, forgotten, closed>>

\* Refresh.
Extend(s, old, new) ==
    /\ usable[s] = {old}
    /\ NeverUsed(new)
    /\ usable' = [usable EXCEPT ![s] = {new}]
    /\ spent' = spent \cup {old}
    /\ UNCHANGED <<forgotten, closed>>

\* SignOut.
SignOut(s, last) ==
    /\ usable[s] = {last}
    /\ usable' = [usable EXCEPT ![s] = {}]
    /\ spent' = spent \cup {last}
    /\ closed' = closed \cup {s}
    /\ UNCHANGED forgotten

\* DeleteCredential: the tokens of a user, usable or not.
Forget(T) ==
    /\ T \subseteq spent \cup Usable
    /\ usable' = [s \in Token |-> usable[s] \ T]
    /\ spent' = spent \ T
    /\ forgotten' = forgotten \cup T
    /\ UNCHANGED closed

Next ==
    \/ \E s \in Token : Open(s)
    \/ \E s, t, new \in Token : Extend(s, t, new) \/ SignOut(s, t)
    \/ \E T \in SUBSET Token : Forget(T)

Spec == Init /\ [][Next]_vars

=============================================================================

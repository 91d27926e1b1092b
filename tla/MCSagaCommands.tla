--------------------------- MODULE MCSagaCommands ---------------------------
(* Bounded instances of SagaCommands for TLC. *)
EXTENDS SagaCommands, TLC

CONSTANTS create, delete, recovery,   \* topics
          a, b, c, d, x, y,           \* events
          w1, w2,                     \* workers
          user                        \* the user they are all about

\* Three histories of one user: a registration and its deletion; two
\* registrations by the saga; one by the saga and one by the recovery, where the
\* saga also meets a command that is no JSON, the recovery one without a user.
History(creates, deletes, recoveries) ==
    [t \in Topic |-> CASE t = create -> creates
                       [] t = delete -> deletes
                       [] OTHER -> recoveries]
CommandsOf == {History(<<a>>, <<d>>, <<>>),
               History(<<a, b>>, <<>>, <<>>),
               History(<<a, c>>, <<>>, <<x, y>>)}

\* The worker of the saga and that of the recovery.
SubscribesTo ==
    [w \in Worker |-> IF w = w1 THEN <<create, delete>> ELSE <<recovery>>]

Operations == [e \in Event |-> IF e = d THEN "delete" ELSE "create"]
Payloads == [e \in Event |-> CASE e = c -> "undecodable"
                               [] e = y -> "incomplete"
                               [] OTHER -> "good"]
HandlerOutcomes ==
    [e \in Event |-> IF e = y THEN {"permanent"} ELSE {"ok", "transient"}]
AllAboutOne == [e \in Event |-> user]

=============================================================================

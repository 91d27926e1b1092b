--------------------------- MODULE MCKafkaConsumer ---------------------------
(* Bounded instances of KafkaConsumer for TLC. *)
EXTENDS KafkaConsumer, TLC

CONSTANTS create, delete, recovery,   \* topics
          a, b, m,                    \* events
          w1, w2                      \* workers

\* Two replicas on one topic: a command published twice, one whose handler may
\* do anything, one that may fail and one that cannot be decoded.
SharedCommands == {[t \in Topic |-> <<a, b, m, a>>]}
SharedOutcomes == [e \in Event |->
                     IF e = a THEN {"ok", "transient", "permanent"}
                              ELSE {"ok", "transient"}]

\* Two good commands of one topic.
TwoCommands == {[t \in Topic |-> <<a, b>>]}
OneSubscribes == [w \in Worker |-> <<create>>]
OkOutcomes == [e \in Event |-> {"ok"}]

\* The registration saga subscriber: create, then delete (a and b).
SagaCommands == {[t \in Topic |-> IF t = create THEN <<a>> ELSE <<b>>]}
SagaSubscribes == [w \in Worker |-> <<create, delete>>]

\* The recovery subscriber: a command that is refused for good, then a good one.
RecoverySubscribes == [w \in Worker |-> <<recovery>>]
PoisonOutcomes == [e \in Event |-> IF e = a THEN {"permanent"} ELSE {"ok"}]

=============================================================================

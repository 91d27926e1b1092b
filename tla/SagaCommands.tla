---------------------------- MODULE SagaCommands ----------------------------
(***************************************************************************)
(* The handlers of the registration saga commands and of the recovery      *)
(* commands, one remote call per step, inside the consumer loop of         *)
(* KafkaConsumer: what they store, and which results and mails they        *)
(* publish, when calls fail, commands are retried and workers die.         *)
(* Operators marked "Slip" are mistakes the code could make and does not.  *)
(*                                                                         *)
(*   .../event_broker/kafka/registration_saga_subscriber.go                *)
(*   .../event_broker/kafka/recovery_subscriber.go                         *)
(*   src/internal/application/service.go                                   *)
(***************************************************************************)
EXTENDS KafkaConsumer

CONSTANTS
    User,            \* user ids
    UserOf,          \* event -> the user its command names
    Operation,       \* event -> "create" or "delete"
    Payload,         \* event -> "good", "incomplete" or "undecodable"
    RecoveryTopics   \* topics of the recovery subscriber; the rest are the saga's

ASSUME CommandAssumption ==
    /\ UserOf \in [Event -> User]
    /\ Operation \in [Event -> {"create", "delete"}]
    /\ Payload \in [Event -> {"good", "incomplete", "undecodable"}]
    /\ RecoveryTopics \subseteq Topic

\* What the handlers of a topic may return for a command (Outcomes), from the
\* error paths below: only the recovery refuses a command for good.
Answers(e, t) ==
    IF t \in RecoveryTopics /\ Payload[e] = "incomplete"
    THEN "permanent" \in Outcomes[e]
    ELSE {"ok", "transient"} \subseteq Outcomes[e]

ASSUME AnswersAssumption ==
    \A c \in Commands, t \in Topic : \A i \in 1..Len(c[t]) : Answers(c[t][i], t)

VARIABLES
    run,         \* worker -> the next step of its handler
    registered,  \* users with a row in auth_credentials
    coded,       \* create commands whose verification code is stored
    deleted,     \* users deleted so far
    sent         \* records published: [event, record]

loop == vars
database == <<registered, coded, deleted>>
sagaVars == <<loop, run, database, sent>>

SagaInit ==
    /\ Init
    /\ run = [w \in Worker |-> "start"]
    /\ registered = {}
    /\ coded = {}
    /\ deleted = {}
    /\ sent = {}

-----------------------------------------------------------------------------

Runs(w, step) == At(w, "handle") /\ run[w] = step
FromRecovery(w) == TopicOf(w) \in RecoveryTopics
Asks(w, op) == Operation[EventOf(w)] = op /\ Payload[EventOf(w)] = "good"
Subject(w) == UserOf[EventOf(w)]

\* The handler goes on, or returns to the loop.
Proceed(w, step) == run' = [run EXCEPT ![w] = step] /\ UNCHANGED loop
Finish(w, outcome) ==
    HandlerReturns(w, outcome) /\ run' = [run EXCEPT ![w] = "start"]

\* An error of the application service: the saga answers it with a "failed"
\* result, the recovery returns it and is retried.
GiveUp(w) == IF FromRecovery(w) THEN Finish(w, "transient") ELSE Proceed(w, "failed")

\* A payload that is no JSON, an unknown operation or aggregate: an ordinary
\* error, so it is retried.  A recovery command without a user or a password is
\* refused for good; a saga command without one fails the validation.
CannotHandle(w) ==
    /\ Runs(w, "start")
    /\ \/ Payload[EventOf(w)] = "undecodable" /\ Finish(w, "transient")
       \/ /\ Payload[EventOf(w)] = "incomplete"
          /\ IF FromRecovery(w) THEN Finish(w, "permanent") ELSE Proceed(w, "failed")
    /\ UNCHANGED <<database, sent>>

\* Slip: ON CONFLICT DO NOTHING.
CreateCredentialAgain(w) ==
    /\ Runs(w, "start") /\ Asks(w, "create")
    /\ registered' = registered \cup {Subject(w)}
    /\ Proceed(w, IF FromRecovery(w) THEN "completed" ELSE "insertCode")
    /\ UNCHANGED <<coded, deleted, sent>>

\* CreateCredential, on its own (recovery) or as the first half of
\* CreatePendingRegistration.
CreateCredential(w) ==
    /\ Runs(w, "start") /\ Asks(w, "create")
    /\ Subject(w) \notin registered
    /\ registered' = registered \cup {Subject(w)}
    /\ Proceed(w, IF FromRecovery(w) THEN "completed" ELSE "insertCode")
    /\ UNCHANGED <<coded, deleted, sent>>

\* The user exists already, or the database fails: before the INSERT, or after
\* it (attachRoles, a lost reply, the draw of the code).
CreateCredentialFails(w) ==
    /\ Runs(w, "start") /\ Asks(w, "create")
    /\ registered' \in {registered, registered \cup {Subject(w)}}
    /\ GiveUp(w)
    /\ UNCHANGED <<coded, deleted, sent>>

CreateVerificationCode(w) ==
    /\ Runs(w, "insertCode")
    /\ Subject(w) \in registered
    /\ coded' = coded \cup {EventOf(w)}
    /\ Proceed(w, "success")
    /\ UNCHANGED <<registered, deleted, sent>>

\* Slip: the error of the INSERT is ignored.
CreateVerificationCodeUnchecked(w) ==
    /\ Runs(w, "insertCode")
    /\ Proceed(w, "success")
    /\ UNCHANGED <<database, sent>>

\* The credential is gone, or the database fails, before or after the INSERT.
CreateVerificationCodeFails(w) ==
    /\ Runs(w, "insertCode")
    /\ \/ UNCHANGED coded
       \/ Subject(w) \in registered /\ coded' = coded \cup {EventOf(w)}
    /\ Proceed(w, "failed")
    /\ UNCHANGED <<registered, deleted, sent>>

\* The DELETE takes the codes of the user along.
Delete(u) ==
    /\ registered' = registered \ {u}
    /\ coded' = {e \in coded : UserOf[e] # u}
    /\ deleted' = deleted \cup {u}

DeleteCredential(w) ==
    /\ Runs(w, "start") /\ Asks(w, "delete")
    /\ Subject(w) \in registered
    /\ Delete(Subject(w))
    /\ Proceed(w, IF FromRecovery(w) THEN "completed" ELSE "success")
    /\ UNCHANGED sent

\* No such user, or the database fails, before or after the DELETE.
DeleteCredentialFails(w) ==
    /\ Runs(w, "start") /\ Asks(w, "delete")
    /\ \/ UNCHANGED database
       \/ Subject(w) \in registered /\ Delete(Subject(w))
    /\ GiveUp(w)
    /\ UNCHANGED sent

\* The steps that publish are named for the record they write.
Publishing(w) ==
    At(w, "handle") /\ run[w] \in {"success", "failed", "mail", "completed"}
Written(w) == sent \cup {[event |-> EventOf(w), record |-> run[w]]}

\* publish, and what follows it: the mail after the success of a create
\* command, the end of the handler after anything else.
Publish(w) ==
    /\ Publishing(w)
    /\ sent' = Written(w)
    /\ IF run[w] = "success" /\ Asks(w, "create")
       THEN Proceed(w, "mail") ELSE Finish(w, "ok")
    /\ UNCHANGED database

\* Slip: the error of a publish is only logged.
PublishFailureIgnored(w) ==
    /\ Publishing(w)
    /\ Finish(w, "ok")
    /\ UNCHANGED <<database, sent>>

\* Slip: it is not retried.
PublishFailureIsPermanent(w) ==
    /\ Publishing(w)
    /\ Finish(w, "permanent")
    /\ UNCHANGED <<database, sent>>

\* WriteMessages reports an error, whether or not the record was written.
PublishFails(w) ==
    /\ Publishing(w)
    /\ sent' \in {sent, Written(w)}
    /\ Finish(w, "transient")
    /\ UNCHANGED database

Handler(w) ==
    \/ CannotHandle(w)
    \/ CreateCredential(w)
    \/ CreateCredentialFails(w)
    \/ CreateVerificationCode(w)
    \/ CreateVerificationCodeFails(w)
    \/ DeleteCredential(w)
    \/ DeleteCredentialFails(w)
    \/ Publish(w)
    \/ PublishFails(w)

\* The loop around the handlers: a worker that stops forgets its handler.
Loop(w) ==
    /\ \/ (LoopStep(w) \/ Rebalance(w)) /\ UNCHANGED run
       \/ Stop(w) /\ run' = [run EXCEPT ![w] = "start"]
    /\ UNCHANGED <<database, sent>>

Retry(t) == RunRetryQueue(t) /\ UNCHANGED <<run, database, sent>>

SagaNext ==
    \/ \E w \in Worker : Handler(w) \/ Loop(w)
    \/ \E t \in Topic : Retry(t)

SagaSpec == SagaInit /\ [][SagaNext]_sagaVars

-----------------------------------------------------------------------------
(* Properties.                                                              *)

Sent(e, record) == [event |-> e, record |-> record] \in sent

\* The handlers are handlers as KafkaConsumer expects them: they return once,
\* with an outcome the loop knows what to do with, and leave Kafka, the claims
\* and the offsets to it.
ImplementsConsumer == Spec

\* A success of a create command means that its own verification code is
\* stored, unless its user has been deleted since, whatever failed or was
\* retried before it (service.go:149-164).
SuccessHasCode ==
    \A e \in Event : Operation[e] = "create" /\ Sent(e, "success")
                       => e \in coded \/ UserOf[e] \in deleted

\* Of all the create commands for one user, of the saga and of the recovery,
\* and all their attempts, one succeeds: the primary key of auth_credentials
\* arbitrates.
Succeeded(e) == Operation[e] = "create" /\ (Sent(e, "success") \/ Sent(e, "completed"))
OneSuccessPerUser ==
    \A e1, e2 \in Event :
        /\ Succeeded(e1) /\ Succeeded(e2)
        /\ UserOf[e1] = UserOf[e2] /\ UserOf[e1] \notin deleted
        => e1 = e2

\* The records that tell how a command ended: the saga is told of both ends, the
\* recovery of a completion (a command it cannot apply is dead-lettered).
Results(t) == IF t \in RecoveryTopics THEN {"completed"} ELSE {"success", "failed"}

\* The group's offset passes a command only when its result is published, or the
\* command still waits, is in the dead-letter topic, or was cut short by an error
\* or a crash: a retry of a recovery command that was stored before its completion
\* could be published is refused ("already exists") until it is dead-lettered, it
\* is never passed as done (recovery_subscriber.go:91-106).
PassedOnlyAnswered ==
    \A t \in Topic, e \in Event :
        Passed(e, t) => \/ \E record \in Results(t) : Sent(e, record)
                        \/ e \in dlq \/ Waits(e, t) \/ e \in interrupted

-----------------------------------------------------------------------------
(* What the documentation says and the code does not keep.                  *)

\* "publishes the result for the saga and mail service" (README.md:9): a command
\* has one result, not a success and a failure.
OneResultPerCommand ==
    \A e \in Event : ~(Sent(e, "success") /\ Sent(e, "failed"))

=============================================================================

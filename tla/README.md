# TLA+ specifications of the OFM auth service

The auth service owns the credentials, the e-mail verification codes and the
refresh tokens of the platform. It answers gRPC requests, consumes the commands
of the registration saga and of the migration recovery from Kafka, and keeps all
its state in PostgreSQL. These specifications model what its statements,
transactions and consumer loops do when they interleave, fail and are repeated.

## Components

| Component | State | Operations | Module |
|---|---|---|---|
| Application service (`internal/application/service.go`) | none of its own: locals of a request between two statements | CreateCredential, CreatePendingRegistration, VerifyRegistrationEmail, IssueRegistrationTokens, SignIn, Refresh, SignOut, DeactivateRegistrationAuth, DeleteCredential; reads: ExistsByEmail, GetEmailByUserID | `AuthService`; its promise about sessions: `SessionChains` |
| Repository and schema (`internal/infra/write/postgres`, `migration/postgres`) | `auth_credentials`, `email_verification_codes`, `refresh_tokens`, `auth_user_roles`, row locks | one statement or transaction per operation | `AuthService`; row by row: `RowLocks`; error translator: `GrpcServer` |
| Kafka broker (`internal/presentation/event_broker/kafka/broker.go`) | readers, committed offsets, `processed_events`, retry topics, dead-letter topic | Publish, RunPullConsumer, Close | `KafkaConsumer`; Close and the readers: `ServiceLifecycle` |
| Process life cycle and supervisors (`internal/fx`, `cmd/auth-service`) | started hooks, contexts, backoffs, the server's goroutine | start and stop hooks, restart Subscribe, cancel it on stop | `ServiceLifecycle`, `KafkaConsumer` (restart) |
| Registration saga subscriber (`.../kafka/registration_saga_subscriber.go`) | none | handleCreate, handleDelete | `KafkaConsumer` (Subscribe), `SagaCommands` |
| Recovery subscriber (`.../kafka/recovery_subscriber.go`) | none | handle | `KafkaConsumer` (Subscribe), `SagaCommands` |
| Outbox triggers (migration 000005) | `outbox_events` | capture every row change | not modelled |
| NATS broker (`.../event_broker/nats`; legacy, not wired) | fetcher, channel, worker pool, in-flight messages | RunPullConsumer, Subscribe, Publish | `NatsPullConsumer` (RunPullConsumer) |
| gRPC server (`internal/presentation/grpc/server.go`) | listener, calls in progress | Start, Shutdown, one handler per operation | `ServiceLifecycle` (Start, Shutdown), `GrpcServer` (Refresh, SignOut) |
| Configuration, bootstrap, mappers, metrics | none after start | - | not modelled |

How they interact: a gRPC handler or a Kafka handler calls the application
service, which calls the repository one statement at a time. Nothing but
PostgreSQL is shared between requests, and nothing but row locks orders them.
A Kafka handler also publishes results and mail commands; the broker around it
claims the event in `processed_events` before the handler runs, releases the
claim when the handler fails, and commits the offset only when it succeeds. The
supervisors call Subscribe again whenever it returns.

What is hard here: the order of statements of concurrent requests (token
rotation, sign-out, compensation), values read before a lock wait and used after
it, errors between two statements or after a commit, redelivery, retry copies and
rebalances beside a claim that outlives its worker, and consumers that return,
restart and block each other. `PROJECT.json` lists each hazard at its line.

## Modules

### AuthService

The three tables are functions: `cred` over user ids, `code` over verification
codes, `token` over refresh tokens. A token row has one field that is no column,
`root`: the first token of its session, so that "session" can be spoken of. `lock`
is the transaction that holds a user's rows `FOR UPDATE`. Every conflicting
statement needs the credential row at least, through the join of the SELECT or
through a foreign key, so one lock per user is enough: `RowLocks` has a lock for each row
and implements AuthService.

`req[r]` is one request of the service: its next statement (`pc`) and the locals it
carries, among them the clock it read and the token it drew *before* that
statement. An action is one statement, or one transaction from its UPDATE to its
COMMIT: the writes of a transaction are private until then. `Reject` is every "no"
a statement can answer, `Fail` every error, cancellation or crash, with the
rollback that goes with it; it may strike between any two statements, so also
after a COMMIT and before the reply. A client calls Refresh and SignOut only with
a token it was given (`delivered`); it may present any code for any user.

The operations that are a single statement and answer nothing
(DeactivateRegistrationAuth, DeleteCredential) need no request. A statement that
finds no row changes nothing and is no step.

Abstracted: passwords, e-mails, user names and roles (SignIn names the user its
identifier leads to), the random draws (a draw is a fresh name), the access token
(signing can only fail), ids and time stamps no property looks at.

### SessionChains

The abstract specification of what AuthService promises about sessions, without rows,
transactions or requests: a session is opened with one usable token, a rotation replaces
it by one never used before, a sign-out ends the session, a deletion forgets the
tokens of a user, and nothing else touches a session. AuthService implements it
(SessionsAreChains) under the mapping that takes the live rows of a session for its usable
token and the revoked and deleted rows for the spent and forgotten ones. Everything else
the service does (drawing, loading, waiting for locks, failing, replying, registering,
deactivating) has to be a stutter, an error in the middle of a rotation in particular.

### RowLocks

AuthService with the rows of a statement locked one after the other. `lock` is here the lock
of the credential row, `held` those of code and token rows, `cascade` how far the DELETE of a
credential has come. A load is three steps (the token row, the credential row, the check of
what has come back), the verification two, a DELETE as many as it has rows: the credential
row, a look for its codes, each of them, a look for its tokens, each of them, COMMIT.
Between any two of these steps a transaction waits with what it has, fails, or is picked by
`BreakDeadlock`. A statement on one row stays one step.

`Refuse` is the `Reject` of AuthService and gives the locks of a refused load up; a token
that is there is refused only when both of its rows are locked. `TransactionLock` is what
AuthService sees of the locks: that of a transaction from the check of its row to its commit.
A load that still waits, a refused one and a DELETE before its commit are not seen at all.

### GrpcServer

Extends AuthService by what the clients of Refresh and SignOut hear. `Reject` and `Fail`
are joined with the answer of the handler: the error of the repository (`LoadError`,
`CallError`), and the status the switch of the handler makes of it (`Status`). The server
itself has no state; the two variables are histories: `refused`, the tokens whose client
was told they are invalid and gives them up, and `lost`, the tokens a Refresh spent and
answered with an internal error (the default branch of its switch, or no answer at all, after
its COMMIT). SessionsAreKept is what a client may rely on: a session it was given is
lost to it only through such an answer. A rotation commits before the roles are read and the
access token is signed, and others may present the same tokens, so it takes several steps of
several requests to break it.
Messages of the answers, and the handlers that answer every error with one status, are
left out.

### ServiceLifecycle

The process from its first hook to its end. `hook` counts the hooks that are started:
they start in the order they were appended and stop in reverse (the pool, the broker, the
two supervisors, the gRPC server). `where[s]` is the goroutine of a supervisor: the look at
its context, Subscribe with its one or two consumers, the wait; `nth` and `backoff` are what it
carries along, `readers` counts the readers it has open, and `mine` says whether the one it
reads from is among them. A reader is closed twice, by the deferred Close and by broker.Close,
which closes every reader ever opened; the second Close does nothing, so only the first one
counts. `srv` is the goroutine of the server, from Listen to the return of
Serve, and `quit` and `active` are what grpc-go knows: whether GracefulStop has begun and which
calls are in progress. An error of the server's goroutine is a panic and ends the process
with every goroutine. fx waits for none of the goroutines, so a supervisor may still open a
reader after its context was cancelled and the broker closed. What a consumer does between its
start and its return is KafkaConsumer; what a call does is AuthService. `failures` and `cut`
are histories. fx, grpc-go and the operating system are modelled from their use. The
hooks of the logger and the metrics server, which share nothing with the others, are left
out.

### KafkaConsumer

One partition per topic: `log`, the `committed` offset of the group and the `owner` of
the partition; `claims` is `processed_events`; `retry` and `dlq` are the retry topics
and the dead-letter topic. A `Worker` is one supervised Subscribe loop, in one or
several replicas, and `work[w].pc` its next step inside RunPullConsumer. Every
remote call is a step of its own, so that an error or a crash (`Stop`) can fall
between any two. `ReturnError` and `ReturnNil` are the two ways out of
RunPullConsumer: after nil the registration subscriber goes on to its next topic,
after an error it starts from its first. Kafka, the retry runner and the claim table's
operations are not in this repository; they are modelled as broker.go uses them.
The history variables `done` and `interrupted` record which handlers returned nil and
which events an error or a crash cut short. PassedOnlyWithOutcome excuses an event that was cut
short; that such an event may be dropped is what the run dropped_command shows.

### SagaCommands

Extends KafkaConsumer and replaces the one step `Handle`, in which a handler returns
some outcome, by the handlers themselves: `run[w]` is the next remote call of the
handler worker `w` is in. `registered` and `coded` are the rows of `auth_credentials`
and `email_verification_codes` as far as the commands concern them (a code is named
for the command it was drawn for), `deleted` the users deleted so far, `sent` the records
published. A create command of the saga is an INSERT of the credential, an INSERT of the
code, the success, the mail; an error of the service is answered with a failed result.
A recovery command is one call of the service and a completion; an error of the
service is returned, and retried. Every call may fail before or after its effect. The
outcome a handler returns (`ok`, `transient`, `permanent`) is what RunPullConsumer goes
on with.

KafkaConsumer is the abstract specification here: ImplementsConsumer says that
every behaviour of the handlers inside the loop is a behaviour of KafkaConsumer, whose
handlers are one step with an outcome of `Outcomes`. The refinement mapping is the
identity on the loop's variables, the steps of a handler before its last one stutter, and
`Outcomes` is chosen as what the payload of an event allows. What is checked of the
claims and offsets in KafkaConsumer therefore holds with these handlers.

### NatsPullConsumer

`cfg` is the configuration RunPullConsumer was called with, one `Valid` accepts; `stream`
is what JetStream knows of each message (available, pending, acked or given up, and how
often it was delivered); `fetcher`, `jobs` and `work` are the goroutines and the channel
between them. The fetcher's step `Plan` stands for the check of ctx and the
adaptive plan, and takes the old plan or the one the backlog asks for, because the
interval may not have passed. A worker that is idle while ctx is done may leave or take
another job, as Go's select may. AckWait expires wherever the message is, so a
message can be in the channel and in several workers at once; Ack and Nak may be
lost, and name the message. `Shutdown` is the caller ending ctx: nothing in `internal/fx` wires this
broker, so whoever does is external, like JetStream. Time, names and `MaxWait` are left out.

## Runs

| Run | Instance | What it shows |
|---|---|---|
| session | GrpcServer: 1 user, 3 requests, 3 tokens, clock 0..2, life of a token 2 | OneLiveTokenPerSession, SignedOutSessionStaysOut, RefusalIsFinal, SessionsAreKept, RotationExtendsUnexpiredSession, SessionsAreChains |
| accounts | AuthService: 2 users, 2 requests, 1 code, 2 tokens, all operations, fairness | TypeOK, DeliveredTokensWereStored, NoOrphanRows, VerificationSpendsOwnCode, SessionsAreChains, RequestsReturn |
| rows | RowLocks: 1 user, 1 code, 2 tokens, 3 requests, clock 0..1, all operations but SignOut, fairness | WaitsEnd, StatementsAreAtomic, TransactionsEnd |
| consumer | 2 workers, 3 events (one twice, one undecodable), 2 attempts, 2 stops, 6 records | TypeOK, HandledAtMostOnce, ClaimsExclude, PassedOnlyWithOutcome, DeadLetteredAfterLastAttempt |
| saga | 1 user, a saga worker on two topics and a recovery worker, 2 attempts, 1 stop, 3 records; three histories: a create and a delete, two creates, a create (and one that is no JSON) beside a recovery (and one without a user) | SuccessHasCode, OneSuccessPerUser, PassedOnlyAnswered, ImplementsConsumer |
| nats | 2 messages, 2 workers, channel of 1, MaxDeliver 2, a plain and an adaptive configuration, 1 restart, fairness | TypeOK, AckedMeansHandled, FetchAsksForSome, ShutdownCompletes |
| lifecycle | 2 calls at a time, both supervisors, 7 errors in a row, a signal, fairness | TypeOK, ShutdownAnswersCalls, OneOpenReader, ClosedOnlyWhenCancelled, BackoffFollowsFailures, ConsumersComeBack, StopEnds |

Why the bounds are enough. A race on a token needs two requests that rotate or
revoke it and one more that changes the user meanwhile: three requests. Three
tokens are a session of two rotations, or a session and a rotation beside another
session. The clock needs three instants to tell "expired when the clock was read"
from "expired when the lock was granted". Two users tell "its own" code or row from
another's, and one code is enough for that: it is drawn by one of them and presented
for the other, spent and presented again, or freed and drawn again. Deleting and registering the same id again happens in every instance with
all operations, because a freed id is used again. A wait for a row takes
three transactions to be longest: one that waits for a row whose holder waits for another,
and a DELETE to close the cycle. All three are about one user, because transactions on the rows of
different users never meet; SignOut is left out there, because it locks the rows Refresh locks
in the order Refresh does. The theorems of RowLocksProofs assume neither. For the consumer: two readers of
one partition, one duplicate record, one retry copy (MaxAttempts 2 instead of the
library's value: first, retried and given up are the three cases) and two errors,
so that one can strike the recovery from another. MaxLog bounds the retry copies,
MaxStops the errors, MaxTime the clock. For the handlers: two commands that compete for
one user, one of them retried once; each history is a choice of the initial state. For the life cycle:
two calls, so that one ends while another holds the stop up, and one error more than the six that
bring the backoff of both supervisors to rest (MaxFailures). For the NATS pool: a batch larger than the channel, so
that the fetcher waits, two workers, so that a redelivered message is handled twice at
once or handled and queued, and a MaxDeliver that is reached. MaxRestarts bounds the
restarts of the process. Deletion is left to
`accounts`, which checks SessionsAreChains as well, and to `rows`. Only `session`, which checks no liveness, uses symmetry. The runs that do not check for deadlock are
those whose clients, logs, messages and errors run out.

Fairness. In accounts each accepted request is strongly fair: its goroutine
is scheduled, and PostgreSQL queues the waiters of a row, so none is passed over
for ever while others take the lock. Nothing forces a client to call, a failure to
happen, or the clock to move. In rows the same goes for every step of a transaction that has
begun (`Work`, the queue of each row included), and PostgreSQL's deadlock detector is weakly
fair: `deadlock_timeout` is finite. In the consumer runs with liveness each worker and
the retry runner are weakly fair; nothing forces an error. In nats the fetcher
and each worker are weakly fair: goroutines are scheduled and handlers return. JetStream
need not deliver anything, and no AckWait need expire. In lifecycle the goroutines of fx, the
server and the supervisors are weakly fair, timers fire, and a call in progress ends (every
statement of AuthService does, see RequestsReturn); nothing makes a signal arrive, a
consumer return, or fx lose its patience: StopEnds holds without the stop timeout.

Runs that TLC must find violated state what a comment or the README says and the
code does not keep:

| Run | Property | What happens |
|---|---|---|
| tokens_for_verified | TokensForVerifiedOnly | Issue or SignIn reads a verified credential, compensation deactivates it, the token is stored all the same |
| dropped_command | NoCommandIsDropped | claim, crash, redelivery skipped as claimed, the next commit passes it |
| starved_topic | EveryTopicIsConsumed | the consumer of the create topic never returns, that of the delete topic never starts |
| poison_command | GoodCommandsAreApplied | a dead-lettered command is not committed: it is fetched again after each restart, those behind it never |
| one_result | OneResultPerCommand | the success is written and its publish reports an error; the retry is refused as already existing and publishes a failure |

A mail that cannot be published after the success leads one_result to the same two results by
a longer trace. A recovery command whose completion is not published is refused on its retry
as well; PassedOnlyAnswered says that it then ends in the dead-letter topic and is never
passed as done.

One more divergence has no run of its own: the service interface speaks of "the email
code for pending registration" (`application/type.go:21`), and the UPDATE of the verification
has no condition on the status, so a registration that compensation has marked failed
becomes e-mail verified with the code it was mailed before. AuthService models the
UPDATE as it is, and `accounts` reaches that state.

## Slips

Operators marked "Slip" are mistakes the code could make and does not. None is
used by an action; putting one in the place of the operator it stands before makes
TLC find the named property violated, which shows that the property depends on
what the code does there.

| Slip | in the place of | violates |
|---|---|---|
| LoadWithoutLock | LoadForMutation | OneLiveTokenPerSession |
| UsableThoughRevoked | Usable | SignedOutSessionStaysOut |
| UsableAtExpiry | Usable | RotationExtendsUnexpiredSession |
| UpdateToUnknownStatus | UpdateDeactivated | TypeOK |
| InsertTokenUnchecked | InsertToken | DeliveredTokensWereStored |
| ForeignKeyMissing | ForeignKeyHolds | NoOrphanRows |
| UsedCodeMatches | CodeMatches | VerificationSpendsOwnCode |
| FailWithoutRollback | Fail | RequestsReturn |
| ForeignKeyLookedUp | ForeignKeyHolds | StatementsAreAtomic |
| AbortKeepingRows | Abort | WaitsEnd |
| KeepLocks | LetGo | TransactionsEnd |
| FailBetweenStatements | Fail | SessionsAreChains (accounts) |
| CommitRevocationOfUser | CommitRevocation | SessionsAreChains (session) |
| ReplyWithPresentedToken | Reply | SessionsAreKept |
| StatusOfAnyError | Status | RefusalIsFinal |
| RetriesOnceMore | Retries | TypeOK (KafkaConsumer) |
| RetriesOnceLess | Retries | DeadLetteredAfterLastAttempt |
| CommitAndRelease | CommitMessage | HandledAtMostOnce |
| ClaimAnyway | Claim | ClaimsExclude |
| ContinueWithoutRetry | EnqueueRetry | PassedOnlyWithOutcome |
| CreateVerificationCodeUnchecked | CreateVerificationCodeFails | SuccessHasCode |
| CreateCredentialAgain | CreateCredential | OneSuccessPerUser |
| PublishFailureIgnored | PublishFails | PassedOnlyAnswered |
| PublishFailureIsPermanent | PublishFails | ImplementsConsumer |
| DispatchToBatchSize | Dispatch | TypeOK (NatsPullConsumer) |
| AckFailure | Nak | AckedMeansHandled |
| ValidButForTiers | Valid | FetchAsksForSome |
| StopAtCheckOnly | StopFetching | ShutdownCompletes |
| ReturnNilToZero | ReturnNil | TypeOK (ServiceLifecycle) |
| LeaveOpen | CloseReader | OneOpenReader |
| BrokerLast | Hooks | ClosedOnlyWhenCancelled |
| ServerFirst | Hooks | ShutdownAnswersCalls |
| DoubledForEver | Doubled | BackoffFollowsFailures |
| GiveUpAfterWait | TimerFires | ConsumersComeBack |
| AcceptWhileStopping | Accept | StopEnds |

## Proofs

The theorems hold for every value of the constants that the named assumptions of the
modules allow; TLC evaluates these assumptions in the runs.

| Module | About | Assumes |
|---|---|---|
| AuthServiceProofs | types of AuthService | `None` is no other name, bounds are natural numbers |
| AuthSessionProofs | sessions; AuthService implements SessionChains | the same |
| AuthRowProofs | foreign keys, rotation, verification | the same |
| RowLocksProofs | row locks and deadlocks; RowLocks implements AuthService | the same, and that no code is a token (RowsAssumption: rows of two tables) |
| GrpcServerProofs | what clients of Refresh and SignOut hear | the same |
| KafkaConsumerProofs | the consumer loop, and SagaCommands inside it | an event is written to one topic (OneTopicAssumption); `Outcomes` admits what the handlers return (AnswersAssumption); the types of the constants |
| NatsPullConsumerProofs | the NATS worker pool | the fields of a configuration are integers |
| ServiceLifecycleProofs | start, stop, restarts | bounds are natural numbers |

| Theorem | Statement |
|---|---|
| AuthServiceProofs: TypeCorrect, OnlyStoredTokensDelivered | Spec => []TypeOK, []DeliveredTokensWereStored |
| AuthSessionProofs: OneWinnerPerRotation, SignOutIsFinal | Spec => []OneLiveTokenPerSession, []SignedOutSessionStaysOut |
| AuthSessionProofs: ServiceKeepsChains | Spec => SessionsAreChains (the refinement) |
| AuthRowProofs: ForeignKeysHold, RotationsLeaveNoGap, VerificationsAreEarned | Spec => []NoOrphanRows, RotationExtendsUnexpiredSession, VerificationSpendsOwnCode |
| RowLocksProofs: RowsHold, NobodyWaitsForEver | RowSpec => []RowInv, []WaitsEnd |
| RowLocksProofs: RowLocksAreAtomic | RowSpec => StatementsAreAtomic (the refinement) |
| GrpcServerProofs: RefusalsAreFinal, SessionsSurviveReplies | GrpcSpec => []RefusalIsFinal, []SessionsAreKept |
| KafkaConsumerProofs: TypeCorrect, HandledOnce, ClaimsKeepApart, OffsetsLoseNothing, NothingIsGivenUpEarly | Spec => []TypeOK, []HandledAtMostOnce, []ClaimsExclude, []PassedOnlyWithOutcome, []DeadLetteredAfterLastAttempt |
| KafkaConsumerProofs: HandlersImplementConsumer | SagaSpec => ImplementsConsumer (the refinement) |
| KafkaConsumerProofs: SuccessIsBacked, PrimaryKeyArbitrates, SagaIsAnswered | SagaSpec => []SuccessHasCode, []OneSuccessPerUser, []PassedOnlyAnswered |
| NatsPullConsumerProofs: TypeCorrect, FetchNeverAsksForNothing, OnlyHandledIsAcked | Spec => []TypeOK, []FetchAsksForSome, []AckedMeansHandled |
| ServiceLifecycleProofs: TypesHold, ShutdownCutsNothing, ReadersDoNotPileUp, ReadersCloseLast, WaitsFollowErrors | Spec => []TypeOK, []ShutdownAnswersCalls, []OneOpenReader, []ClosedOnlyWhenCancelled, []BackoffFollowsFailures |

Types: TypeOK alone is not inductive, because a request indexes the tables with the
locals it carries. `Types` adds that every request carries what its next step needs
(Carries), that a drawn token stays free until its INSERT and belongs to one request
(Draws), that stored rows have an owner (RowsOwned), and that delivered tokens were
stored. RequestMoves and RequestsStay say when a step keeps Carries and Draws;
TypesStart and TypesContinue treat the actions one by one.

Sessions: the two session properties are carried by LocksHeld (a request between its
`SELECT ... FOR UPDATE` and its UPDATE still holds the lock of the token's user and
the token is still live) and RootsStored (the first token of a session, and of an ended
one, is not a free name, so no INSERT starts it again). LocksMove says that a step keeps
LocksHeld when it takes no lock away from others and touches no token behind one;
SessionsShrink, SessionsGrow, SessionsRotate and SessionsRevoke cover the four ways a
step can change the tokens.

Chains: the initial state has no token, and each of the steps that write token rows is
one step of SessionChains (InsertOpens, RotationExtends, RevocationSignsOut, DeleteForgets);
ChainsStutter covers the rest. The session invariant supplies what the abstract step asks
for: that the token rotated is the usable one, and its successor unused.

Rows: NoOrphanRows needs CodesOwned (a code row names a user) and LocksHeld, because a
rotation copies the user of a row it has locked. It says that every row has a credential of
its user, not that it is the one an INSERT has read: after a DELETE and a re-registration of
the same id the INSERT is accepted, and `accounts` reaches that state. The clock properties need that what a
request read is not later than now (ClocksRead) and that no stored token outlives one
issued now (ExpiriesBounded). Refusals are final because a row only ages:
no step makes an unusable token usable (RowsAge), and a refusal is decided on an unusable
one (RefusedIsUnusable), although the clock it used was read earlier.

Replies: SessionsAreKept needs Families (the tokens of a session have one user and are deleted
together) and Replies (what a request at its reply carries: the token it presented was spent by
it, its successor is of the same session and was given to nobody else yet). HeldBefore finds the
live token of the session before the step; KeptByRotation hands the session over from the presented token
to its successor, KeptByReply from the reply to the client, KeptByFailure to `lost`, and
KeptElsewhere covers the rest.

Row locks: SessionInv carries over, with the lock of the credential row in the place of the
lock of the user. RowInv adds who may hold what. OwnRows: a token row is held by a request
that loads or writes it, or by a DELETE of its user; a code row likewise; a credential row by
the request that holds one of its tokens first, or by a DELETE. OwnCascade: a DELETE holds
its credential row, and every child of it that exists is in its list or in its hands; that is
inductive because an INSERT needs the credential row (InsertCodeMoves, InsertTokenMoves)
and a rotation, which inserts as well, holds it (CommitMoves). CodesDrawn keeps a drawn
code free. Undisturbed says what a step of one request leaves to the others and OwnKept that
they then still own what they hold, so that each action is treated once, for the request that
takes it (the lemmas ...Moves). For WaitsEnd: whoever holds a credential row has it last, or
is a DELETE, and whoever a DELETE waits for waits for the DELETE (DeleteDeadlocks,
CredentialHolder); whoever holds a child row waits at most for a credential row
(ChildHolder). So a cycle has two members, one of them a DELETE. For the refinement each
action is a step of AuthService or none (the lemmas ...IsAtomic, LockingStutters); that the COMMIT of a
DELETE is the whole DELETE of AuthService (DeleteIsAtomic) is what OwnCascade is for.
Whatever is proved of AuthService thereby holds of RowLocks.

The consumer: types need Positions (an offset points into the log, a worker is at a topic
of its list). Claims need ClaimsOwned: the claim of a worker in its handler is its own and
its event has had no success. Offsets need Covered: before every offset a worker has come
to, not only the committed one, each event has an outcome, a retry copy, a holder, an
interruption, or a later record. ClaimsAnswered is why skipping a claimed record does not
break it, and OneHome (an event stays in its topic) why a retry copy counts for the
offset it was passed by. Offsets may go back at a rebalance; the invariant does not mind,
because it speaks of each offset by itself. Dead letters need Reasons: what a worker on its way
to the dead-letter topic knows of its message (it is malformed, was refused for good, or is the
last copy); afterwards the record it has read stays in the log (DeadLettersStay).

The handlers: HandlerInv (a running handler is inside "handle", for a command it took on, and
reports a completion if and only if it is the recovery's) is enough for the refinement.
CommandInv adds that a handled command has a result of its topic, and the winner of a user: a
command that has created the credential and not failed since. A new winner needs an INSERT that succeeds
(NewWinner), which the primary key refuses while the old one's user is registered.
SagaIsAnswered combines CommandInv with OffsetsLoseNothing through the refinement.

The NATS pool: the inductive invariant adds to the three properties that the
configuration stays one Validate accepts, that what can be delivered has a delivery left
(DeliveryLeft, without which a Fetch could exceed MaxDeliver) and that a worker about to
acknowledge has handled its message (AcknowledgesHandled). PlanAsksForSome is the lemma
about ResolvePullPlan; FetcherStep, WorkerStep and EnvironmentStep take the actions one by
one.

The life cycle: ShutdownInv adds StopOrder and CallsAreServed, which tie the state of the
server to the hook that stops next, so that the pool and the broker are open while a call
is in progress. ConsumerInv adds what wait is due after each error (BackoffIsDue, with
NextWait for one more), that a supervisor is not there before its hook (NotStarted), and that
it has no reader but the one it reads from (OwnReader). That broker.Close comes after both
cancellations (ClosedOnlyWhenCancelled) follows from StopOrder.

Only model-checked: the liveness properties RequestsReturn, TransactionsEnd, ShutdownCompletes,
ConsumersComeBack and StopEnds (fairness and ENABLED are beyond the prover), and the
five properties that are violated. Every safety property and action property the
passing runs check is also proved.

## Not modelled

Outbox triggers: they append a row in the transaction of the change they record, and no
reader of the table is in this repository, so nothing here depends on their order. The gRPC handlers other than Refresh and SignOut:
they call one operation and answer every error with one status. User names and e-mails as identities: SignIn names the user its
identifier leads to. Publish, the core Subscribe and the handlers of the NATS broker, which
keep no state or repeat those of the Kafka subscribers and are not wired in production.
Configuration, storage and messaging bootstrap (they run once, before the hooks), metrics
and logging, row mappers (their fields are those of the modelled rows), generated code and
mocks.

## Plan

What could be added, most useful first:

1. Credential directory: e-mail and user-name uniqueness, SignIn by identifier.
2. Outbox: row changes stamped with the start of their transaction, once the reader that
   pages by that stamp is part of the repository.

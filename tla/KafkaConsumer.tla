---------------------------- MODULE KafkaConsumer ----------------------------
(***************************************************************************)
(* RunPullConsumer of the Kafka broker and the supervisors around it: one  *)
(* partition per topic, a committed offset per topic, durable claims of    *)
(* events (processed_events), a retry topic, a dead-letter topic, and      *)
(* workers that fetch, claim, handle and commit, and are started again     *)
(* when Subscribe returns.                                                 *)
(*                                                                         *)
(*   src/internal/presentation/event_broker/kafka/broker.go                *)
(*   src/internal/fx/presentation.go                                       *)
(*                                                                         *)
(* An operator marked "Slip" is a mistake the code could make and does     *)
(* not; README.md says which property notices it.                          *)
(*                                                                         *)
(* Kafka itself and the retry runner of ofm-common are not in this         *)
(* repository: what they do is taken from how broker.go uses them.         *)
(***************************************************************************)
EXTENDS Integers, Sequences

CONSTANTS
    Event,        \* commands, told apart by event id (or fingerprint)
    Topic,        \* topics that are consumed
    Worker,       \* supervised Subscribe loops, of one or several replicas
    None,         \* no worker
    Commands,     \* what the producers may have written: topic -> events, in order
    Subscribes,   \* worker -> the topics its Subscribe consumes, one by one
    Outcomes,     \* event -> what its handler may return: ok, transient, permanent
    Malformed,    \* events commonevents.Unwrap cannot decode
    MaxAttempts,  \* resilience.DefaultRetryPolicy.MaxAttempts
    MaxLog,       \* bound: records of one topic
    MaxStops      \* bound: errors, crashes and rebalances of a behaviour

ASSUME CommandsAssumption == \A c \in Commands : c \in [Topic -> Seq(Event)]
\* An event id is drawn for one message, so it is written to one topic only.
ASSUME OneTopicAssumption ==
    \A c \in Commands, t1, t2 \in Topic :
        \A i \in 1..Len(c[t1]), j \in 1..Len(c[t2]) :
            c[t1][i] = c[t2][j] => t1 = t2
ASSUME SubscribesAssumption == Subscribes \in [Worker -> Seq(Topic) \ {<<>>}]
ASSUME OutcomesAssumption ==
    Outcomes \in [Event -> (SUBSET {"ok", "transient", "permanent"}) \ {{}}]
ASSUME MaxAssumption ==
    MaxAttempts \in Nat \ {0} /\ MaxLog \in Nat /\ MaxStops \in Nat

VARIABLES
    log,          \* topic -> records [event, attempt], oldest first
    committed,    \* topic -> offset the group resumes from
    owner,        \* topic -> the worker whose reader has the partition
    claims,       \* events in processed_events
    retry,        \* records waiting in the retry topic of a topic's group
    dlq,          \* events in the dead-letter topic
    work,         \* what each worker is doing
    stops,        \* errors, crashes and rebalances so far
    done,         \* event -> handler runs that returned nil
    interrupted   \* events whose processing was cut short

kafka == <<log, committed, owner, retry, dlq>>
vars == <<kafka, claims, work, stops, done, interrupted>>

\* A worker: its next step, the position in its list of topics, the offset it
\* fetches or processes (offsets start at 1), and how its handler failed.
Down == [pc |-> "down", nth |-> 1, offset |-> 0, failure |-> "none"]

Init ==
    /\ \E written \in Commands :
         log = [t \in Topic |-> [i \in 1..Len(written[t]) |->
                                  [event |-> written[t][i], attempt |-> 1]]]
    /\ committed = [t \in Topic |-> 1]
    /\ owner = [t \in Topic |-> None]
    /\ claims = {}
    /\ retry = [t \in Topic |-> {}]
    /\ dlq = {}
    /\ work = [w \in Worker |-> Down]
    /\ stops = 0
    /\ done = [e \in Event |-> 0]
    /\ interrupted = {}

-----------------------------------------------------------------------------

TopicOf(w) == Subscribes[w][work[w].nth]
Record(w) == log[TopicOf(w)][work[w].offset]
EventOf(w) == Record(w).event
At(w, pc) == work[w].pc = pc

\* The worker holds a message it has claimed and not finished.
Holding(w) == work[w].pc \in {"handle", "failed", "enqueue", "deadLetter"}

Goto(w, pc) == work' = [work EXCEPT ![w].pc = pc]

\* FetchMessage goes on to the next offset; offsets are not committed by it.
Advance(w) ==
    work' = [work EXCEPT ![w].pc = "fetch", ![w].offset = @ + 1,
                         ![w].failure = "none"]

Leave(w) == owner' = [t \in Topic |-> IF owner[t] = w THEN None ELSE owner[t]]

\* RunPullConsumer returns an error: Subscribe returns it and the supervisor
\* calls Subscribe again, from the first topic, after its backoff.
ReturnError(w) ==
    /\ work' = [work EXCEPT ![w] = Down]
    /\ Leave(w)

\* RunPullConsumer returns nil: Subscribe goes on to its next topic; after the
\* last one it returns nil and the supervisor calls it again at once.
ReturnNil(w) ==
    /\ work' = [work EXCEPT ![w] =
                  IF work[w].nth < Len(Subscribes[w])
                  THEN [Down EXCEPT !.pc = "join", !.nth = work[w].nth + 1]
                  ELSE Down]
    /\ Leave(w)

-----------------------------------------------------------------------------

Subscribe(w) ==
    /\ At(w, "down")
    /\ Goto(w, "join")
    /\ UNCHANGED <<kafka, claims, stops, done, interrupted>>

\* The new reader gets the partition and starts at the committed offset.
Join(w) ==
    /\ At(w, "join")
    /\ owner[TopicOf(w)] = None
    /\ owner' = [owner EXCEPT ![TopicOf(w)] = w]
    /\ work' = [work EXCEPT ![w].pc = "fetch",
                            ![w].offset = committed[TopicOf(w)]]
    /\ UNCHANGED <<log, committed, retry, dlq, claims, stops, done, interrupted>>

Fetch(w) ==
    /\ At(w, "fetch")
    /\ owner[TopicOf(w)] = w
    /\ work[w].offset <= Len(log[TopicOf(w)])
    /\ Goto(w, "claim")
    /\ UNCHANGED <<kafka, claims, stops, done, interrupted>>

\* Slip: the claim is not a unique insert.
ClaimAnyway(w) ==
    /\ At(w, "claim")
    /\ claims' = claims \cup {EventOf(w)}
    /\ Goto(w, IF EventOf(w) \in Malformed THEN "deadLetter" ELSE "handle")
    /\ UNCHANGED <<kafka, stops, done, interrupted>>

\* ClaimDB inserts the event id: a claimed event is skipped without a commit,
\* one that cannot be decoded goes to the dead-letter topic with its claim.
Claim(w) ==
    /\ At(w, "claim")
    /\ IF EventOf(w) \in claims
       THEN Advance(w) /\ UNCHANGED claims
       ELSE /\ claims' = claims \cup {EventOf(w)}
            /\ Goto(w, IF EventOf(w) \in Malformed THEN "deadLetter" ELSE "handle")
    /\ UNCHANGED <<kafka, stops, done, interrupted>>

HandlerReturns(w, outcome) ==
    /\ work' = [work EXCEPT ![w].pc = IF outcome = "ok" THEN "commit" ELSE "failed",
                            ![w].failure = IF outcome = "ok" THEN "none" ELSE outcome]
    /\ done' = [done EXCEPT ![EventOf(w)] = IF outcome = "ok" THEN @ + 1 ELSE @]
    /\ UNCHANGED <<kafka, claims, stops, interrupted>>

Handle(w) ==
    /\ At(w, "handle")
    /\ \E o \in Outcomes[EventOf(w)] : HandlerReturns(w, o)

\* Slip: one attempt too few.
RetriesOnceLess(w) ==
    work[w].failure # "permanent" /\ Record(w).attempt + 1 < MaxAttempts

\* Slip: one attempt too many.
RetriesOnceMore(w) ==
    work[w].failure # "permanent" /\ Record(w).attempt <= MaxAttempts

Retries(w) == work[w].failure # "permanent" /\ Record(w).attempt < MaxAttempts

\* The error of Release is ignored: the claim may stay.
ReleaseClaim(w) ==
    /\ At(w, "failed")
    /\ Goto(w, IF Retries(w) THEN "enqueue" ELSE "deadLetter")
    /\ \/ /\ claims' = claims \ {EventOf(w)}
          /\ UNCHANGED <<stops, interrupted>>
       \/ /\ stops < MaxStops
          /\ stops' = stops + 1
          /\ interrupted' = interrupted \cup {EventOf(w)}
          /\ UNCHANGED claims
    /\ UNCHANGED <<kafka, done>>

\* Slip: the retry record is not written.
ContinueWithoutRetry(w) ==
    /\ At(w, "enqueue")
    /\ Advance(w)
    /\ UNCHANGED <<kafka, claims, stops, done, interrupted>>

\* Enqueue, then the next message: the failed one is not committed.
EnqueueRetry(w) ==
    /\ At(w, "enqueue")
    /\ retry' = [retry EXCEPT ![TopicOf(w)] =
                   @ \cup {[event |-> EventOf(w), attempt |-> Record(w).attempt + 1]}]
    /\ Advance(w)
    /\ UNCHANGED <<log, committed, owner, dlq, claims, stops, done, interrupted>>

\* deadLetterMessage: nothing is committed, and RunPullConsumer returns.
DeadLetter(w) ==
    /\ At(w, "deadLetter")
    /\ dlq' = dlq \cup {EventOf(w)}
    /\ ReturnNil(w)
    /\ UNCHANGED <<log, committed, retry, claims, stops, done, interrupted>>

\* Slip: the claim is released whatever the handler returned.
CommitAndRelease(w) ==
    /\ At(w, "commit")
    /\ committed' = [committed EXCEPT ![TopicOf(w)] = work[w].offset + 1]
    /\ claims' = claims \ {EventOf(w)}
    /\ Advance(w)
    /\ UNCHANGED <<log, owner, retry, dlq, stops, done, interrupted>>

\* Committing a message commits every offset before it as well.
CommitMessage(w) ==
    /\ At(w, "commit")
    /\ committed' = [committed EXCEPT ![TopicOf(w)] = work[w].offset + 1]
    /\ Advance(w)
    /\ UNCHANGED <<log, owner, retry, dlq, claims, stops, done, interrupted>>

\* A fetch, claim, enqueue, dead-letter or commit error, or the death of the
\* process: the supervisor of this or of the next process starts over.
Stop(w) ==
    /\ ~At(w, "down") /\ stops < MaxStops
    /\ stops' = stops + 1
    /\ interrupted' = IF Holding(w) THEN interrupted \cup {EventOf(w)}
                                    ELSE interrupted
    /\ ReturnError(w)
    /\ UNCHANGED <<log, committed, retry, dlq, claims, done>>

\* The group gives the partition to another reader that has joined; the one
\* that had it finishes the message it is at, and then has nothing to fetch.
Rebalance(w) ==
    /\ At(w, "join") /\ stops < MaxStops
    /\ owner[TopicOf(w)] \notin {None, w}
    /\ stops' = stops + 1
    /\ owner' = [owner EXCEPT ![TopicOf(w)] = w]
    /\ work' = [work EXCEPT ![w].pc = "fetch",
                            ![w].offset = committed[TopicOf(w)]]
    /\ UNCHANGED <<log, committed, retry, dlq, claims, done, interrupted>>

\* A reader that lost the partition joins the group again.
Rejoin(w) ==
    /\ At(w, "fetch")
    /\ owner[TopicOf(w)] # w
    /\ Goto(w, "join")
    /\ UNCHANGED <<kafka, claims, stops, done, interrupted>>

\* The retry runner writes a record back to its topic, with its attempt.
RunRetryQueue(t) ==
    /\ Len(log[t]) < MaxLog
    /\ \E rec \in retry[t] :
         /\ retry' = [retry EXCEPT ![t] = @ \ {rec}]
         /\ log' = [log EXCEPT ![t] = Append(@, rec)]
    /\ UNCHANGED <<committed, owner, dlq, claims, work, stops, done, interrupted>>

-----------------------------------------------------------------------------

\* A step of the loop of RunPullConsumer, and of the supervisor around it.
LoopStep(w) ==
    \/ Subscribe(w)
    \/ Join(w)
    \/ Fetch(w)
    \/ Claim(w)
    \/ ReleaseClaim(w)
    \/ EnqueueRetry(w)
    \/ DeadLetter(w)
    \/ CommitMessage(w)
    \/ Rejoin(w)

Step(w) == LoopStep(w) \/ Handle(w)

Next ==
    \/ \E w \in Worker : Step(w) \/ Stop(w) \/ Rebalance(w)
    \/ \E t \in Topic : RunRetryQueue(t)

Spec == Init /\ [][Next]_vars

\* Workers and the retry runner keep running; nothing forces an error.
Fairness ==
    /\ \A w \in Worker : WF_vars(Step(w))
    /\ \A t \in Topic : WF_vars(RunRetryQueue(t))

FairSpec == Spec /\ Fairness

-----------------------------------------------------------------------------
(* Properties.                                                              *)

WorkState ==
    [pc : {"down", "join", "fetch", "claim", "handle", "failed", "enqueue",
           "deadLetter", "commit"},
     nth : Nat \ {0}, offset : Nat, failure : {"none", "transient", "permanent"}]

TypeOK ==
    /\ log \in [Topic -> Seq([event : Event, attempt : 1..MaxAttempts])]
    /\ committed \in [Topic -> Nat \ {0}]
    /\ owner \in [Topic -> Worker \cup {None}]
    /\ claims \subseteq Event
    /\ retry \in [Topic -> SUBSET [event : Event, attempt : 2..MaxAttempts]]
    /\ dlq \subseteq Event
    /\ work \in [Worker -> WorkState]
    /\ stops \in 0..MaxStops
    /\ done \in [Event -> Nat]
    /\ interrupted \subseteq Event

\* The handler of an event returns nil at most once, whatever redelivery,
\* retry copies, rebalances and restarts do: the claim of a success is never
\* given up (broker.go:99-109).
HandledAtMostOnce == \A e \in Event : done[e] <= 1

\* Two workers never run the handler of one event at the same time, although
\* a partition that moved is read by two of them.
ClaimsExclude ==
    \A w1, w2 \in Worker :
        At(w1, "handle") /\ At(w2, "handle") /\ EventOf(w1) = EventOf(w2)
        => w1 = w2

\* The outcome of an event, or where its message still waits.
HasOutcome(e) == done[e] > 0 \/ e \in dlq
Waits(e, t) ==
    \/ \E rec \in retry[t] : rec.event = e
    \/ \E i \in committed[t]..Len(log[t]) : log[t][i].event = e
    \/ \E w \in Worker : Holding(w) /\ EventOf(w) = e

Passed(e, t) == \E i \in 1..(committed[t] - 1) : log[t][i].event = e

\* The group's offset passes a command only when its handler succeeded, a
\* retry copy waits, it is in the dead-letter topic, a worker still holds it,
\* or an error or a crash cut its processing short.
PassedOnlyWithOutcome ==
    \A t \in Topic, e \in Event :
        Passed(e, t) => HasOutcome(e) \/ Waits(e, t) \/ e \in interrupted

\* No command is given up early: one that can be decoded and is never refused
\* for good goes to the dead-letter topic only after its last attempt, the copy
\* numbered MaxAttempts, was read and failed (broker.go:124-133).
DeadLetteredAfterLastAttempt ==
    \A e \in dlq :
        e \notin Malformed /\ "permanent" \notin Outcomes[e]
        => \E t \in Topic : \E i \in 1..Len(log[t]) :
             log[t][i] = [event |-> e, attempt |-> MaxAttempts]

-----------------------------------------------------------------------------
(* What the documentation says and the code does not keep.                  *)

\* "Registration saga commands arrive ... The service validates the command,
\* writes ..., and publishes the result" (README.md:9): no command is passed
\* over without an outcome.
NoCommandIsDropped ==
    \A t \in Topic, e \in Event :
        Passed(e, t) => HasOutcome(e) \/ Waits(e, t)

\* "starts background consumers for registration saga commands"
\* (fx/presentation.go:91-92): a command of any topic gets an outcome, when no
\* handler fails and nothing stops.
EveryTopicIsConsumed == \A e \in Event : <>HasOutcome(e)

\* "applies auth-owned fallback commands through the auth application service"
\* (kafka/recovery_subscriber.go:20): a command whose handler always succeeds
\* is applied, when nothing stops.
GoodCommandsAreApplied ==
    \A e \in Event : Outcomes[e] = {"ok"} => <>(done[e] > 0)

=============================================================================

--------------------------- MODULE NatsPullConsumer ---------------------------
(***************************************************************************)
(* The pull consumer of the NATS broker: one fetcher, a channel of jobs, a *)
(* pool of workers, and the durable JetStream consumer they serve, whose   *)
(* AckWait may expire while a message is queued or handled.                *)
(*                                                                         *)
(*   .../event_broker/nats/pull_consumer_runtime.go                        *)
(*   .../event_broker/nats/pull_consumer_validator.go                      *)
(*   .../event_broker/nats/broker.go                                       *)
(*                                                                         *)
(* JetStream is not in this repository; what it does is taken from the     *)
(* consumer configuration the code hands to it.  Operators marked "Slip"   *)
(* are mistakes the code could make and does not.                          *)
(***************************************************************************)
EXTENDS Integers, Sequences, FiniteSets

CONSTANTS
    Msg,          \* messages of the subject
    Worker,       \* goroutines of the pool
    Configs,      \* configurations RunPullConsumer may be called with
    MaxRestarts   \* bound: restarts of the process

ASSUME ConfigAssumption ==
    /\ MaxRestarts \in Nat
    /\ \A c \in Configs :
          /\ c.batch \in Int /\ c.queue \in Int /\ c.maxDeliver \in Int
          /\ c.adaptive \in BOOLEAN
          /\ c.medium \in Int /\ c.high \in Int
          /\ c.lowBatch \in Int /\ c.mediumBatch \in Int /\ c.highBatch \in Int

VARIABLES
    cfg,       \* the configuration of the running consumer
    stream,    \* JetStream's view of a message: [state, count]
    fetcher,   \* the fetcher: [pc, tier, batch, msgs]
    jobs,      \* the channel
    work,      \* the workers: [pc, msg]
    stopping,  \* ctx is done
    restarts,
    handled    \* messages a handler succeeded on

pool == <<fetcher, jobs, work>>
vars == <<cfg, stream, pool, stopping, restarts, handled>>

-----------------------------------------------------------------------------
(* Configuration.                                                           *)

\* Slip: the batch sizes of the tiers are not looked at.
ValidButForTiers(c) ==
    /\ c.batch > 0 /\ c.queue > 0 /\ c.maxDeliver > 0
    /\ c.adaptive => c.medium >= 0 /\ c.high > c.medium

\* Validate.  Durations, names and the number of workers (here Worker) are left
\* out: they are compared with zero or the empty string like the rest.
Valid(c) ==
    /\ c.batch > 0 /\ c.queue > 0 /\ c.maxDeliver > 0
    /\ c.adaptive => /\ c.medium >= 0 /\ c.high > c.medium
                     /\ c.lowBatch > 0 /\ c.mediumBatch > 0 /\ c.highBatch > 0

\* ResolvePullPlan: the tier and the batch size for a backlog.
ResolvePullPlan(c, pending) ==
    CASE ~c.adaptive          -> [tier |-> "base", batch |-> c.batch]
      [] c.adaptive /\ pending >= c.high -> [tier |-> "high", batch |-> c.highBatch]
      [] c.adaptive /\ pending < c.high /\ pending >= c.medium
                              -> [tier |-> "medium", batch |-> c.mediumBatch]
      [] OTHER                -> [tier |-> "low", batch |-> c.lowBatch]

-----------------------------------------------------------------------------

NotFetching == [pc |-> "check", tier |-> "base", batch |-> cfg.batch, msgs |-> {}]
Free == [pc |-> "idle", msg |-> {}]

\* RunPullConsumer: a valid configuration, a channel, the pool and the fetcher.
Init ==
    /\ cfg \in {c \in Configs : Valid(c)}
    /\ stream = [m \in Msg |-> [state |-> "available", count |-> 0]]
    /\ fetcher = NotFetching
    /\ jobs = <<>>
    /\ work = [w \in Worker |-> Free]
    /\ stopping = FALSE
    /\ restarts = 0
    /\ handled = {}

InState(state) == {m \in Msg : stream[m].state = state}
Settle(m, state) == stream' = [stream EXCEPT ![m].state = state]

\* ConsumerInfo's NumPending: what has not been delivered yet.
NumPending == Cardinality({m \in Msg : stream[m].count = 0})

\* maybeUpdateAdaptivePlan and shouldStop, at the head of the fetcher's loop.
\* The plan is looked up when CheckInterval has passed and ConsumerInfo answers.
Plan ==
    /\ fetcher.pc = "check" /\ ~stopping
    /\ \E plan \in {[tier |-> fetcher.tier, batch |-> fetcher.batch],
                    IF cfg.adaptive
                    THEN ResolvePullPlan(cfg, NumPending)
                    ELSE [tier |-> fetcher.tier, batch |-> fetcher.batch]} :
         fetcher' = [fetcher EXCEPT !.pc = "fetch", !.tier = plan.tier,
                                    !.batch = plan.batch]
    /\ UNCHANGED <<cfg, stream, jobs, work, stopping, restarts, handled>>

\* Fetch delivers up to a batch; each delivery counts and starts its AckWait.
Fetch ==
    /\ fetcher.pc = "fetch"
    /\ \E ms \in SUBSET InState("available") \ {{}} :
         /\ Cardinality(ms) <= fetcher.batch
         /\ stream' = [m \in Msg |->
                         IF m \in ms THEN [state |-> "pending", count |-> stream[m].count + 1]
                                     ELSE stream[m]]
         /\ fetcher' = [fetcher EXCEPT !.pc = "dispatch", !.msgs = ms]
    /\ UNCHANGED <<cfg, jobs, work, stopping, restarts, handled>>

\* handleFetchError: a timeout or an error, and the loop starts over.
FetchFails ==
    /\ fetcher.pc = "fetch"
    /\ fetcher' = [fetcher EXCEPT !.pc = "check"]
    /\ UNCHANGED <<cfg, stream, jobs, work, stopping, restarts, handled>>

\* Slip: the channel is made as long as a batch.
DispatchToBatchSize ==
    /\ fetcher.pc = "dispatch" /\ fetcher.msgs # {}
    /\ Len(jobs) < cfg.batch
    /\ \E m \in fetcher.msgs :
         /\ jobs' = Append(jobs, m)
         /\ fetcher' = [fetcher EXCEPT !.msgs = @ \ {m}]
    /\ UNCHANGED <<cfg, stream, work, stopping, restarts, handled>>

\* dispatchFetchedMessages hands the batch to the channel, and waits while it is
\* full.
Dispatch ==
    /\ fetcher.pc = "dispatch" /\ fetcher.msgs # {}
    /\ Len(jobs) < cfg.queue
    /\ \E m \in fetcher.msgs :
         /\ jobs' = Append(jobs, m)
         /\ fetcher' = [fetcher EXCEPT !.msgs = @ \ {m}]
    /\ UNCHANGED <<cfg, stream, work, stopping, restarts, handled>>

Dispatched ==
    /\ fetcher.pc = "dispatch" /\ fetcher.msgs = {}
    /\ fetcher' = [fetcher EXCEPT !.pc = "check"]
    /\ UNCHANGED <<cfg, stream, jobs, work, stopping, restarts, handled>>

\* Slip: the dispatch does not look at ctx.
StopAtCheckOnly ==
    /\ stopping /\ fetcher.pc = "check"
    /\ fetcher' = [fetcher EXCEPT !.pc = "wait", !.msgs = {}]
    /\ UNCHANGED <<cfg, stream, jobs, work, stopping, restarts, handled>>

\* ctx is done: at the head of the loop, or while dispatching (the select takes
\* either branch when both are ready).  What was fetched is dropped.
StopFetching ==
    /\ stopping
    /\ \/ fetcher.pc = "check"
       \/ fetcher.pc = "dispatch" /\ fetcher.msgs # {}
    /\ fetcher' = [fetcher EXCEPT !.pc = "wait", !.msgs = {}]
    /\ UNCHANGED <<cfg, stream, jobs, work, stopping, restarts, handled>>

\* wg.Wait, then close(jobs).
CloseJobs ==
    /\ fetcher.pc = "wait"
    /\ \A w \in Worker : work[w].pc = "exited"
    /\ fetcher' = [fetcher EXCEPT !.pc = "closed"]
    /\ UNCHANGED <<cfg, stream, jobs, work, stopping, restarts, handled>>

Receive(w) ==
    /\ work[w].pc = "idle" /\ jobs # <<>>
    /\ jobs' = Tail(jobs)
    /\ work' = [work EXCEPT ![w] = [pc |-> "handle", msg |-> {Head(jobs)}]]
    /\ UNCHANGED <<cfg, stream, fetcher, stopping, restarts, handled>>

Exit(w) ==
    /\ work[w].pc = "idle" /\ stopping
    /\ work' = [work EXCEPT ![w].pc = "exited"]
    /\ UNCHANGED <<cfg, stream, fetcher, jobs, stopping, restarts, handled>>

Handle(w) ==
    /\ work[w].pc = "handle"
    /\ \/ /\ work' = [work EXCEPT ![w].pc = "ack"]
          /\ handled' = handled \cup work[w].msg
       \/ work' = [work EXCEPT ![w].pc = "nak"] /\ UNCHANGED handled
    /\ UNCHANGED <<cfg, stream, fetcher, jobs, stopping, restarts>>

\* The message is available again, unless it has been delivered often enough.
Again(m) == IF stream[m].count < cfg.maxDeliver THEN "available" ELSE "givenUp"

\* Slip: Ack instead of Nak.
AckFailure(w) ==
    /\ work[w].pc = "nak"
    /\ \E m \in work[w].msg : Settle(m, "acked")
    /\ work' = [work EXCEPT ![w] = Free]
    /\ UNCHANGED <<cfg, fetcher, jobs, stopping, restarts, handled>>

\* Nak and Ack name the message, not the delivery; either may get lost, and
\* comes too late for a message that is settled.
Nak(w) ==
    /\ work[w].pc = "nak"
    /\ \/ \E m \in work[w].msg : stream[m].state = "pending" /\ Settle(m, Again(m))
       \/ UNCHANGED stream
    /\ work' = [work EXCEPT ![w] = Free]
    /\ UNCHANGED <<cfg, fetcher, jobs, stopping, restarts, handled>>

Ack(w) ==
    /\ work[w].pc = "ack"
    /\ \/ \E m \in work[w].msg : /\ stream[m].state \in {"pending", "available"}
                                 /\ Settle(m, "acked")
       \/ UNCHANGED stream
    /\ work' = [work EXCEPT ![w] = Free]
    /\ UNCHANGED <<cfg, fetcher, jobs, stopping, restarts, handled>>

\* AckWait has passed since the last delivery, wherever the message is.
AckWaitExpires(m) ==
    /\ stream[m].state = "pending"
    /\ Settle(m, Again(m))
    /\ UNCHANGED <<cfg, pool, stopping, restarts, handled>>

\* The caller ends ctx: nothing in fx wires this broker.
Shutdown ==
    /\ ~stopping
    /\ stopping' = TRUE
    /\ UNCHANGED <<cfg, stream, pool, restarts, handled>>

\* The process has shut down or died, and another one serves the durable
\* consumer; what was queued or handled is forgotten.
Restart ==
    /\ restarts < MaxRestarts
    /\ restarts' = restarts + 1
    /\ stopping' = FALSE
    /\ fetcher' = NotFetching
    /\ jobs' = <<>>
    /\ work' = [w \in Worker |-> Free]
    /\ UNCHANGED <<cfg, stream, handled>>

Work(w) == Receive(w) \/ Exit(w) \/ Handle(w) \/ Nak(w) \/ Ack(w)
RunFetcher ==
    Plan \/ Fetch \/ FetchFails \/ Dispatch \/ Dispatched \/ StopFetching \/ CloseJobs

Next ==
    \/ RunFetcher
    \/ \E w \in Worker : Work(w)
    \/ \E m \in Msg : AckWaitExpires(m)
    \/ Shutdown
    \/ Restart

Spec == Init /\ [][Next]_vars

\* The goroutines run; handlers return.  JetStream, the operator and crashes are
\* free not to act.
Fairness == WF_vars(RunFetcher) /\ \A w \in Worker : WF_vars(Work(w))

FairSpec == Spec /\ Fairness

-----------------------------------------------------------------------------
(* Properties.                                                              *)

TypeOK ==
    /\ cfg \in Configs
    /\ stream \in [Msg -> [state : {"available", "pending", "acked", "givenUp"},
                           count : 0..cfg.maxDeliver]]
    /\ fetcher \in [pc : {"check", "fetch", "dispatch", "wait", "closed"},
                    tier : {"base", "low", "medium", "high"}, batch : Int,
                    msgs : SUBSET Msg]
    /\ jobs \in Seq(Msg) /\ Len(jobs) <= cfg.queue
    /\ work \in [Worker -> [pc : {"idle", "handle", "ack", "nak", "exited"},
                            msg : SUBSET Msg]]
    /\ stopping \in BOOLEAN
    /\ restarts \in 0..MaxRestarts
    /\ handled \subseteq Msg

\* A message is settled for good only after a handler succeeded on it, although
\* it may be queued and handled several times at once, acknowledged late, and
\* delivered to a process that dies.
AckedMeansHandled ==
    \A m \in Msg : stream[m].state = "acked" => m \in handled

\* Every Fetch asks for at least one message: no backlog leads from a valid
\* configuration to a plan that JetStream refuses.
FetchAsksForSome == fetcher.batch > 0

\* A shutdown comes to its end, whatever is queued, fetched or being handled: the
\* fetcher never waits for a channel nobody reads
\* (pull_consumer_runtime.go:130-131, 222-229).
ShutdownCompletes == stopping ~> (fetcher.pc = "closed" \/ ~stopping)

=============================================================================

----------------------- MODULE NatsPullConsumerProofs -----------------------
(***************************************************************************)
(* Proofs about the NATS pull consumer, for any messages, workers, bounds  *)
(* and configurations of integers.                                         *)
(***************************************************************************)
EXTENDS NatsPullConsumer, TLAPS

\* A plan has the name of a tier and a batch size, positive if the configuration
\* is one Validate accepts, whatever the backlog (broker.go:143-154).
LEMMA PlanAsksForSome ==
    ASSUME NEW c \in Configs, Valid(c), NEW pending
    PROVE  /\ ResolvePullPlan(c, pending).tier \in {"base", "low", "medium", "high"}
           /\ ResolvePullPlan(c, pending).batch \in Int
           /\ ResolvePullPlan(c, pending).batch > 0
<1>1. CASE ~c.adaptive
  BY <1>1, ConfigAssumption DEF ResolvePullPlan, Valid
<1>2. CASE c.adaptive
  BY <1>2, ConfigAssumption DEF ResolvePullPlan, Valid
<1> QED  BY <1>1, <1>2

-----------------------------------------------------------------------------
(* The inductive invariant.  The configuration stays one Validate accepts;   *)
(* what can be delivered has a delivery left; a worker that acknowledges has *)
(* handled its message.                                                      *)

DeliveryLeft ==
    \A m \in Msg : stream[m].state = "available" => stream[m].count < cfg.maxDeliver

AcknowledgesHandled ==
    \A w \in Worker : work[w].pc = "ack" => work[w].msg \subseteq handled

IInv ==
    /\ TypeOK
    /\ Valid(cfg)
    /\ DeliveryLeft
    /\ FetchAsksForSome
    /\ AckedMeansHandled
    /\ AcknowledgesHandled

\* It holds of a consumer just started.
LEMMA InitHolds == Init => IInv
<1> SUFFICES ASSUME Init PROVE IInv
  OBVIOUS
<1>1. cfg \in Configs /\ Valid(cfg)
  BY DEF Init
<1>2. cfg.maxDeliver \in Nat /\ cfg.batch \in Int /\ cfg.queue \in Nat
      /\ cfg.maxDeliver > 0 /\ cfg.batch > 0
  BY <1>1, ConfigAssumption DEF Valid
<1>3. TypeOK
  <2>1. stream \in [Msg -> [state : {"available", "pending", "acked", "givenUp"},
                            count : 0..cfg.maxDeliver]]
    BY <1>2 DEF Init
  <2>2. /\ fetcher \in [pc : {"check", "fetch", "dispatch", "wait", "closed"},
                        tier : {"base", "low", "medium", "high"}, batch : Int,
                        msgs : SUBSET Msg]
        /\ work \in [Worker -> [pc : {"idle", "handle", "ack", "nak", "exited"},
                                msg : SUBSET Msg]]
    BY <1>2 DEF Init, NotFetching, Free
  <2>3. jobs \in Seq(Msg) /\ Len(jobs) <= cfg.queue
    BY <1>2 DEF Init
  <2>4. restarts \in 0..MaxRestarts
    BY ConfigAssumption DEF Init
  <2> QED  BY <1>1, <2>1, <2>2, <2>3, <2>4 DEF Init, TypeOK
<1>4. DeliveryLeft /\ FetchAsksForSome /\ AckedMeansHandled /\ AcknowledgesHandled
  BY <1>2 DEF Init, DeliveryLeft, FetchAsksForSome, AckedMeansHandled,
              AcknowledgesHandled, NotFetching, Free
<1> QED  BY <1>1, <1>3, <1>4 DEF IInv

-----------------------------------------------------------------------------
(* Every step keeps it: one lemma for the fetcher, one for a worker, one for *)
(* JetStream and the process.                                                *)

\* The fetcher keeps it: it takes only what has a delivery left.
LEMMA FetcherStep == IInv /\ RunFetcher => IInv'
<1> SUFFICES ASSUME IInv, RunFetcher PROVE IInv'
  OBVIOUS
<1> USE DEF IInv
<1>0. cfg.maxDeliver \in Nat /\ cfg.batch \in Int /\ cfg.queue \in Nat
  BY ConfigAssumption DEF TypeOK, Valid
<1>1. CASE Plan
  <2>1. PICK plan \in {[tier |-> fetcher.tier, batch |-> fetcher.batch],
                       ResolvePullPlan(cfg, NumPending)} :
          fetcher' = [fetcher EXCEPT !.pc = "fetch", !.tier = plan.tier,
                                     !.batch = plan.batch]
    BY <1>1 DEF Plan
  <2>2. /\ plan.tier \in {"base", "low", "medium", "high"}
        /\ plan.batch \in Int /\ plan.batch > 0
    BY PlanAsksForSome DEF TypeOK, FetchAsksForSome
  <2>3. /\ fetcher' \in [pc : {"check", "fetch", "dispatch", "wait", "closed"},
                        tier : {"base", "low", "medium", "high"}, batch : Int,
                        msgs : SUBSET Msg]
        /\ fetcher'.batch > 0
    BY <2>1, <2>2 DEF TypeOK
  <2>4. UNCHANGED <<cfg, stream, jobs, work, stopping, restarts, handled>>
    BY <1>1 DEF Plan
  <2> QED  BY <2>3, <2>4 DEF TypeOK, Valid, DeliveryLeft, FetchAsksForSome,
                             AckedMeansHandled, AcknowledgesHandled
<1>2. CASE Fetch
  <2>1. PICK ms \in SUBSET InState("available") :
          /\ stream' = [m \in Msg |->
                          IF m \in ms
                          THEN [state |-> "pending", count |-> stream[m].count + 1]
                          ELSE stream[m]]
          /\ fetcher' = [fetcher EXCEPT !.pc = "dispatch", !.msgs = ms]
    BY <1>2 DEF Fetch
  <2>2. UNCHANGED <<cfg, jobs, work, stopping, restarts, handled>>
    BY <1>2 DEF Fetch
  <2>3. \A m \in ms : stream[m].count + 1 \in 0..cfg.maxDeliver
    BY <1>0 DEF TypeOK, DeliveryLeft, InState
  <2>4. stream' \in [Msg -> [state : {"available", "pending", "acked", "givenUp"},
                             count : 0..cfg.maxDeliver]]
    BY <2>1, <2>3 DEF TypeOK, InState
  <2>5. TypeOK'
    BY <2>1, <2>2, <2>4 DEF TypeOK, InState
  <2>6. DeliveryLeft' /\ AckedMeansHandled'
    BY <2>1, <2>2 DEF DeliveryLeft, AckedMeansHandled
  <2>7. FetchAsksForSome'
    BY <2>1 DEF TypeOK, FetchAsksForSome
  <2> QED  BY <2>2, <2>5, <2>6, <2>7 DEF Valid, AcknowledgesHandled
<1>3. CASE Dispatch
  <2>1. PICK m \in fetcher.msgs : /\ jobs' = Append(jobs, m)
                                  /\ fetcher' = [fetcher EXCEPT !.msgs = @ \ {m}]
    BY <1>3 DEF Dispatch
  <2>2. UNCHANGED <<cfg, stream, work, stopping, restarts, handled>>
    BY <1>3 DEF Dispatch
  <2>3. jobs' \in Seq(Msg) /\ Len(jobs') <= cfg.queue
    BY <1>0, <1>3, <2>1 DEF Dispatch, TypeOK
  <2>4. fetcher' \in [pc : {"check", "fetch", "dispatch", "wait", "closed"},
                      tier : {"base", "low", "medium", "high"}, batch : Int,
                      msgs : SUBSET Msg] /\ fetcher'.batch = fetcher.batch
    BY <2>1 DEF TypeOK
  <2> QED  BY <2>2, <2>3, <2>4 DEF TypeOK, Valid, DeliveryLeft, FetchAsksForSome,
                                   AckedMeansHandled, AcknowledgesHandled
<1>4. CASE FetchFails \/ Dispatched \/ StopFetching \/ CloseJobs
  <2>1. UNCHANGED <<cfg, stream, jobs, work, stopping, restarts, handled>>
    BY <1>4 DEF FetchFails, Dispatched, StopFetching, CloseJobs
  <2>2. fetcher' \in [pc : {"check", "fetch", "dispatch", "wait", "closed"},
                      tier : {"base", "low", "medium", "high"}, batch : Int,
                      msgs : SUBSET Msg] /\ fetcher'.batch = fetcher.batch
    BY <1>4 DEF FetchFails, Dispatched, StopFetching, CloseJobs, TypeOK
  <2> QED  BY <2>1, <2>2 DEF TypeOK, Valid, DeliveryLeft, FetchAsksForSome,
                             AckedMeansHandled, AcknowledgesHandled
<1> QED  BY <1>1, <1>2, <1>3, <1>4 DEF RunFetcher

\* A worker keeps it: it acknowledges what it has just handled.
LEMMA WorkerStep == ASSUME NEW w \in Worker PROVE IInv /\ Work(w) => IInv'
<1> SUFFICES ASSUME IInv, Work(w) PROVE IInv'
  OBVIOUS
<1> USE DEF IInv
<1>0. cfg.maxDeliver \in Nat /\ cfg.queue \in Nat
  BY ConfigAssumption DEF TypeOK, Valid
<1>1. CASE Receive(w)
  <2>1. Head(jobs) \in Msg /\ jobs' \in Seq(Msg) /\ Len(jobs') <= cfg.queue
    BY <1>0, <1>1 DEF Receive, TypeOK
  <2>2. TypeOK'
    BY <1>1, <2>1 DEF Receive, TypeOK
  <2>3. AcknowledgesHandled'
    BY <1>1 DEF Receive, TypeOK, AcknowledgesHandled
  <2> QED  BY <1>1, <2>2, <2>3 DEF Receive, Valid, DeliveryLeft,
                                   FetchAsksForSome, AckedMeansHandled
<1>2. CASE Exit(w)
  <2>1. TypeOK' /\ AcknowledgesHandled'
    BY <1>2 DEF Exit, TypeOK, AcknowledgesHandled
  <2> QED  BY <1>2, <2>1 DEF Exit, Valid, DeliveryLeft, FetchAsksForSome,
                             AckedMeansHandled
<1>3. CASE Handle(w)
  <2>1. TypeOK'
    BY <1>3 DEF Handle, TypeOK
  <2>2. AcknowledgesHandled'
    BY <1>3 DEF Handle, TypeOK, AcknowledgesHandled
  <2>3. AckedMeansHandled'
    BY <1>3 DEF Handle, AckedMeansHandled
  <2> QED  BY <1>3, <2>1, <2>2, <2>3 DEF Handle, Valid, DeliveryLeft,
                                         FetchAsksForSome
<1>4. CASE Nak(w)
  <2>1. work' = [work EXCEPT ![w] = Free]
        /\ UNCHANGED <<cfg, fetcher, jobs, stopping, restarts, handled>>
    BY <1>4 DEF Nak
  <2>2. AcknowledgesHandled'
    BY <2>1 DEF TypeOK, AcknowledgesHandled, Free
  <2>3. CASE UNCHANGED stream
    <3>1. TypeOK'
      BY <2>1, <2>3 DEF TypeOK, Free
    <3> QED  BY <2>1, <2>2, <2>3, <3>1 DEF Valid, DeliveryLeft, FetchAsksForSome,
                                           AckedMeansHandled
  <2>4. CASE \E m \in work[w].msg : Settle(m, Again(m))
    <3>1. PICK m \in work[w].msg : Settle(m, Again(m))
      BY <2>4
    <3>2. m \in Msg
      BY DEF TypeOK
    <3>3. TypeOK'
      BY <2>1, <3>1, <3>2 DEF TypeOK, Free, Settle, Again
    <3>4. DeliveryLeft' /\ AckedMeansHandled'
      BY <2>1, <3>1, <3>2 DEF TypeOK, DeliveryLeft, AckedMeansHandled, Settle, Again
    <3> QED  BY <2>1, <2>2, <3>3, <3>4 DEF Valid, FetchAsksForSome
  <2> QED  BY <1>4, <2>3, <2>4 DEF Nak
<1>5. CASE Ack(w)
  <2>1. work' = [work EXCEPT ![w] = Free]
        /\ UNCHANGED <<cfg, fetcher, jobs, stopping, restarts, handled>>
    BY <1>5 DEF Ack
  <2>2. AcknowledgesHandled'
    BY <2>1 DEF TypeOK, AcknowledgesHandled, Free
  <2>3. CASE UNCHANGED stream
    <3>1. TypeOK'
      BY <2>1, <2>3 DEF TypeOK, Free
    <3> QED  BY <2>1, <2>2, <2>3, <3>1 DEF Valid, DeliveryLeft, FetchAsksForSome,
                                           AckedMeansHandled
  <2>4. CASE \E m \in work[w].msg : Settle(m, "acked")
    <3>1. PICK m \in work[w].msg : Settle(m, "acked")
      BY <2>4
    <3>2. m \in Msg /\ m \in handled
      BY <1>5 DEF TypeOK, Ack, AcknowledgesHandled
    <3>3. TypeOK'
      BY <2>1, <3>1, <3>2 DEF TypeOK, Free, Settle
    <3>4. DeliveryLeft' /\ AckedMeansHandled'
      BY <2>1, <3>1, <3>2 DEF TypeOK, DeliveryLeft, AckedMeansHandled, Settle
    <3> QED  BY <2>1, <2>2, <3>3, <3>4 DEF Valid, FetchAsksForSome
  <2> QED  BY <1>5, <2>3, <2>4 DEF Ack
<1> QED  BY <1>1, <1>2, <1>3, <1>4, <1>5 DEF Work

\* An expired AckWait, a shutdown and a restart keep it.
LEMMA EnvironmentStep ==
    ASSUME IInv,
           \/ \E m \in Msg : AckWaitExpires(m)
           \/ Shutdown
           \/ Restart
           \/ UNCHANGED vars
    PROVE  IInv'
<1> USE DEF IInv
<1>0. cfg.maxDeliver \in Nat /\ cfg.batch \in Int /\ cfg.batch > 0 /\ cfg.queue \in Nat
  BY ConfigAssumption DEF TypeOK, Valid
<1>1. CASE \E m \in Msg : AckWaitExpires(m)
  <2>1. PICK m \in Msg : AckWaitExpires(m)
    BY <1>1
  <2>2. UNCHANGED <<cfg, fetcher, jobs, work, stopping, restarts, handled>>
    BY <2>1 DEF AckWaitExpires, pool
  <2>3. TypeOK'
    BY <2>1, <2>2 DEF TypeOK, AckWaitExpires, Settle, Again
  <2>4. DeliveryLeft' /\ AckedMeansHandled'
    BY <2>1, <2>2 DEF TypeOK, DeliveryLeft, AckedMeansHandled, AckWaitExpires,
                      Settle, Again
  <2> QED  BY <2>2, <2>3, <2>4 DEF Valid, FetchAsksForSome, AcknowledgesHandled
<1>2. CASE Shutdown
  BY <1>2 DEF Shutdown, pool, TypeOK, Valid, DeliveryLeft, FetchAsksForSome,
              AckedMeansHandled, AcknowledgesHandled
<1>3. CASE Restart
  <2>1. TypeOK'
    <3>1. UNCHANGED <<cfg, stream, handled>>
      BY <1>3 DEF Restart
    <3>2. /\ fetcher' \in [pc : {"check", "fetch", "dispatch", "wait", "closed"},
                           tier : {"base", "low", "medium", "high"}, batch : Int,
                           msgs : SUBSET Msg]
          /\ work' \in [Worker -> [pc : {"idle", "handle", "ack", "nak", "exited"},
                                   msg : SUBSET Msg]]
      BY <1>0, <1>3 DEF Restart, NotFetching, Free
    <3>3. jobs' \in Seq(Msg) /\ Len(jobs') <= cfg.queue
      BY <1>0, <1>3 DEF Restart
    <3>4. stopping' \in BOOLEAN
      BY <1>3 DEF Restart
    <3>5. restarts' \in 0..MaxRestarts
      <4>1. MaxRestarts \in Nat
        BY ConfigAssumption
      <4>2. restarts < MaxRestarts /\ restarts' = restarts + 1
        BY <1>3 DEF Restart
      <4>3. restarts \in 0..MaxRestarts
        BY DEF TypeOK
      <4> QED  BY <4>1, <4>2, <4>3
    <3> QED  BY <3>1, <3>2, <3>3, <3>4, <3>5 DEF TypeOK
  <2>2. FetchAsksForSome' /\ AcknowledgesHandled'
    BY <1>0, <1>3 DEF Restart, FetchAsksForSome, AcknowledgesHandled, NotFetching, Free
  <2> QED  BY <1>3, <2>1, <2>2 DEF Restart, Valid, DeliveryLeft, AckedMeansHandled
<1>4. CASE UNCHANGED vars
  BY <1>4 DEF vars, pool, TypeOK, Valid, DeliveryLeft, FetchAsksForSome,
              AckedMeansHandled, AcknowledgesHandled
<1> QED  BY <1>1, <1>2, <1>3, <1>4

\* So it holds in every reachable state.
LEMMA InvariantHolds == Spec => []IInv
<1>1. IInv /\ [Next]_vars => IInv'
  BY FetcherStep, WorkerStep, EnvironmentStep DEF Next
<1> QED  BY <1>1, InitHolds, PTL DEF Spec

-----------------------------------------------------------------------------
(* The theorems.                                                             *)

\* Every variable stays in its domain; in particular no message is delivered more
\* often than MaxDeliver and the channel never overflows.
THEOREM TypeCorrect == Spec => []TypeOK
<1>1. IInv => TypeOK
  BY DEF IInv
<1> QED  BY <1>1, InvariantHolds, PTL

\* No Fetch asks JetStream for nothing, which it would refuse and the fetcher
\* repeat for ever: the adaptive plan inherits what Validate has checked.
THEOREM FetchNeverAsksForNothing == Spec => []FetchAsksForSome
<1>1. IInv => FetchAsksForSome
  BY DEF IInv
<1> QED  BY <1>1, InvariantHolds, PTL

\* JetStream settles a message as acknowledged only after a handler succeeded on
\* it, however often it was delivered and however many workers hold it
\* (pull_consumer_runtime.go:100-114).
THEOREM OnlyHandledIsAcked == Spec => []AckedMeansHandled
<1>1. IInv => AckedMeansHandled
  BY DEF IInv
<1> QED  BY <1>1, InvariantHolds, PTL

=============================================================================

------------------------ MODULE KafkaConsumerProofs ------------------------
(***************************************************************************)
(* Theorems about the consumer loop (KafkaConsumer) and about the handlers *)
(* inside it (SagaCommands), for any events, topics, workers and numbers   *)
(* of attempts and errors.                                                 *)
(***************************************************************************)
EXTENDS SagaCommands, SequenceTheorems, TLAPS

-----------------------------------------------------------------------------
(* Types.                                                                   *)

\* The worker is at a message it has fetched.
AtMessage(w) == work[w].pc \in {"claim", "handle", "failed", "enqueue",
                                "deadLetter", "commit"}

\* Offsets point into the log or just behind it, a worker is at a topic of
\* its list, and only a message with an attempt left is enqueued.
PlacedAt(w) ==
    /\ work[w].nth \in 1..Len(Subscribes[w])
    /\ work[w].offset <= Len(log[TopicOf(w)]) + 1
    /\ work[w].pc \notin {"down", "join"} => work[w].offset >= 1
    /\ AtMessage(w) => work[w].offset \in 1..Len(log[TopicOf(w)])
    /\ At(w, "enqueue") => Record(w).attempt < MaxAttempts

Positions ==
    /\ \A t \in Topic : committed[t] <= Len(log[t]) + 1
    /\ \A w \in Worker : PlacedAt(w)

Placed == TypeOK /\ Positions

\* Records are appended to a log and never changed.
Grown ==
    \A t \in Topic : /\ Len(log[t]) <= Len(log'[t])
                     /\ \A i \in 1..Len(log[t]) : log'[t][i] = log[t][i]

\* What the topic and the message of a worker are made of.
LEMMA MessageTypes ==
    ASSUME Placed, NEW w \in Worker
    PROVE  /\ TopicOf(w) \in Topic
           /\ Len(log[TopicOf(w)]) \in Nat
           /\ AtMessage(w) => /\ EventOf(w) \in Event
                              /\ Record(w) = [event |-> EventOf(w),
                                              attempt |-> Record(w).attempt]
                              /\ Record(w).attempt \in 1..MaxAttempts
                              /\ Record(w) \in [event : Event, attempt : 1..MaxAttempts]
<1> USE DEF Placed, TypeOK, Positions, PlacedAt
<1>1. TopicOf(w) \in Topic
  <2>1. Subscribes[w] \in Seq(Topic) /\ work[w].nth \in 1..Len(Subscribes[w])
    BY SubscribesAssumption
  <2> QED BY <2>1, ElementOfSeq DEF TopicOf
<1>2. log[TopicOf(w)] \in Seq([event : Event, attempt : 1..MaxAttempts])
  BY <1>1
<1>3. AtMessage(w) => Record(w) \in [event : Event, attempt : 1..MaxAttempts]
  BY <1>2, ElementOfSeq DEF Record
<1> QED BY <1>1, <1>2, <1>3, LenProperties DEF EventOf

\* The message of a worker that stays where it is does not change under it.
LEMMA MessageStays ==
    ASSUME Placed, Grown, NEW w \in Worker,
           work'[w].nth = work[w].nth
    PROVE  /\ TopicOf(w)' = TopicOf(w)
           /\ AtMessage(w) /\ work'[w].offset = work[w].offset
              => Record(w)' = Record(w) /\ EventOf(w)' = EventOf(w)
<1>1. TopicOf(w)' = TopicOf(w)
  BY DEF TopicOf
<1>2. ASSUME AtMessage(w), work'[w].offset = work[w].offset
      PROVE  Record(w)' = Record(w)
  <2>1. work[w].offset \in 1..Len(log[TopicOf(w)])
    BY <1>2 DEF Placed, Positions, PlacedAt
  <2>2. log'[TopicOf(w)][work[w].offset] = log[TopicOf(w)][work[w].offset]
    BY <2>1, MessageTypes DEF Grown
  <2> QED BY <1>1, <1>2, <2>2 DEF Record
<1> QED BY <1>1, <1>2 DEF EventOf

\* Only the retry runner writes to a log, and at its end (broker.go:83-85).
LEMMA LogGrows == Placed /\ [Next]_vars => Grown
<1> SUFFICES ASSUME Placed, [Next]_vars PROVE Grown
  OBVIOUS
<1>1. \A t \in Topic : log[t] \in Seq([event : Event, attempt : 1..MaxAttempts])
  BY DEF Placed, TypeOK
<1>2. CASE log' = log
  BY <1>1, <1>2, LenProperties DEF Grown
<1>3. ASSUME NEW t \in Topic, RunRetryQueue(t) PROVE Grown
  <2>1. PICK rec \in retry[t] : log' = [log EXCEPT ![t] = Append(@, rec)]
    BY <1>3 DEF RunRetryQueue
  <2>2. rec \in [event : Event, attempt : 1..MaxAttempts]
    BY <2>1, MaxAssumption DEF Placed, TypeOK
  <2>3. /\ Len(Append(log[t], rec)) = Len(log[t]) + 1
        /\ \A i \in 1..Len(log[t]) : Append(log[t], rec)[i] = log[t][i]
    BY <1>1, <2>2, AppendProperties
  <2>4. \A u \in Topic : log'[u] = IF u = t THEN Append(log[t], rec) ELSE log[u]
    BY <2>1 DEF Placed, TypeOK
  <2> SUFFICES ASSUME NEW u \in Topic
               PROVE  /\ Len(log[u]) <= Len(log'[u])
                      /\ \A i \in 1..Len(log[u]) : log'[u][i] = log[u][i]
    BY DEF Grown
  <2>5. Len(log[u]) \in Nat
    BY <1>1, LenProperties
  <2>6. CASE u = t
    <3>1. log'[t] = Append(log[t], rec)
      BY <2>4
    <3> QED BY <2>3, <2>5, <2>6, <3>1
  <2>7. CASE u # t
    BY <2>4, <2>5, <2>7
  <2> QED BY <2>6, <2>7
<1>4. ASSUME NEW w \in Worker, Step(w) \/ Stop(w) \/ Rebalance(w) PROVE log' = log
  BY <1>4 DEF Step, LoopStep, Subscribe, Join, Fetch, Claim, Handle, HandlerReturns,
     ReleaseClaim, EnqueueRetry, DeadLetter, CommitMessage, Rejoin, Stop, Rebalance, kafka
<1>5. CASE Next
  BY <1>2, <1>3, <1>4, <1>5 DEF Next
<1>6. CASE UNCHANGED vars
  BY <1>2, <1>6 DEF vars, kafka
<1> QED BY <1>5, <1>6

\* Whoever does not move stays in place while the logs grow.
LEMMA PositionsKept ==
    ASSUME Placed, Grown,
           \A t \in Topic : Len(log'[t]) \in Nat /\ committed'[t] \in Nat,
           \A t \in Topic : committed'[t] <= Len(log[t]) + 1,
           \A v \in Worker : work'[v] = work[v] \/ PlacedAt(v)'
    PROVE  Positions'
<1>1. \A t \in Topic : Len(log[t]) \in Nat /\ Len(log[t]) <= Len(log'[t])
  BY LenProperties DEF Placed, TypeOK, Grown
<1>2. \A t \in Topic : committed'[t] <= Len(log'[t]) + 1
  BY <1>1
<1>3. ASSUME NEW v \in Worker, work'[v] = work[v] PROVE PlacedAt(v)'
  <2>1. PlacedAt(v) /\ work[v].offset \in Nat /\ TopicOf(v) \in Topic
    BY MessageTypes DEF Placed, Positions, TypeOK, WorkState
  <2>2. TopicOf(v)' = TopicOf(v) /\ (AtMessage(v) => Record(v)' = Record(v))
    BY <1>3, MessageStays
  <2>3. /\ Len(log[TopicOf(v)]) \in Nat /\ Len(log'[TopicOf(v)]) \in Nat
        /\ Len(log[TopicOf(v)]) <= Len(log'[TopicOf(v)])
    BY <1>1, <2>1
  <2>4. At(v, "enqueue") => AtMessage(v)
    BY DEF At, AtMessage
  <2> QED BY <1>3, <2>1, <2>2, <2>3, <2>4 DEF PlacedAt, AtMessage, At
<1> QED BY <1>2, <1>3 DEF Positions

\* A worker goes on to its next step with the message it is at, or from a
\* message it can fetch to that message.
LEMMA GotoPlaced ==
    ASSUME Placed, Grown, NEW w \in Worker, NEW pc,
           work'[w].nth = work[w].nth, work'[w].offset = work[w].offset,
           work'[w].pc = pc, log' = log,
           \/ pc \in {"join"}
           \/ AtMessage(w)
           \/ work[w].offset \in 1..Len(log[TopicOf(w)]),
           pc = "enqueue" => Record(w).attempt < MaxAttempts,
           pc # "join" => ~At(w, "down") /\ ~At(w, "join")
    PROVE  PlacedAt(w)'
<1>1. PlacedAt(w) /\ TopicOf(w)' = TopicOf(w)
  BY MessageStays DEF Placed, Positions
<1>2. Record(w)' = Record(w)
  BY <1>1 DEF Record
<1> QED BY <1>1, <1>2 DEF PlacedAt, AtMessage, At

\* It advances behind the message it is at.
LEMMA AdvancePlaced ==
    ASSUME Placed, Grown, NEW w \in Worker, AtMessage(w), Advance(w), log' = log
    PROVE  PlacedAt(w)'
<1>1. /\ work'[w].pc = "fetch" /\ work'[w].nth = work[w].nth
      /\ work'[w].offset = work[w].offset + 1
  BY DEF Advance, Placed, TypeOK
<1>2. PlacedAt(w) /\ TopicOf(w)' = TopicOf(w)
  BY <1>1, MessageStays DEF Placed, Positions
<1>3. Len(log[TopicOf(w)]) \in Nat
  BY MessageTypes
<1> QED BY <1>1, <1>2, <1>3 DEF PlacedAt, AtMessage, At

\* It starts at the committed offset of its topic.
LEMMA JoinPlaced ==
    ASSUME Placed, Grown, NEW w \in Worker, log' = log,
           work'[w].pc = "fetch", work'[w].nth = work[w].nth,
           work'[w].offset = committed[TopicOf(w)]
    PROVE  PlacedAt(w)'
<1>1. PlacedAt(w) /\ TopicOf(w)' = TopicOf(w) /\ TopicOf(w) \in Topic
  BY MessageStays, MessageTypes DEF Placed, Positions
<1>2. /\ committed[TopicOf(w)] <= Len(log[TopicOf(w)]) + 1
      /\ committed[TopicOf(w)] \in Nat \ {0}
  BY <1>1 DEF Placed, Positions, TypeOK
<1> QED BY <1>1, <1>2 DEF PlacedAt, AtMessage, At

\* It starts over, or goes on to its next topic.
LEMMA DownPlaced ==
    ASSUME Placed, Grown, NEW w \in Worker, log' = log,
           \/ work'[w] = Down
           \/ /\ work[w].nth < Len(Subscribes[w])
              /\ work'[w] = [Down EXCEPT !.pc = "join", !.nth = work[w].nth + 1]
    PROVE  PlacedAt(w)'
<1>1. Subscribes[w] \in Seq(Topic) /\ Subscribes[w] # <<>>
  BY SubscribesAssumption
<1>2. Len(Subscribes[w]) \in Nat \ {0}
  BY <1>1, EmptySeq, LenProperties
<1>3. /\ work'[w].offset = 0 /\ work'[w].pc \in {"down", "join"}
      /\ work'[w].nth \in 1..Len(Subscribes[w])
  <2>1. work[w].nth \in Nat \ {0}
    BY DEF Placed, TypeOK, WorkState
  <2>2. CASE work'[w] = Down
    BY <1>2, <2>2 DEF Down
  <2>3. CASE /\ work[w].nth < Len(Subscribes[w])
             /\ work'[w] = [Down EXCEPT !.pc = "join", !.nth = work[w].nth + 1]
    <3>1. work'[w] = [pc |-> "join", nth |-> work[w].nth + 1, offset |-> 0,
                      failure |-> "none"]
      BY <2>3 DEF Down
    <3>2. /\ work'[w].nth = work[w].nth + 1 /\ work'[w].offset = 0
          /\ work'[w].pc = "join"
      BY <3>1
    <3>3. work[w].nth + 1 \in 1..Len(Subscribes[w])
      BY <1>2, <2>1, <2>3
    <3> QED BY <3>2, <3>3
  <2> QED BY <2>2, <2>3
<1>4. Subscribes[w][work'[w].nth] \in Topic
  BY <1>1, <1>3, ElementOfSeq
<1>5. Len(log'[TopicOf(w)']) \in Nat
  <2>1. log[Subscribes[w][work'[w].nth]] \in Seq([event : Event, attempt : 1..MaxAttempts])
    BY <1>4 DEF Placed, TypeOK
  <2>2. log'[TopicOf(w)'] = log[Subscribes[w][work'[w].nth]]
    BY DEF TopicOf
  <2> QED BY <2>1, <2>2, LenProperties
<1> QED BY <1>3, <1>5 DEF PlacedAt, AtMessage, At

\* The initial logs are those the producers have written.
LEMMA PlacedInit == Init => Placed
<1> SUFFICES ASSUME Init PROVE Placed
  OBVIOUS
<1>1. PICK written \in Commands :
        log = [t \in Topic |-> [i \in 1..Len(written[t]) |->
                                  [event |-> written[t][i], attempt |-> 1]]]
  BY DEF Init
<1>2. \A t \in Topic : /\ log[t] \in Seq([event : Event, attempt : 1..MaxAttempts])
                       /\ Len(log[t]) \in Nat
  <2> SUFFICES ASSUME NEW t \in Topic
               PROVE  log[t] \in Seq([event : Event, attempt : 1..MaxAttempts])
    BY LenProperties
  <2>1. written[t] \in Seq(Event)
    BY CommandsAssumption
  <2>2. /\ Len(written[t]) \in Nat
        /\ \A i \in 1..Len(written[t]) : written[t][i] \in Event
    BY <2>1, LenProperties, ElementOfSeq
  <2>3. log[t] \in [1..Len(written[t]) -> [event : Event, attempt : 1..MaxAttempts]]
    BY <1>1, <2>2, MaxAssumption
  <2> QED BY <2>2, <2>3, SeqDef
<1>3. TypeOK
  <2>1. work \in [Worker -> [pc : {"down"}, nth : {1}, offset : {0}, failure : {"none"}]]
    BY DEF Init, Down
  <2>2. log \in [Topic -> Seq([event : Event, attempt : 1..MaxAttempts])]
    BY <1>1, <1>2
  <2> QED BY <2>1, <2>2, MaxAssumption DEF Init, TypeOK, WorkState
<1>4. \A w \in Worker : PlacedAt(w)
  <2> SUFFICES ASSUME NEW w \in Worker PROVE PlacedAt(w)
    OBVIOUS
  <2>1. Subscribes[w] \in Seq(Topic) /\ Subscribes[w] # <<>>
    BY SubscribesAssumption
  <2>2. Len(Subscribes[w]) \in Nat \ {0}
    BY <2>1, EmptySeq, LenProperties
  <2>3. work[w] = Down
    BY DEF Init
  <2>4. Subscribes[w][1] \in Topic
    BY <2>1, <2>2, ElementOfSeq
  <2> QED BY <1>2, <2>2, <2>3, <2>4 DEF PlacedAt, Down, AtMessage, At, TopicOf
<1> QED BY <1>2, <1>3, <1>4 DEF Placed, Positions, Init

\* What a worker moves to is a state of a worker.
LEMMA WorkTypes ==
    ASSUME TypeOK, NEW w \in Worker
    PROVE  /\ \A s \in WorkState : [work EXCEPT ![w] = s] \in [Worker -> WorkState]
           /\ \A n \in Nat \ {0}, pc \in {"down", "join"} :
                [Down EXCEPT !.pc = pc, !.nth = n] \in WorkState
           /\ Down \in WorkState
           /\ \A pc \in {"down", "join", "fetch", "claim", "handle", "failed",
                         "enqueue", "deadLetter", "commit"} :
                Goto(w, pc) => work' \in [Worker -> WorkState]
           /\ \A o \in Nat :
                [work EXCEPT ![w].pc = "fetch", ![w].offset = o]
                    \in [Worker -> WorkState]
           /\ Advance(w) => work' \in [Worker -> WorkState]
           /\ \A o \in {"none", "transient", "permanent"}, pc \in {"commit", "failed"} :
                [work EXCEPT ![w].pc = pc, ![w].failure = o] \in [Worker -> WorkState]
<1>1. work \in [Worker -> WorkState] /\ work[w] \in WorkState
  BY DEF TypeOK
<1>2. \A s \in WorkState : [work EXCEPT ![w] = s] \in [Worker -> WorkState]
  BY <1>1
<1>3. Down \in WorkState
  BY DEF Down, WorkState
<1>4. \A n \in Nat \ {0}, pc \in {"down", "join"} :
        [Down EXCEPT !.pc = pc, !.nth = n] \in WorkState
  BY DEF Down, WorkState
<1>5. \A pc \in {"down", "join", "fetch", "claim", "handle", "failed",
                 "enqueue", "deadLetter", "commit"} :
        Goto(w, pc) => work' \in [Worker -> WorkState]
  BY <1>1 DEF Goto, WorkState
<1>6. \A o \in Nat : [work EXCEPT ![w].pc = "fetch", ![w].offset = o]
                         \in [Worker -> WorkState]
  BY <1>1 DEF WorkState
<1>7. Advance(w) => work' \in [Worker -> WorkState]
  BY <1>1 DEF Advance, WorkState
<1>8. \A o \in {"none", "transient", "permanent"}, pc \in {"commit", "failed"} :
        [work EXCEPT ![w].pc = pc, ![w].failure = o] \in [Worker -> WorkState]
  BY <1>1 DEF WorkState
<1> QED BY <1>2, <1>3, <1>4, <1>5, <1>6, <1>7, <1>8

\* Every step of the loop, and what may happen around it, keeps types and
\* positions (broker.go:83-140).
LEMMA PlacedNext == Placed /\ [Next]_vars => Placed'
<1> SUFFICES ASSUME Placed, [Next]_vars PROVE Placed'
  OBVIOUS
<1>1. Grown /\ TypeOK
  BY LogGrows DEF Placed
<1>2. \A w \in Worker :
        /\ TopicOf(w) \in Topic /\ PlacedAt(w)
        /\ AtMessage(w) => EventOf(w) \in Event /\ Record(w).attempt \in 1..MaxAttempts
  BY MessageTypes DEF Placed, Positions
<1>3. \A t \in Topic : committed[t] <= Len(log[t]) + 1
  BY DEF Placed, Positions
<1>4. ASSUME TypeOK', \A t \in Topic : committed'[t] <= Len(log[t]) + 1,
             \A v \in Worker : work'[v] = work[v] \/ PlacedAt(v)'
      PROVE  Placed'
  <2>1. \A t \in Topic : Len(log'[t]) \in Nat /\ committed'[t] \in Nat
    BY <1>4, LenProperties DEF TypeOK
  <2> QED BY <1>1, <1>4, <2>1, PositionsKept DEF Placed
<1>5. ASSUME NEW w \in Worker, Subscribe(w) PROVE Placed'
  <2>1. TypeOK' /\ committed' = committed /\ log' = log
    <3>1. work' \in [Worker -> WorkState]
      BY <1>1, <1>5, WorkTypes DEF Subscribe
    <3> QED BY <1>1, <1>5, <3>1 DEF Subscribe, TypeOK, kafka
  <2>2. \A v \in Worker : work'[v] = IF v = w THEN [work[w] EXCEPT !.pc = "join"] ELSE work[v]
    BY <1>1, <1>5 DEF Subscribe, Goto, TypeOK
  <2>3. PlacedAt(w)'
    BY <1>1, <2>1, <2>2, GotoPlaced DEF TypeOK, WorkState
  <2> QED BY <1>3, <1>4, <2>1, <2>2, <2>3
<1>6. ASSUME NEW w \in Worker, Join(w) \/ Rebalance(w) PROVE Placed'
  <2>1. committed' = committed /\ log' = log
    BY <1>6 DEF Join, Rebalance
  <2>2. \A v \in Worker : work'[v] =
          IF v = w THEN [work[w] EXCEPT !.pc = "fetch", !.offset = committed[TopicOf(w)]]
                   ELSE work[v]
    BY <1>1, <1>6 DEF Join, Rebalance, TypeOK
  <2>3. TypeOK'
    <3>1. committed[TopicOf(w)] \in Nat
      BY <1>1, <1>2 DEF TypeOK
    <3>2. work' \in [Worker -> WorkState]
      <4>1. work' = [work EXCEPT ![w].pc = "fetch", ![w].offset = committed[TopicOf(w)]]
        BY <1>6 DEF Join, Rebalance
      <4> QED BY <1>1, <3>1, <4>1, WorkTypes
    <3>3. owner' \in [Topic -> Worker \cup {None}] /\ stops' \in 0..MaxStops
      <4>1. owner' \in [Topic -> Worker \cup {None}]
        BY <1>1, <1>6 DEF Join, Rebalance, TypeOK
      <4>2. stops' \in 0..MaxStops
        BY <1>1, <1>6, MaxAssumption DEF Join, Rebalance, TypeOK
      <4> QED BY <4>1, <4>2
    <3> QED BY <1>1, <1>6, <3>2, <3>3 DEF Join, Rebalance, TypeOK
  <2>4. PlacedAt(w)'
    BY <1>1, <2>1, <2>2, JoinPlaced DEF TypeOK, WorkState
  <2> QED BY <1>3, <1>4, <2>1, <2>2, <2>3, <2>4
<1>7. ASSUME NEW w \in Worker, Fetch(w) PROVE Placed'
  <2>1. TypeOK' /\ committed' = committed /\ log' = log
    <3>1. work' \in [Worker -> WorkState]
      BY <1>1, <1>7, WorkTypes DEF Fetch
    <3> QED BY <1>1, <1>7, <3>1 DEF Fetch, TypeOK, kafka
  <2>2. \A v \in Worker : work'[v] = IF v = w THEN [work[w] EXCEPT !.pc = "claim"] ELSE work[v]
    BY <1>1, <1>7 DEF Fetch, Goto, TypeOK
  <2>3. work[w].offset \in 1..Len(log[TopicOf(w)])
    <3>1. work[w].offset >= 1 /\ work[w].offset \in Nat
      BY <1>1, <1>2, <1>7 DEF Fetch, PlacedAt, At, TypeOK, WorkState
    <3>2. Len(log[TopicOf(w)]) \in Nat
      BY MessageTypes
    <3> QED BY <1>7, <3>1, <3>2 DEF Fetch
  <2>4. PlacedAt(w)'
    BY <1>1, <1>7, <2>1, <2>2, <2>3, GotoPlaced DEF TypeOK, WorkState, Fetch, At
  <2> QED BY <1>3, <1>4, <2>1, <2>2, <2>4
<1>8. ASSUME NEW w \in Worker, Claim(w) PROVE Placed'
  <2>1. AtMessage(w) /\ committed' = committed /\ log' = log
    BY <1>8 DEF Claim, At, AtMessage, kafka
  <2>2. TypeOK' /\ \A v \in Worker : v # w => work'[v] = work[v]
    <3>1. work' \in [Worker -> WorkState]
      BY <1>1, <1>8, WorkTypes DEF Claim
    <3> QED BY <1>1, <1>2, <1>8, <2>1, <3>1 DEF Claim, Advance, Goto, TypeOK, kafka
  <2>3. CASE Advance(w)
    BY <1>1, <1>3, <1>4, <2>1, <2>2, <2>3, AdvancePlaced
  <2>4. CASE ~Advance(w)
    <3>1. PICK pc \in {"deadLetter", "handle"} : Goto(w, pc)
      BY <1>8, <2>4 DEF Claim
    <3>2. PlacedAt(w)'
      BY <1>1, <1>8, <2>1, <3>1, GotoPlaced DEF TypeOK, WorkState, Goto, Claim, At
    <3> QED BY <1>3, <1>4, <2>1, <2>2, <3>2
  <2> QED BY <2>3, <2>4
<1>9. ASSUME NEW w \in Worker, Handle(w) PROVE Placed'
  <2>1. AtMessage(w) /\ committed' = committed /\ log' = log
    BY <1>9 DEF Handle, HandlerReturns, At, AtMessage, kafka
  <2>2. PICK o \in Outcomes[EventOf(w)] : HandlerReturns(w, o)
    BY <1>9 DEF Handle
  <2>3. o \in {"ok", "transient", "permanent"}
    BY <1>2, <2>1, OutcomesAssumption
  <2>4. TypeOK' /\ \A v \in Worker : v # w => work'[v] = work[v]
    <3>1. work' \in [Worker -> WorkState]
      BY <1>1, <2>2, <2>3, WorkTypes DEF HandlerReturns
    <3>2. done' \in [Event -> Nat]
      BY <1>1, <1>2, <2>1, <2>2 DEF HandlerReturns, TypeOK
    <3> QED BY <1>1, <1>2, <2>1, <2>2, <3>1, <3>2 DEF HandlerReturns, TypeOK, kafka
  <2>5. /\ work'[w].pc \in {"commit", "failed"}
        /\ work'[w].nth = work[w].nth /\ work'[w].offset = work[w].offset
    BY <1>1, <2>2 DEF HandlerReturns, TypeOK
  <2>6. PlacedAt(w)'
    BY <1>1, <1>9, <2>1, <2>5, GotoPlaced DEF Handle, At
  <2> QED BY <1>3, <1>4, <2>1, <2>4, <2>6
<1>10. ASSUME NEW w \in Worker, ReleaseClaim(w) PROVE Placed'
  <2>1. AtMessage(w) /\ committed' = committed /\ log' = log
    BY <1>10 DEF ReleaseClaim, At, AtMessage, kafka
  <2>2. TypeOK' /\ \A v \in Worker : v # w => work'[v] = work[v]
    <3>1. work' \in [Worker -> WorkState]
      BY <1>1, <1>10, WorkTypes DEF ReleaseClaim
    <3>2. stops' \in 0..MaxStops
      BY <1>1, <1>10, MaxAssumption DEF ReleaseClaim, TypeOK
    <3>3. claims' \subseteq Event /\ interrupted' \subseteq Event
      BY <1>1, <1>2, <1>10, <2>1 DEF ReleaseClaim, TypeOK
    <3> QED BY <1>1, <1>10, <3>1, <3>2, <3>3 DEF ReleaseClaim, Goto, TypeOK, kafka
  <2>3. /\ work'[w].pc = IF Retries(w) THEN "enqueue" ELSE "deadLetter"
        /\ work'[w].nth = work[w].nth /\ work'[w].offset = work[w].offset
    BY <1>1, <1>10 DEF ReleaseClaim, Goto, TypeOK
  <2>4. PlacedAt(w)'
    BY <1>1, <1>10, <2>1, <2>3, GotoPlaced DEF ReleaseClaim, Retries, At
  <2> QED BY <1>3, <1>4, <2>1, <2>2, <2>4
<1>11. ASSUME NEW w \in Worker, EnqueueRetry(w) PROVE Placed'
  <2>1. AtMessage(w) /\ committed' = committed /\ log' = log
    BY <1>11 DEF EnqueueRetry, At, AtMessage
  <2>2. [event |-> EventOf(w), attempt |-> Record(w).attempt + 1]
           \in [event : Event, attempt : 2..MaxAttempts]
    BY <1>2, <1>11, <2>1, MaxAssumption DEF EnqueueRetry, PlacedAt
  <2>3. TypeOK' /\ \A v \in Worker : v # w => work'[v] = work[v]
    <3>1. work' \in [Worker -> WorkState]
      BY <1>1, <1>11, WorkTypes DEF EnqueueRetry
    <3>2. retry' \in [Topic -> SUBSET [event : Event, attempt : 2..MaxAttempts]]
      BY <1>1, <1>11, <2>2 DEF EnqueueRetry, TypeOK
    <3> QED BY <1>1, <1>11, <3>1, <3>2 DEF EnqueueRetry, Advance, TypeOK
  <2> QED BY <1>1, <1>3, <1>4, <1>11, <2>1, <2>3, AdvancePlaced DEF EnqueueRetry
<1>12. ASSUME NEW w \in Worker, DeadLetter(w) PROVE Placed'
  <2>1. AtMessage(w) /\ committed' = committed /\ log' = log /\ ReturnNil(w)
    BY <1>12 DEF DeadLetter, At, AtMessage
  <2>2. /\ \/ work'[w] = Down
           \/ /\ work[w].nth < Len(Subscribes[w])
              /\ work'[w] = [Down EXCEPT !.pc = "join", !.nth = work[w].nth + 1]
        /\ \A v \in Worker : v # w => work'[v] = work[v]
    BY <1>1, <2>1 DEF ReturnNil, TypeOK
  <2>3. work' \in [Worker -> WorkState]
    <3>1. work[w].nth + 1 \in Nat \ {0}
      BY <1>1 DEF TypeOK, WorkState
    <3>2. [Down EXCEPT !.pc = "join", !.nth = work[w].nth + 1] \in WorkState
      BY <1>1, <3>1, WorkTypes
    <3> QED BY <1>1, <2>1, <3>2, WorkTypes DEF ReturnNil
  <2>4. TypeOK'
    BY <1>1, <1>2, <1>12, <2>1, <2>3 DEF DeadLetter, ReturnNil, Leave, TypeOK
  <2>5. PlacedAt(w)'
    BY <1>1, <2>1, <2>2, DownPlaced
  <2> QED BY <1>3, <1>4, <2>1, <2>2, <2>4, <2>5
<1>13. ASSUME NEW w \in Worker, CommitMessage(w) PROVE Placed'
  <2>1. AtMessage(w) /\ log' = log /\ Advance(w)
    BY <1>13 DEF CommitMessage, At, AtMessage
  <2>2. \A t \in Topic : committed'[t] = IF t = TopicOf(w) THEN work[w].offset + 1
                                                          ELSE committed[t]
    BY <1>1, <1>13 DEF CommitMessage, TypeOK
  <2>3. \A t \in Topic : committed'[t] <= Len(log[t]) + 1
    BY <1>2, <1>3, <2>1, <2>2, MessageTypes DEF PlacedAt
  <2>4. TypeOK' /\ \A v \in Worker : v # w => work'[v] = work[v]
    <3>1. work' \in [Worker -> WorkState]
      BY <1>1, <2>1, WorkTypes
    <3>2. work[w].offset + 1 \in Nat \ {0}
      BY <1>1 DEF TypeOK, WorkState
    <3>3. committed' \in [Topic -> Nat \ {0}]
      BY <1>1, <1>13, <3>2 DEF CommitMessage, TypeOK
    <3> QED BY <1>1, <1>13, <3>1, <3>3 DEF CommitMessage, Advance, TypeOK
  <2> QED BY <1>1, <1>4, <2>1, <2>3, <2>4, AdvancePlaced
<1>14. ASSUME NEW w \in Worker, Stop(w) PROVE Placed'
  <2>1. committed' = committed /\ log' = log /\ ReturnError(w)
    BY <1>14 DEF Stop
  <2>2. /\ work'[w] = Down
        /\ \A v \in Worker : v # w => work'[v] = work[v]
    BY <1>1, <2>1 DEF ReturnError, TypeOK
  <2>3. work' \in [Worker -> WorkState]
    BY <1>1, <2>1, WorkTypes DEF ReturnError
  <2>4. interrupted' \subseteq Event
    BY <1>1, <1>2, <1>14 DEF Stop, Holding, AtMessage, TypeOK
  <2>5. TypeOK'
    <3>1. stops' \in 0..MaxStops
      BY <1>1, <1>14, MaxAssumption DEF Stop, TypeOK
    <3> QED BY <1>1, <1>14, <2>1, <2>3, <2>4, <3>1 DEF Stop, ReturnError, Leave, TypeOK
  <2>6. PlacedAt(w)'
    BY <1>1, <2>1, <2>2, DownPlaced
  <2> QED BY <1>3, <1>4, <2>1, <2>2, <2>5, <2>6
<1>15. ASSUME NEW w \in Worker, Rejoin(w) PROVE Placed'
  <2>1. TypeOK' /\ committed' = committed /\ log' = log
    <3>1. work' \in [Worker -> WorkState]
      BY <1>1, <1>15, WorkTypes DEF Rejoin
    <3> QED BY <1>1, <1>15, <3>1 DEF Rejoin, TypeOK, kafka
  <2>2. \A v \in Worker : work'[v] = IF v = w THEN [work[w] EXCEPT !.pc = "join"] ELSE work[v]
    BY <1>1, <1>15 DEF Rejoin, Goto, TypeOK
  <2>3. PlacedAt(w)'
    BY <1>1, <2>1, <2>2, GotoPlaced DEF TypeOK, WorkState
  <2> QED BY <1>3, <1>4, <2>1, <2>2, <2>3
<1>16. ASSUME NEW t \in Topic, RunRetryQueue(t) PROVE Placed'
  <2>1. PICK rec \in retry[t] : /\ retry' = [retry EXCEPT ![t] = @ \ {rec}]
                                /\ log' = [log EXCEPT ![t] = Append(@, rec)]
    BY <1>16 DEF RunRetryQueue
  <2>2. rec \in [event : Event, attempt : 1..MaxAttempts]
    BY <1>1, MaxAssumption DEF TypeOK
  <2>3. Append(log[t], rec) \in Seq([event : Event, attempt : 1..MaxAttempts])
    BY <1>1, <2>2, AppendProperties DEF TypeOK
  <2>4. log' \in [Topic -> Seq([event : Event, attempt : 1..MaxAttempts])]
    BY <1>1, <2>1, <2>3 DEF TypeOK
  <2>5. TypeOK' /\ committed' = committed /\ work' = work
    BY <1>1, <1>16, <2>1, <2>4 DEF RunRetryQueue, TypeOK
  <2> QED BY <1>3, <1>4, <2>5
<1>17. CASE UNCHANGED vars
  BY <1>1, <1>3, <1>4, <1>17 DEF vars, kafka, TypeOK
<1> QED BY <1>5, <1>6, <1>7, <1>8, <1>9, <1>10, <1>11, <1>12, <1>13, <1>14, <1>15,
           <1>16, <1>17 DEF Next, Step, LoopStep

\* A record has at most MaxAttempts attempts and a worker reads no topic but
\* its own, whatever is retried, committed or rebalanced (broker.go:97-140).
THEOREM TypeCorrect == Spec => []TypeOK
<1>1. Placed => TypeOK
  BY DEF Placed
<1> QED BY <1>1, PlacedInit, PlacedNext, PTL DEF Spec

-----------------------------------------------------------------------------
(* Claims.                                                                  *)

\* The worker's claim is the one in processed_events: it has not handled the
\* message yet, or has failed and not released it.
OwnsClaim(w) == work[w].pc \in {"handle", "failed"}

\* A claim has one owner, whose event has had no success; that of a success
\* stays.
ClaimsOwned ==
    /\ \A w \in Worker : OwnsClaim(w) => EventOf(w) \in claims /\ done[EventOf(w)] = 0
    /\ \A w1, w2 \in Worker :
         OwnsClaim(w1) /\ OwnsClaim(w2) /\ EventOf(w1) = EventOf(w2) => w1 = w2
    /\ \A e \in Event : done[e] > 0 => e \in claims
    /\ HandledAtMostOnce

ClaimInv == Placed /\ ClaimsOwned

\* A worker that does not move keeps its message.
LEMMA OthersKeep ==
    ASSUME Placed, Grown, NEW v \in Worker, work'[v] = work[v], AtMessage(v)
    PROVE  EventOf(v)' = EventOf(v) /\ TopicOf(v)' = TopicOf(v) /\ AtMessage(v)'
BY MessageStays DEF AtMessage

\* No worker but the one that takes a step moves.
LEMMA OneMoves ==
    ASSUME Placed, NEW w \in Worker, Step(w) \/ Stop(w) \/ Rebalance(w)
    PROVE  \A v \in Worker : v # w => work'[v] = work[v]
BY DEF Placed, TypeOK, Step, LoopStep, Subscribe, Join, Fetch, Claim, Handle,
       HandlerReturns, ReleaseClaim, EnqueueRetry, DeadLetter, CommitMessage, Rejoin,
       Stop, Rebalance, Goto, Advance, ReturnNil, ReturnError

\* Claims and successes untouched, and no new owner.
LEMMA ClaimsStay ==
    ASSUME Placed, Grown, ClaimsOwned, claims' = claims, done' = done,
           \A v \in Worker : work'[v] = work[v] \/ ~OwnsClaim(v)'
    PROVE  ClaimsOwned'
<1>1. \A v \in Worker : OwnsClaim(v)' => OwnsClaim(v) /\ EventOf(v)' = EventOf(v)
  BY OthersKeep DEF OwnsClaim, AtMessage
<1> QED BY <1>1 DEF ClaimsOwned, HandledAtMostOnce

\* No event is claimed at first.
LEMMA ClaimInit == Init => ClaimsOwned
BY DEF Init, ClaimsOwned, OwnsClaim, Down, HandledAtMostOnce

\* ClaimDB, the return of the handler and Release are the steps that matter
\* (broker.go:99-122).
LEMMA ClaimNext == ClaimInv /\ [Next]_vars => ClaimsOwned'
<1> SUFFICES ASSUME ClaimInv, [Next]_vars PROVE ClaimsOwned'
  OBVIOUS
<1>1. Placed /\ Grown /\ ClaimsOwned /\ TypeOK
  BY LogGrows DEF ClaimInv, Placed
<1>2. \A w \in Worker : AtMessage(w) => EventOf(w) \in Event
  BY <1>1, MessageTypes
<1>3. \A v \in Worker : work'[v] = work[v] /\ OwnsClaim(v)
                          => EventOf(v)' = EventOf(v)
  BY <1>1, OthersKeep DEF OwnsClaim, AtMessage
<1>4. ASSUME NEW w \in Worker, Claim(w) PROVE ClaimsOwned'
  <2>1. \A v \in Worker : v # w => work'[v] = work[v]
    BY <1>1, <1>4, OneMoves DEF Step, LoopStep
  <2>2. CASE EventOf(w) \in claims
    <3>1. claims' = claims /\ done' = done /\ ~OwnsClaim(w)'
      BY <1>1, <1>4, <2>2 DEF Claim, Advance, OwnsClaim, TypeOK, WorkState
    <3> QED BY <1>1, <2>1, <3>1, ClaimsStay
  <2>3. CASE EventOf(w) \notin claims
    <3>1. claims' = claims \cup {EventOf(w)} /\ done' = done
      BY <1>4, <2>3 DEF Claim
    <3>2. AtMessage(w) /\ EventOf(w)' = EventOf(w)
      <4>1. /\ work'[w].nth = work[w].nth /\ work'[w].offset = work[w].offset
            /\ AtMessage(w)
        BY <1>1, <1>4, <2>3 DEF Claim, Goto, TypeOK, WorkState, At, AtMessage
      <4> QED BY <1>1, <4>1, MessageStays
    <3>3. EventOf(w) \in Event /\ done[EventOf(w)] = 0
      BY <1>1, <1>2, <2>3, <3>2 DEF ClaimsOwned, TypeOK
    <3>4. \A v \in Worker : v # w /\ OwnsClaim(v)'
             => OwnsClaim(v) /\ EventOf(v)' = EventOf(v) /\ EventOf(v) # EventOf(w)
      BY <1>1, <1>3, <2>1, <2>3 DEF OwnsClaim, ClaimsOwned
    <3> QED BY <1>1, <3>1, <3>2, <3>3, <3>4 DEF ClaimsOwned, HandledAtMostOnce
  <2> QED BY <2>2, <2>3
<1>5. ASSUME NEW w \in Worker, Handle(w) PROVE ClaimsOwned'
  <2>1. \A v \in Worker : v # w => work'[v] = work[v]
    BY <1>1, <1>5, OneMoves DEF Step
  <2>2. PICK o \in Outcomes[EventOf(w)] : HandlerReturns(w, o)
    BY <1>5 DEF Handle
  <2>3. /\ AtMessage(w) /\ OwnsClaim(w) /\ EventOf(w) \in Event
        /\ work'[w].pc = IF o = "ok" THEN "commit" ELSE "failed"
        /\ claims' = claims
    BY <1>1, <1>2, <1>5, <2>2
    DEF Handle, HandlerReturns, TypeOK, WorkState, At, AtMessage, OwnsClaim
  <2>4. EventOf(w)' = EventOf(w)
    <3>1. work'[w].nth = work[w].nth /\ work'[w].offset = work[w].offset
      BY <1>1, <2>2 DEF HandlerReturns, TypeOK, WorkState
    <3> QED BY <1>1, <2>3, <3>1, MessageStays
  <2>5. \A v \in Worker : OwnsClaim(v)' => OwnsClaim(v) /\ EventOf(v)' = EventOf(v)
    BY <1>3, <2>1, <2>3, <2>4 DEF OwnsClaim
  <2>6. done[EventOf(w)] = 0 /\ EventOf(w) \in claims
    BY <1>1, <2>3 DEF ClaimsOwned
  <2>7. CASE o = "ok"
    <3>1. \A e \in Event : done'[e] = IF e = EventOf(w) THEN 1 ELSE done[e]
      BY <1>1, <2>2, <2>3, <2>6, <2>7 DEF HandlerReturns, TypeOK
    <3>2. ~OwnsClaim(w)'
      BY <2>3, <2>7 DEF OwnsClaim
    <3>3. \A v \in Worker : OwnsClaim(v)' => EventOf(v)' # EventOf(w) /\ EventOf(v) \in Event
      BY <1>1, <1>2, <2>3, <2>5, <3>2 DEF ClaimsOwned, OwnsClaim, AtMessage
    <3> QED BY <1>1, <2>3, <2>5, <2>6, <3>1, <3>3 DEF ClaimsOwned, HandledAtMostOnce
  <2>8. CASE o # "ok"
    <3>1. done' = done
      BY <1>1, <2>2, <2>3, <2>8 DEF HandlerReturns, TypeOK
    <3> QED BY <1>1, <2>3, <2>5, <3>1 DEF ClaimsOwned, HandledAtMostOnce
  <2> QED BY <2>7, <2>8
<1>6. ASSUME NEW w \in Worker, ReleaseClaim(w) PROVE ClaimsOwned'
  <2>1. \A v \in Worker : v # w => work'[v] = work[v]
    BY <1>1, <1>6, OneMoves DEF Step, LoopStep
  <2>2. /\ OwnsClaim(w) /\ ~OwnsClaim(w)' /\ done' = done
        /\ claims' \in {claims, claims \ {EventOf(w)}}
    BY <1>1, <1>6 DEF ReleaseClaim, Goto, At, OwnsClaim, TypeOK, WorkState
  <2>3. \A v \in Worker : OwnsClaim(v)'
           => OwnsClaim(v) /\ EventOf(v)' = EventOf(v) /\ EventOf(v) # EventOf(w)
    BY <1>1, <1>3, <2>1, <2>2 DEF OwnsClaim, ClaimsOwned
  <2>4. done[EventOf(w)] = 0
    BY <1>1, <2>2 DEF ClaimsOwned
  <2>5. \A e \in Event : done[e] > 0 => e # EventOf(w)
    BY <2>4
  <2> QED BY <1>1, <2>2, <2>3, <2>5 DEF ClaimsOwned, HandledAtMostOnce
<1>7. ASSUME NEW w \in Worker,
             \/ Subscribe(w) \/ Join(w) \/ Fetch(w) \/ EnqueueRetry(w) \/ DeadLetter(w)
             \/ CommitMessage(w) \/ Rejoin(w) \/ Stop(w) \/ Rebalance(w)
      PROVE  ClaimsOwned'
  <2>1. \A v \in Worker : v # w => work'[v] = work[v]
    BY <1>1, <1>7, OneMoves DEF Step, LoopStep
  <2>2. claims' = claims /\ done' = done
    BY <1>7 DEF Subscribe, Join, Fetch, EnqueueRetry, DeadLetter, CommitMessage,
                Rejoin, Stop, Rebalance
  <2>3. ~OwnsClaim(w)'
    <3>1. CASE Subscribe(w) \/ Fetch(w) \/ Rejoin(w)
      BY <1>1, <3>1 DEF Subscribe, Fetch, Rejoin, Goto, OwnsClaim, TypeOK, WorkState
    <3>2. CASE Join(w) \/ Rebalance(w)
      BY <1>1, <3>2 DEF Join, Rebalance, OwnsClaim, TypeOK, WorkState
    <3>3. CASE EnqueueRetry(w) \/ CommitMessage(w)
      BY <1>1, <3>3 DEF EnqueueRetry, CommitMessage, Advance, OwnsClaim, TypeOK, WorkState
    <3>4. CASE DeadLetter(w) \/ Stop(w)
      <4>1. CASE DeadLetter(w)
        <5>1. work' = [work EXCEPT ![w] =
                         IF work[w].nth < Len(Subscribes[w])
                         THEN [Down EXCEPT !.pc = "join", !.nth = work[w].nth + 1]
                         ELSE Down]
          BY <4>1 DEF DeadLetter, ReturnNil
        <5>2. work'[w].pc \in {"down", "join"}
          BY <1>1, <5>1 DEF Down, TypeOK
        <5> QED BY <5>2 DEF OwnsClaim
      <4>2. CASE Stop(w)
        BY <1>1, <4>2 DEF Stop, ReturnError, Down, OwnsClaim, TypeOK
      <4> QED BY <3>4, <4>1, <4>2
    <3> QED BY <1>7, <3>1, <3>2, <3>3, <3>4
  <2> QED BY <1>1, <2>1, <2>2, <2>3, ClaimsStay
<1>8. CASE UNCHANGED vars \/ \E t \in Topic : RunRetryQueue(t)
  <2>1. claims' = claims /\ done' = done /\ work' = work
    BY <1>8 DEF vars, kafka, RunRetryQueue
  <2> QED BY <1>1, <2>1, ClaimsStay
<1> QED BY <1>4, <1>5, <1>6, <1>7, <1>8 DEF Next, Step, LoopStep

\* The inductive invariant of claims.
THEOREM ClaimsHold == Spec => []ClaimInv
<1>1. Init => ClaimInv
  BY PlacedInit, ClaimInit DEF ClaimInv
<1>2. ClaimInv /\ [Next]_vars => ClaimInv'
  BY PlacedNext, ClaimNext DEF ClaimInv
<1> QED BY <1>1, <1>2, PTL DEF Spec

\* However often an event is fetched, copied for a retry, or read by a worker
\* of another replica, its handler succeeds once (broker.go:99-109).
THEOREM HandledOnce == Spec => []HandledAtMostOnce
<1>1. ClaimInv => HandledAtMostOnce
  BY DEF ClaimInv, ClaimsOwned
<1> QED BY <1>1, ClaimsHold, PTL

\* And no two workers are in its handler together (broker.go:99-105).
THEOREM ClaimsKeepApart == Spec => []ClaimsExclude
<1>1. ClaimInv => ClaimsExclude
  BY DEF ClaimInv, ClaimsOwned, ClaimsExclude, OwnsClaim, At
<1> QED BY <1>1, ClaimsHold, PTL

-----------------------------------------------------------------------------
(* Offsets.                                                                 *)

Published(e, t) ==
    \/ \E i \in 1..Len(log[t]) : log[t][i].event = e
    \/ \E rec \in retry[t] : rec.event = e

OneHome ==
    \A e \in Event, t1, t2 \in Topic :
        Published(e, t1) /\ Published(e, t2) => t1 = t2

\* A claimed event has an outcome, was cut short, or its claimant is still at
\* it: a claim is skipped without harm.
ClaimsAnswered ==
    \A e \in claims : \/ HasOutcome(e) \/ e \in interrupted
                      \/ \E w \in Worker : /\ work[w].pc \in {"handle", "failed", "deadLetter"}
                                           /\ EventOf(w) = e

\* Nothing is lost of event e when offset o of topic t is committed.
Covered(e, t, o) ==
    \/ HasOutcome(e) \/ e \in interrupted
    \/ \E rec \in retry[t] : rec.event = e
    \/ \E w \in Worker : Holding(w) /\ EventOf(w) = e
    \/ \E i \in o..Len(log[t]) : log[t][i].event = e

CoveredBefore(t, o) == \A i \in 1..(o - 1) : Covered(log[t][i].event, t, o)

\* Every offset that is committed, and every offset a worker has come to, is
\* one before which nothing is lost; a worker about to commit has succeeded.
OffsetsCovered ==
    /\ \A t \in Topic : CoveredBefore(t, committed[t])
    /\ \A w \in Worker :
         /\ work[w].pc \notin {"down", "join"}
              => CoveredBefore(TopicOf(w), work[w].offset)
         /\ At(w, "commit") => done[EventOf(w)] > 0

OffsetInv == ClaimInv /\ OneHome /\ ClaimsAnswered /\ OffsetsCovered

\* Nothing moves from one topic to another (broker.go:124-131).
LEMMA PublishedStays ==
    Placed /\ [Next]_vars
    => \A t \in Topic, e \in Event : Published(e, t)' => Published(e, t)
<1> DEFINE Same == \A t \in Topic, e \in Event : Published(e, t)' => Published(e, t)
<1> SUFFICES ASSUME Placed, [Next]_vars PROVE Same
  OBVIOUS
<1>1. TypeOK
  BY DEF Placed
<1>3. CASE log' = log /\ retry' = retry
  BY <1>3 DEF Published
<1>4. ASSUME NEW w \in Worker, EnqueueRetry(w) PROVE Same
  <2>1. /\ AtMessage(w) /\ TopicOf(w) \in Topic /\ PlacedAt(w) /\ log' = log
        /\ retry' = [retry EXCEPT ![TopicOf(w)] = @ \cup
             {[event |-> EventOf(w), attempt |-> Record(w).attempt + 1]}]
    BY <1>4, MessageTypes DEF EnqueueRetry, At, AtMessage, Placed, Positions
  <2>2. Published(EventOf(w), TopicOf(w))
    BY <2>1 DEF PlacedAt, Published, EventOf, Record
  <2>3. ASSUME NEW t \in Topic, NEW e \in Event, NEW rec \in retry'[t], rec.event = e
        PROVE  Published(e, t)
    <3>1. CASE rec \in retry[t]
      BY <2>3, <3>1 DEF Published
    <3>2. CASE rec \notin retry[t]
      <4>1. t = TopicOf(w)
        BY <1>1, <2>1, <2>3, <3>2 DEF TypeOK
      <4>2. rec = [event |-> EventOf(w), attempt |-> Record(w).attempt + 1]
        BY <1>1, <2>1, <2>3, <3>2, <4>1 DEF TypeOK
      <4>3. e = EventOf(w)
        BY <2>3, <4>2
      <4> QED BY <2>2, <4>1, <4>3
    <3> QED BY <3>1, <3>2
  <2> QED BY <2>1, <2>3 DEF Published
<1>5. ASSUME NEW u \in Topic, RunRetryQueue(u) PROVE Same
  <2>1. PICK rec \in retry[u] : /\ retry' = [retry EXCEPT ![u] = @ \ {rec}]
                                /\ log' = [log EXCEPT ![u] = Append(@, rec)]
    BY <1>5 DEF RunRetryQueue
  <2>2. \A t \in Topic : retry'[t] \subseteq retry[t]
    BY <1>1, <2>1 DEF TypeOK
  <2>3. ASSUME NEW t \in Topic, NEW i \in 1..Len(log'[t])
        PROVE  Published(log'[t][i].event, t)
    <3>1. CASE t # u
      BY <1>1, <2>1, <3>1 DEF TypeOK, Published
    <3>2. CASE t = u
      <4>1. log[u] \in Seq([event : Event, attempt : 1..MaxAttempts]) /\ Len(log[u]) \in Nat
        BY <1>1, LenProperties DEF TypeOK
      <4>2. rec \in [event : Event, attempt : 1..MaxAttempts]
        BY <1>1, MaxAssumption DEF TypeOK
      <4>3. log'[u] = Append(log[u], rec)
        BY <1>1, <2>1 DEF TypeOK
      <4>4. i \in 1..(Len(log[u]) + 1)
        BY <2>3, <3>2, <4>1, <4>2, <4>3, AppendProperties
      <4>5. CASE i \in 1..Len(log[u])
        <5>1. log'[u][i] = log[u][i]
          BY <4>1, <4>2, <4>3, <4>5, AppendProperties
        <5> QED BY <3>2, <4>5, <5>1 DEF Published
      <4>6. CASE i = Len(log[u]) + 1
        <5>1. log'[u][i] = rec
          BY <4>1, <4>2, <4>3, <4>6, AppendProperties
        <5> QED BY <3>2, <5>1 DEF Published
      <4> QED BY <4>1, <4>4, <4>5, <4>6
    <3> QED BY <3>1, <3>2
  <2> QED BY <2>2, <2>3 DEF Published
<1>6. ASSUME NEW w \in Worker, Step(w) \/ Stop(w) \/ Rebalance(w), ~EnqueueRetry(w)
      PROVE  log' = log /\ retry' = retry
  BY <1>6 DEF Step, LoopStep, Subscribe, Join, Fetch, Claim, Handle, HandlerReturns,
     ReleaseClaim, DeadLetter, CommitMessage, Rejoin, Stop, Rebalance, kafka
<1>7. CASE Next
  BY <1>3, <1>4, <1>5, <1>6, <1>7 DEF Next
<1>8. CASE UNCHANGED vars
  BY <1>3, <1>8 DEF vars, kafka
<1> QED BY <1>7, <1>8

\* So an event stays at home.
LEMMA HomeNext == Placed /\ OneHome /\ [Next]_vars => OneHome'
BY PublishedStays DEF OneHome

\* Successes, dead letters and interruptions are not taken back.
LEMMA OutcomesStay ==
    Placed /\ [Next]_vars
    => /\ \A e \in Event : HasOutcome(e) => HasOutcome(e)'
       /\ interrupted \subseteq interrupted'
<1> SUFFICES ASSUME Placed, [Next]_vars
             PROVE  /\ \A e \in Event : done[e] > 0 => done'[e] > 0
                    /\ dlq \subseteq dlq' /\ interrupted \subseteq interrupted'
  BY DEF HasOutcome
<1>1. TypeOK
  BY DEF Placed
<1>2. ASSUME NEW w \in Worker, Handle(w)
      PROVE  \A e \in Event : done[e] > 0 => done'[e] > 0
  <2>1. EventOf(w) \in Event /\ done[EventOf(w)] \in Nat
    BY <1>1, <1>2, MessageTypes DEF Handle, At, AtMessage, TypeOK
  <2>2. \/ done' = done
        \/ done' = [done EXCEPT ![EventOf(w)] = done[EventOf(w)] + 1]
    <3>1. PICK o \in Outcomes[EventOf(w)] : HandlerReturns(w, o)
      BY <1>2 DEF Handle
    <3>2. CASE o = "ok"
      BY <3>1, <3>2 DEF HandlerReturns
    <3>3. CASE o # "ok"
      BY <1>1, <3>1, <3>3 DEF HandlerReturns, TypeOK
    <3> QED BY <3>2, <3>3
  <2> QED BY <1>1, <2>1, <2>2 DEF TypeOK
<1>3. ASSUME NEW w \in Worker, Step(w) \/ Stop(w) \/ Rebalance(w), ~Handle(w)
      PROVE  done' = done
  BY <1>3 DEF Step, LoopStep, Subscribe, Join, Fetch, Claim, ReleaseClaim, EnqueueRetry,
     DeadLetter, CommitMessage, Rejoin, Stop, Rebalance
<1>4. ASSUME NEW w \in Worker, Step(w) \/ Stop(w) \/ Rebalance(w)
      PROVE  dlq \subseteq dlq' /\ interrupted \subseteq interrupted'
  BY <1>4 DEF Step, LoopStep, Subscribe, Join, Fetch, Claim, Handle, HandlerReturns,
     ReleaseClaim, EnqueueRetry, DeadLetter, CommitMessage, Rejoin, Stop, Rebalance, kafka
<1>5. ASSUME NEW t \in Topic, RunRetryQueue(t)
      PROVE  done' = done /\ dlq' = dlq /\ interrupted' = interrupted
  BY <1>5 DEF RunRetryQueue
<1>6. CASE UNCHANGED vars
  BY <1>6 DEF vars, kafka
<1>7. CASE Next
  BY <1>2, <1>3, <1>4, <1>5, <1>7 DEF Next
<1> QED BY <1>6, <1>7

\* A worker keeps its message, or lets go of it with an outcome, a retry copy or
\* an interruption.
LEMMA HolderMoves ==
    ASSUME Placed, [Next]_vars, NEW w \in Worker, NEW e \in Event,
           Holding(w), EventOf(w) = e
    PROVE  \/ Holding(w)' /\ EventOf(w)' = e
           \/ HasOutcome(e)' \/ e \in interrupted'
           \/ \E rec \in retry'[TopicOf(w)] : rec.event = e
<1>1. Grown /\ TypeOK /\ AtMessage(w)
  BY LogGrows DEF Placed, Holding, AtMessage
<1>2. TopicOf(w) \in Topic
  BY <1>1, MessageTypes
<1>3. CASE work'[w] = work[w]
  BY <1>1, <1>3, OthersKeep DEF Holding
<1>4. CASE Handle(w)
  <2>1. PICK o \in Outcomes[EventOf(w)] : HandlerReturns(w, o)
    BY <1>4 DEF Handle
  <2>2. /\ work'[w].nth = work[w].nth /\ work'[w].offset = work[w].offset
        /\ work'[w].pc = IF o = "ok" THEN "commit" ELSE "failed"
    BY <1>1, <2>1 DEF HandlerReturns, TypeOK, WorkState
  <2>3. CASE o = "ok"
    BY <1>1, <1>2, <2>1, <2>3 DEF HandlerReturns, HasOutcome, TypeOK
  <2>4. CASE o # "ok"
    BY <1>1, <2>2, <2>4, MessageStays DEF Holding
  <2> QED BY <2>3, <2>4
<1>5. CASE ReleaseClaim(w)
  <2>1. /\ work'[w].nth = work[w].nth /\ work'[w].offset = work[w].offset
        /\ work'[w].pc \in {"enqueue", "deadLetter"}
    BY <1>1, <1>5 DEF ReleaseClaim, Goto, TypeOK, WorkState
  <2> QED BY <1>1, <2>1, MessageStays DEF Holding
<1>6. CASE EnqueueRetry(w)
  <2>1. [event |-> EventOf(w), attempt |-> Record(w).attempt + 1] \in retry'[TopicOf(w)]
    BY <1>1, <1>2, <1>6 DEF EnqueueRetry, TypeOK
  <2> QED BY <2>1
<1>7. CASE DeadLetter(w)
  BY <1>7 DEF DeadLetter, HasOutcome
<1>8. CASE Stop(w)
  BY <1>8 DEF Stop
<1>9. CASE \E v \in Worker : v # w /\ (Step(v) \/ Stop(v) \/ Rebalance(v))
  BY <1>3, <1>9, OneMoves
<1>10. CASE UNCHANGED vars \/ \E t \in Topic : RunRetryQueue(t)
  BY <1>3, <1>10 DEF vars, kafka, RunRetryQueue
<1>11. ~(Subscribe(w) \/ Join(w) \/ Fetch(w) \/ Claim(w) \/ CommitMessage(w)
         \/ Rejoin(w) \/ Rebalance(w))
  BY DEF Holding, Subscribe, Join, Fetch, Claim, CommitMessage, Rejoin, Rebalance, At
<1> QED BY <1>4, <1>5, <1>6, <1>7, <1>8, <1>9, <1>10, <1>11 DEF Next, Step, LoopStep

\* What is covered stays covered: a retry copy becomes a record behind every
\* offset there is.
LEMMA CoveredStays ==
    ASSUME Placed, OneHome, [Next]_vars, NEW t \in Topic, NEW e \in Event,
           Published(e, t), NEW o \in Nat \ {0}, o <= Len(log[t]) + 1, Covered(e, t, o)
    PROVE  Covered(e, t, o)'
<1>1. Grown /\ TypeOK
  BY LogGrows DEF Placed
<1>2. /\ HasOutcome(e) => HasOutcome(e)'
      /\ e \in interrupted => e \in interrupted'
  BY OutcomesStay
<1>3. CASE HasOutcome(e) \/ e \in interrupted
  BY <1>2, <1>3 DEF Covered
<1>4. ASSUME NEW rec \in retry[t], rec.event = e PROVE Covered(e, t, o)'
  <2>1. CASE rec \in retry'[t]
    BY <1>4, <2>1 DEF Covered
  <2>2. ASSUME NEW u \in Topic, RunRetryQueue(u), rec \notin retry'[t]
        PROVE  Covered(e, t, o)'
    <3>1. PICK r \in retry[u] : /\ retry' = [retry EXCEPT ![u] = @ \ {r}]
                                /\ log' = [log EXCEPT ![u] = Append(@, r)]
      BY <2>2 DEF RunRetryQueue
    <3>2. u = t
      BY <1>1, <1>4, <2>2, <3>1 DEF TypeOK
    <3>3. r = rec
      BY <1>1, <1>4, <2>2, <3>1, <3>2 DEF TypeOK
    <3>4. log[t] \in Seq([event : Event, attempt : 1..MaxAttempts]) /\ Len(log[t]) \in Nat
      BY <1>1, LenProperties DEF TypeOK
    <3>5. rec \in [event : Event, attempt : 1..MaxAttempts]
      BY <1>1, <1>4, MaxAssumption DEF TypeOK
    <3>6. log'[t] = Append(log[t], rec)
      BY <1>1, <3>1, <3>2, <3>3 DEF TypeOK
    <3>7. Len(log'[t]) = Len(log[t]) + 1 /\ log'[t][Len(log[t]) + 1] = rec
      BY <3>4, <3>5, <3>6, AppendProperties
    <3>8. Len(log[t]) + 1 \in o..Len(log'[t])
      BY <3>4, <3>7
    <3> QED BY <1>4, <3>7, <3>8 DEF Covered
  <2>3. ASSUME NEW w \in Worker, Step(w) \/ Stop(w) \/ Rebalance(w)
        PROVE  retry[t] \subseteq retry'[t]
    BY <1>1, <2>3 DEF Step, LoopStep, Subscribe, Join, Fetch, Claim, Handle, HandlerReturns,
       ReleaseClaim, EnqueueRetry, DeadLetter, CommitMessage, Rejoin, Stop, Rebalance,
       kafka, TypeOK
  <2>4. CASE UNCHANGED vars
    BY <2>1, <2>4 DEF vars, kafka
  <2> QED BY <1>4, <2>1, <2>2, <2>3, <2>4 DEF Next
<1>5. ASSUME NEW w \in Worker, Holding(w), EventOf(w) = e PROVE Covered(e, t, o)'
  <2>1. AtMessage(w) /\ TopicOf(w) \in Topic /\ PlacedAt(w)
    BY <1>5, MessageTypes DEF Holding, AtMessage, Placed, Positions
  <2>2. Published(e, TopicOf(w))
    BY <1>5, <2>1 DEF PlacedAt, Published, EventOf, Record
  <2>3. TopicOf(w) = t
    BY <2>1, <2>2 DEF OneHome
  <2>4. \/ Holding(w)' /\ EventOf(w)' = e
        \/ HasOutcome(e)' \/ e \in interrupted'
        \/ \E rec \in retry'[t] : rec.event = e
    BY <1>5, <2>3, HolderMoves
  <2> QED BY <2>4 DEF Covered
<1>6. ASSUME NEW i \in o..Len(log[t]), log[t][i].event = e PROVE Covered(e, t, o)'
  <2>1. Len(log[t]) \in Nat /\ Len(log'[t]) \in Nat
    BY <1>1, PlacedNext, LenProperties DEF TypeOK, Placed
  <2>2. i \in 1..Len(log[t]) /\ i \in o..Len(log'[t])
    BY <1>1, <1>6, <2>1 DEF Grown
  <2>3. log'[t][i].event = e
    BY <1>1, <1>6, <2>2 DEF Grown
  <2> QED BY <2>2, <2>3 DEF Covered
<1> QED BY <1>3, <1>4, <1>5, <1>6 DEF Covered

\* So does what lies before an offset.
LEMMA CoveredBeforeStays ==
    ASSUME Placed, OneHome, [Next]_vars, NEW t \in Topic, NEW o \in Nat \ {0},
           o <= Len(log[t]) + 1, CoveredBefore(t, o)
    PROVE  CoveredBefore(t, o)'
<1> SUFFICES ASSUME NEW i \in 1..(o - 1) PROVE Covered(log[t][i].event, t, o)'
  BY DEF CoveredBefore
<1>1. log[t] \in Seq([event : Event, attempt : 1..MaxAttempts]) /\ Len(log[t]) \in Nat
  BY LenProperties DEF Placed, TypeOK
<1>2. i \in 1..Len(log[t])
  BY <1>1
<1>3. PICK e \in Event : e = log[t][i].event
  <2>1. log[t][i] \in [event : Event, attempt : 1..MaxAttempts]
    BY <1>1, <1>2, ElementOfSeq
  <2> QED BY <2>1
<1>4. Published(e, t) /\ Covered(e, t, o)
  BY <1>2, <1>3 DEF Published, CoveredBefore
<1>5. Covered(e, t, o)'
  BY <1>4, CoveredStays
<1>6. log'[t][i].event = e
  BY <1>2, <1>3, LogGrows DEF Grown
<1> QED BY <1>5, <1>6 DEF Covered, HasOutcome

\* Nothing is lost before the next offset when nothing is lost before this one
\* and the message between them has an outcome or is still held.
LEMMA NextOffset ==
    ASSUME Placed, NEW w \in Worker, AtMessage(w),
           CoveredBefore(TopicOf(w), work[w].offset),
           \/ HasOutcome(EventOf(w)) \/ EventOf(w) \in interrupted
           \/ \E v \in Worker : Holding(v) /\ EventOf(v) = EventOf(w)
    PROVE  /\ CoveredBefore(TopicOf(w), work[w].offset + 1)
           /\ work[w].offset + 1 \in Nat \ {0}
           /\ work[w].offset + 1 <= Len(log[TopicOf(w)]) + 1
<1> DEFINE t == TopicOf(w)
           o == work[w].offset
<1>1. o \in 1..Len(log[t]) /\ Len(log[t]) \in Nat
  BY MessageTypes DEF Placed, Positions, PlacedAt
<1>2. ASSUME NEW i \in 1..o PROVE Covered(log[t][i].event, t, o + 1)
  <2>1. CASE log[t][i].event = EventOf(w)
    BY <2>1 DEF Covered
  <2>2. CASE log[t][i].event # EventOf(w)
    <3>1. i \in 1..(o - 1)
      BY <1>1, <1>2, <2>2 DEF EventOf, Record
    <3>2. Covered(log[t][i].event, t, o)
      BY <3>1 DEF CoveredBefore
    <3>3. \A j \in o..Len(log[t]) : log[t][j].event = log[t][i].event
                                     => j \in (o + 1)..Len(log[t])
      BY <1>1, <2>2 DEF EventOf, Record
    <3> QED BY <3>2, <3>3 DEF Covered
  <2> QED BY <2>1, <2>2
<1>3. (o + 1) - 1 = o
  BY <1>1
<1>4. CoveredBefore(t, o + 1)
  BY <1>2, <1>3 DEF CoveredBefore
<1> QED BY <1>1, <1>4

\* Nothing has been committed, claimed or fetched at first.
LEMMA OffsetInit == Init => OneHome /\ ClaimsAnswered /\ OffsetsCovered
<1> SUFFICES ASSUME Init PROVE OneHome /\ ClaimsAnswered /\ OffsetsCovered
  OBVIOUS
<1>1. PICK written \in Commands :
        log = [t \in Topic |-> [i \in 1..Len(written[t]) |->
                                  [event |-> written[t][i], attempt |-> 1]]]
  BY DEF Init
<1>2. \A t \in Topic : /\ Len(log[t]) = Len(written[t])
                       /\ \A i \in 1..Len(log[t]) : log[t][i].event = written[t][i]
  <2> SUFFICES ASSUME NEW t \in Topic
               PROVE  /\ Len(log[t]) = Len(written[t])
                      /\ \A i \in 1..Len(log[t]) : log[t][i].event = written[t][i]
    OBVIOUS
  <2>1. Len(written[t]) \in Nat
    BY CommandsAssumption, LenProperties
  <2>2. log[t] = [i \in 1..Len(written[t]) |-> [event |-> written[t][i], attempt |-> 1]]
    BY <1>1
  <2>3. Len(log[t]) = Len(written[t])
    BY <2>1, <2>2
  <2> QED BY <2>2, <2>3
<1>3. OneHome
  BY <1>2, OneTopicAssumption DEF OneHome, Published, Init
<1>4. OffsetsCovered
  BY DEF Init, OffsetsCovered, CoveredBefore, Down, At
<1> QED BY <1>3, <1>4 DEF ClaimsAnswered, Init

\* A claim is made by a worker that holds its message, and given up with it
\* (broker.go:99-122).
LEMMA AnsweredNext == OffsetInv /\ [Next]_vars => ClaimsAnswered'
<1> SUFFICES ASSUME OffsetInv, [Next]_vars, NEW e \in claims'
             PROVE  \/ HasOutcome(e)' \/ e \in interrupted'
                    \/ \E w \in Worker : /\ work'[w].pc \in {"handle", "failed", "deadLetter"}
                                         /\ EventOf(w)' = e
  BY DEF ClaimsAnswered, HasOutcome
<1>1. Placed /\ Grown /\ TypeOK /\ ClaimsAnswered
  BY LogGrows DEF OffsetInv, ClaimInv, Placed
<1>2. e \in Event
  BY <1>1, PlacedNext DEF Placed, TypeOK
<1>3. CASE e \notin claims
  <2>1. PICK w \in Worker : Claim(w) /\ e = EventOf(w) /\ EventOf(w) \notin claims
    <3>1. ASSUME NEW w \in Worker, Claim(w) PROVE e = EventOf(w) /\ EventOf(w) \notin claims
      BY <1>3, <3>1 DEF Claim
    <3>2. ASSUME NEW w \in Worker, Step(w) \/ Stop(w) \/ Rebalance(w), ~Claim(w)
          PROVE  claims' \subseteq claims
      BY <3>2 DEF Step, LoopStep, Subscribe, Join, Fetch, Handle, HandlerReturns,
         ReleaseClaim, EnqueueRetry, DeadLetter, CommitMessage, Rejoin, Stop, Rebalance
    <3>3. CASE UNCHANGED vars \/ \E t \in Topic : RunRetryQueue(t)
      BY <1>3, <3>3 DEF vars, RunRetryQueue
    <3> QED BY <1>3, <3>1, <3>2, <3>3 DEF Next, Step, LoopStep
  <2>2. /\ work'[w].nth = work[w].nth /\ work'[w].offset = work[w].offset
        /\ work'[w].pc \in {"handle", "deadLetter"} /\ AtMessage(w)
    BY <1>1, <2>1 DEF Claim, Goto, At, AtMessage, TypeOK, WorkState
  <2> QED BY <1>1, <2>1, <2>2, MessageStays
<1>4. CASE e \in claims
  <2>1. CASE HasOutcome(e) \/ e \in interrupted
    BY <1>1, <1>2, <2>1, OutcomesStay
  <2>2. ASSUME NEW w \in Worker, EventOf(w) = e,
               work[w].pc \in {"handle", "failed", "deadLetter"}
        PROVE  \/ HasOutcome(e)' \/ e \in interrupted'
               \/ /\ work'[w].pc \in {"handle", "failed", "deadLetter"}
                  /\ EventOf(w)' = e
    <3>1. AtMessage(w) /\ Holding(w)
      BY <2>2 DEF AtMessage, Holding
    <3>2. CASE work'[w] = work[w]
      BY <1>1, <2>2, <3>1, <3>2, OthersKeep
    <3>3. CASE Handle(w)
      <4>1. PICK o \in Outcomes[EventOf(w)] : HandlerReturns(w, o)
        BY <3>3 DEF Handle
      <4>2. /\ work'[w].nth = work[w].nth /\ work'[w].offset = work[w].offset
            /\ work'[w].pc = IF o = "ok" THEN "commit" ELSE "failed"
        BY <1>1, <4>1 DEF HandlerReturns, TypeOK, WorkState
      <4>3. CASE o = "ok"
        BY <1>1, <1>2, <2>2, <4>1, <4>3 DEF HandlerReturns, HasOutcome, TypeOK
      <4>4. CASE o # "ok"
        BY <1>1, <2>2, <3>1, <4>2, <4>4, MessageStays
      <4> QED BY <4>3, <4>4
    <3>4. CASE ReleaseClaim(w)
      <4>1. e \in interrupted'
        BY <2>2, <3>4 DEF ReleaseClaim
      <4> QED BY <4>1
    <3>5. CASE DeadLetter(w)
      BY <2>2, <3>5 DEF DeadLetter, HasOutcome
    <3>6. CASE Stop(w)
      BY <2>2, <3>1, <3>6 DEF Stop
    <3>7. CASE \E v \in Worker : v # w /\ (Step(v) \/ Stop(v) \/ Rebalance(v))
      BY <1>1, <3>2, <3>7, OneMoves
    <3>8. CASE UNCHANGED vars \/ \E t \in Topic : RunRetryQueue(t)
      BY <3>2, <3>8 DEF vars, kafka, RunRetryQueue
    <3>9. ~(Subscribe(w) \/ Join(w) \/ Fetch(w) \/ Claim(w) \/ EnqueueRetry(w)
            \/ CommitMessage(w) \/ Rejoin(w) \/ Rebalance(w))
      BY <2>2 DEF Subscribe, Join, Fetch, Claim, EnqueueRetry, CommitMessage, Rejoin,
                  Rebalance, At
    <3> QED BY <3>3, <3>4, <3>5, <3>6, <3>7, <3>8, <3>9 DEF Next, Step, LoopStep
  <2> QED BY <1>1, <1>4, <2>1, <2>2 DEF ClaimsAnswered
<1> QED BY <1>3, <1>4

\* Where a worker goes, nothing before it is lost: it stays, starts at the
\* committed offset, or passes a message that has been dealt with.
LEMMA WorkerOffset ==
    ASSUME OffsetInv, [Next]_vars, NEW w \in Worker,
           work'[w].pc \notin {"down", "join"}
    PROVE  /\ TopicOf(w)' = TopicOf(w) /\ work'[w].offset \in Nat \ {0}
           /\ work'[w].offset <= Len(log[TopicOf(w)]) + 1
           /\ \A o \in Nat : o = work'[w].offset => CoveredBefore(TopicOf(w), o)
<1>1. Placed /\ Grown /\ TypeOK /\ ClaimsAnswered /\ OffsetsCovered /\ PlacedAt(w)
  BY LogGrows DEF OffsetInv, ClaimInv, Placed, Positions
<1>2. TopicOf(w) \in Topic /\ work[w].offset \in Nat
  BY <1>1, MessageTypes DEF TypeOK, WorkState
<1>3. CASE /\ work'[w].nth = work[w].nth /\ work'[w].offset = work[w].offset
           /\ work[w].pc \notin {"down", "join"}
  BY <1>1, <1>2, <1>3, MessageStays DEF PlacedAt, OffsetsCovered
<1>4. CASE work'[w] = work[w]
  BY <1>3, <1>4
<1>5. ASSUME AtMessage(w), Advance(w),
             \/ HasOutcome(EventOf(w)) \/ EventOf(w) \in interrupted
             \/ \E v \in Worker : Holding(v) /\ EventOf(v) = EventOf(w)
      PROVE  /\ TopicOf(w)' = TopicOf(w) /\ work'[w].offset \in Nat \ {0}
             /\ work'[w].offset <= Len(log[TopicOf(w)]) + 1
             /\ \A o \in Nat : o = work'[w].offset => CoveredBefore(TopicOf(w), o)
  <2>1. work'[w].nth = work[w].nth /\ work'[w].offset = work[w].offset + 1
    BY <1>1, <1>5 DEF Advance, TypeOK, WorkState
  <2>2. CoveredBefore(TopicOf(w), work[w].offset)
    BY <1>1, <1>5 DEF OffsetsCovered, AtMessage
  <2> QED BY <1>1, <1>5, <2>1, <2>2, NextOffset, MessageStays
<1>6. CASE Join(w) \/ Rebalance(w)
  <2>1. work'[w].nth = work[w].nth /\ work'[w].offset = committed[TopicOf(w)]
    BY <1>1, <1>6 DEF Join, Rebalance, TypeOK, WorkState
  <2> QED BY <1>1, <1>2, <2>1, MessageStays DEF OffsetsCovered, Placed, Positions, TypeOK
<1>7. CASE Fetch(w) \/ Handle(w) \/ ReleaseClaim(w)
  <2>1. /\ work'[w].nth = work[w].nth /\ work'[w].offset = work[w].offset
        /\ work[w].pc \notin {"down", "join"}
    <3>1. CASE Fetch(w)
      BY <1>1, <3>1 DEF Fetch, Goto, At, TypeOK, WorkState
    <3>2. CASE ReleaseClaim(w)
      BY <1>1, <3>2 DEF ReleaseClaim, Goto, At, TypeOK, WorkState
    <3>3. CASE Handle(w)
      BY <1>1, <3>3 DEF Handle, HandlerReturns, At, TypeOK, WorkState
    <3> QED BY <1>7, <3>1, <3>2, <3>3
  <2> QED BY <1>3, <2>1
<1>8. CASE Claim(w)
  <2>1. CASE EventOf(w) \in claims
    <3>1. Advance(w) /\ AtMessage(w)
      BY <1>8, <2>1 DEF Claim, At, AtMessage
    <3> QED BY <1>1, <1>5, <2>1, <3>1 DEF ClaimsAnswered, Holding
  <2>2. CASE EventOf(w) \notin claims
    <3>1. /\ work'[w].nth = work[w].nth /\ work'[w].offset = work[w].offset
          /\ work[w].pc \notin {"down", "join"}
      BY <1>1, <1>8, <2>2 DEF Claim, Goto, At, TypeOK, WorkState
    <3> QED BY <1>3, <3>1
  <2> QED BY <2>1, <2>2
<1>9. CASE EnqueueRetry(w)
  BY <1>5, <1>9 DEF EnqueueRetry, At, AtMessage, Holding
<1>10. CASE CommitMessage(w)
  <2>1. HasOutcome(EventOf(w)) /\ AtMessage(w) /\ Advance(w)
    BY <1>1, <1>10 DEF CommitMessage, OffsetsCovered, HasOutcome, At, AtMessage
  <2> QED BY <1>5, <2>1
<1>11. CASE Subscribe(w) \/ Rejoin(w)
  BY <1>1, <1>11 DEF Subscribe, Rejoin, Goto, TypeOK, WorkState
<1>12. CASE DeadLetter(w)
  <2>1. work' = [work EXCEPT ![w] =
                   IF work[w].nth < Len(Subscribes[w])
                   THEN [Down EXCEPT !.pc = "join", !.nth = work[w].nth + 1]
                   ELSE Down]
    BY <1>12 DEF DeadLetter, ReturnNil
  <2>2. work'[w].pc \in {"down", "join"}
    BY <1>1, <2>1 DEF Down, TypeOK
  <2> QED BY <2>2
<1>13. CASE Stop(w)
  BY <1>1, <1>13 DEF Stop, ReturnError, Down, TypeOK
<1>14. CASE \E v \in Worker : v # w /\ (Step(v) \/ Stop(v) \/ Rebalance(v))
  BY <1>1, <1>4, <1>14, OneMoves
<1>15. CASE UNCHANGED vars \/ \E t \in Topic : RunRetryQueue(t)
  BY <1>4, <1>15 DEF vars, kafka, RunRetryQueue
<1> QED BY <1>6, <1>7, <1>8, <1>9, <1>10, <1>11, <1>12, <1>13, <1>14, <1>15
        DEF Next, Step, LoopStep

\* A worker about to commit has just succeeded (broker.go:118-138).
LEMMA CommitSucceeded ==
    ASSUME OffsetInv, [Next]_vars, NEW w \in Worker, At(w, "commit")'
    PROVE  (done[EventOf(w)] > 0)'
<1>1. Placed /\ Grown /\ TypeOK /\ OffsetsCovered
  BY LogGrows DEF OffsetInv, ClaimInv, Placed
<1>2. CASE work'[w] = work[w]
  <2>1. At(w, "commit") /\ AtMessage(w)
    BY <1>2 DEF At, AtMessage
  <2>2. EventOf(w)' = EventOf(w) /\ HasOutcome(EventOf(w))
    BY <1>1, <1>2, <2>1, OthersKeep DEF OffsetsCovered, HasOutcome
  <2>3. EventOf(w) \in Event /\ done[EventOf(w)] > 0
    BY <1>1, <2>1, MessageTypes DEF OffsetsCovered
  <2>4. done'[EventOf(w)] >= done[EventOf(w)]
    <3>1. ASSUME NEW v \in Worker, Handle(v)
          PROVE  done'[EventOf(w)] >= done[EventOf(w)]
      <4>1. PICK o \in Outcomes[EventOf(v)] : HandlerReturns(v, o)
        BY <3>1 DEF Handle
      <4>2. EventOf(v) \in Event
        BY <1>1, <3>1, MessageTypes DEF Handle, At, AtMessage
      <4>3. done'[EventOf(w)] \in {done[EventOf(w)], done[EventOf(w)] + 1}
        BY <1>1, <2>3, <4>1, <4>2 DEF HandlerReturns, TypeOK
      <4>4. done[EventOf(w)] \in Nat
        BY <1>1, <2>3 DEF TypeOK
      <4> QED BY <4>3, <4>4
    <3>2. ASSUME NEW v \in Worker, Step(v) \/ Stop(v) \/ Rebalance(v), ~Handle(v)
          PROVE  done' = done
      BY <3>2 DEF Step, LoopStep, Subscribe, Join, Fetch, Claim, ReleaseClaim,
         EnqueueRetry, DeadLetter, CommitMessage, Rejoin, Stop, Rebalance
    <3>3. ASSUME UNCHANGED vars \/ \E t \in Topic : RunRetryQueue(t)
          PROVE  done' = done
      BY <3>3 DEF vars, RunRetryQueue
    <3>4. done[EventOf(w)] \in Nat
      BY <1>1, <2>3 DEF TypeOK
    <3> QED BY <3>1, <3>2, <3>3, <3>4 DEF Next
  <2>5. done[EventOf(w)] \in Nat /\ done'[EventOf(w)] \in Nat
    BY <1>1, <2>3, PlacedNext DEF TypeOK, Placed
  <2> QED BY <2>2, <2>3, <2>4, <2>5
<1>3. CASE Handle(w)
  <2>1. PICK o \in Outcomes[EventOf(w)] : HandlerReturns(w, o)
    BY <1>3 DEF Handle
  <2>2. /\ work'[w].nth = work[w].nth /\ work'[w].offset = work[w].offset
        /\ work'[w].pc = IF o = "ok" THEN "commit" ELSE "failed"
    BY <1>1, <2>1 DEF HandlerReturns, TypeOK, WorkState
  <2>3. o = "ok" /\ AtMessage(w) /\ EventOf(w) \in Event
    BY <1>1, <1>3, <2>2, MessageTypes DEF At, Handle, AtMessage
  <2>4. EventOf(w)' = EventOf(w)
    BY <1>1, <2>2, <2>3, MessageStays
  <2> QED BY <1>1, <2>1, <2>3, <2>4 DEF HandlerReturns, TypeOK
<1>4. CASE Subscribe(w) \/ Join(w) \/ Fetch(w) \/ Rejoin(w) \/ Rebalance(w)
  BY <1>1, <1>4 DEF Subscribe, Join, Fetch, Rejoin, Rebalance, Goto, At, TypeOK, WorkState
<1>5. CASE Claim(w) \/ ReleaseClaim(w) \/ EnqueueRetry(w) \/ CommitMessage(w)
  BY <1>1, <1>5 DEF Claim, ReleaseClaim, EnqueueRetry, CommitMessage, Goto, Advance, At,
                    TypeOK, WorkState
<1>6. CASE DeadLetter(w)
  <2>1. work' = [work EXCEPT ![w] =
                   IF work[w].nth < Len(Subscribes[w])
                   THEN [Down EXCEPT !.pc = "join", !.nth = work[w].nth + 1]
                   ELSE Down]
    BY <1>6 DEF DeadLetter, ReturnNil
  <2>2. work'[w].pc \in {"down", "join"}
    BY <1>1, <2>1 DEF Down, TypeOK
  <2> QED BY <2>2 DEF At
<1>7. CASE Stop(w)
  BY <1>1, <1>7 DEF Stop, ReturnError, Down, At, TypeOK
<1>8. CASE \E v \in Worker : v # w /\ (Step(v) \/ Stop(v) \/ Rebalance(v))
  BY <1>1, <1>2, <1>8, OneMoves
<1>9. CASE UNCHANGED vars \/ \E t \in Topic : RunRetryQueue(t)
  BY <1>2, <1>9 DEF vars, kafka, RunRetryQueue
<1> QED BY <1>3, <1>4, <1>5, <1>6, <1>7, <1>8, <1>9 DEF Next, Step, LoopStep

\* No offset moves past a message that is lost, committed or not.
LEMMA OffsetsNext == OffsetInv /\ [Next]_vars => OffsetsCovered'
<1> SUFFICES ASSUME OffsetInv, [Next]_vars PROVE OffsetsCovered'
  OBVIOUS
<1>1. /\ Placed /\ Placed' /\ TypeOK /\ TypeOK' /\ OneHome /\ ClaimsAnswered
      /\ OffsetsCovered
  BY PlacedNext DEF OffsetInv, ClaimInv, Placed
<1>2. ASSUME NEW w \in Worker, work'[w].pc \notin {"down", "join"}
      PROVE  CoveredBefore(TopicOf(w), work[w].offset)'
  <2>1. PICK o \in Nat \ {0} : o = work'[w].offset
    BY <1>2, WorkerOffset
  <2>2. PICK t \in Topic : t = TopicOf(w)
    BY <1>1, MessageTypes
  <2>3. TopicOf(w)' = t /\ o <= Len(log[t]) + 1 /\ CoveredBefore(t, o)
    BY <1>2, <2>1, <2>2, WorkerOffset
  <2>4. CoveredBefore(t, o)'
    BY <1>1, <2>3, CoveredBeforeStays
  <2> QED BY <2>1, <2>3, <2>4 DEF CoveredBefore, Covered
<1>3. ASSUME NEW t \in Topic PROVE CoveredBefore(t, committed[t])'
  <2>1. PICK o \in Nat \ {0} : o = committed'[t]
    BY <1>1 DEF TypeOK
  <2>2. CASE committed'[t] = committed[t]
    <3>1. o <= Len(log[t]) + 1 /\ CoveredBefore(t, o)
      BY <1>1, <2>1, <2>2 DEF Placed, Positions, OffsetsCovered
    <3>2. CoveredBefore(t, o)'
      BY <1>1, <3>1, CoveredBeforeStays
    <3> QED BY <2>1, <3>2 DEF CoveredBefore, Covered
  <2>3. ASSUME NEW w \in Worker, CommitMessage(w), TopicOf(w) = t
        PROVE  CoveredBefore(t, committed[t])'
    <3>1. /\ AtMessage(w) /\ HasOutcome(EventOf(w)) /\ o = work[w].offset + 1
          /\ CoveredBefore(TopicOf(w), work[w].offset)
      BY <1>1, <2>1, <2>3
      DEF CommitMessage, OffsetsCovered, HasOutcome, At, AtMessage, TypeOK
    <3>2. o <= Len(log[t]) + 1 /\ CoveredBefore(t, o)
      BY <1>1, <2>3, <3>1, NextOffset
    <3>3. CoveredBefore(t, o)'
      BY <1>1, <3>2, CoveredBeforeStays
    <3> QED BY <2>1, <3>3 DEF CoveredBefore, Covered
  <2>4. ASSUME NEW w \in Worker, CommitMessage(w), TopicOf(w) # t
        PROVE  committed'[t] = committed[t]
    BY <1>1, <2>4 DEF CommitMessage, TypeOK
  <2>5. ASSUME NEW w \in Worker, Step(w) \/ Stop(w) \/ Rebalance(w), ~CommitMessage(w)
        PROVE  committed' = committed
    BY <2>5 DEF Step, LoopStep, Subscribe, Join, Fetch, Claim, Handle, HandlerReturns,
       ReleaseClaim, EnqueueRetry, DeadLetter, Rejoin, Stop, Rebalance, kafka
  <2>6. CASE UNCHANGED vars \/ \E u \in Topic : RunRetryQueue(u)
    BY <2>2, <2>6 DEF vars, kafka, RunRetryQueue
  <2> QED BY <2>2, <2>3, <2>4, <2>5, <2>6 DEF Next
<1> QED BY <1>2, <1>3, CommitSucceeded DEF OffsetsCovered

\* The group's offset passes a command only with an outcome, a waiting copy, a
\* holder or an interruption, however commits, retries, rebalances and restarts
\* fall together (broker.go:91-140).
THEOREM OffsetsLoseNothing == Spec => []PassedOnlyWithOutcome
<1>1. Init => OffsetInv
  BY PlacedInit, ClaimInit, OffsetInit DEF OffsetInv, ClaimInv
<1>2. OffsetInv /\ [Next]_vars => OffsetInv'
  BY PlacedNext, ClaimNext, HomeNext, AnsweredNext, OffsetsNext DEF OffsetInv, ClaimInv
<1>3. OffsetInv => PassedOnlyWithOutcome
  BY DEF OffsetInv, OffsetsCovered, CoveredBefore, Covered, PassedOnlyWithOutcome,
         Passed, Waits
<1> QED BY <1>1, <1>2, <1>3, PTL DEF Spec

-----------------------------------------------------------------------------
(* Dead letters.                                                            *)

\* A permanent failure is one the handler may return; a worker on its way to the
\* dead-letter topic has a reason.
FailureIsReturned(w) ==
    work[w].pc \in {"failed", "deadLetter"} /\ work[w].failure = "permanent"
    => EventOf(w) \in Malformed \/ "permanent" \in Outcomes[EventOf(w)]

GivenUpWithReason(w) ==
    At(w, "deadLetter") => \/ EventOf(w) \in Malformed
                           \/ work[w].failure = "permanent"
                           \/ Record(w).attempt = MaxAttempts

Reasons(w) == FailureIsReturned(w) /\ GivenUpWithReason(w)

DeadLetterInv ==
    Placed /\ (\A w \in Worker : Reasons(w)) /\ DeadLetteredAfterLastAttempt

\* What was read stays in the log, so a dead letter keeps its reason.
LEMMA DeadLettersStay ==
    ASSUME Placed, Grown, DeadLetteredAfterLastAttempt, dlq' = dlq,
           \A t \in Topic : Len(log'[t]) \in Nat
    PROVE  DeadLetteredAfterLastAttempt'
<1> SUFFICES ASSUME NEW e \in dlq, e \notin Malformed, "permanent" \notin Outcomes[e]
             PROVE  \E t \in Topic : \E i \in 1..Len(log'[t]) :
                      log'[t][i] = [event |-> e, attempt |-> MaxAttempts]
  BY DEF DeadLetteredAfterLastAttempt
<1>1. PICK t \in Topic : \E i \in 1..Len(log[t]) :
                           log[t][i] = [event |-> e, attempt |-> MaxAttempts]
  BY DEF DeadLetteredAfterLastAttempt
<1>2. PICK i \in 1..Len(log[t]) : log[t][i] = [event |-> e, attempt |-> MaxAttempts]
  BY <1>1
<1>3. Len(log[t]) \in Nat
  BY LenProperties DEF Placed, TypeOK
<1>4. i \in 1..Len(log'[t]) /\ log'[t][i] = log[t][i]
  BY <1>2, <1>3 DEF Grown
<1> QED BY <1>2, <1>4

\* A worker that stays at its message keeps its reason.
LEMMA ReasonsStay ==
    ASSUME Placed, Grown, NEW w \in Worker, work'[w] = work[w], Reasons(w)
    PROVE  Reasons(w)'
<1>1. AtMessage(w) => Record(w)' = Record(w) /\ EventOf(w)' = EventOf(w)
  BY MessageStays
<1>2. work[w].pc \in {"failed", "deadLetter"} => AtMessage(w)
  BY DEF AtMessage
<1> QED BY <1>1, <1>2 DEF Reasons, FailureIsReturned, GivenUpWithReason, At

\* The handler's error, the choice behind it and the write to the dead-letter
\* topic are the steps that matter (broker.go:118-133).
LEMMA DeadLetterNext ==
    DeadLetterInv /\ [Next]_vars
    => (\A w \in Worker : Reasons(w)') /\ DeadLetteredAfterLastAttempt'
<1> SUFFICES ASSUME DeadLetterInv, [Next]_vars
             PROVE  (\A w \in Worker : Reasons(w)') /\ DeadLetteredAfterLastAttempt'
  OBVIOUS
<1>1. /\ Placed /\ Placed' /\ Grown /\ TypeOK
      /\ \A w \in Worker : Reasons(w)
      /\ DeadLetteredAfterLastAttempt
  BY LogGrows, PlacedNext DEF DeadLetterInv, Placed
<1>2. \A t \in Topic : Len(log'[t]) \in Nat
  BY <1>1, LenProperties DEF Placed, TypeOK
<1>3. dlq' = dlq => DeadLetteredAfterLastAttempt'
  BY <1>1, <1>2, DeadLettersStay
<1>4. \A v \in Worker : work'[v] = work[v] => Reasons(v)'
  BY <1>1, ReasonsStay
<1>5. ASSUME NEW w \in Worker, Step(w) \/ Stop(w) \/ Rebalance(w), Reasons(w)'
      PROVE  \A v \in Worker : Reasons(v)'
  BY <1>1, <1>4, <1>5, OneMoves
<1>6. ASSUME NEW w \in Worker, Claim(w)
      PROVE  Reasons(w)' /\ dlq' = dlq
  <2>1. CASE EventOf(w) \in claims
    <3>1. work'[w].pc = "fetch"
      BY <1>1, <1>6, <2>1 DEF Claim, Advance, TypeOK, WorkState
    <3> QED BY <1>6, <3>1 DEF Claim, kafka, Reasons, FailureIsReturned,
                             GivenUpWithReason, At
  <2>2. CASE EventOf(w) \notin claims
    <3>1. /\ AtMessage(w) /\ work'[w].nth = work[w].nth
          /\ work'[w].offset = work[w].offset
          /\ work'[w].pc = IF EventOf(w) \in Malformed THEN "deadLetter" ELSE "handle"
      BY <1>1, <1>6, <2>2 DEF Claim, Goto, TypeOK, WorkState, At, AtMessage
    <3>2. EventOf(w)' = EventOf(w)
      BY <1>1, <3>1, MessageStays
    <3> QED BY <1>6, <3>1, <3>2 DEF Claim, kafka, Reasons, FailureIsReturned,
                                    GivenUpWithReason, At
  <2> QED BY <2>1, <2>2
<1>7. ASSUME NEW w \in Worker, Handle(w)
      PROVE  Reasons(w)' /\ dlq' = dlq
  <2>1. PICK o \in Outcomes[EventOf(w)] : HandlerReturns(w, o)
    BY <1>7 DEF Handle
  <2>2. /\ AtMessage(w) /\ work'[w].nth = work[w].nth
        /\ work'[w].offset = work[w].offset
        /\ work'[w].pc \in {"commit", "failed"}
        /\ work'[w].failure = IF o = "ok" THEN "none" ELSE o
    BY <1>1, <1>7, <2>1 DEF Handle, HandlerReturns, TypeOK, WorkState, At, AtMessage
  <2>3. EventOf(w)' = EventOf(w)
    BY <1>1, <2>2, MessageStays
  <2> QED BY <2>1, <2>2, <2>3 DEF HandlerReturns, kafka, Reasons, FailureIsReturned,
                                  GivenUpWithReason, At
<1>8. ASSUME NEW w \in Worker, ReleaseClaim(w)
      PROVE  Reasons(w)' /\ dlq' = dlq
  <2>1. /\ At(w, "failed") /\ AtMessage(w) /\ work'[w].nth = work[w].nth
        /\ work'[w].offset = work[w].offset /\ work'[w].failure = work[w].failure
        /\ work'[w].pc = IF Retries(w) THEN "enqueue" ELSE "deadLetter"
    BY <1>1, <1>8 DEF ReleaseClaim, Goto, TypeOK, WorkState, At, AtMessage
  <2>2. Record(w)' = Record(w) /\ EventOf(w)' = EventOf(w)
    BY <1>1, <2>1, MessageStays
  <2>3. FailureIsReturned(w)
    BY <1>1 DEF Reasons
  <2>4. FailureIsReturned(w)'
    BY <2>1, <2>2, <2>3 DEF FailureIsReturned, At
  <2>5. Record(w).attempt \in 1..MaxAttempts
    BY <1>1, <2>1, MessageTypes
  <2>6. ~Retries(w) => work[w].failure = "permanent" \/ Record(w).attempt = MaxAttempts
    BY <2>5, MaxAssumption DEF Retries
  <2>7. GivenUpWithReason(w)'
    BY <2>1, <2>2, <2>6 DEF GivenUpWithReason, At
  <2> QED BY <1>8, <2>4, <2>7 DEF ReleaseClaim, kafka, Reasons
<1>9. ASSUME NEW w \in Worker, DeadLetter(w)
      PROVE  Reasons(w)' /\ DeadLetteredAfterLastAttempt'
  <2>1. work'[w].pc \in {"down", "join"}
    <3>1. work' = [work EXCEPT ![w] =
                     IF work[w].nth < Len(Subscribes[w])
                     THEN [Down EXCEPT !.pc = "join", !.nth = work[w].nth + 1]
                     ELSE Down]
      BY <1>9 DEF DeadLetter, ReturnNil
    <3> QED BY <1>1, <3>1 DEF Down, TypeOK
  <2>2. /\ dlq' = dlq \cup {EventOf(w)} /\ log' = log /\ At(w, "deadLetter")
        /\ AtMessage(w)
    BY <1>9 DEF DeadLetter, At, AtMessage
  <2>3. /\ EventOf(w) \in Malformed \/ "permanent" \in Outcomes[EventOf(w)]
           \/ Record(w).attempt = MaxAttempts
    BY <1>1, <2>2 DEF Reasons, FailureIsReturned, GivenUpWithReason, At
  <2>4. /\ Record(w) = [event |-> EventOf(w), attempt |-> Record(w).attempt]
        /\ TopicOf(w) \in Topic
        /\ work[w].offset \in 1..Len(log[TopicOf(w)])
    BY <1>1, <2>2, MessageTypes DEF Placed, Positions, PlacedAt
  <2>5. ASSUME Record(w).attempt = MaxAttempts
        PROVE  \E t \in Topic : \E i \in 1..Len(log[t]) :
                 log[t][i] = [event |-> EventOf(w), attempt |-> MaxAttempts]
    BY <2>4, <2>5 DEF Record
  <2>6. ASSUME NEW e \in dlq', e \notin Malformed, "permanent" \notin Outcomes[e]
        PROVE  \E t \in Topic : \E i \in 1..Len(log[t]) :
                 log[t][i] = [event |-> e, attempt |-> MaxAttempts]
    <3>1. CASE e = EventOf(w)
      BY <2>3, <2>5, <2>6, <3>1
    <3>2. CASE e \in dlq
      BY <1>1, <2>6, <3>2 DEF DeadLetteredAfterLastAttempt
    <3> QED BY <2>2, <2>6, <3>1, <3>2
  <2>7. DeadLetteredAfterLastAttempt'
    BY <2>2, <2>6 DEF DeadLetteredAfterLastAttempt
  <2> QED BY <2>1, <2>7 DEF Reasons, FailureIsReturned, GivenUpWithReason, At
<1>10. ASSUME NEW w \in Worker,
              \/ Subscribe(w) \/ Join(w) \/ Fetch(w) \/ EnqueueRetry(w)
              \/ CommitMessage(w) \/ Rejoin(w) \/ Stop(w) \/ Rebalance(w)
       PROVE  Reasons(w)' /\ dlq' = dlq
  <2>1. work'[w].pc \in {"down", "join", "fetch", "claim"}
    BY <1>1, <1>10 DEF Subscribe, Join, Fetch, EnqueueRetry, CommitMessage, Rejoin, Stop,
       Rebalance, Goto, Advance, ReturnError, Down, TypeOK, WorkState
  <2>2. dlq' = dlq
    BY <1>10 DEF Subscribe, Join, Fetch, EnqueueRetry, CommitMessage, Rejoin, Stop,
       Rebalance, kafka, ReturnError
  <2> QED BY <2>1, <2>2 DEF Reasons, FailureIsReturned, GivenUpWithReason, At
<1>11. CASE UNCHANGED vars \/ \E t \in Topic : RunRetryQueue(t)
  <2>1. work' = work /\ dlq' = dlq
    BY <1>11 DEF vars, kafka, RunRetryQueue
  <2> QED BY <1>3, <1>4, <2>1
<1>12. ASSUME NEW w \in Worker, Step(w) \/ Stop(w) \/ Rebalance(w)
       PROVE  (\A v \in Worker : Reasons(v)') /\ DeadLetteredAfterLastAttempt'
  <2>1. Reasons(w)' /\ DeadLetteredAfterLastAttempt'
    BY <1>3, <1>6, <1>7, <1>8, <1>9, <1>10, <1>12 DEF Step, LoopStep
  <2> QED BY <1>5, <1>12, <2>1
<1> QED BY <1>11, <1>12 DEF Next

\* No command is given up before its last attempt, for any number of attempts:
\* the dead-letter topic holds what cannot be decoded, what was refused for good,
\* and what failed at the copy numbered MaxAttempts (broker.go:124-133).
THEOREM NothingIsGivenUpEarly == Spec => []DeadLetteredAfterLastAttempt
<1>1. Init => DeadLetterInv
  <2>1. Init => (\A w \in Worker : Reasons(w)) /\ DeadLetteredAfterLastAttempt
    BY DEF Init, Down, Reasons, FailureIsReturned, GivenUpWithReason, At,
           DeadLetteredAfterLastAttempt
  <2> QED BY <2>1, PlacedInit DEF DeadLetterInv
<1>2. DeadLetterInv /\ [Next]_vars => DeadLetterInv'
  BY PlacedNext, DeadLetterNext DEF DeadLetterInv
<1>3. DeadLetterInv => DeadLetteredAfterLastAttempt
  BY DEF DeadLetterInv
<1> QED BY <1>1, <1>2, <1>3, PTL DEF Spec

-----------------------------------------------------------------------------
(* The handlers.                                                            *)

\* What is in a topic is answered as the handlers of the topic answer it.
Answered == \A t \in Topic, e \in Event : Published(e, t) => Answers(e, t)

\* The recovery refuses a command without a user before it does anything.
Refused(w) == FromRecovery(w) /\ Payload[EventOf(w)] = "incomplete"

\* A handler that has begun runs inside "handle", for a command it took on; the
\* recovery, and only it, goes on to report a completion, and the saga mails
\* after a success.
Running ==
    /\ run \in [Worker -> {"start", "insertCode", "success", "failed", "mail",
                           "completed"}]
    /\ \A w \in Worker : run[w] # "start" =>
         /\ At(w, "handle") /\ ~Refused(w)
         /\ run[w] = "completed" <=> FromRecovery(w)
         /\ run[w] = "mail" => Sent(EventOf(w), "success")

HandlerInv == Placed /\ Answered /\ Running

\* A handler that returns does so with an outcome RunPullConsumer expects.
LEMMA HandlerShape ==
    ASSUME HandlerInv, NEW w \in Worker, Handler(w)
    PROVE  /\ At(w, "handle")
           /\ \A v \in Worker : v # w => run'[v] = run[v]
           /\ \/ UNCHANGED loop
              \/ run'[w] = "start"
                 /\ \E o \in Outcomes[EventOf(w)] : HandlerReturns(w, o)
<1>1. /\ run \in [Worker -> {"start", "insertCode", "success", "failed", "mail",
                             "completed"}]
      /\ TopicOf(w) \in Topic
  BY MessageTypes DEF HandlerInv, Running
<1>2. At(w, "handle")
  BY DEF Handler, CannotHandle, CreateCredential, CreateCredentialFails,
         CreateVerificationCode, CreateVerificationCodeFails, DeleteCredential,
         DeleteCredentialFails, Publish, PublishFails, Publishing, Runs
<1>3. EventOf(w) \in Event /\ Answers(EventOf(w), TopicOf(w))
  <2>1. AtMessage(w) /\ EventOf(w) \in Event /\ PlacedAt(w)
    BY <1>2, MessageTypes DEF HandlerInv, Placed, Positions, At, AtMessage
  <2>2. Published(EventOf(w), TopicOf(w))
    BY <2>1 DEF PlacedAt, Published, EventOf, Record
  <2> QED BY <1>1, <2>1, <2>2 DEF HandlerInv, Answered
<1> DEFINE Shape == /\ \A v \in Worker : v # w => run'[v] = run[v]
                    /\ \/ UNCHANGED loop
                       \/ run'[w] = "start"
                          /\ \E o \in Outcomes[EventOf(w)] : HandlerReturns(w, o)
<1>4. \A step \in {"insertCode", "success", "failed", "mail", "completed"} :
        Proceed(w, step) => Shape
  BY <1>1 DEF Proceed
<1>5. \A o \in Outcomes[EventOf(w)] : Finish(w, o) => Shape
  BY <1>1 DEF Finish
<1>6. ~Refused(w) => {"ok", "transient"} \subseteq Outcomes[EventOf(w)]
  BY <1>3 DEF Refused, FromRecovery, Answers
<1>7. Refused(w) => "permanent" \in Outcomes[EventOf(w)]
  BY <1>3 DEF Refused, FromRecovery, Answers
<1>8. ~Refused(w) /\ GiveUp(w) => Shape
  BY <1>4, <1>5, <1>6 DEF GiveUp
<1>9. CASE CannotHandle(w)
  <2>1. CASE Payload[EventOf(w)] = "undecodable" /\ Finish(w, "transient")
    <3>1. ~Refused(w)
      BY <2>1 DEF Refused
    <3> QED BY <1>2, <1>5, <1>6, <2>1, <3>1
  <2>2. CASE /\ Payload[EventOf(w)] = "incomplete"
             /\ IF FromRecovery(w) THEN Finish(w, "permanent") ELSE Proceed(w, "failed")
    <3>1. CASE FromRecovery(w)
      BY <1>2, <1>5, <1>7, <2>2, <3>1 DEF Refused
    <3>2. CASE ~FromRecovery(w)
      BY <1>2, <1>4, <2>2, <3>2
    <3> QED BY <3>1, <3>2
  <2> QED BY <1>9, <2>1, <2>2 DEF CannotHandle
<1>10. CASE CreateCredential(w) \/ CreateVerificationCode(w)
            \/ CreateVerificationCodeFails(w) \/ DeleteCredential(w)
  BY <1>2, <1>4, <1>10 DEF CreateCredential, CreateVerificationCode,
                           CreateVerificationCodeFails, DeleteCredential
<1>11. CASE CreateCredentialFails(w) \/ DeleteCredentialFails(w)
  <2>1. ~Refused(w) /\ GiveUp(w)
    BY <1>11 DEF CreateCredentialFails, DeleteCredentialFails, Asks, Refused
  <2> QED BY <1>2, <1>8, <2>1
<1>12. CASE Publish(w) \/ PublishFails(w)
  <2>1. ~Refused(w)
    BY <1>12 DEF HandlerInv, Running, Publish, PublishFails, Publishing
  <2> QED BY <1>2, <1>4, <1>5, <1>6, <1>12, <2>1 DEF Publish, PublishFails
<1> QED BY <1>9, <1>10, <1>11, <1>12 DEF Handler

\* Every step of the handlers in the loop is a step of the loop, or a stutter.
LEMMA HandlersStep == HandlerInv /\ [SagaNext]_sagaVars => [Next]_vars
<1> SUFFICES ASSUME HandlerInv, [SagaNext]_sagaVars PROVE [Next]_vars
  OBVIOUS
<1>1. ASSUME NEW w \in Worker, Handler(w) PROVE [Next]_vars
  <2>1. CASE UNCHANGED loop
    BY <2>1 DEF loop
  <2>2. CASE \E o \in Outcomes[EventOf(w)] : HandlerReturns(w, o)
    BY <1>1, <2>2, HandlerShape DEF Handle, Step, Next
  <2> QED BY <1>1, <2>1, <2>2, HandlerShape
<1>2. ASSUME NEW w \in Worker, Loop(w) PROVE Next
  BY <1>2 DEF Loop, Step, Next
<1>3. ASSUME NEW t \in Topic, Retry(t) PROVE Next
  BY <1>3 DEF Retry, Next
<1>4. CASE UNCHANGED sagaVars
  BY <1>4 DEF sagaVars, loop
<1> QED BY <1>1, <1>2, <1>3, <1>4 DEF SagaNext

\* Nothing runs at first, and the producers wrote what handlers answer.
LEMMA HandlerInit == SagaInit => HandlerInv
<1> SUFFICES ASSUME SagaInit PROVE HandlerInv
  OBVIOUS
<1>1. Init /\ Running
  BY DEF SagaInit, Running
<1>2. PICK written \in Commands :
        log = [t \in Topic |-> [i \in 1..Len(written[t]) |->
                                  [event |-> written[t][i], attempt |-> 1]]]
  BY <1>1 DEF Init
<1>3. ASSUME NEW t \in Topic, NEW i \in 1..Len(log[t])
      PROVE  Answers(log[t][i].event, t)
  <2>1. Len(written[t]) \in Nat
    BY CommandsAssumption, LenProperties
  <2>2. log[t] = [j \in 1..Len(written[t]) |-> [event |-> written[t][j], attempt |-> 1]]
    BY <1>2
  <2>3. i \in 1..Len(written[t]) /\ log[t][i].event = written[t][i]
    BY <1>3, <2>1, <2>2
  <2> QED BY <2>3, AnswersAssumption
<1>4. \A t \in Topic : retry[t] = {}
  BY <1>1 DEF Init
<1>5. Answered
  BY <1>3, <1>4 DEF Answered, Published
<1> QED BY <1>1, <1>5, PlacedInit DEF HandlerInv

\* A handler keeps to its command from its first call to its return.
LEMMA HandlerNext == HandlerInv /\ [SagaNext]_sagaVars => HandlerInv'
<1> SUFFICES ASSUME HandlerInv, [SagaNext]_sagaVars PROVE HandlerInv'
  OBVIOUS
<1> DEFINE Steps == {"start", "insertCode", "success", "failed", "mail", "completed"}
<1>1. /\ [Next]_vars /\ Placed /\ Placed' /\ Grown /\ Running /\ TypeOK
      /\ run \in [Worker -> Steps]
  BY HandlersStep, PlacedNext, LogGrows DEF HandlerInv, Running, Placed
<1>2. Answered'
  <2>1. \A t \in Topic, e \in Event : Published(e, t)' => Answers(e, t)
    BY <1>1, PublishedStays DEF HandlerInv, Answered
  <2> QED BY <2>1 DEF Answered, Answers
<1> DEFINE Fine(v) == run'[v] # "start" =>
                        /\ At(v, "handle")' /\ ~Refused(v)'
                        /\ run'[v] = "completed" <=> FromRecovery(v)'
                        /\ run'[v] = "mail" => Sent(EventOf(v), "success")'
<1>3. \A v \in Worker : At(v, "handle") /\ work'[v] = work[v]
        => /\ At(v, "handle")' /\ EventOf(v)' = EventOf(v) /\ TopicOf(v)' = TopicOf(v)
           /\ FromRecovery(v)' = FromRecovery(v) /\ Refused(v)' = Refused(v)
  BY <1>1, OthersKeep DEF At, AtMessage, FromRecovery, Refused
<1>4. ASSUME NEW v \in Worker, work'[v] = work[v], run'[v] = run[v], sent \subseteq sent'
      PROVE  Fine(v)
  BY <1>1, <1>3, <1>4 DEF Running, Sent
<1>5. ASSUME run' \in [Worker -> Steps], \A v \in Worker : Fine(v) PROVE HandlerInv'
  BY <1>1, <1>2, <1>5 DEF HandlerInv, Running
<1>6. ASSUME NEW w \in Worker, Handler(w) PROVE HandlerInv'
  <2>1. At(w, "handle") /\ AtMessage(w)
    BY <1>6, HandlerShape DEF At, AtMessage
  <2>2. \A v \in Worker : v # w => work'[v] = work[v] /\ run'[v] = run[v]
    <3>1. CASE UNCHANGED loop
      BY <1>6, <3>1, HandlerShape DEF loop, vars
    <3>2. CASE \E o \in Outcomes[EventOf(w)] : HandlerReturns(w, o)
      BY <1>1, <1>6, <3>2, HandlerShape DEF HandlerReturns, TypeOK
    <3> QED BY <1>6, <3>1, <3>2, HandlerShape
  <2>3. sent \subseteq sent'
    BY <1>6 DEF Handler, CannotHandle, CreateCredential, CreateCredentialFails,
       CreateVerificationCode, CreateVerificationCodeFails, DeleteCredential,
       DeleteCredentialFails, Publish, PublishFails, Written
  <2>4. run' \in [Worker -> Steps]
    BY <1>1, <1>6 DEF Handler, CannotHandle, CreateCredential, CreateCredentialFails,
       CreateVerificationCode, CreateVerificationCodeFails, DeleteCredential,
       DeleteCredentialFails, Publish, PublishFails, GiveUp, Proceed, Finish
  <2>5. CASE run'[w] = "start"
    BY <1>4, <1>5, <2>2, <2>3, <2>4, <2>5
  <2>6. CASE run'[w] # "start"
    <3>1. work' = work
      BY <1>6, <2>6, HandlerShape DEF loop, vars
    <3>2. /\ At(w, "handle")' /\ EventOf(w)' = EventOf(w)
          /\ FromRecovery(w)' = FromRecovery(w) /\ Refused(w)' = Refused(w)
      BY <1>3, <2>1, <3>1
    <3>3. ~Refused(w)
      BY <1>1, <1>6, <2>6
      DEF Running, Handler, CannotHandle, CreateCredential, CreateCredentialFails,
          CreateVerificationCode, CreateVerificationCodeFails, DeleteCredential,
          DeleteCredentialFails, Publish, PublishFails, Publishing, Runs, Asks, Refused,
          Finish
    <3>4. run'[w] = "completed" <=> FromRecovery(w)
      BY <1>1, <1>6, <2>6
      DEF Running, Publishing, Runs, Handler, CannotHandle, CreateCredential, CreateCredentialFails,
          CreateVerificationCode, CreateVerificationCodeFails, DeleteCredential,
          DeleteCredentialFails, Publish, PublishFails, GiveUp, Proceed, Finish
    <3>5. run'[w] = "mail" => Sent(EventOf(w), "success")'
      <4>1. CASE Publish(w)
        <5>1. run'[w] = "mail" => run[w] = "success"
          BY <1>1, <4>1 DEF Publish, Proceed, Finish
        <5>2. run[w] = "success" => [event |-> EventOf(w), record |-> "success"] \in sent'
          BY <4>1 DEF Publish, Written
        <5> QED BY <3>2, <5>1, <5>2 DEF Sent
      <4>2. CASE ~Publish(w)
        BY <1>1, <1>6, <4>2
        DEF Handler, CannotHandle, CreateCredential, CreateCredentialFails,
            CreateVerificationCode, CreateVerificationCodeFails, DeleteCredential,
            DeleteCredentialFails, PublishFails, GiveUp, Proceed, Finish
      <4> QED BY <4>1, <4>2
    <3>6. Fine(w)
      BY <3>2, <3>3, <3>4, <3>5
    <3> QED BY <1>4, <1>5, <2>2, <2>3, <2>4, <3>6
  <2> QED BY <2>5, <2>6
<1>7. ASSUME NEW w \in Worker, Loop(w) PROVE HandlerInv'
  <2>1. \A v \in Worker : v # w => work'[v] = work[v] /\ run'[v] = run[v]
    BY <1>1, <1>7, OneMoves DEF Loop, Step
  <2>2. sent' = sent /\ run' \in [Worker -> Steps]
    BY <1>1, <1>7 DEF Loop
  <2>3. run'[w] = "start"
    <3>1. CASE Stop(w) /\ run' = [run EXCEPT ![w] = "start"]
      BY <1>1, <3>1
    <3>2. CASE (LoopStep(w) \/ Rebalance(w)) /\ UNCHANGED run
      <4>1. ~At(w, "handle")
        BY <3>2 DEF LoopStep, Subscribe, Join, Fetch, Claim, ReleaseClaim, EnqueueRetry,
                    DeadLetter, CommitMessage, Rejoin, Rebalance, At
      <4> QED BY <1>1, <3>2, <4>1 DEF Running
    <3> QED BY <1>7, <3>1, <3>2 DEF Loop
  <2> QED BY <1>4, <1>5, <2>1, <2>2, <2>3
<1>8. CASE UNCHANGED sagaVars \/ \E t \in Topic : Retry(t)
  <2>1. work' = work /\ run' = run /\ sent' = sent
    BY <1>8 DEF sagaVars, loop, vars, Retry, RunRetryQueue
  <2> QED BY <1>1, <1>4, <1>5, <2>1
<1> QED BY <1>6, <1>7, <1>8 DEF SagaNext

\* The handlers in the loop implement the loop with handlers of one step, for
\* any commands, payloads and users: they touch neither Kafka nor the claims, and
\* return once (registration_saga_subscriber.go, recovery_subscriber.go).
THEOREM HandlersImplementConsumer == SagaSpec => ImplementsConsumer
<1>1. SagaInit => Init
  BY DEF SagaInit
<1> QED BY <1>1, HandlerInit, HandlerNext, HandlersStep, PTL
        DEF SagaSpec, ImplementsConsumer, Spec

-----------------------------------------------------------------------------
(* What the handlers store and publish.                                     *)

\* The handler of w has created a credential and not failed since.
Created(w) ==
    /\ run[w] \in {"insertCode", "success", "mail", "completed"}
    /\ Operation[EventOf(w)] = "create"

\* Command e has created its credential, and succeeds or may still do so.
Winner(e) ==
    \/ Succeeded(e)
    \/ \E w \in Worker : EventOf(w) = e /\ Created(w)

CodeKept(e) == e \in coded \/ UserOf[e] \in deleted

\* A winner's user is registered and has no other; a success has its code, also
\* before it is published; a command that was handled has a result of its topic.
CommandInv ==
    /\ \A e \in Event : Winner(e) /\ UserOf[e] \notin deleted => UserOf[e] \in registered
    /\ \A e1, e2 \in Event :
         Winner(e1) /\ Winner(e2) /\ UserOf[e1] = UserOf[e2] /\ UserOf[e1] \notin deleted
         => e1 = e2
    /\ SuccessHasCode
    /\ \A w \in Worker : run[w] = "success" /\ Operation[EventOf(w)] = "create"
                           => CodeKept(EventOf(w))
    /\ \A t \in Topic, e \in Event :
         done[e] > 0 /\ Published(e, t) => \E record \in Results(t) : Sent(e, record)

SagaInv == HandlerInv /\ OneHome /\ CommandInv

\* A handler that has begun is at the command it began with.
LEMMA RunnersKeep ==
    ASSUME HandlerInv, [SagaNext]_sagaVars, NEW v \in Worker, run'[v] # "start"
    PROVE  /\ At(v, "handle") /\ EventOf(v) \in Event
           /\ EventOf(v)' = EventOf(v) /\ TopicOf(v)' = TopicOf(v)
           /\ run'[v] = run[v] \/ Handler(v)
<1>1. /\ Placed /\ Grown /\ [Next]_vars /\ Running
      /\ run \in [Worker -> {"start", "insertCode", "success", "failed", "mail",
                             "completed"}]
  BY HandlersStep, LogGrows DEF HandlerInv, Running
<1>2. ASSUME work'[v] = work[v], At(v, "handle")
      PROVE  /\ EventOf(v) \in Event
             /\ EventOf(v)' = EventOf(v) /\ TopicOf(v)' = TopicOf(v)
  BY <1>1, <1>2, OthersKeep, MessageTypes DEF At, AtMessage
<1>3. ASSUME work'[v] = work[v], run'[v] = run[v]
      PROVE  /\ At(v, "handle") /\ EventOf(v) \in Event
             /\ EventOf(v)' = EventOf(v) /\ TopicOf(v)' = TopicOf(v)
  BY <1>1, <1>2, <1>3 DEF Running
<1>4. CASE Handler(v)
  <2>1. At(v, "handle") /\ work' = work
    BY <1>4, HandlerShape DEF loop, vars
  <2> QED BY <1>2, <1>4, <2>1
<1>5. ASSUME NEW w \in Worker, w # v, Handler(w) PROVE work'[v] = work[v] /\ run'[v] = run[v]
  <2>1. CASE UNCHANGED loop
    BY <1>5, <2>1, HandlerShape DEF loop, vars
  <2>2. CASE \E o \in Outcomes[EventOf(w)] : HandlerReturns(w, o)
    BY <1>1, <1>5, <2>2, HandlerShape DEF HandlerReturns, Placed, TypeOK
  <2> QED BY <1>5, <2>1, <2>2, HandlerShape
<1>6. ASSUME NEW w \in Worker, Loop(w) PROVE work'[v] = work[v] /\ run'[v] = run[v]
  <2>1. CASE w # v
    BY <1>1, <1>6, <2>1, OneMoves DEF Loop, Step
  <2>2. CASE w = v
    <3>1. (LoopStep(v) \/ Rebalance(v)) /\ UNCHANGED run
      BY <1>1, <1>6, <2>2 DEF Loop
    <3>2. At(v, "handle")
      BY <1>1, <3>1 DEF Running
    <3> QED BY <3>1, <3>2 DEF LoopStep, Subscribe, Join, Fetch, Claim, ReleaseClaim,
            EnqueueRetry, DeadLetter, CommitMessage, Rejoin, Rebalance, At
  <2> QED BY <2>1, <2>2
<1>7. CASE UNCHANGED sagaVars \/ \E t \in Topic : Retry(t)
  <2>1. work' = work /\ run' = run
    BY <1>7 DEF sagaVars, loop, vars, Retry, RunRetryQueue
  <2> QED BY <1>3, <2>1
<1> QED BY <1>3, <1>4, <1>5, <1>6, <1>7 DEF SagaNext

\* A record that is new names the command and the step of the handler that wrote it.
LEMMA NewRecord ==
    ASSUME [SagaNext]_sagaVars, NEW e, NEW record, Sent(e, record)', ~Sent(e, record)
    PROVE  \E w \in Worker : EventOf(w) = e /\ run[w] = record /\ Publishing(w)
<1>1. sent' # sent
  BY DEF Sent
<1>2. PICK w \in Worker : Publishing(w) /\ sent' = Written(w)
  BY <1>1 DEF SagaNext, sagaVars, Handler, CannotHandle, CreateCredential,
     CreateCredentialFails, CreateVerificationCode, CreateVerificationCodeFails,
     DeleteCredential, DeleteCredentialFails, Publish, PublishFails, Loop, Retry
<1>3. [event |-> e, record |-> record] = [event |-> EventOf(w), record |-> run[w]]
  BY <1>2 DEF Sent, Written
<1> QED BY <1>2, <1>3

\* A deletion is remembered, and nothing but a deletion takes rows away.
LEMMA RowsStay ==
    ASSUME [SagaNext]_sagaVars
    PROVE  /\ deleted \subseteq deleted' /\ sent \subseteq sent'
           /\ \A u \in registered : u \in registered' \/ u \in deleted'
           /\ \A e \in Event : CodeKept(e) => CodeKept(e)'
<1>1. ASSUME NEW u, Delete(u)
      PROVE  /\ deleted \subseteq deleted'
             /\ \A v \in registered : v \in registered' \/ v \in deleted'
             /\ \A e \in Event : CodeKept(e) => CodeKept(e)'
  BY <1>1 DEF Delete, CodeKept
<1>2. ASSUME deleted' = deleted, registered \subseteq registered', coded \subseteq coded'
      PROVE  /\ deleted \subseteq deleted'
             /\ \A u \in registered : u \in registered' \/ u \in deleted'
             /\ \A e \in Event : CodeKept(e) => CodeKept(e)'
  BY <1>2 DEF CodeKept
<1>3. sent \subseteq sent'
  BY DEF SagaNext, sagaVars, Handler, CannotHandle, CreateCredential,
     CreateCredentialFails, CreateVerificationCode, CreateVerificationCodeFails,
     DeleteCredential, DeleteCredentialFails, Publish, PublishFails, Written, Loop, Retry
<1>4. \/ \E u : Delete(u)
      \/ deleted' = deleted /\ registered \subseteq registered' /\ coded \subseteq coded'
  BY DEF SagaNext, sagaVars, database, Handler, CannotHandle, CreateCredential,
     CreateCredentialFails, CreateVerificationCode, CreateVerificationCodeFails,
     DeleteCredential, DeleteCredentialFails, Publish, PublishFails, Loop, Retry
<1> QED BY <1>1, <1>2, <1>3, <1>4

\* The only new winner is the command whose INSERT of the credential succeeds
\* (service.go:149-164).
LEMMA NewWinner ==
    ASSUME HandlerInv, [SagaNext]_sagaVars, NEW e \in Event, Winner(e)', ~Winner(e)
    PROVE  \E w \in Worker : CreateCredential(w) /\ EventOf(w) = e
<1>1. CASE Succeeded(e)'
  <2>1. PICK record \in {"success", "completed"} : Sent(e, record)'
    BY <1>1 DEF Succeeded
  <2>2. ~Sent(e, record) /\ Operation[e] = "create"
    BY <1>1 DEF Winner, Succeeded
  <2>3. PICK w \in Worker : EventOf(w) = e /\ run[w] = record
    BY <2>1, <2>2, NewRecord
  <2> QED BY <2>2, <2>3 DEF Winner, Created
<1>2. ASSUME NEW w \in Worker, EventOf(w)' = e, Created(w)'
      PROVE  CreateCredential(w) /\ EventOf(w) = e
  <2>1. EventOf(w) = e /\ (run'[w] = run[w] \/ Handler(w))
    BY <1>2, RunnersKeep DEF Created
  <2>2. Operation[e] = "create" /\ run'[w] \in {"insertCode", "success", "mail", "completed"}
    BY <1>2 DEF Created
  <2>3. run[w] \notin {"insertCode", "success", "mail", "completed"}
    BY <2>1, <2>2 DEF Winner, Created
  <2>4. Handler(w) /\ run \in [Worker -> {"start", "insertCode", "success", "failed",
                                          "mail", "completed"}]
    BY <2>1, <2>2, <2>3 DEF HandlerInv, Running
  <2>5. ~CannotHandle(w) /\ ~CreateCredentialFails(w) /\ ~DeleteCredentialFails(w)
    BY <2>2, <2>4 DEF CannotHandle, CreateCredentialFails, DeleteCredentialFails, GiveUp,
                      Proceed, Finish
  <2>6. ~CreateVerificationCode(w) /\ ~CreateVerificationCodeFails(w)
    BY <2>3 DEF CreateVerificationCode, CreateVerificationCodeFails, Runs
  <2>7. ~DeleteCredential(w)
    BY <2>1, <2>2 DEF DeleteCredential, Asks
  <2>8. ~Publish(w) /\ ~PublishFails(w)
    BY <2>2, <2>3, <2>4 DEF Publish, PublishFails, Proceed, Finish
  <2> QED BY <2>1, <2>4, <2>5, <2>6, <2>7, <2>8 DEF Handler
<1> QED BY <1>1, <1>2 DEF Winner

\* A handler that succeeds has published a result of its topic
\* (registration_saga_subscriber.go:61-93, recovery_subscriber.go:98-106).
LEMMA NewSuccess ==
    ASSUME HandlerInv, [SagaNext]_sagaVars, NEW e \in Event, done'[e] > 0, ~(done[e] > 0)
    PROVE  \E w \in Worker : /\ EventOf(w) = e /\ At(w, "handle")
                             /\ \E record \in Results(TopicOf(w)) : Sent(e, record)'
<1>1. Placed /\ TypeOK /\ Running
  BY DEF HandlerInv, Placed
<1>2. done' # done
  OBVIOUS
<1>3. PICK w \in Worker : Handler(w)
  BY <1>2 DEF SagaNext, sagaVars, loop, vars, Loop, Retry, LoopStep, Subscribe, Join, Fetch,
     Claim, ReleaseClaim, EnqueueRetry, DeadLetter, CommitMessage, Rejoin, Rebalance, Stop,
     RunRetryQueue
<1>4. At(w, "handle") /\ ~UNCHANGED loop
  BY <1>2, <1>3, HandlerShape DEF loop, vars
<1>5. \A o : HandlerReturns(w, o) => o = "ok" /\ EventOf(w) = e
  BY <1>1 DEF HandlerReturns, TypeOK
<1>6. Publish(w) /\ Finish(w, "ok")
  BY <1>3, <1>4, <1>5
  DEF Handler, CannotHandle, CreateCredential, CreateCredentialFails,
      CreateVerificationCode, CreateVerificationCodeFails, DeleteCredential,
      DeleteCredentialFails, Publish, PublishFails, GiveUp, Proceed, Finish
<1>7. EventOf(w) = e
  BY <1>5, <1>6 DEF Finish
<1>8. [event |-> e, record |-> run[w]] \in sent' /\ sent \subseteq sent'
  BY <1>6, <1>7 DEF Publish, Written
<1>9. run[w] \in {"success", "failed", "mail", "completed"}
  BY <1>6 DEF Publish, Publishing
<1>10. CASE FromRecovery(w)
  <2>1. run[w] = "completed"
    BY <1>1, <1>9, <1>10 DEF Running
  <2> QED BY <1>4, <1>7, <1>8, <1>10, <2>1 DEF FromRecovery, Results, Sent
<1>11. CASE ~FromRecovery(w)
  <2>1. run[w] \in {"success", "failed"} \/ Sent(EventOf(w), "success")
    BY <1>1, <1>9, <1>11 DEF Running
  <2>2. Sent(e, "success")' \/ Sent(e, "failed")'
    BY <1>7, <1>8, <2>1 DEF Sent
  <2> QED BY <1>4, <1>7, <1>11, <2>2 DEF FromRecovery, Results
<1> QED BY <1>10, <1>11

\* Nothing is registered, published or handled at first.
LEMMA CommandInit == SagaInit => OneHome /\ CommandInv
<1> SUFFICES ASSUME SagaInit PROVE OneHome /\ CommandInv
  OBVIOUS
<1>1. Init
  BY DEF SagaInit
<1>2. \A e : ~Winner(e)
  BY DEF SagaInit, Winner, Succeeded, Sent, Created
<1>3. \A e \in Event : ~(done[e] > 0)
  <2>1. done = [e \in Event |-> 0]
    BY <1>1 DEF Init
  <2>2. ASSUME NEW e \in Event PROVE ~(done[e] > 0)
    <3>1. done[e] = 0
      BY <2>1
    <3>2. ~(0 > 0)
      OBVIOUS
    <3> QED BY <3>1, <3>2
  <2> QED BY <2>2
<1>4. \A w \in Worker : run[w] = "start"
  BY DEF SagaInit
<1>5. SuccessHasCode
  BY DEF SagaInit, SuccessHasCode, Sent
<1> QED BY <1>1, <1>2, <1>3, <1>4, <1>5, OffsetInit DEF CommandInv

\* INSERTs, DELETEs, results and retries of the commands of one user, in any order.
LEMMA CommandNext == SagaInv /\ [SagaNext]_sagaVars => OneHome' /\ CommandInv'
<1> SUFFICES ASSUME SagaInv, [SagaNext]_sagaVars PROVE OneHome' /\ CommandInv'
  OBVIOUS
<1>1. /\ HandlerInv /\ Placed /\ OneHome /\ CommandInv /\ [Next]_vars
  BY HandlersStep DEF SagaInv, HandlerInv
<1>2. OneHome'
  BY <1>1, HomeNext
<1>3. ASSUME NEW e \in Event, Winner(e)', UserOf[e] \notin deleted'
      PROVE  UserOf[e] \in registered'
  <2>1. CASE Winner(e)
    BY <1>1, <1>3, <2>1, RowsStay DEF CommandInv
  <2>2. ASSUME NEW w \in Worker, CreateCredential(w), EventOf(w) = e
        PROVE  UserOf[e] \in registered'
    BY <2>2 DEF CreateCredential, Subject
  <2> QED BY <1>1, <1>3, <2>1, <2>2, NewWinner
<1>4. ASSUME NEW e1 \in Event, NEW e2 \in Event, Winner(e1)', Winner(e2)',
             UserOf[e1] = UserOf[e2], UserOf[e1] \notin deleted'
      PROVE  e1 = e2
  <2>1. UserOf[e1] \notin deleted
    BY <1>4, RowsStay
  <2>2. CASE Winner(e1) /\ Winner(e2)
    BY <1>1, <1>4, <2>1, <2>2 DEF CommandInv
  <2>3. ASSUME NEW e \in Event, NEW f \in Event, ~Winner(e), Winner(e)', Winner(f),
               UserOf[e] = UserOf[f], UserOf[f] \notin deleted
        PROVE  FALSE
    <3>1. UserOf[f] \in registered
      BY <1>1, <2>3 DEF CommandInv
    <3>2. PICK w \in Worker : CreateCredential(w) /\ EventOf(w) = e
      BY <1>1, <2>3, NewWinner
    <3> QED BY <2>3, <3>1, <3>2 DEF CreateCredential, Subject
  <2>4. CASE ~Winner(e1) /\ ~Winner(e2)
    <3>1. PICK w \in Worker : CreateCredential(w) /\ EventOf(w) = e1
      BY <1>1, <1>4, <2>4, NewWinner
    <3>2. PICK v \in Worker : CreateCredential(v) /\ EventOf(v) = e2
      BY <1>1, <1>4, <2>4, NewWinner
    <3>3. run'[w] # "start" /\ run'[v] # "start" /\ run[w] = "start" /\ run[v] = "start"
      BY <1>1, <3>1, <3>2 DEF CreateCredential, Runs, Proceed, HandlerInv, Running
    <3>4. w = v
      BY <1>1, <3>1, <3>2, <3>3 DEF CreateCredential, Proceed, HandlerInv, Running
    <3> QED BY <3>1, <3>2, <3>4
  <2> QED BY <1>4, <2>1, <2>2, <2>3, <2>4
<1>5. ASSUME NEW w \in Worker, run'[w] = "success", Operation[EventOf(w)'] = "create"
      PROVE  CodeKept(EventOf(w))'
  <2>1. PICK e \in Event : EventOf(w) = e /\ EventOf(w)' = e
    BY <1>1, <1>5, RunnersKeep
  <2>2. CASE run[w] = "success"
    <3>1. CodeKept(e)
      BY <1>1, <1>5, <2>1, <2>2 DEF CommandInv
    <3>2. CodeKept(e)'
      BY <3>1, RowsStay
    <3> QED BY <2>1, <3>2 DEF CodeKept
  <2>3. CASE run[w] # "success"
    <3>1. Handler(w) /\ run \in [Worker -> {"start", "insertCode", "success", "failed",
                                            "mail", "completed"}]
      BY <1>1, <1>5, <2>3, RunnersKeep DEF HandlerInv, Running
    <3>2. CreateVerificationCode(w) \/ DeleteCredential(w)
      BY <1>5, <3>1 DEF Handler, CannotHandle, CreateCredential, CreateCredentialFails,
         CreateVerificationCodeFails, DeleteCredentialFails, Publish, PublishFails,
         GiveUp, Proceed, Finish
    <3>3. ~DeleteCredential(w)
      BY <1>5, <2>1 DEF DeleteCredential, Asks
    <3>4. e \in coded'
      BY <2>1, <3>2, <3>3 DEF CreateVerificationCode
    <3> QED BY <2>1, <3>4 DEF CodeKept
  <2> QED BY <2>2, <2>3
<1>6. SuccessHasCode'
  <2> SUFFICES ASSUME NEW e \in Event, Operation[e] = "create", Sent(e, "success")'
               PROVE  CodeKept(e)'
    BY DEF SuccessHasCode, CodeKept
  <2>1. CodeKept(e)
    <3>1. CASE Sent(e, "success")
      BY <1>1, <3>1 DEF CommandInv, SuccessHasCode, CodeKept
    <3>2. CASE ~Sent(e, "success")
      <4>1. \E w \in Worker : EventOf(w) = e /\ run[w] = "success"
        BY <3>2, NewRecord
      <4> QED BY <1>1, <4>1 DEF CommandInv
    <3> QED BY <3>1, <3>2
  <2> QED BY <2>1, RowsStay
<1>7. ASSUME NEW t \in Topic, NEW e \in Event, done'[e] > 0, Published(e, t)'
      PROVE  \E record \in Results(t) : Sent(e, record)'
  <2>1. Published(e, t)
    BY <1>1, <1>7, PublishedStays
  <2>2. CASE done[e] > 0
    BY <1>1, <2>1, <2>2, RowsStay DEF CommandInv, Sent
  <2>3. CASE ~(done[e] > 0)
    <3>1. PICK w \in Worker : /\ EventOf(w) = e /\ At(w, "handle")
                              /\ \E record \in Results(TopicOf(w)) : Sent(e, record)'
      BY <1>1, <1>7, <2>3, NewSuccess
    <3>2. AtMessage(w) /\ TopicOf(w) \in Topic /\ PlacedAt(w)
      BY <1>1, <3>1, MessageTypes DEF At, AtMessage, Placed, Positions
    <3>3. Published(e, TopicOf(w))
      BY <3>1, <3>2 DEF PlacedAt, Published, EventOf, Record
    <3>4. TopicOf(w) = t
      BY <1>1, <2>1, <3>2, <3>3 DEF OneHome
    <3> QED BY <3>1, <3>4
  <2> QED BY <2>2, <2>3
<1>8. \A e \in Event : Winner(e)' /\ UserOf[e] \notin deleted' => UserOf[e] \in registered'
  BY <1>3
<1>9. \A e1, e2 \in Event :
        Winner(e1)' /\ Winner(e2)' /\ UserOf[e1] = UserOf[e2] /\ UserOf[e1] \notin deleted'
        => e1 = e2
  BY <1>4
<1> QED BY <1>2, <1>5, <1>6, <1>7, <1>8, <1>9 DEF CommandInv

\* The inductive invariant of the commands.
THEOREM CommandsHold == SagaSpec => []SagaInv
<1>1. SagaInit => SagaInv
  BY HandlerInit, CommandInit DEF SagaInv
<1>2. SagaInv /\ [SagaNext]_sagaVars => SagaInv'
  BY HandlerNext, CommandNext DEF SagaInv
<1> QED BY <1>1, <1>2, PTL DEF SagaSpec

\* A published success means a stored code, until the user is deleted
\* (service.go:149-164).
THEOREM SuccessIsBacked == SagaSpec => []SuccessHasCode
<1>1. SagaInv => SuccessHasCode
  BY DEF SagaInv, CommandInv
<1> QED BY <1>1, CommandsHold, PTL

\* Of all commands that register one user, in both topics and with all their
\* retries, one succeeds.
THEOREM PrimaryKeyArbitrates == SagaSpec => []OneSuccessPerUser
<1>1. SagaInv => OneSuccessPerUser
  BY DEF SagaInv, CommandInv, OneSuccessPerUser, Winner
<1> QED BY <1>1, CommandsHold, PTL

\* A result is published for every command the offset has passed, to the saga or
\* as a completion of the recovery, unless the command still waits, is in the
\* dead-letter topic or was cut short.
THEOREM SagaIsAnswered == SagaSpec => []PassedOnlyAnswered
<1>1. SagaInv /\ PassedOnlyWithOutcome => PassedOnlyAnswered
  <2> SUFFICES ASSUME SagaInv, PassedOnlyWithOutcome, NEW t \in Topic,
                      NEW e \in Event, Passed(e, t), done[e] > 0
               PROVE  \E record \in Results(t) : Sent(e, record)
    BY DEF PassedOnlyAnswered, PassedOnlyWithOutcome, HasOutcome
  <2>1. PICK i \in 1..(committed[t] - 1) : log[t][i].event = e
    BY DEF Passed
  <2>2. Placed
    BY DEF SagaInv, HandlerInv
  <2>3. Len(log[t]) \in Nat
    BY <2>2, LenProperties DEF Placed, TypeOK
  <2>4. i \in 1..Len(log[t])
    BY <2>1, <2>2, <2>3 DEF Placed, Positions, TypeOK
  <2>5. Published(e, t)
    BY <2>1, <2>4 DEF Published
  <2> QED BY <2>5 DEF SagaInv, CommandInv
<1>2. SagaSpec => Spec
  BY HandlersImplementConsumer DEF ImplementsConsumer
<1> QED BY <1>1, <1>2, CommandsHold, OffsetsLoseNothing, PTL

=============================================================================

--------------------------- MODULE ServiceLifecycle ---------------------------
(***************************************************************************)
(* The process: fx starts the hooks of the service in the order they were  *)
(* appended and stops them in reverse, while the two supervised consumers  *)
(* and the gRPC server run in goroutines that nobody waits for.            *)
(*                                                                         *)
(*   src/internal/fx/{presentation,messaging,storage}.go                   *)
(*   src/internal/presentation/grpc/server.go                              *)
(*   src/internal/presentation/event_broker/kafka/broker.go                *)
(*                                                                         *)
(* What a consumer does with its messages is KafkaConsumer, what a call    *)
(* does is AuthService.  fx and grpc-go are not in this repository: what   *)
(* they do is taken from how these files use them.  Operators marked       *)
(* "Slip" are mistakes the code could make and does not.                   *)
(***************************************************************************)
EXTENDS Integers, Sequences

CONSTANTS
    Call,         \* gRPC calls the server handles at the same time
    MaxFailures   \* bound: consecutive errors of one Subscribe

ASSUME FailuresAssumption == MaxFailures \in Nat

Supervisor == {"saga", "recovery"}

\* The saga reads its create and its delete topic in turn.
Topics(s) == IF s = "saga" THEN 2 ELSE 1

VARIABLES
    hook,       \* hooks that are started and not yet stopped
    process,    \* "running", "stopping", or why it ended
    cancelled,  \* supervisors whose context is cancelled
    where,      \* supervisor -> where its goroutine is
    nth,        \* supervisor -> the topic that its Subscribe has come to
    backoff,    \* supervisor -> its next wait, in seconds
    failures,   \* supervisor -> errors since Subscribe returned nil: a history
    readers,    \* supervisor -> how many of its readers are not closed
    mine,       \* supervisor -> whether the one it reads from is not closed
    srv,        \* where the goroutine of the gRPC server is
    quit,       \* the event GracefulStop fires in grpc-go
    active,     \* calls that are being handled
    cut,        \* calls that were accepted and never answered properly
    db          \* the pool: "open" or "closed"

fx == <<hook, process, cancelled>>
consumers == <<where, nth, backoff, failures, readers, mine>>
grpc == <<srv, quit, active>>
vars == <<fx, consumers, grpc, cut, db>>

\* Slip: a server that is built before the pool is stopped after it.
ServerFirst == <<"grpc", "db", "broker", "saga", "recovery">>

\* Slip: the broker is stopped while its consumers still run.
BrokerLast == <<"db", "saga", "recovery", "broker", "grpc">>

\* The constructors of the subscribers need the broker, that of the broker the
\* pool; InvokeRunGRPCServer comes last.  (Logger and metrics: left out.)
Hooks == <<"db", "broker", "saga", "recovery", "grpc">>

Init ==
    /\ hook = 0 /\ process = "running"
    /\ cancelled = {}
    /\ where = [s \in Supervisor |-> "off"]
    /\ nth = [s \in Supervisor |-> 1]
    /\ backoff = [s \in Supervisor |-> 1]
    /\ failures = [s \in Supervisor |-> 0]
    /\ readers = [s \in Supervisor |-> 0]
    /\ mine = [s \in Supervisor |-> FALSE]
    /\ srv = "off" /\ quit = "unfired" /\ active = {} /\ cut = {}
    /\ db = "open"

Running == process = "running"
Stopping == process = "stopping"
Up == Running \/ Stopping

-----------------------------------------------------------------------------
(* fx.                                                                      *)

\* OnStart of the next hook: start a goroutine, or nothing.
StartHook ==
    /\ Running /\ hook < Len(Hooks)
    /\ hook' = hook + 1
    /\ LET name == Hooks[hook + 1] IN
         /\ where' = IF name \in Supervisor
                     THEN [where EXCEPT ![name] = "check"] ELSE where
         /\ srv' = IF name = "grpc" THEN "listen" ELSE srv
    /\ UNCHANGED <<process, cancelled, nth, backoff, failures, readers, mine,
                   quit, active, cut, db>>

\* A signal reaches a process whose hooks are all started.
Signal ==
    /\ Running /\ hook = Len(Hooks)
    /\ process' = "stopping"
    /\ UNCHANGED <<hook, cancelled, consumers, grpc, cut, db>>

Stops(name) == Stopping /\ hook > 0 /\ Hooks[hook] = name

\* GracefulStop: no new call from here on, and back when the last is answered.
GracefulStop ==
    /\ Stops("grpc") /\ quit = "unfired"
    /\ quit' = "fired"
    /\ UNCHANGED <<fx, consumers, srv, active, cut, db>>

ServerStopped ==
    /\ Stops("grpc") /\ quit = "fired" /\ active = {}
    /\ hook' = hook - 1
    /\ UNCHANGED <<process, cancelled, consumers, grpc, cut, db>>

\* cancel(), and no waiting for the goroutine.
Cancel(s) ==
    /\ Stops(s)
    /\ cancelled' = cancelled \cup {s}
    /\ hook' = hook - 1
    /\ UNCHANGED <<process, consumers, grpc, cut, db>>

\* broker.Close closes every reader there is, those in use as well.
CloseBroker ==
    /\ Stops("broker")
    /\ readers' = [s \in Supervisor |-> 0]
    /\ mine' = [s \in Supervisor |-> FALSE]
    /\ hook' = hook - 1
    /\ UNCHANGED <<process, cancelled, where, nth, backoff, failures,
                   grpc, cut, db>>

CloseDB ==
    /\ Stops("db")
    /\ db' = "closed"
    /\ hook' = hook - 1
    /\ UNCHANGED <<process, cancelled, consumers, grpc, cut>>

\* The process ends and takes every goroutine along.
Ends(why) ==
    /\ process' = why
    /\ cut' = cut \cup active
    /\ UNCHANGED <<hook, cancelled, consumers, quit, active, db>>

Exit == Stopping /\ hook = 0 /\ Ends("clean") /\ UNCHANGED srv

\* fx gives the hooks one stop timeout between them.
StopTimeout == Stopping /\ hook > 0 /\ Ends("timeout") /\ UNCHANGED srv

-----------------------------------------------------------------------------
(* The goroutine of the gRPC server, and its calls.  An error of Start is a *)
(* panic.                                                                   *)

At(pc) == Up /\ srv = pc

Panic(why) == Ends(why) /\ srv' = "panicked"

Listen ==
    /\ At("listen")
    /\ \/ srv' = "serve" /\ UNCHANGED <<fx, consumers, quit, active, cut, db>>
       \/ Panic("bind")

\* Serve after GracefulStop is an error of its own.
Serve ==
    /\ At("serve")
    /\ \/ quit = "fired" /\ Panic("early")
       \/ /\ quit = "unfired" /\ srv' = "serving"
          /\ UNCHANGED <<fx, consumers, quit, active, cut, db>>

\* Serve returns nil after GracefulStop, an error when Accept fails for good.
ServeReturns ==
    /\ At("serving")
    /\ \/ /\ quit = "fired" /\ srv' = "done"
          /\ UNCHANGED <<fx, consumers, quit, active, cut, db>>
       \/ quit = "unfired" /\ Panic("accept")

\* Slip: the listener is closed only after the last call.
AcceptWhileStopping(c) ==
    /\ At("serving") /\ hook = Len(Hooks) /\ c \notin active
    /\ active' = active \cup {c}
    /\ UNCHANGED <<fx, consumers, srv, quit, cut, db>>

Accept(c) ==
    /\ At("serving") /\ quit = "unfired" /\ c \notin active
    /\ active' = active \cup {c}
    /\ UNCHANGED <<fx, consumers, srv, quit, cut, db>>

\* A call that finds the pool closed is answered with an internal error.
Answer(c) ==
    /\ Up /\ c \in active
    /\ active' = active \ {c}
    /\ cut' = IF db = "closed" THEN cut \cup {c} ELSE cut
    /\ UNCHANGED <<fx, consumers, srv, quit, db>>

-----------------------------------------------------------------------------
(* The supervisors and, inside Subscribe, RunPullConsumer.                  *)

In(s, place) == Up /\ where[s] = place
Goto(s, place) == where' = [where EXCEPT ![s] = place]
Others == UNCHANGED <<fx, grpc, cut, db>>

\* for ctx.Err() == nil: the context may be cancelled right after the look.
Check(s) ==
    /\ In(s, "check")
    /\ Goto(s, IF s \in cancelled THEN "gone" ELSE "subscribe")
    /\ Others /\ UNCHANGED <<nth, backoff, failures, readers, mine>>

\* RunPullConsumer: a new reader, whatever the context is by now.
OpenReader(s) ==
    /\ In(s, "subscribe")
    /\ readers' = [readers EXCEPT ![s] = @ + 1]
    /\ mine' = [mine EXCEPT ![s] = TRUE]
    /\ Goto(s, "reading")
    /\ Others /\ UNCHANGED <<nth, backoff, failures>>

\* Slip: no deferred Close, as broker.Close will do it.
LeaveOpen(s) == readers' = readers /\ mine' = [mine EXCEPT ![s] = FALSE]

\* defer r.Close(): a reader that broker.Close has closed stays closed.
CloseReader(s) ==
    /\ readers' = [readers EXCEPT ![s] = IF mine[s] THEN @ - 1 ELSE @]
    /\ mine' = [mine EXCEPT ![s] = FALSE]

\* RunPullConsumer returns nil: Subscribe comes to its next topic, or returns.
NextTopic(s) ==
    /\ In(s, "reading") /\ nth[s] < Topics(s)
    /\ Goto(s, "subscribe")
    /\ nth' = [nth EXCEPT ![s] = @ + 1]
    /\ CloseReader(s)
    /\ Others /\ UNCHANGED <<backoff, failures>>

\* Slip: the wait is set back to the zero value of a duration.
ReturnNilToZero(s) ==
    /\ In(s, "reading") /\ nth[s] = Topics(s)
    /\ Goto(s, "check")
    /\ nth' = [nth EXCEPT ![s] = 1]
    /\ backoff' = [backoff EXCEPT ![s] = 0]
    /\ failures' = [failures EXCEPT ![s] = 0]
    /\ CloseReader(s)
    /\ Others

\* After nil from Subscribe the supervisor starts over at once.
ReturnNil(s) ==
    /\ In(s, "reading") /\ nth[s] = Topics(s)
    /\ Goto(s, "check")
    /\ nth' = [nth EXCEPT ![s] = 1]
    /\ backoff' = [backoff EXCEPT ![s] = 1]
    /\ failures' = [failures EXCEPT ![s] = 0]
    /\ CloseReader(s)
    /\ Others

\* After an error it waits, but not when the context has been cancelled: then
\* the next look at the context is the last.
ReturnError(s) ==
    /\ In(s, "reading")
    /\ IF s \in cancelled
       THEN Goto(s, "check") /\ UNCHANGED failures
       ELSE /\ failures[s] < MaxFailures
            /\ Goto(s, "wait")
            /\ failures' = [failures EXCEPT ![s] = @ + 1]
    /\ nth' = [nth EXCEPT ![s] = 1]
    /\ CloseReader(s)
    /\ Others /\ UNCHANGED backoff

\* Slip: doubled without a look at the bound.
DoubledForEver(s) == 2 * backoff[s]

\* Below 30 seconds the backoff doubles; the saga's is then cut to 30, the
\* recovery's is not and comes to rest at 32.
Doubled(s) ==
    IF backoff[s] >= 30 THEN backoff[s]
    ELSE IF s = "saga" /\ 2 * backoff[s] > 30 THEN 30 ELSE 2 * backoff[s]

\* Slip: the goroutine ends with the first error.
GiveUpAfterWait(s) ==
    /\ In(s, "wait")
    /\ Goto(s, "gone")
    /\ Others /\ UNCHANGED <<nth, backoff, failures, readers, mine>>

TimerFires(s) ==
    /\ In(s, "wait")
    /\ Goto(s, "check")
    /\ backoff' = [backoff EXCEPT ![s] = Doubled(s)]
    /\ Others /\ UNCHANGED <<nth, failures, readers, mine>>

\* select: the timer and the context may both be ready.
WaitCancelled(s) ==
    /\ In(s, "wait") /\ s \in cancelled
    /\ Goto(s, "gone")
    /\ Others /\ UNCHANGED <<nth, backoff, failures, readers, mine>>

-----------------------------------------------------------------------------

Fx == \/ StartHook \/ GracefulStop \/ ServerStopped \/ CloseBroker \/ CloseDB \/ Exit
      \/ \E s \in Supervisor : Cancel(s)

Server == Listen \/ Serve

Supervise(s) ==
    \/ Check(s)
    \/ OpenReader(s)
    \/ TimerFires(s)
    \/ WaitCancelled(s)

Returns(s) == NextTopic(s) \/ ReturnNil(s) \/ ReturnError(s)

Next ==
    \/ Fx \/ Server \/ ServeReturns \/ Signal \/ StopTimeout
    \/ \E c \in Call : Accept(c) \/ Answer(c)
    \/ \E s \in Supervisor : Supervise(s) \/ Returns(s)

Spec == Init /\ [][Next]_vars

\* Goroutines are scheduled, timers fire, and a call comes to an end.  Nothing
\* makes a signal arrive, a consumer return or fx lose its patience.
Fairness ==
    /\ WF_vars(Fx)
    /\ WF_vars(Server)
    /\ \A c \in Call : WF_vars(Answer(c))
    /\ \A s \in Supervisor : WF_vars(Supervise(s))

FairSpec == Spec /\ Fairness

-----------------------------------------------------------------------------
(* Properties.                                                              *)

\* Every variable stays in its domain: no supervisor ever waits longer than the
\* 30 and 32 seconds its loop doubles up to, or not at all (presentation.go:54-70,
\* 107-125), and none comes past its last topic.
TypeOK ==
    /\ hook \in 0..5
    /\ process \in {"running", "stopping", "clean", "timeout", "bind",
                   "early", "accept"}
    /\ cancelled \subseteq Supervisor
    /\ where \in [Supervisor -> {"off", "check", "subscribe", "reading",
                                 "wait", "gone"}]
    /\ nth \in [Supervisor -> 1..2]
    /\ \A s \in Supervisor : nth[s] <= Topics(s)
    /\ backoff \in [Supervisor -> {1, 2, 4, 8, 16, 30, 32}]
    /\ failures \in [Supervisor -> Nat]
    /\ readers \in [Supervisor -> Int]
    /\ mine \in [Supervisor -> BOOLEAN]
    /\ srv \in {"off", "listen", "serve", "serving", "done", "panicked"}
    /\ quit \in {"unfired", "fired"}
    /\ active \subseteq Call
    /\ cut \subseteq Call
    /\ db \in {"open", "closed"}

\* A shutdown answers every call the server accepted, with the pool still open
\* (presentation.go:153-155, storage.go:39-44): only the stop timeout of fx or
\* a listener that breaks cuts calls off.  The panic of a server whose Serve
\* comes after its GracefulStop costs no call.
ShutdownAnswersCalls == cut # {} => process \in {"timeout", "accept"}

\* However often a consumer is started again, its supervisor has one reader
\* open, and none while it waits or is gone (broker.go:86-90).
OneOpenReader ==
    \A s \in Supervisor : readers[s] <= IF where[s] = "reading" THEN 1 ELSE 0

\* A reader is closed under its consumer only when that consumer has been told
\* to go: broker.Close at stop comes after both cancellations, so no consumer
\* takes the closing for a failure, waits and starts again (messaging.go:42-47,
\* presentation.go:73-78, 132-137, broker.go:170-176).
ClosedOnlyWhenCancelled ==
    \A s \in Supervisor : where[s] = "reading" /\ ~mine[s] => s \in cancelled

\* The n-th error in a row is followed by a wait of 2^(n-1) seconds, up to 30 for
\* the saga and 32 for the recovery, and a nil from Subscribe starts the count afresh
\* (presentation.go:54-70, 107-126).
WaitAfter(s, n) ==
    CASE n = 1 -> 1 [] n = 2 -> 2 [] n = 3 -> 4 [] n = 4 -> 8 [] n = 5 -> 16
      [] OTHER -> IF s = "saga" THEN 30 ELSE 32
BackoffFollowsFailures ==
    \A s \in Supervisor :
        where[s] = "wait" => backoff[s] = WaitAfter(s, failures[s])

\* A consumer that failed is started again, unless the service is stopping
\* (presentation.go:55-71, 108-127).
ConsumersComeBack ==
    \A s \in Supervisor :
        where[s] = "wait" ~> where[s] = "reading" \/ ~Running

\* A stop comes to its end without the help of the stop timeout: no hook waits
\* for something that a goroutine does not do (server.go:66-77).
StopEnds == Stopping ~> ~Up

=============================================================================

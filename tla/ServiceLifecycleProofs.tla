------------------------ MODULE ServiceLifecycleProofs ------------------------
(***************************************************************************)
(* Proofs about ServiceLifecycle, for any calls and any number of errors.  *)
(***************************************************************************)
EXTENDS ServiceLifecycle, TLAPS

USE DEF fx, consumers, grpc, vars

\* The hooks by number, as their constructors append them (storage.go:39,
\* messaging.go:42, presentation.go:50, 101, 144).
LEMMA HooksByNumber ==
    /\ Len(Hooks) = 5
    /\ \A i \in 1..5 : /\ Hooks[i] = "db" <=> i = 1
                       /\ Hooks[i] = "broker" <=> i = 2
                       /\ Hooks[i] = "saga" <=> i = 3
                       /\ Hooks[i] = "recovery" <=> i = 4
                       /\ Hooks[i] = "grpc" <=> i = 5
BY DEF Hooks

-----------------------------------------------------------------------------
(* Types.                                                                   *)

\* A process that has not started is well typed (presentation.go:48-79).
LEMMA InitTypes == Init => TypeOK
BY DEF Init, Topics, TypeOK

\* The hooks of fx keep the types (presentation.go:50-79, 101-138).
LEMMA FxTypes == TypeOK /\ (Fx \/ Signal \/ StopTimeout) => TypeOK'
<1> SUFFICES ASSUME TypeOK, Fx \/ Signal \/ StopTimeout PROVE TypeOK'
  OBVIOUS
<1>1. CASE StartHook
  BY <1>1, HooksByNumber DEF StartHook, TypeOK
<1>2. CASE Signal
  BY <1>2 DEF Signal, TypeOK
<1>3. CASE StopTimeout \/ Exit
  BY <1>3 DEF StopTimeout, Exit, Ends, TypeOK
<1>4. CASE GracefulStop
  BY <1>4 DEF GracefulStop, TypeOK
<1>5. CASE ServerStopped \/ CloseDB
  BY <1>5 DEF ServerStopped, CloseDB, Stops, TypeOK
<1>6. CASE CloseBroker
  BY <1>6 DEF CloseBroker, Stops, TypeOK
<1>7. ASSUME NEW s \in Supervisor, Cancel(s) PROVE TypeOK'
  BY <1>7 DEF Cancel, Stops, TypeOK
<1> QED
  BY <1>1, <1>2, <1>3, <1>4, <1>5, <1>6, <1>7 DEF Fx

\* So do the goroutine of the server and the calls (server.go:53-63).
LEMMA ServerTypes ==
    ASSUME TypeOK, \/ Server \/ ServeReturns
                   \/ \E c \in Call : Accept(c) \/ Answer(c)
    PROVE  TypeOK'
<1>1. CASE Server
  BY <1>1 DEF Server, Listen, Serve, Panic, Ends, TypeOK
<1>2. CASE ServeReturns
  BY <1>2 DEF ServeReturns, Panic, Ends, TypeOK
<1>3. ASSUME NEW c \in Call, Accept(c) \/ Answer(c) PROVE TypeOK'
  BY <1>3 DEF Accept, Answer, TypeOK
<1> QED
  BY <1>1, <1>2, <1>3

\* And the supervisors, with their consumers (presentation.go:53-72, 106-128).
LEMMA SupervisorTypes ==
    ASSUME TypeOK, NEW s \in Supervisor, Supervise(s) \/ Returns(s)
    PROVE  TypeOK'
<1>1. CASE Check(s) \/ WaitCancelled(s)
  BY <1>1 DEF Check, WaitCancelled, Goto, Others, TypeOK
<1>2. CASE OpenReader(s)
  BY <1>2 DEF OpenReader, Goto, Others, TypeOK
<1>3. CASE TimerFires(s)
  BY <1>3 DEF TimerFires, Doubled, Goto, Others, TypeOK
<1>4. CASE NextTopic(s)
  BY <1>4 DEF NextTopic, Topics, CloseReader, Goto, Others, TypeOK
<1>5. CASE ReturnNil(s)
  BY <1>5 DEF ReturnNil, Topics, CloseReader, Goto, Others, TypeOK
<1>6. CASE ReturnError(s)
  BY <1>6 DEF ReturnError, Topics, CloseReader, Goto, Others, TypeOK
<1> QED
  BY <1>1, <1>2, <1>3, <1>4, <1>5, <1>6 DEF Supervise, Returns

\* Every step keeps the types.
LEMMA NextTypes == TypeOK /\ [Next]_vars => TypeOK'
<1> SUFFICES ASSUME TypeOK, [Next]_vars PROVE TypeOK'
  OBVIOUS
<1>1. CASE UNCHANGED vars
  BY <1>1 DEF TypeOK
<1> QED
  BY <1>1, FxTypes, ServerTypes, SupervisorTypes DEF Next

\* No supervisor ever waits longer than the 30 and 32 seconds its backoff doubles
\* up to, or starts over without a wait that was set, however many errors come in
\* a row, and none comes past its last topic, for any calls.
THEOREM TypesHold == Spec => []TypeOK
<1> QED
  BY InitTypes, NextTypes, PTL DEF Spec

-----------------------------------------------------------------------------
(* A shutdown answers the calls.  The inductive invariant is the order in   *)
(* which the hooks stop: the server while everything else is still there,   *)
(* then the contexts of the consumers, the broker, and the pool when nothing *)
(* is left that uses it.                                                    *)

StopOrder ==
    /\ Running /\ hook < 5 => srv = "off"
    /\ quit = "fired" => ~Running
    /\ Stopping /\ hook < 5 => quit = "fired" /\ active = {}
    /\ Stopping /\ hook < 4 => "recovery" \in cancelled
    /\ Stopping /\ hook < 3 => "saga" \in cancelled
    /\ Up /\ db = "closed" => Stopping /\ hook = 0

\* A call needs a server that has begun to serve.
CallsAreServed == Up /\ active # {} => srv \notin {"off", "listen", "serve"}

ShutdownInv ==
    /\ hook \in 0..5
    /\ StopOrder
    /\ CallsAreServed
    /\ ShutdownAnswersCalls

\* Nothing is closed and no call is there before the start (fx.go:6-16).
LEMMA InitShutdown == Init => ShutdownInv
BY DEF Init, ShutdownInv, StopOrder, CallsAreServed, ShutdownAnswersCalls,
       Running, Stopping, Up

\* The hooks stop in the order of StopOrder (presentation.go:153-155,
\* messaging.go:42-47, storage.go:39-44).
LEMMA FxShutdown == ShutdownInv /\ (Fx \/ Signal \/ StopTimeout) => ShutdownInv'
<1> SUFFICES ASSUME ShutdownInv, Fx \/ Signal \/ StopTimeout PROVE ShutdownInv'
  OBVIOUS
<1> USE DEF ShutdownInv, StopOrder, CallsAreServed, ShutdownAnswersCalls,
            Running, Stopping, Up
<1>1. CASE StartHook
  BY <1>1, HooksByNumber DEF StartHook
<1>2. CASE Signal
  <2>1. hook = 5
    BY <1>2, HooksByNumber DEF Signal
  <2> QED
    BY <1>2, <2>1 DEF Signal
<1>3. CASE StopTimeout
  BY <1>3 DEF StopTimeout, Ends
<1>4. CASE Exit
  <2>1. active = {}
    BY <1>4 DEF Exit
  <2> QED
    BY <1>4, <2>1 DEF Exit, Ends
<1>5. CASE GracefulStop
  BY <1>5 DEF GracefulStop, Stops
<1>6. CASE ServerStopped
  BY <1>6, HooksByNumber DEF ServerStopped, Stops
<1>7. CASE CloseBroker
  BY <1>7, HooksByNumber DEF CloseBroker, Stops
<1>8. CASE CloseDB
  BY <1>8, HooksByNumber DEF CloseDB, Stops
<1>9. ASSUME NEW s \in Supervisor, Cancel(s) PROVE ShutdownInv'
  BY <1>9, HooksByNumber DEF Cancel, Stops, Supervisor
<1> QED
  BY <1>1, <1>2, <1>3, <1>4, <1>5, <1>6, <1>7, <1>8, <1>9 DEF Fx

\* The server panics before its first call or with a broken listener, and takes
\* no call once GracefulStop has begun (server.go:52-63, presentation.go:146-150).
LEMMA ServerShutdown ==
    ASSUME ShutdownInv, \/ Server \/ ServeReturns
                        \/ \E c \in Call : Accept(c) \/ Answer(c)
    PROVE  ShutdownInv'
<1> USE DEF ShutdownInv, StopOrder, CallsAreServed, ShutdownAnswersCalls,
            Running, Stopping, Up
<1>1. CASE Server
  BY <1>1 DEF Server, Listen, Serve, Panic, Ends, At
<1>2. CASE ServeReturns
  BY <1>2 DEF ServeReturns, Panic, Ends, At
<1>3. ASSUME NEW c \in Call, Accept(c) PROVE ShutdownInv'
  BY <1>3 DEF Accept, At
<1>4. ASSUME NEW c \in Call, Answer(c) PROVE ShutdownInv'
  <2>1. db # "closed" /\ cut' = cut
    BY <1>4 DEF Answer
  <2> QED
    BY <1>4, <2>1 DEF Answer
<1> QED
  BY <1>1, <1>2, <1>3, <1>4

\* The consumers have no part in it (presentation.go:53-72, 106-128).
LEMMA SupervisorShutdown ==
    ASSUME ShutdownInv, NEW s \in Supervisor, Supervise(s) \/ Returns(s)
    PROVE  ShutdownInv'
<1>1. Others
  BY DEF Supervise, Returns, Check, OpenReader, TimerFires, WaitCancelled,
         NextTopic, ReturnNil, ReturnError
<1> QED
  BY <1>1 DEF Others, ShutdownInv, StopOrder, CallsAreServed,
              ShutdownAnswersCalls, Running, Stopping, Up

\* Every step.
LEMMA NextShutdown == ShutdownInv /\ [Next]_vars => ShutdownInv'
<1> SUFFICES ASSUME ShutdownInv, [Next]_vars PROVE ShutdownInv'
  OBVIOUS
<1>1. CASE UNCHANGED vars
  BY <1>1 DEF ShutdownInv, StopOrder, CallsAreServed, ShutdownAnswersCalls,
              Running, Stopping, Up
<1> QED
  BY <1>1, FxShutdown, ServerShutdown, SupervisorShutdown DEF Next

\* Calls are cut off only by the stop timeout or a broken listener, however
\* many there are and whenever the stop comes.
THEOREM ShutdownCutsNothing == Spec => []ShutdownAnswersCalls
<1>1. ShutdownInv => ShutdownAnswersCalls
  BY DEF ShutdownInv
<1> QED
  BY InitShutdown, NextShutdown, <1>1, PTL DEF Spec

-----------------------------------------------------------------------------
(* Readers and waits.  Between its waits a supervisor carries the wait that *)
(* its next error would start.                                              *)

BackoffIsDue ==
    \A s \in Supervisor :
        /\ where[s] = "wait" => /\ failures[s] >= 1
                                /\ backoff[s] = WaitAfter(s, failures[s])
        /\ where[s] \notin {"wait", "gone"}
              => backoff[s] = WaitAfter(s, failures[s] + 1)

\* A supervisor has no goroutine before its hook is started.
NotStarted ==
    /\ Running /\ hook < 3 => where["saga"] = "off"
    /\ Running /\ hook < 4 => where["recovery"] = "off"

\* The only reader of a supervisor that can be open is the one it reads from.
OwnReader ==
    \A s \in Supervisor :
        /\ readers[s] = IF mine[s] THEN 1 ELSE 0
        /\ mine[s] => where[s] = "reading"

Supervised == OwnReader /\ ClosedOnlyWhenCancelled /\ BackoffIsDue /\ NotStarted
ConsumerInv == TypeOK /\ ShutdownInv /\ Supervised

\* No goroutine runs yet, and the first wait is one second (presentation.go:54).
LEMMA InitConsumers == Init => ConsumerInv
BY InitTypes, InitShutdown
DEF Init, ConsumerInv, Supervised, OwnReader, ClosedOnlyWhenCancelled, BackoffIsDue,
    NotStarted, WaitAfter, Supervisor

\* fx starts and cancels the goroutines and leaves their waits alone; when the
\* broker closes the readers, both contexts are cancelled (broker.go:170-176).
LEMMA FxConsumers ==
    ASSUME ConsumerInv, Fx \/ Signal \/ StopTimeout
    PROVE  Supervised'
<1> USE DEF ConsumerInv, Supervised, OwnReader, ClosedOnlyWhenCancelled,
            BackoffIsDue, NotStarted, Running, TypeOK
<1>1. CASE StartHook
  <2> DEFINE name == Hooks[hook + 1]
  <2>1. CASE name \notin Supervisor
    BY <1>1, <2>1, HooksByNumber DEF StartHook, Supervisor
  <2>2. CASE name \in Supervisor
    <3>1. where[name] = "off" /\ where' = [where EXCEPT ![name] = "check"]
      BY <1>1, <2>2, HooksByNumber DEF StartHook, Supervisor
    <3>2. BackoffIsDue' /\ OwnReader' /\ ClosedOnlyWhenCancelled'
      BY <1>1, <2>2, <3>1 DEF StartHook
    <3>3. NotStarted'
      BY <1>1, <2>2, <3>1, HooksByNumber DEF StartHook, Supervisor
    <3> QED
      BY <3>2, <3>3
  <2> QED
    BY <2>1, <2>2
<1>2. CASE CloseBroker
  <2>1. Stopping /\ hook = 2
    BY <1>2, HooksByNumber DEF CloseBroker, Stops
  <2>2. \A s \in Supervisor : s \in cancelled
    BY <2>1 DEF ShutdownInv, StopOrder, Supervisor
  <2> QED
    BY <1>2, <2>2 DEF CloseBroker, Stops, Stopping
<1>3. \/ Signal \/ StopTimeout \/ Exit \/ GracefulStop \/ ServerStopped \/ CloseDB
      \/ \E s \in Supervisor : Cancel(s)
      => UNCHANGED consumers /\ ~Running' /\ cancelled \subseteq cancelled'
  BY DEF Signal, StopTimeout, Exit, GracefulStop, ServerStopped, CloseDB, Cancel,
         Ends, Stops, Stopping
<1> QED
  BY <1>1, <1>2, <1>3 DEF Fx

\* The waits follow the errors: 1, 2, 4, 8, 16, then 30 or 32 seconds
\* (presentation.go:65-67, 120-125).
LEMMA NextWait ==
    ASSUME TypeOK, NEW s \in Supervisor, failures[s] >= 1,
           backoff[s] = WaitAfter(s, failures[s])
    PROVE  Doubled(s) = WaitAfter(s, failures[s] + 1)
<1>1. failures[s] \in Nat
  BY DEF TypeOK
<1> QED
  BY <1>1 DEF Doubled, WaitAfter

\* A supervisor opens a reader when it has none and closes it before it waits
\* (broker.go:86-90), and its waits follow its errors.
LEMMA SupervisorConsumers ==
    ASSUME ConsumerInv, NEW s \in Supervisor, Supervise(s) \/ Returns(s)
    PROVE  Supervised'
<1> USE DEF ConsumerInv, Supervised, OwnReader, ClosedOnlyWhenCancelled,
            BackoffIsDue, NotStarted, Running, TypeOK, In, Goto, Others
<1>1. CASE Check(s)
  BY <1>1 DEF Check
<1>2. CASE OpenReader(s)
  BY <1>2 DEF OpenReader
<1>3. CASE TimerFires(s)
  BY <1>3, NextWait DEF TimerFires
<1>4. CASE NextTopic(s)
  BY <1>4 DEF NextTopic, CloseReader
<1>5. CASE ReturnNil(s)
  BY <1>5 DEF ReturnNil, CloseReader, WaitAfter
<1>6. CASE ReturnError(s)
  <2>1. failures' = IF s \in cancelled THEN failures
                    ELSE [failures EXCEPT ![s] = @ + 1]
    BY <1>6 DEF ReturnError
  <2>2. where' = [where EXCEPT ![s] = IF s \in cancelled THEN "check" ELSE "wait"]
    BY <1>6 DEF ReturnError
  <2>3. BackoffIsDue'
    BY <1>6, <2>1, <2>2 DEF ReturnError
  <2>4. OwnReader' /\ ClosedOnlyWhenCancelled'
    BY <1>6, <2>2 DEF ReturnError, CloseReader
  <2>5. NotStarted'
    BY <1>6, <2>2 DEF ReturnError
  <2> QED
    BY <2>3, <2>4, <2>5
<1>7. CASE WaitCancelled(s)
  BY <1>7 DEF WaitCancelled
<1> QED
  BY <1>1, <1>2, <1>3, <1>4, <1>5, <1>6, <1>7 DEF Supervise, Returns

\* Every step keeps the readers and the waits of the supervisors in order.
LEMMA NextConsumers == ConsumerInv /\ [Next]_vars => ConsumerInv'
<1> SUFFICES ASSUME ConsumerInv, [Next]_vars PROVE ConsumerInv'
  OBVIOUS
<1>1. TypeOK' /\ ShutdownInv'
  BY NextTypes, NextShutdown DEF ConsumerInv
<1>2. ASSUME UNCHANGED consumers,
             UNCHANGED fx \/ (~Running' /\ UNCHANGED <<hook, cancelled>>)
      PROVE  Supervised'
  BY <1>2 DEF ConsumerInv, Supervised, OwnReader, ClosedOnlyWhenCancelled,
              BackoffIsDue, NotStarted, Running
<1>3. ASSUME \/ Server \/ ServeReturns
             \/ \E c \in Call : Accept(c) \/ Answer(c)
      PROVE  /\ UNCHANGED consumers
             /\ UNCHANGED fx \/ (~Running' /\ UNCHANGED <<hook, cancelled>>)
  BY <1>3 DEF Server, Listen, Serve, ServeReturns, Panic, Ends, Accept, Answer,
              Running
<1> QED
  BY <1>1, <1>2, <1>3, FxConsumers, SupervisorConsumers DEF Next, ConsumerInv

\* However often its consumers fail, return or are closed by the broker, a
\* supervisor has at most the one reader it is reading from.
THEOREM ReadersDoNotPileUp == Spec => []OneOpenReader
<1>1. ConsumerInv => OneOpenReader
  BY DEF ConsumerInv, Supervised, OwnReader, OneOpenReader
<1> QED
  BY InitConsumers, NextConsumers, <1>1, PTL DEF Spec

\* No consumer that is still wanted finds its reader closed under it, at whatever
\* point of its work the stop comes.
THEOREM ReadersCloseLast == Spec => []ClosedOnlyWhenCancelled
<1>1. ConsumerInv => ClosedOnlyWhenCancelled
  BY DEF ConsumerInv, Supervised
<1> QED
  BY InitConsumers, NextConsumers, <1>1, PTL DEF Spec

\* Every wait is the one the errors before it call for, for any number of them.
THEOREM WaitsFollowErrors == Spec => []BackoffFollowsFailures
<1>1. ConsumerInv => BackoffFollowsFailures
  BY DEF ConsumerInv, Supervised, BackoffIsDue, BackoffFollowsFailures
<1> QED
  BY InitConsumers, NextConsumers, <1>1, PTL DEF Spec

=============================================================================

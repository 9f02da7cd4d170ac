----------------------- MODULE EventDispatchEndProofs -----------------------
(***************************************************************************)
(* Proofs about the ends in EventDispatch: what EventListener::join leaves *)
(* in the queues, the size of m_disconnected_queue, and that what is       *)
(* disconnected is announced, an attached connection before it is closed   *)
(* and an accepted one exactly once. And, from all the invariants, that    *)
(* the threads implement the bus of EventBus.                              *)
(***************************************************************************)
EXTENDS EventDispatchProofs, FunctionTheorems

\* What every step below may use.
USE DEF shared, sockets, consumer, joining, history

(* Who stops whom *)

\* The listener runs the end of run_imp.
Stopping == \/ pc[Listener] \in {"close", "join", "await", "done"}
            \/ pc[Listener] \in {"tell_check", "tell_push"} /\ job[Listener].ret = "close"

\* A consumer that does not run is off, or the user or the listener waits for
\* it; one that runs has not begun its last pass; the consumers that the
\* listener is through with are off.
ConsumerStops(c) ==
    /\ ~ m_running[c] => \/ pc[c] = "off"
                         \/ pc[User] = "joining" /\ waiting_for = c
                         \/ pc[Listener] = "await" /\ next_join = c
    /\ m_running[c] => ~ final[c] /\ pc[c] # "done"
    /\ Calling(c) => stage[c] # EndStage
    /\ pc[Listener] \in {"join", "await", "done"} /\ c < next_join => pc[c] = "off"
    /\ c \in joined => c < next_join

\* The listener stops because the user joins it, and joins the consumers once.
ListenerStops ==
    /\ ~ m_running[Listener] /\ pc[Listener] # "off" =>
         pc[User] = "joining" /\ waiting_for = Listener
    /\ Stopping => ~ m_running[Listener]
    /\ pc[Listener] = "await" => next_join \in Consumer /\ ~ m_running[next_join]
    /\ pc[Listener] \notin {"join", "await", "done", "off"} => joined = {} /\ next_join = 1

StopInv == pc[Listener] # "crashed" => ListenerStops /\ \A c \in Consumer : ConsumerStops(c)

\* While nothing of this changes, the invariant holds.
LEMMA StopListener ==
    ASSUME TypeOK, ListenerStops, \A c \in Consumer : ConsumerStops(c), ListenerStep,
           pc'[Listener] # "crashed"
    PROVE  ListenerStops' /\ \A c \in Consumer : ConsumerStops(c)'
<1> USE ThreadFacts, CountAssumption DEF Goto, TypeOK, ControlOK, DataOK
<1>1. CASE LoopTest
  BY <1>1 DEF LoopTest, ListenerStops, ConsumerStops, Stopping, Calling
<1>2. CASE EndBatch \/ ConnectReturn \/ EndRead \/ SafeDisconnect
  BY <1>2 DEF EndBatch, ConnectReturn, EndRead, SafeDisconnect, ListenerStops, ConsumerStops, Stopping, Calling
<1>3. CASE CheckQueue(Listener)
  <2>1. pc'[Listener] \in {"push", "notify", "read", "batch"}
    BY <1>3, Points DEF CheckQueue, PointOK
  <2> QED
    BY <1>3, <2>1 DEF CheckQueue, ListenerStops, ConsumerStops, Stopping, Calling
<1>4. CASE PushQueue(Listener)
  BY <1>4 DEF PushQueue, ListenerStops, ConsumerStops, Stopping, Calling
<1>5. CASE Notify
  BY <1>5, Points DEF Notify, ListenerStops, ConsumerStops, Stopping, Calling, PointOK
<1>6. CASE TellCheck(Listener)
  BY <1>6, Points DEF TellCheck, ListenerStops, ConsumerStops, Stopping, Calling, PointOK
<1>7. CASE TellPush(Listener)
  BY <1>7, Points DEF TellPush, ListenerStops, ConsumerStops, Stopping, Calling, PointOK
<1>8. CASE \E cn \in Internal : CloseInternal(cn)
  BY <1>8 DEF CloseInternal, Disconnect, ListenerStops, ConsumerStops, Stopping, Calling
<1>9. CASE CloseDone
  BY <1>9 DEF CloseDone, ListenerStops, ConsumerStops, Stopping, Calling, Consumer
<1>10. CASE JoinNext
  <2>1. /\ pc[Listener] = "join" /\ next_join \in Consumer
        /\ stage' = stage /\ final' = final /\ joined' = joined /\ waiting_for' = waiting_for
        /\ pc[User] = "joining" /\ waiting_for = Listener /\ ~ m_running[Listener]
    BY <1>10 DEF JoinNext, ListenerStops, Stopping
  <2>2. CASE m_running[next_join]
    <3>1. /\ m_running' = [m_running EXCEPT ![next_join] = FALSE]
          /\ pc' = [pc EXCEPT ![Listener] = "await"] /\ next_join' = next_join
      BY <1>10, <2>2 DEF JoinNext
    <3>2. ListenerStops'
      BY <2>1, <2>2, <3>1 DEF ListenerStops, Stopping
    <3>3. ASSUME NEW c \in Consumer PROVE ConsumerStops(c)'
      BY <2>1, <2>2, <3>1, <3>3 DEF ConsumerStops, Calling
    <3> QED
      BY <3>2, <3>3
  <2>3. CASE ~ m_running[next_join]
    <3>1. m_running' = m_running /\ pc' = pc /\ next_join' = next_join + 1
      BY <1>10, <2>3 DEF JoinNext
    <3>2. pc[next_join] = "off"
      BY <2>1, <2>3 DEF ConsumerStops
    <3>3. ListenerStops'
      BY <2>1, <3>1 DEF ListenerStops, Stopping
    <3>4. ASSUME NEW c \in Consumer PROVE ConsumerStops(c)'
      <4>1. c < next_join + 1 <=> c < next_join \/ c = next_join
        BY <2>1 DEF Consumer
      <4> QED
        BY <2>1, <2>3, <3>1, <3>2, <4>1 DEF ConsumerStops, Calling
    <3> QED
      BY <3>3, <3>4
  <2> QED
    BY <2>2, <2>3
<1>11. CASE Joined
  <2>1. /\ pc[Listener] = "await" /\ next_join \in Consumer /\ pc[next_join] = "done"
        /\ pc' = [pc EXCEPT ![Listener] = "join", ![next_join] = "off"]
        /\ joined' = joined \cup {next_join} /\ next_join' = next_join + 1
        /\ stage' = stage /\ final' = final /\ m_running' = m_running /\ waiting_for' = waiting_for
        /\ pc[User] = "joining" /\ waiting_for = Listener /\ ~ m_running[Listener]
    BY <1>11, JoinedFacts DEF Joined, ListenerStops, Stopping
  <2>2. /\ pc'[Listener] = "join" /\ pc'[next_join] = "off" /\ pc'[User] = "joining"
        /\ \A c \in Consumer : c # next_join => pc'[c] = pc[c]
    BY <2>1
  <2>3. ListenerStops'
    BY <2>1, <2>2 DEF ListenerStops, Stopping
  <2>4. ASSUME NEW c \in Consumer PROVE ConsumerStops(c)'
    <3>1. c < next_join + 1 <=> c < next_join \/ c = next_join
      BY <2>1 DEF Consumer
    <3> QED
      BY <2>1, <2>2, <3>1 DEF ConsumerStops, Calling
  <2> QED
    BY <2>3, <2>4
<1>12. CASE Release
  BY <1>12 DEF Release, ListenerStops, ConsumerStops, Stopping, Calling
<1> QED
  BY <1>1, <1>2, <1>3, <1>4, <1>5, <1>6, <1>7, <1>8, <1>9, <1>10, <1>11, <1>12 DEF ListenerStep

\* The network only meets a listener that listens.
LEMMA StopNetwork ==
    ASSUME TypeOK, ListenerStops, \A c \in Consumer : ConsumerStops(c), Network
    PROVE  ListenerStops' /\ \A c \in Consumer : ConsumerStops(c)'
<1>1. /\ pc[Listener] \in {"batch", "read"} /\ pc'[Listener] \in {"connect", "check", "closing"}
      /\ \A t \in Thread : t # Listener => pc'[t] = pc[t]
      /\ UNCHANGED <<m_running, joining, stage, final>>
  BY ThreadFacts DEF Network, Accept, CloseConnection, PickEvent, CloseServer, Goto,
                     TypeOK, ControlOK
<1> QED
  BY <1>1, ThreadFacts DEF ListenerStops, ConsumerStops, Stopping, Calling

\* A consumer begins its last pass because it was told to stop.
LEMMA StopConsumer ==
    ASSUME TypeOK, ListenerStops, \A c \in Consumer : ConsumerStops(c),
           NEW d \in Consumer, ConsumerStep(d)
    PROVE  ListenerStops' /\ \A c \in Consumer : ConsumerStops(c)'
<1> USE ThreadFacts DEF Goto, TypeOK, ControlOK, DataOK
<1>1. /\ pc'[Listener] = pc[Listener] /\ job' = job /\ pc'[User] = pc[User]
      /\ \A c \in Consumer : c # d => pc'[c] = pc[c] /\ stage'[c] = stage[c] /\ final'[c] = final[c]
      /\ m_running' = m_running /\ next_join' = next_join /\ waiting_for' = waiting_for
      /\ joined' = joined
  <2>1. /\ pc'[Listener] = pc[Listener] /\ job' = job
        /\ \A c \in Consumer : c # d => pc'[c] = pc[c] /\ stage'[c] = stage[c]
    BY ConsumerFrame
  <2>2. /\ pc'[User] = pc[User]
        /\ \A c \in Consumer : c # d => final'[c] = final[c]
        /\ m_running' = m_running /\ next_join' = next_join /\ waiting_for' = waiting_for
        /\ joined' = joined
    BY DEF ConsumerStep, ConsumerTest, WakeUp, TimeOut, Pop, NextQueue, EndPass,
           CallbackReturn, TellCheck, TellPush
  <2> QED
    BY <2>1, <2>2
<1>2. pc[d] # "off" /\ pc'[d] # "off"
  <2>1. job[d].ret = "call" \/ pc[d] \notin {"tell_check", "tell_push"}
    BY Points DEF PointOK
  <2> QED
    BY <2>1 DEF ConsumerStep, ConsumerTest, WakeUp, TimeOut, Pop, NextQueue, EndPass,
                CallbackReturn, TellCheck, TellPush
<1>3. m_running[d] => ~ final'[d] /\ pc'[d] # "done"
  <2>1. job[d].ret # "done"
    BY DEF Job
  <2>2. m_running[d] => ~ final[d] /\ pc[d] # "done"
    BY DEF ConsumerStops
  <2> QED
    BY <2>1, <2>2 DEF ConsumerStep, ConsumerTest, WakeUp, TimeOut, Pop, NextQueue, EndPass,
                      CallbackReturn, TellCheck, TellPush
<1>4. Calling(d)' => stage'[d] # EndStage
  <2>1. CASE Pop(d)
    BY <2>1 DEF Pop
  <2>2. CASE CallbackReturn(d) \/ TellCheck(d) \/ TellPush(d)
    <3>1. stage' = stage /\ Calling(d)
      BY <2>2 DEF CallbackReturn, TellCheck, TellPush, Calling
    <3> QED
      BY <3>1 DEF ConsumerStops
  <2>3. CASE ConsumerTest(d) \/ WakeUp(d) \/ TimeOut(d) \/ NextQueue(d) \/ EndPass(d)
    BY <2>3 DEF ConsumerTest, WakeUp, TimeOut, NextQueue, EndPass, Calling
  <2> QED
    BY <2>1, <2>2, <2>3 DEF ConsumerStep
<1>5. ListenerStops'
  BY <1>1 DEF ListenerStops, Stopping
<1>6. ASSUME NEW c \in Consumer, c # d PROVE ConsumerStops(c)'
  BY <1>1, <1>6 DEF ConsumerStops, Calling
<1>7. ConsumerStops(d)'
  BY <1>1, <1>2, <1>3, <1>4 DEF ConsumerStops
<1> QED
  BY <1>5, <1>6, <1>7

\* What the user and the callbacks do.
LEMMA StopUser ==
    ASSUME TypeOK, ListenerStops, \A c \in Consumer : ConsumerStops(c),
           UserStep \/ Application
    PROVE  ListenerStops' /\ \A c \in Consumer : ConsumerStops(c)'
<1> USE ThreadFacts DEF Goto, TypeOK, ControlOK, DataOK
<1>1. CASE JoinReturn
  <2>1. /\ waiting_for \in Consumer \cup {Listener}
        /\ pc' = [pc EXCEPT ![User] = "free", ![waiting_for] = "off"]
        /\ pc[User] = "joining" /\ pc[waiting_for] = "done"
        /\ UNCHANGED <<m_running, joining, stage, final, job>>
    BY <1>1 DEF JoinReturn
  <2>2. CASE waiting_for = Listener
    BY <2>1, <2>2 DEF ListenerStops, ConsumerStops, Stopping, Calling
  <2>3. CASE waiting_for # Listener
    <3>1. m_running[Listener] \/ pc[Listener] = "off"
      BY <2>1, <2>3 DEF ListenerStops
    <3>2. pc[Listener] \notin {"await", "join", "done"}
      BY <2>1, <2>3 DEF ListenerStops, Stopping
    <3> QED
      BY <2>1, <2>3, <3>1, <3>2 DEF ListenerStops, ConsumerStops, Stopping, Calling
  <2> QED
    BY <2>2, <2>3
<1>2. CASE TellCheck(User) \/ TellPush(User)
  <2>1. /\ pc[User] # "joining" /\ pc'[User] # "joining"
        /\ \A t \in Thread : t # User => pc'[t] = pc[t]
        /\ UNCHANGED <<m_running, joining, stage, final, job>>
    BY <1>2, Points DEF TellCheck, TellPush, PointOK
  <2> QED
    BY <2>1 DEF ListenerStops, ConsumerStops, Stopping, Calling
<1>3. CASE Refuse
  <2>1. /\ pc[Listener] = "connect" /\ pc'[Listener] \in {"connect", "tell_check"}
        /\ pc'[Listener] = "tell_check" => job'[Listener].ret = "connect"
        /\ \A t \in Thread : t # Listener => pc'[t] = pc[t]
        /\ UNCHANGED <<m_running, joining, stage, final>>
    BY <1>3 DEF Refuse, Disconnect
  <2> QED
    BY <2>1 DEF ListenerStops, ConsumerStops, Stopping, Calling
<1>4. ASSUME NEW d \in Consumer, NEW cn \in Conn, CallbackDisconnect(d, cn)
      PROVE  ListenerStops' /\ \A c \in Consumer : ConsumerStops(c)'
  <2>1. /\ pc[d] = "call" /\ pc'[d] \in {"call", "tell_check"}
        /\ \A t \in Thread : t # d => pc'[t] = pc[t] /\ job'[t] = job[t]
        /\ UNCHANGED <<m_running, joining, stage, final>>
    BY <1>4 DEF CallbackDisconnect, Disconnect
  <2>2. ListenerStops'
    BY <2>1 DEF ListenerStops, Stopping
  <2>3. \A c \in Consumer : ConsumerStops(c)'
    BY <2>1 DEF ConsumerStops, Calling
  <2> QED
    BY <2>2, <2>3
<1>5. ASSUME NEW cn \in External, UserDisconnect(cn)
      PROVE  ListenerStops' /\ \A c \in Consumer : ConsumerStops(c)'
  <2>1. /\ pc[User] = "free"
        /\ \A t \in Thread : t # User => pc'[t] = pc[t] /\ job'[t] = job[t]
        /\ UNCHANGED <<m_running, joining, stage, final>>
    BY <1>5 DEF UserDisconnect, Disconnect
  <2> QED
    BY <2>1 DEF ListenerStops, ConsumerStops, Stopping, Calling
<1>6. ASSUME NEW d \in Consumer, RunConsumer(d)
      PROVE  ListenerStops' /\ \A c \in Consumer : ConsumerStops(c)'
  <2>1. /\ pc[User] = "free" /\ pc[d] = "off" /\ pc' = [pc EXCEPT ![d] = "test"]
        /\ m_running' = [m_running EXCEPT ![d] = TRUE]
        /\ final' = [final EXCEPT ![d] = FALSE]
        /\ UNCHANGED <<joining, stage, job>>
    BY <1>6 DEF RunConsumer
  <2>2. pc[Listener] \notin {"join", "await", "done"}
    BY <2>1 DEF ListenerStops, Stopping
  <2> QED
    BY <2>1, <2>2 DEF ListenerStops, ConsumerStops, Stopping, Calling
<1>7. ASSUME NEW t \in Consumer \cup {Listener}, JoinThread(t)
      PROVE  ListenerStops' /\ \A c \in Consumer : ConsumerStops(c)'
  <2>1. /\ pc[User] = "free" /\ pc' = [pc EXCEPT ![User] = "joining"]
        /\ m_running' = [m_running EXCEPT ![t] = FALSE] /\ waiting_for' = t
        /\ UNCHANGED <<todo, next_join, joined, stage, final, job>>
    BY <1>7 DEF JoinThread
  <2>2. /\ pc[Listener] \notin {"join", "await", "done"} /\ ~ Stopping
        /\ m_running[Listener] \/ pc[Listener] = "off"
        /\ \A c \in Consumer : ~ m_running[c] => pc[c] = "off"
    BY <1>7, <2>1 DEF ListenerStops, ConsumerStops, Stopping
  <2> QED
    BY <2>1, <2>2 DEF ListenerStops, ConsumerStops, Stopping, Calling
<1> QED
  BY <1>1, <1>2, <1>3, <1>4, <1>5, <1>6, <1>7 DEF UserStep, Application

\* Every step keeps the invariant.
LEMMA StopStep == TypeOK /\ StopInv /\ [Next]_vars => StopInv'
<1> SUFFICES ASSUME TypeOK, StopInv, [Next]_vars, pc'[Listener] # "crashed"
             PROVE  ListenerStops' /\ \A c \in Consumer : ConsumerStops(c)'
  BY DEF StopInv
<1>1. ListenerStops /\ \A c \in Consumer : ConsumerStops(c)
  BY ListenerFlow DEF StopInv
<1>2. CASE UNCHANGED vars
  BY <1>1, <1>2 DEF vars, ListenerStops, ConsumerStops, Stopping, Calling
<1>3. ~ Crash
  BY ThreadFacts DEF Crash
<1> QED
  BY <1>1, <1>2, <1>3, StopListener, StopNetwork, StopConsumer, StopUser DEF Next
------------------------------------------------------------------------------
(* What join leaves in the queues *)

\* The consumer that the listener waits for has emptied, in its last pass, the
\* queues of the stages behind it; the consumers that were joined, all of them.
DrainInv ==
    /\ pc[Listener] = "await" =>
         \A q \in Queue : Empties(next_join, q) =>
           /\ pc[next_join] = "done" => m_events[q] = <<>>
           /\ InPass(next_join) /\ final[next_join] /\ OwnerStage(q) < stage[next_join]
                => m_events[q] = <<>>
    /\ pc[Listener] \in {"join", "await", "done"} =>
         \A c \in joined : \A q \in Queue : Empties(c, q) => m_events[q] = <<>>

\* Owners do not change, and visit their queues at one stage.
LEMMA EmptiesFacts ==
    ASSUME TypeOK, LinksOK, NEW c \in Consumer, NEW q \in Queue, Empties(c, q)
    PROVE  /\ Owner(q) = c /\ OwnerStage(q) \in Stage /\ StageQueue(OwnerStage(q)) = q
           /\ q = Disconnected => c = NConsumers /\ OwnerStage(q) = LastStage
<1>1. Owner(q) = c /\ (q = Disconnected => c = NConsumers)
  BY DEF Empties
<1>2. OwnerStage(q) \in Stage /\ StageQueue(OwnerStage(q)) = q
  BY <1>1, OwnerServes, ThreadFacts
<1>3. OwnerStage(Disconnected) = LastStage
  BY QueueFacts, CountAssumption DEF OwnerStage, Disconnected, LastStage
<1> QED
  BY <1>1, <1>2, <1>3

\* An empty queue of a consumer that stops is left alone: the listener pushes
\* nothing more, and a callback that disconnects is run by no other consumer
\* when m_disconnected_queue is meant.
LEMMA StaysEmpty ==
    ASSUME TypeOK, LinksOK, ListenerStops, \A c \in Consumer : ConsumerStops(c), [Next]_vars,
           pc[Listener] \in {"join", "await", "done"},
           NEW c \in Consumer, NEW q \in Queue, Empties(c, q), m_events[q] = <<>>,
           c < next_join \/ (c = next_join /\ (pc[c] = "done" \/ OwnerStage(q) < stage[c]))
    PROVE  m_events'[q] = <<>>
<1>1. CASE Kept(q)
  BY <1>1 DEF Kept
<1>2. ~ PushQueue(Listener)
  BY DEF PushQueue
<1>3. ASSUME NEW d \in Consumer, Pop(d), StageQueue(stage[d]) = q PROVE FALSE
  BY <1>3, Popped
<1>4. ASSUME NEW t \in Thread, TellPush(t), q = Disconnected PROVE FALSE
  <2>1. c = NConsumers /\ OwnerStage(q) = LastStage
    BY <1>4, LinksStep, EmptiesFacts
  <2>2. pc[t] = "tell_push"
    BY <1>4, Told
  <2>3. pc[User] = "joining" /\ pc[Listener] # "tell_push"
    BY ThreadFacts DEF ListenerStops, Stopping
  <2>4. t \in Consumer
    BY <2>2, <2>3, ThreadFacts
  <2>5. ~ (t < next_join)
    BY <2>2, <2>4 DEF ConsumerStops
  <2>6. next_join \in 1 .. NConsumers + 1 /\ NConsumers \in Nat /\ t \in 1 .. NConsumers
    BY <2>4, CountAssumption DEF TypeOK, DataOK, Consumer
  <2>7. t = c /\ c = next_join
    BY <2>1, <2>5, <2>6
  <2>8. stage[c] # EndStage /\ pc[c] # "done"
    BY <2>2, <2>7 DEF ConsumerStops, Calling
  <2>9. stage[c] \in Stage \cup {EndStage} /\ LastStage \in Nat
    BY CountAssumption DEF TypeOK, DataOK, LastStage
  <2>10. stage[c] <= LastStage /\ stage[c] \in Nat
    BY <2>8, <2>9 DEF Stage
  <2> QED
    BY <2>1, <2>6, <2>7, <2>8, <2>9, <2>10
<1> QED
  BY <1>1, <1>2, <1>3, <1>4, QueueChange

\* How the listener comes to wait for a consumer, and to be through with one.
LEMMA JoinMoves ==
    ASSUME TypeOK, [Next]_vars, ~ Crash, pc'[Listener] \in {"join", "await", "done"}
    PROVE  \/ CloseDone /\ UNCHANGED joined
           \/ JoinNext
           \/ Joined
           \/ Release
           \/ ~ Joined /\ ~ JoinNext /\ ~ Release /\ pc'[Listener] = pc[Listener] /\ UNCHANGED <<next_join, joined>>
<1> USE ThreadFacts DEF Goto, TypeOK, ControlOK, DataOK
<1>1. CASE ListenerStep
  <2>1. job[Listener].ret \notin {"join", "await", "done"}
    BY DEF Job
  <2> QED
    BY <1>1, <2>1
    DEF ListenerStep, LoopTest, EndBatch, ConnectReturn, EndRead, SafeDisconnect, CheckQueue,
        PushQueue, Notify, TellCheck, TellPush, CloseInternal, Disconnect, CloseDone
<1>2. CASE Network
  BY <1>2 DEF Network, Accept, CloseConnection, PickEvent, CloseServer
<1>3. ASSUME ~ ListenerStep PROVE ~ Joined /\ ~ JoinNext /\ ~ Release
  BY <1>3 DEF ListenerStep
<1>4. ASSUME NEW c \in Consumer, ConsumerStep(c)
      PROVE  pc'[Listener] = pc[Listener] /\ UNCHANGED <<next_join, joined>>
  <2>1. pc'[Listener] = pc[Listener]
    BY <1>4, ConsumerFrame
  <2> QED
    BY <1>4, <2>1 DEF ConsumerStep, ConsumerTest, WakeUp, TimeOut, Pop, NextQueue, EndPass,
                      CallbackReturn, TellCheck, TellPush
<1>5. CASE UserStep
  BY <1>1, <1>3, <1>5 DEF UserStep, JoinReturn, TellCheck, TellPush
<1>6. CASE Application
  <2>1. CASE Refuse
    BY <2>1 DEF Refuse, Disconnect
  <2>2. CASE ~ Refuse
    BY <1>1, <1>3, <1>6, <2>2
    DEF Application, CallbackDisconnect, UserDisconnect, Disconnect, RunConsumer, JoinThread
  <2> QED
    BY <2>1, <2>2
<1>7. CASE UNCHANGED vars
  BY <1>1, <1>3, <1>7 DEF vars
<1> QED
  BY <1>1, <1>2, <1>3, <1>4, <1>5, <1>6, <1>7 DEF Next

\* The consumer the listener waits for, in a step after which it still waits.
LEMMA LastPass ==
    ASSUME TypeOK, LinksOK, DrainInv, ListenerStops, \A c \in Consumer : ConsumerStops(c),
           [Next]_vars, ~ Crash, pc[Listener] = "await", NEW c \in Consumer, c = next_join,
           NEW q \in Queue, Empties(c, q)
    PROVE  /\ pc'[c] = "done" => m_events'[q] = <<>>
           /\ InPass(c)' /\ final'[c] /\ OwnerStage(q) < stage'[c] => m_events'[q] = <<>>
<1> USE ThreadFacts DEF Goto, TypeOK, ControlOK
<1>1. /\ pc[c] = "done" => m_events[q] = <<>>
      /\ InPass(c) /\ final[c] /\ OwnerStage(q) < stage[c] => m_events[q] = <<>>
  BY DEF DrainInv
<1>2. /\ Owner(q) = c /\ OwnerStage(q) \in Int /\ OwnerStage(q) < EndStage
      /\ StageQueue(OwnerStage(q)) = q
      /\ stage[c] \in Stage \cup {EndStage} /\ EndStage \in Int /\ Stage \subseteq Int
  <2>1. Owner(q) = c /\ OwnerStage(q) \in Stage /\ StageQueue(OwnerStage(q)) = q
    BY EmptiesFacts
  <2>2. stage[c] \in Stage \cup {EndStage}
    BY DEF DataOK
  <2>3. EndStage \in Int /\ Stage \subseteq Int /\ \A k \in Stage : k < EndStage
    BY CountAssumption DEF Stage, EndStage, LastStage
  <2> QED
    BY <2>1, <2>2, <2>3
<1>3. ASSUME pc[c] = "done" \/ (InPass(c) /\ final[c] /\ OwnerStage(q) < stage[c])
      PROVE  m_events'[q] = <<>>
  BY <1>1, <1>3, StaysEmpty
<1>4. CASE ~ ConsumerStep(c)
  <2>1. ~ RunConsumer(c)
    BY DEF RunConsumer, ListenerStops, Stopping
  <2>2. /\ stage'[c] = stage[c] /\ final'[c] = final[c]
        /\ pc'[c] = "done" => pc[c] = "done"
        /\ InPass(c)' => InPass(c)
    BY <1>4, <2>1, ConsumerKept DEF InPass
  <2> QED
    BY <1>3, <2>2
<1>5. CASE ConsumerTest(c) \/ WakeUp(c)
  <2>1. pc'[c] # "done" /\ (InPass(c)' => EnterStage(c, 0))
    BY <1>5 DEF ConsumerTest, WakeUp, InPass
  <2>2. ASSUME EnterStage(c, 0) PROVE ~ (OwnerStage(q) < stage'[c])
    <3>1. PICK j \in Stage \cup {EndStage} : NextStage(c, 0, j) /\ stage' = [stage EXCEPT ![c] = j]
      BY <2>2 DEF EnterStage
    <3>2. j <= OwnerStage(q)
      BY <1>2, <3>1, PassBegins
    <3>3. stage'[c] = j
      BY <3>1 DEF DataOK
    <3>4. j \in Int
      BY <1>2
    <3> QED
      BY <1>2, <3>2, <3>3, <3>4
  <2> QED
    BY <2>1, <2>2
<1>6. CASE TimeOut(c)
  BY <1>6 DEF TimeOut, InPass
<1>7. CASE Pop(c) \/ CallbackReturn(c) \/ TellCheck(c) \/ TellPush(c)
  <2>1. stage' = stage /\ final' = final /\ InPass(c)
    BY <1>7 DEF Pop, CallbackReturn, TellCheck, TellPush, InPass
  <2>2. pc'[c] # "done"
    BY <1>7 DEF Pop, CallbackReturn, TellCheck, TellPush, DataOK, Job
  <2> QED
    BY <1>3, <2>1, <2>2
<1>8. CASE NextQueue(c)
  <2>1. /\ pc'[c] = "drain" /\ InPass(c) /\ final' = final /\ m_events' = m_events
        /\ stage[c] \in Stage /\ m_events[StageQueue(stage[c])] = <<>>
    BY <1>2, <1>8 DEF NextQueue, InPass
  <2>2. PICK j \in Stage \cup {EndStage} :
          NextStage(c, stage[c], j) /\ stage' = [stage EXCEPT ![c] = j]
    BY <1>8 DEF NextQueue, EnterStage
  <2>3. stage'[c] = j
    BY <2>2 DEF DataOK
  <2>4. ASSUME final[c], OwnerStage(q) < j, StageQueue(stage[c]) # q PROVE m_events[q] = <<>>
    <3>1. CASE stage[c] <= OwnerStage(q)
      <4>1. j <= OwnerStage(q)
        BY <1>2, <2>1, <2>2, <2>4, <3>1, PassContinues
      <4> QED
        BY <1>2, <2>4, <4>1
    <3>2. CASE ~ (stage[c] <= OwnerStage(q))
      <4>1. OwnerStage(q) < stage[c]
        BY <1>2, <2>1, <3>2
      <4> QED
        BY <1>1, <2>1, <2>4, <4>1
    <3> QED
      BY <3>1, <3>2
  <2> QED
    BY <2>1, <2>3, <2>4
<1>9. CASE EndPass(c)
  <2>1. /\ InPass(c) /\ stage[c] = EndStage /\ m_events' = m_events /\ ~ InPass(c)'
        /\ pc'[c] = "done" => final[c]
    BY <1>9 DEF EndPass, InPass
  <2> QED
    BY <1>1, <1>2, <2>1
<1> QED
  BY <1>4, <1>5, <1>6, <1>7, <1>8, <1>9 DEF ConsumerStep

\* Every step keeps what was drained.
LEMMA DrainStep == TypeOK /\ LinksOK /\ StopInv /\ DrainInv /\ [Next]_vars => DrainInv'
<1> SUFFICES ASSUME TypeOK, LinksOK, StopInv, DrainInv, [Next]_vars PROVE DrainInv'
  OBVIOUS
<1>1. CASE pc'[Listener] \notin {"join", "await", "done"}
  BY <1>1 DEF DrainInv
<1>2. CASE pc'[Listener] \in {"join", "await", "done"}
  <2>1. ~ Crash /\ pc[Listener] # "crashed"
    BY <1>2, ListenerFlow, ThreadFacts DEF Crash
  <2>2. ListenerStops /\ \A c \in Consumer : ConsumerStops(c)
    BY <2>1 DEF StopInv
  <2>3. /\ joined \subseteq Consumer /\ next_join \in 1 .. NConsumers + 1
        /\ \A c \in joined : c < next_join
    BY <2>2 DEF TypeOK, ControlOK, DataOK, ConsumerStops
  <2>4. ASSUME pc[Listener] \in {"join", "await", "done"},
               NEW c \in joined, NEW q \in Queue, Empties(c, q)
        PROVE  m_events'[q] = <<>>
    <3>1. m_events[q] = <<>>
      BY <2>4 DEF DrainInv
    <3> QED
      BY <2>2, <2>3, <2>4, <3>1, StaysEmpty
  <2>5. ASSUME NEW c \in joined', NEW q \in Queue, Empties(c, q)
        PROVE  m_events'[q] = <<>>
    <3>1. CASE CloseDone /\ UNCHANGED joined
      <4>1. joined' = {}
        BY <2>2, <3>1 DEF CloseDone, ListenerStops
      <4> QED
        BY <2>5, <4>1
    <3>2. CASE Joined
      <4>1. /\ pc[Listener] = "await" /\ pc[next_join] = "done" /\ joined' = joined \cup {next_join}
            /\ m_events' = m_events
        BY <3>2 DEF Joined
      <4>2. CASE c = next_join
        BY <2>5, <4>1, <4>2 DEF DrainInv
      <4> QED
        BY <2>4, <2>5, <4>1, <4>2
    <3>3. CASE JoinNext \/ Release
      BY <2>4, <2>5, <3>3 DEF JoinNext, Release
    <3>4. CASE pc'[Listener] = pc[Listener] /\ UNCHANGED <<next_join, joined>>
      BY <1>2, <2>4, <2>5, <3>4
    <3> QED
      BY <1>2, <2>1, <3>1, <3>2, <3>3, <3>4, JoinMoves
  <2>6. ASSUME pc'[Listener] = "await", NEW q \in Queue, Empties(next_join', q)
        PROVE  /\ pc'[next_join'] = "done" => m_events'[q] = <<>>
               /\ InPass(next_join)' /\ final'[next_join'] /\ OwnerStage(q) < stage'[next_join']
                    => m_events'[q] = <<>>
    <3> USE ThreadFacts DEF Goto, TypeOK, ControlOK, DataOK
    <3>1. ~ CloseDone /\ ~ Release
      BY <2>6 DEF CloseDone, Release
    <3>2. ~ Joined
      BY <2>6, JoinedFacts DEF Joined
    <3>3. CASE JoinNext
      <4>1. /\ next_join \in Consumer /\ next_join' = next_join /\ m_running[next_join]
            /\ final' = final /\ pc' = [pc EXCEPT ![Listener] = "await"]
        BY <2>6, <3>3 DEF JoinNext
      <4>2. ~ final[next_join] /\ pc[next_join] # "done"
        BY <2>2, <4>1 DEF ConsumerStops
      <4> QED
        BY <4>1, <4>2
    <3>4. CASE pc'[Listener] = pc[Listener] /\ UNCHANGED <<next_join, joined>>
      <4>1. pc[Listener] = "await" /\ next_join' = next_join /\ next_join \in Consumer
        BY <2>2, <2>6, <3>4 DEF ListenerStops
      <4>2. Empties(next_join, q)
        BY <2>6, <4>1
      <4>3. ASSUME NEW c \in Consumer, c = next_join
            PROVE  /\ pc'[c] = "done" => m_events'[q] = <<>>
                   /\ InPass(c)' /\ final'[c] /\ OwnerStage(q) < stage'[c] => m_events'[q] = <<>>
        BY <2>1, <2>2, <4>1, <4>2, <4>3, LastPass
      <4> QED
        BY <4>1, <4>3 DEF InPass
    <3> QED
      BY <1>2, <2>1, <3>1, <3>2, <3>3, <3>4, JoinMoves
  <2> QED
    BY <2>5, <2>6 DEF DrainInv, Empties, Owner, LinkTable, OwnerStage
<1> QED
  BY <1>1, <1>2

\* Initially nobody stops.
LEMMA InitStops == Init => StopInv /\ DrainInv
<1> SUFFICES ASSUME Init PROVE StopInv /\ DrainInv
  OBVIOUS
<1>1. /\ pc[Listener] = "test" /\ pc[User] = "free" /\ \A c \in Consumer : pc[c] = "off"
      /\ m_running[Listener] /\ \A c \in Consumer : ~ m_running[c]
      /\ joined = {} /\ next_join = 1
  BY ThreadFacts DEF Init
<1>2. ListenerStops
  BY <1>1 DEF ListenerStops, Stopping
<1>3. \A c \in Consumer : ConsumerStops(c)
  BY <1>1 DEF ConsumerStops, Calling
<1> QED
  BY <1>1, <1>2, <1>3 DEF StopInv, DrainInv

\* EventListener::join: when the listener thread ends, the consumers that it
\* found running have emptied their queues, whatever ran in between.
THEOREM JoinDrains == Spec => []DrainedAtJoin
<1>1. Init => LinksOK
  BY DEF Init, LinksOK
<1>2. DrainInv => DrainedAtJoin
  BY DEF DrainInv, DrainedAtJoin
<1> QED
  BY <1>1, <1>2, InitStops, InitType, TypeStep, LinksStep, StopStep, DrainStep, PTL DEF Spec
------------------------------------------------------------------------------
(* The size of m_disconnected_queue *)

\* The threads between the size test and the push.
Pushers ==
    {t \in Thread : \/ pc[t] = "tell_push"
                    \/ t = Listener /\ pc[t] = "push" /\ job[t].q = Disconnected}

\* Each of them found the queue within its limit, and there are no more of them
\* than threads.
RoomInv ==
    MaxQueueSize > 0 =>
        Len(m_events[Disconnected]) + Cardinality(Pushers) <= MaxQueueSize + Cardinality(Thread)

LEMMA ThreadFinite ==
    /\ IsFiniteSet(Thread) /\ Cardinality(Thread) \in Nat
    /\ \A P \in SUBSET Thread : /\ IsFiniteSet(P) /\ Cardinality(P) \in Nat
                                /\ Cardinality(P) <= Cardinality(Thread)
<1>1. IsFiniteSet(Thread)
  BY FS_Interval, CountAssumption DEF Thread
<1> QED
  BY <1>1, FS_Subset, FS_CardinalityType

\* A thread that is about to push for tell_disconnected tested the queue before.
LEMMA ToldAfterTest ==
    ASSUME TypeOK, [Next]_vars, NEW t \in Thread, pc'[t] = "tell_push"
    PROVE  /\ pc[t] = "tell_push" \/ (TellCheck(t) /\ ~ IsFull(Disconnected))
           /\ ~ TellPush(t)
<1>1. /\ pc \in [Thread -> Label] /\ t \in Thread
      /\ Listener \in Thread /\ User \in Thread /\ Consumer \subseteq Thread
      /\ \A u \in Thread : job[u].ret # "tell_push"
  BY ThreadFacts DEF TypeOK, ControlOK, DataOK, Job
<1>2. ASSUME NEW u \in Thread, NEW l, Goto(u, l), l # "tell_push" PROVE pc[t] = "tell_push" /\ u # t
  BY <1>1, <1>2 DEF Goto
<1>3. ASSUME NEW u \in Thread, NEW cn, NEW l, Disconnect(u, cn, l), l # "tell_push"
      PROVE  pc[t] = "tell_push"
  BY <1>2, <1>3 DEF Disconnect
<1>4. ASSUME NEW u \in Thread, TellPush(u) PROVE pc[t] = "tell_push" /\ u # t
  BY <1>1, <1>2, <1>4 DEF TellPush
<1>5. ~ TellPush(t)
  BY <1>4
<1> SUFFICES pc[t] = "tell_push" \/ (TellCheck(t) /\ ~ IsFull(Disconnected))
  BY <1>5
<1>6. ASSUME NEW u \in Thread, TellCheck(u)
      PROVE  pc[t] = "tell_push" \/ (TellCheck(t) /\ ~ IsFull(Disconnected))
  <2>1. CASE IsFull(Disconnected)
    BY <1>1, <1>2, <1>6, <2>1 DEF TellCheck
  <2>2. CASE ~ IsFull(Disconnected) /\ u # t
    BY <1>1, <1>6, <2>2 DEF TellCheck, Goto
  <2> QED
    BY <1>6, <2>1, <2>2
<1>7. ASSUME NEW u \in Thread, NEW w \in Thread, NEW l,
             pc' = [pc EXCEPT ![u] = l, ![w] = "off"], l # "tell_push"
      PROVE  pc[t] = "tell_push"
  BY <1>1, <1>7
<1>8. CASE ListenerStep
  <2>1. CASE LoopTest \/ EndBatch \/ ConnectReturn \/ EndRead \/ SafeDisconnect
             \/ PushQueue(Listener) \/ CloseDone \/ Release
    BY <1>1, <1>2, <2>1 DEF LoopTest, EndBatch, ConnectReturn, EndRead, SafeDisconnect,
                            PushQueue, CloseDone, Release
  <2>2. CASE CheckQueue(Listener)
    <3>1. CASE IsFull(job[Listener].q) /\ job[Listener].q \in Name
      BY <1>1, <1>2, <2>2, <3>1 DEF CheckQueue
    <3>2. CASE IsFull(job[Listener].q) /\ job[Listener].q \notin Name
      BY <1>1, <1>2, <2>2, <3>2 DEF CheckQueue
    <3>3. CASE ~ IsFull(job[Listener].q)
      BY <1>1, <1>2, <2>2, <3>3 DEF CheckQueue
    <3> QED
      BY <3>1, <3>2, <3>3
  <2>3. CASE Notify
    BY <1>1, <1>2, <2>3 DEF Notify
  <2>4. ASSUME NEW cn \in Internal, CloseInternal(cn) PROVE pc[t] = "tell_push"
    BY <1>1, <1>3, <2>4 DEF CloseInternal
  <2>5. CASE JoinNext
    <3>1. CASE m_running[next_join]
      BY <1>1, <1>2, <2>5, <3>1 DEF JoinNext
    <3> QED
      BY <2>5, <3>1 DEF JoinNext
  <2>6. CASE Joined
    <3>1. next_join \in Thread
      BY <2>6, JoinedFacts, ThreadFacts DEF Joined
    <3> QED
      BY <1>1, <1>7, <2>6, <3>1 DEF Joined
  <2> QED
    BY <1>1, <1>4, <1>6, <1>8, <2>1, <2>2, <2>3, <2>4, <2>5, <2>6 DEF ListenerStep
<1>9. CASE Network
  BY <1>1, <1>2, <1>9 DEF Network, Accept, CloseConnection, PickEvent, CloseServer
<1>10. ASSUME NEW c \in Consumer, ConsumerStep(c)
       PROVE  pc[t] = "tell_push" \/ (TellCheck(t) /\ ~ IsFull(Disconnected))
  <2>1. CASE NextQueue(c)
    BY <2>1 DEF NextQueue
  <2>2. CASE ConsumerTest(c)
    <3>1. CASE m_running[c]
      BY <1>1, <1>2, <2>2, <3>1 DEF ConsumerTest
    <3>2. CASE ~ m_running[c]
      BY <1>1, <1>2, <2>2, <3>2 DEF ConsumerTest
    <3> QED
      BY <3>1, <3>2
  <2>3. CASE WakeUp(c) \/ TimeOut(c) \/ Pop(c) \/ CallbackReturn(c)
    BY <1>1, <1>2, <2>3 DEF WakeUp, TimeOut, Pop, CallbackReturn
  <2>4. CASE EndPass(c)
    BY <1>1, <1>2, <2>4 DEF EndPass
  <2> QED
    BY <1>1, <1>4, <1>6, <1>10, <2>1, <2>2, <2>3, <2>4 DEF ConsumerStep
<1>11. CASE JoinReturn
  <2>1. waiting_for \in Thread
    BY ThreadFacts DEF TypeOK, DataOK
  <2> QED
    BY <1>1, <1>7, <1>11, <2>1 DEF JoinReturn
<1>12. CASE Application
  <2>1. CASE Refuse
    BY <1>1, <1>3, <2>1 DEF Refuse
  <2>2. ASSUME NEW c \in Consumer, NEW cn \in Conn, CallbackDisconnect(c, cn)
        PROVE  pc[t] = "tell_push"
    BY <1>1, <1>3, <2>2 DEF CallbackDisconnect
  <2>3. ASSUME NEW cn \in External, UserDisconnect(cn) PROVE pc[t] = "tell_push"
    BY <1>1, <1>3, <2>3 DEF UserDisconnect
  <2>4. ASSUME NEW c \in Consumer, RunConsumer(c) PROVE pc[t] = "tell_push"
    BY <1>1, <1>2, <2>4 DEF RunConsumer
  <2>5. ASSUME NEW u \in Consumer \cup {Listener}, JoinThread(u) PROVE pc[t] = "tell_push"
    BY <1>1, <1>2, <2>5 DEF JoinThread
  <2> QED
    BY <1>12, <2>1, <2>2, <2>3, <2>4, <2>5 DEF Application
<1>13. CASE Crash \/ UNCHANGED vars
  BY <1>1, <1>13 DEF Crash, vars
<1>14. CASE UserStep
  BY <1>1, <1>4, <1>6, <1>11, <1>14 DEF UserStep
<1> QED
  BY <1>8, <1>9, <1>10, <1>12, <1>13, <1>14 DEF Next

\* Every step leaves room for those who push.
LEMMA RoomStep == TypeOK /\ RoomInv /\ [Next]_vars => RoomInv'
<1> SUFFICES ASSUME TypeOK, RoomInv, [Next]_vars, MaxQueueSize > 0
             PROVE  Len(m_events'[Disconnected]) + Cardinality(Pushers')
                      <= MaxQueueSize + Cardinality(Thread)
  BY DEF RoomInv
<1> DEFINE len == Len(m_events[Disconnected])
           len1 == Len(m_events'[Disconnected])
           all == Cardinality(Thread)
           some == Cardinality(Pushers)
           some1 == Cardinality(Pushers')
<1>1. /\ Disconnected \in Queue /\ m_events[Disconnected] \in Seq(Item)
      /\ len \in Nat /\ len1 \in Nat /\ MaxQueueSize \in Nat
  <2>1. TypeOK'
    BY TypeStep
  <2>2. Disconnected \in Queue
    BY QueueFacts
  <2> QED
    BY <2>1, <2>2, CountAssumption, QueueLength, LenProperties DEF TypeOK, DataOK
<1>2. /\ Pushers \subseteq Thread /\ Pushers' \subseteq Thread
      /\ all \in Nat /\ some \in Nat /\ some1 \in Nat /\ some1 <= all
  <2>1. Pushers \in SUBSET Thread /\ Pushers' \in SUBSET Thread
    BY DEF Pushers
  <2> QED
    BY <2>1, ThreadFinite
<1>3. len + some <= MaxQueueSize + all
  BY DEF RoomInv
<1> SUFFICES len1 + some1 <= MaxQueueSize + all
  OBVIOUS
<1> HIDE DEF some, some1, len, len1, all
<1>4. ASSUME NEW t \in Pushers', t \notin Pushers
      PROVE  len1 + some1 <= MaxQueueSize + all
  <2>1. t \in Thread
    BY <1>2
  <2>2. ~ IsFull(Disconnected) /\ m_events' = m_events
    <3>1. CASE pc'[t] = "tell_push"
      <4>1. TellCheck(t) /\ ~ IsFull(Disconnected)
        BY <1>4, <2>1, <3>1, ToldAfterTest DEF Pushers
      <4> QED
        BY <4>1 DEF TellCheck
    <3>2. CASE t = Listener /\ pc'[t] = "push" /\ job'[t].q = Disconnected
      <4>1. CheckQueue(Listener) /\ ~ IsFull(Disconnected)
        BY <1>4, <3>2, TestedBefore, ThreadFacts DEF Pushers
      <4> QED
        BY <4>1 DEF CheckQueue
    <3> QED
      BY <1>4, <3>1, <3>2 DEF Pushers
  <2>3. len1 = len /\ len <= MaxQueueSize
    BY <1>1, <2>2 DEF IsFull, len, len1
  <2> QED
    BY <1>1, <1>2, <2>3
<1>5. ASSUME NEW t \in Pushers, t \notin Pushers', Pushers' \subseteq Pushers
      PROVE  some1 + 1 <= some
  <2>1. IsFiniteSet(Pushers)
    BY <1>2, ThreadFinite
  <2>2. IsFiniteSet(Pushers \ {t}) /\ Cardinality(Pushers \ {t}) = some - 1
    BY <2>1, FS_RemoveElement DEF some
  <2>3. Pushers' \in SUBSET (Pushers \ {t})
    BY <1>5
  <2>4. some1 <= some - 1
    BY <2>2, <2>3, FS_Subset DEF some1
  <2> QED
    BY <1>2, <2>4
<1>6. CASE Pushers' \subseteq Pushers
  <2>1. some1 <= some
    <3>1. IsFiniteSet(Pushers) /\ Pushers' \in SUBSET Pushers
      BY <1>2, <1>6, ThreadFinite
    <3> QED
      BY <3>1, FS_Subset DEF some, some1
  <2>2. CASE Kept(Disconnected)
    <3>1. len1 = len
      BY <2>2 DEF Kept, len, len1
    <3> QED
      BY <1>1, <1>2, <1>3, <2>1, <3>1
  <2>3. ASSUME NEW c \in Consumer, Pop(c), StageQueue(stage[c]) = Disconnected
        PROVE  len1 + some1 <= MaxQueueSize + all
    <3>1. m_events[Disconnected] # <<>> /\ m_events'[Disconnected] = Tail(m_events[Disconnected])
      BY <2>3, Popped
    <3>2. Len(m_events'[Disconnected]) = Len(m_events[Disconnected]) - 1
      BY <1>1, <3>1, HeadTailProperties
    <3>3. len1 = len - 1
      BY <3>2 DEF len, len1
    <3> QED
      BY <1>1, <1>2, <1>3, <2>1, <3>3
  <2>4. ASSUME NEW t \in Thread, NEW x \in Item, t \in Pushers, t \notin Pushers',
               m_events'[Disconnected] = Append(m_events[Disconnected], x)
        PROVE  len1 + some1 <= MaxQueueSize + all
    <3>1. len1 = len + 1
      <4>1. Len(m_events'[Disconnected]) = Len(m_events[Disconnected]) + 1
        BY <1>1, <2>4, AppendProperties
      <4> QED
        BY <4>1 DEF len, len1
    <3>2. some1 + 1 <= some
      BY <1>5, <1>6, <2>4
    <3> QED
      BY <1>1, <1>2, <1>3, <3>1, <3>2
  <2>5. CASE PushQueue(Listener) /\ job[Listener].q = Disconnected
    <3>1. /\ job[Listener].item \in Item /\ pc[Listener] = "push" /\ pc'[Listener] = "notify"
          /\ m_events'[Disconnected] = Append(m_events[Disconnected], job[Listener].item)
      BY <2>5, Pushed
    <3>2. Listener \in Pushers /\ Listener \notin Pushers'
      BY <2>5, <3>1, ThreadFacts DEF Pushers
    <3> QED
      BY <2>4, <3>1, <3>2, ThreadFacts
  <2>6. ASSUME NEW t \in Thread, TellPush(t) PROVE len1 + some1 <= MaxQueueSize + all
    <3>1. /\ job[t].item \in Item /\ pc[t] = "tell_push" /\ pc' = [pc EXCEPT ![t] = job[t].ret]
          /\ m_events'[Disconnected] = Append(m_events[Disconnected], job[t].item)
      BY <2>6, Told
    <3>2. job[t].ret \notin {"tell_push", "push"}
      BY DEF TypeOK, DataOK, Job
    <3>3. t \in Pushers /\ t \notin Pushers'
      BY <3>1, <3>2 DEF Pushers, TypeOK, ControlOK
    <3> QED
      BY <2>4, <3>1, <3>3
  <2> QED
    BY <1>1, <2>2, <2>3, <2>5, <2>6, QueueChange
<1> QED
  BY <1>4, <1>6

\* tell_disconnected from every thread that disconnects: each of them may have
\* tested the size before the others pushed, so that m_disconnected_queue passes
\* its limit by the number of threads at most.
THEOREM DisconnectionsLimited == Spec => []DisconnectedLimit
<1>1. ASSUME Init PROVE RoomInv
  <2>1. m_events[Disconnected] = <<>> /\ Len(<<>>) = 0
    BY <1>1, QueueFacts, EmptySeq DEF Init
  <2>2. Pushers \in SUBSET Thread
    BY DEF Pushers
  <2> QED
    BY <2>1, <2>2, ThreadFinite, CountAssumption DEF RoomInv
<1>2. TypeOK /\ RoomInv => DisconnectedLimit
  <2> SUFFICES ASSUME TypeOK, RoomInv, MaxQueueSize > 0
               PROVE  Len(m_events[Disconnected]) <= MaxQueueSize + Cardinality(Thread)
    BY DEF DisconnectedLimit
  <2>1. Pushers \in SUBSET Thread
    BY DEF Pushers
  <2>2. Cardinality(Pushers) \in Nat /\ Cardinality(Thread) \in Nat /\ MaxQueueSize \in Nat
        /\ Len(m_events[Disconnected]) \in Nat
    BY <2>1, ThreadFinite, CountAssumption, QueueLength, QueueFacts
  <2>3. Len(m_events[Disconnected]) + Cardinality(Pushers) <= MaxQueueSize + Cardinality(Thread)
    BY DEF RoomInv
  <2> QED
    BY <2>2, <2>3
<1> QED
  BY <1>1, <1>2, InitType, TypeStep, RoomStep, PTL DEF Spec
------------------------------------------------------------------------------
(* Who carries a disconnection *)

\* Thread t has taken a connection out and has still to push its disconnection.
Carry(t) == /\ pc[t] \in {"closing", "check", "push", "tell_check", "tell_push"}
            /\ job[t].q = Disconnected

\* The code between a lookup and its push is only entered for a disconnection,
\* and on_connect is called with a connection.
TellsOK == \A t \in Thread :
    /\ pc[t] \in {"closing", "tell_check", "tell_push"} => job[t].q = Disconnected
    /\ pc[t] \in {"connect", "tell_check", "tell_push"} => job[t].item.cn \in Conn

\* Thread t goes on carrying, or not carrying, what it did.
Unmoved(t) == (Carry(t)' <=> Carry(t)) /\ (Carry(t) => job'[t].item = job[t].item)

Others(t) == \A u \in Thread : u # t => Unmoved(u)

\* A step puts connection cn in the hands of thread t.
Begins(t, cn) ==
    /\ ~ Carry(t) /\ Carry(t)' /\ Others(t)
    /\ job'[t].item = [cn |-> cn, seq |-> 0]
    /\ cn \in internal \cup External
    /\ internal' = internal \ {cn} /\ accepted' = accepted /\ open' = open
    /\ Kept(Disconnected) /\ lost' = lost

\* A step takes what thread t carries out of its hands: into the queue, or away.
Pushes(t) ==
    /\ Carry(t) /\ ~ Carry(t)' /\ Others(t)
    /\ job[t].item \in Item
    /\ m_events'[Disconnected] = Append(m_events[Disconnected], job[t].item)
    /\ handled'[Disconnected] = handled[Disconnected] /\ lost' = lost

Drops(t) ==
    /\ Carry(t) /\ ~ Carry(t)' /\ Others(t)
    /\ job[t].item \in Item
    /\ Kept(Disconnected) /\ lost' = lost \cup {<<Disconnected, job[t].item>>}

\* A consumer with on_disconnect takes the head of the queue.
Serving ==
    /\ \A t \in Thread : Unmoved(t)
    /\ m_events[Disconnected] # <<>>
    /\ m_events'[Disconnected] = Tail(m_events[Disconnected])
    /\ handled'[Disconnected] = Append(handled[Disconnected], Head(m_events[Disconnected]))
    /\ lost' = lost

\* Nothing of this.
Quiet ==
    /\ \A t \in Thread : Unmoved(t)
    /\ Kept(Disconnected)
    /\ \/ lost' = lost
       \/ \E l \in Queue \X Item : l[1] # Disconnected /\ lost' = lost \cup {l}

\* The maps change when a connection is put in the hands of a thread, when one
\* is accepted, and at the end of run_imp; an external connection is only closed
\* by a thread that carries its disconnection.
Account ==
    /\ \/ \E t \in Thread, cn \in Conn : Begins(t, cn)
       \/ /\ Quiet \/ Serving \/ \E t \in Thread : Pushes(t) \/ Drops(t)
          /\ accepted' = accepted /\ internal' = internal
       \/ Quiet /\ Release
       \/ Quiet /\ \E cn \in Internal \ accepted : /\ accepted' = accepted \cup {cn}
                                                   /\ internal' = internal \cup {cn}
    /\ \A cn \in External \cap open :
           cn \in open' \/ \E t \in Thread : Carry(t) /\ job[t].item.cn = cn

\* A thread whose program point and job stay as they are is unmoved.
LEMMA StaysUnmoved ==
    ASSUME NEW t \in Thread, pc'[t] = pc[t], job'[t] = job[t]
    PROVE  Unmoved(t)
BY DEF Unmoved, Carry

\* So is one that neither carries before nor after.
LEMMA IdleUnmoved ==
    ASSUME NEW t \in Thread, ~ Carry(t), ~ Carry(t)'
    PROVE  Unmoved(t)
BY DEF Unmoved

\* Disconnect takes a managed connection out, and leaves the others alone.
LEMMA DisconnectAccount ==
    ASSUME TypeOK, NEW t \in Thread, NEW cn \in Conn, NEW l,
           pc[t] \in {"connect", "close", "call", "free"}, l = pc[t],
           Disconnect(t, cn, l), accepted' = accepted, m_events' = m_events,
           handled' = handled, lost' = lost
    PROVE  \/ Begins(t, cn) /\ Managed(cn)
           \/ Quiet /\ ~ Managed(cn) /\ internal' = internal /\ open' = open \ {cn} /\ job' = job
<1>1. pc \in [Thread -> Label] /\ job \in [Thread -> Job]
  BY DEF TypeOK, ControlOK, DataOK
<1>2. \A u \in Thread : u # t => pc'[u] = pc[u] /\ job'[u] = job[u]
  BY <1>1 DEF Disconnect, Goto
<1>3. Others(t)
  BY <1>2, StaysUnmoved DEF Others
<1>4. ~ Carry(t)
  BY DEF Carry
<1>5. CASE Managed(cn)
  <2>1. /\ pc'[t] = "tell_check" /\ job'[t].q = Disconnected
        /\ job'[t].item = [cn |-> cn, seq |-> 0]
        /\ internal' = internal \ {cn} /\ open' = open
    BY <1>1, <1>5 DEF Disconnect, Goto
  <2>2. Carry(t)'
    BY <2>1 DEF Carry
  <2>3. cn \in internal \cup External
    BY <1>5 DEF Managed
  <2> QED
    BY <1>3, <1>4, <1>5, <2>1, <2>2, <2>3 DEF Begins, Kept
<1>6. CASE ~ Managed(cn)
  <2>1. pc'[t] = pc[t] /\ job' = job /\ internal' = internal /\ open' = open \ {cn}
    BY <1>1, <1>6 DEF Disconnect, Goto
  <2>2. Unmoved(t)
    BY <2>1, StaysUnmoved
  <2> QED
    BY <1>3, <1>6, <2>1, <2>2 DEF Quiet, Others, Kept
<1> QED
  BY <1>5, <1>6

\* tell_disconnected pushes what its thread carries, drops it, or goes on.
LEMMA TellAccount ==
    ASSUME TypeOK, TellsOK, NEW t \in Thread, TellCheck(t) \/ TellPush(t)
    PROVE  /\ Quiet \/ Pushes(t) \/ Drops(t)
           /\ Carry(t) /\ internal' = internal /\ accepted' = accepted
           /\ open' = open \/ open' = open \ {job[t].item.cn}
<1>1. /\ pc \in [Thread -> Label] /\ job[t] \in Job /\ job[t].item \in Item /\ job' = job
      /\ Disconnected \in Queue /\ m_events \in [Queue -> Seq(Item)]
  BY QueueFacts DEF TypeOK, ControlOK, DataOK, Job, TellCheck, TellPush
<1>2. Carry(t)
  BY DEF TellsOK, TellCheck, TellPush, Carry
<1>3. Others(t)
  <2>1. \A u \in Thread : u # t => pc'[u] = pc[u]
    BY <1>1 DEF TellCheck, TellPush, Goto
  <2> QED
    BY <1>1, <2>1, StaysUnmoved DEF Others
<1>4. job[t].ret \notin {"closing", "check", "push", "tell_check", "tell_push"}
  BY <1>1 DEF Job
<1>5. CASE TellPush(t)
  <2>1. pc'[t] = job[t].ret
    BY <1>1, <1>5 DEF TellPush, Goto
  <2>2. ~ Carry(t)'
    BY <1>4, <2>1 DEF Carry
  <2>3. /\ m_events'[Disconnected] = Append(m_events[Disconnected], job[t].item)
        /\ handled' = handled /\ lost' = lost
        /\ internal' = internal /\ accepted' = accepted /\ open' = open \ {job[t].item.cn}
    BY <1>1, <1>5 DEF TellPush
  <2> QED
    BY <1>1, <1>2, <1>3, <2>2, <2>3 DEF Pushes
<1>6. CASE TellCheck(t) /\ IsFull(Disconnected)
  <2>1. pc'[t] = job[t].ret
    BY <1>1, <1>6 DEF TellCheck, Goto
  <2>2. ~ Carry(t)'
    BY <1>4, <2>1 DEF Carry
  <2>3. /\ m_events' = m_events /\ handled' = handled
        /\ lost' = lost \cup {<<Disconnected, job[t].item>>}
        /\ internal' = internal /\ accepted' = accepted /\ open' = open \ {job[t].item.cn}
    BY <1>6 DEF TellCheck
  <2> QED
    BY <1>1, <1>2, <1>3, <2>2, <2>3 DEF Drops, Kept
<1>7. CASE TellCheck(t) /\ ~ IsFull(Disconnected)
  <2>1. pc'[t] = "tell_push"
    BY <1>1, <1>7 DEF TellCheck, Goto
  <2>2. Unmoved(t)
    BY <1>1, <1>2, <2>1 DEF Carry, Unmoved
  <2>3. /\ m_events' = m_events /\ handled' = handled /\ lost' = lost
        /\ internal' = internal /\ accepted' = accepted /\ open' = open
    BY <1>7 DEF TellCheck
  <2> QED
    BY <1>2, <1>3, <2>2, <2>3 DEF Quiet, Others, Kept
<1> QED
  BY <1>5, <1>6, <1>7

\* What makes a step of disconnect() or tell_disconnected account for itself.
LEMMA Accounted ==
    ASSUME TypeOK, TellsOK, NEW t \in Thread,
           \/ TellCheck(t) \/ TellPush(t)
           \/ /\ \E cn \in Conn : Disconnect(t, cn, pc[t])
              /\ pc[t] \in {"connect", "close", "call", "free"}
              /\ accepted' = accepted /\ m_events' = m_events
              /\ handled' = handled /\ lost' = lost
    PROVE  Account
<1>1. CASE TellCheck(t) \/ TellPush(t)
  BY <1>1, TellAccount DEF Account
<1>2. ASSUME NEW cn \in Conn, Disconnect(t, cn, pc[t]),
             pc[t] \in {"connect", "close", "call", "free"},
             accepted' = accepted, m_events' = m_events, handled' = handled, lost' = lost
      PROVE  Account
  <2>1. CASE Begins(t, cn)
    BY <2>1 DEF Account, Begins
  <2>2. CASE /\ Quiet /\ ~ Managed(cn) /\ internal' = internal
             /\ open' = open \ {cn} /\ job' = job
    BY <1>2, <2>2 DEF Account, Managed
  <2> QED
    BY <1>2, <2>1, <2>2, DisconnectAccount
<1> QED
  BY <1>1, <1>2

\* A step that changes neither the queue nor the maps, and closes nothing, has
\* only to say that nobody moved.
LEMMA QuietAccount ==
    ASSUME \A t \in Thread : Unmoved(t), m_events' = m_events, handled' = handled,
           lost' = lost, accepted' = accepted, internal' = internal, open' = open
    PROVE  Account
BY DEF Account, Quiet, Kept

\* A move of the listener between points where it carries nothing.
LEMMA IdleMove ==
    ASSUME TypeOK, NEW t \in Thread, NEW l,
           l \notin {"closing", "check", "push", "tell_check", "tell_push"},
           ~ Carry(t), Goto(t, l), job' = job
    PROVE  \A u \in Thread : Unmoved(u)
<1>1. pc'[t] = l /\ \A u \in Thread : u # t => pc'[u] = pc[u]
  BY DEF Goto, TypeOK, ControlOK
<1>2. Unmoved(t)
  BY <1>1, IdleUnmoved DEF Carry
<1> QED
  BY <1>1, <1>2, StaysUnmoved

\* So does the end of a join, which moves two threads.
LEMMA IdlePair ==
    ASSUME TypeOK, NEW t \in Thread, NEW u \in Thread, NEW l,
           l \notin {"closing", "check", "push", "tell_check", "tell_push"},
           ~ Carry(t), ~ Carry(u), pc' = [pc EXCEPT ![t] = l, ![u] = "off"], job' = job
    PROVE  \A w \in Thread : Unmoved(w)
<1>1. /\ pc'[t] \in {l, "off"} /\ pc'[u] = "off"
      /\ \A w \in Thread \ {t, u} : pc'[w] = pc[w]
  BY DEF TypeOK, ControlOK
<1>2. ~ Carry(t)' /\ ~ Carry(u)'
  BY <1>1 DEF Carry
<1> QED
  BY <1>1, <1>2, StaysUnmoved, IdleUnmoved

\* The listener thread accounts for each of its steps.
LEMMA ListenerAccount ==
    ASSUME TypeOK, TellsOK, ListenerStep PROVE Account
<1>1. /\ pc \in [Thread -> Label] /\ job[Listener] \in Job /\ job[Listener].item \in Item
      /\ Listener \in Thread /\ Disconnected \in Queue /\ Disconnected \notin Name
      /\ m_events \in [Queue -> Seq(Item)]
  BY ThreadFacts, QueueFacts DEF TypeOK, ControlOK, DataOK, Job
<1>2. CASE TellCheck(Listener) \/ TellPush(Listener)
  BY <1>1, <1>2, Accounted
<1>3. ASSUME NEW cn \in Internal, CloseInternal(cn) PROVE Account
  BY <1>1, <1>3, Accounted DEF CloseInternal, Conn
<1>4. CASE LoopTest
  <2>1. ~ Carry(Listener)
    BY <1>4 DEF LoopTest, Carry
  <2>2. PICK l \in {"batch", "close"} : Goto(Listener, l)
    BY <1>4 DEF LoopTest
  <2> QED
    BY <1>1, <1>4, <2>1, <2>2, IdleMove, QuietAccount DEF LoopTest
<1>5. CASE EndBatch \/ ConnectReturn \/ EndRead \/ CloseDone
  <2>1. ~ Carry(Listener)
    BY <1>5 DEF EndBatch, ConnectReturn, EndRead, CloseDone, Carry
  <2>2. PICK l \in {"test", "batch", "join"} : Goto(Listener, l)
    BY <1>5 DEF EndBatch, ConnectReturn, EndRead, CloseDone
  <2> QED
    BY <1>1, <1>5, <2>1, <2>2, IdleMove, QuietAccount
    DEF EndBatch, ConnectReturn, EndRead, CloseDone
<1>6. CASE Release
  <2>1. ~ Carry(Listener) /\ Goto(Listener, "done") /\ job' = job
    BY <1>6 DEF Release, Carry
  <2>2. Quiet
    BY <1>1, <1>6, <2>1, IdleMove DEF Release, Quiet, Kept
  <2> QED
    BY <1>6, <2>2 DEF Account, Release
<1>7. CASE Notify
  <2>1. ~ Carry(Listener) /\ Goto(Listener, job[Listener].ret) /\ job' = job
    BY <1>7 DEF Notify, Carry
  <2>2. job[Listener].ret \notin {"closing", "check", "push", "tell_check", "tell_push"}
    BY <1>1 DEF Job
  <2> QED
    BY <1>1, <1>7, <2>1, <2>2, IdleMove, QuietAccount DEF Notify
<1>8. CASE JoinNext
  <2>1. ~ Carry(Listener) /\ job' = job
    BY <1>8 DEF JoinNext, Carry
  <2>2. CASE m_running[next_join]
    <3>1. Goto(Listener, "await")
      BY <1>8, <2>2 DEF JoinNext
    <3> QED
      BY <1>1, <1>8, <2>1, <3>1, IdleMove, QuietAccount DEF JoinNext
  <2>3. CASE ~ m_running[next_join]
    <3>1. \A t \in Thread : Unmoved(t)
      BY <1>8, <2>1, <2>3, StaysUnmoved DEF JoinNext
    <3> QED
      BY <1>8, <3>1, QuietAccount DEF JoinNext
  <2> QED
    BY <2>2, <2>3
<1>9. CASE Joined
  <2>1. /\ pc[Listener] = "await" /\ pc[next_join] = "done" /\ job' = job
        /\ pc' = [pc EXCEPT ![Listener] = "join", ![next_join] = "off"]
        /\ next_join \in Thread
    BY <1>9, JoinedFacts, ThreadFacts DEF Joined
  <2>2. ~ Carry(Listener) /\ ~ Carry(next_join)
    BY <2>1 DEF Carry
  <2>3. \A t \in Thread : Unmoved(t)
    BY <1>1, <2>1, <2>2, IdlePair
  <2> QED
    BY <1>9, <2>3, QuietAccount DEF Joined
<1>10. CASE SafeDisconnect
  <2>1. /\ pc'[Listener] = "check" /\ \A t \in Thread : t # Listener => pc'[t] = pc[t]
        /\ job' = job /\ Carry(Listener) /\ open' = open \ {job[Listener].item.cn}
    BY <1>1, <1>10 DEF SafeDisconnect, Goto, Carry, TellsOK
  <2>2. Unmoved(Listener)
    BY <1>1, <2>1 DEF Unmoved, Carry
  <2>3. \A t \in Thread : Unmoved(t)
    BY <2>1, <2>2, StaysUnmoved
  <2>4. Quiet /\ accepted' = accepted /\ internal' = internal
    BY <1>10, <2>3 DEF SafeDisconnect, Quiet, Kept
  <2> QED
    BY <1>1, <2>1, <2>4 DEF Account
<1>11. CASE PushQueue(Listener)
  <2>1. /\ pc[Listener] = "push" /\ pc'[Listener] = "notify" /\ job' = job
        /\ \A t \in Thread : t # Listener => pc'[t] = pc[t]
        /\ accepted' = accepted /\ internal' = internal /\ open' = open /\ lost' = lost
        /\ handled' = handled
        /\ m_events' = [m_events EXCEPT ![job[Listener].q]
                                          = Append(m_events[job[Listener].q], job[Listener].item)]
    BY <1>1, <1>11 DEF PushQueue, Goto
  <2>2. Others(Listener) /\ ~ Carry(Listener)'
    BY <2>1, StaysUnmoved DEF Others, Carry
  <2>3. CASE job[Listener].q = Disconnected
    <3>1. Pushes(Listener)
      BY <1>1, <2>1, <2>2, <2>3 DEF Pushes, Carry
    <3> QED
      BY <1>1, <2>1, <3>1 DEF Account
  <2>4. CASE job[Listener].q # Disconnected
    <3>1. \A t \in Thread : Unmoved(t)
      BY <2>1, <2>2, <2>4, IdleUnmoved DEF Carry, Others
    <3>2. Kept(Disconnected)
      BY <1>1, <2>1, <2>4 DEF Kept
    <3> QED
      BY <2>1, <3>1, <3>2 DEF Account, Quiet
  <2> QED
    BY <2>3, <2>4
<1>12. CASE CheckQueue(Listener)
  <2>1. /\ pc[Listener] = "check" /\ job' = job /\ m_events' = m_events /\ handled' = handled
        /\ \A t \in Thread : t # Listener => pc'[t] = pc[t]
        /\ accepted' = accepted /\ internal' = internal /\ open' = open
    BY <1>1, <1>12 DEF CheckQueue, Goto
  <2>2. Others(Listener)
    BY <2>1, StaysUnmoved DEF Others
  <2>3. CASE ~ IsFull(job[Listener].q)
    <3>1. pc'[Listener] = "push" /\ lost' = lost
      BY <1>1, <1>12, <2>3 DEF CheckQueue, Goto
    <3>2. Unmoved(Listener)
      BY <2>1, <3>1 DEF Unmoved, Carry
    <3> QED
      BY <2>1, <2>2, <3>1, <3>2, QuietAccount DEF Others
  <2>4. CASE IsFull(job[Listener].q) /\ job[Listener].q = Disconnected
    <3>1. pc'[Listener] = "notify" /\ lost' = lost \cup {<<Disconnected, job[Listener].item>>}
      BY <1>1, <1>12, <2>4 DEF CheckQueue, Goto
    <3>2. Drops(Listener)
      BY <1>1, <2>1, <2>2, <2>4, <3>1 DEF Drops, Carry, Kept
    <3> QED
      BY <1>1, <2>1, <3>2 DEF Account
  <2>5. CASE IsFull(job[Listener].q) /\ job[Listener].q # Disconnected
    <3>1. lost' = lost \cup {<<job[Listener].q, job[Listener].item>>}
      BY <1>12, <2>5 DEF CheckQueue
    <3>2. /\ <<job[Listener].q, job[Listener].item>> \in Queue \X Item
          /\ <<job[Listener].q, job[Listener].item>>[1] # Disconnected
      BY <1>1, <2>5 DEF Job
    <3>3. Unmoved(Listener)
      <4>1. ~ Carry(Listener) /\ ~ Carry(Listener)'
        BY <2>1, <2>5 DEF Carry
      <4> QED
        BY <1>1, <4>1, IdleUnmoved
    <3>4. Quiet
      BY <2>1, <2>2, <3>1, <3>2, <3>3 DEF Quiet, Others, Kept
    <3> QED
      BY <2>1, <3>4 DEF Account
  <2> QED
    BY <2>3, <2>4, <2>5
<1> QED
  BY <1>2, <1>3, <1>4, <1>5, <1>6, <1>7, <1>8, <1>9, <1>10, <1>11, <1>12 DEF ListenerStep

\* So does the network.
LEMMA NetworkAccount ==
    ASSUME TypeOK, Network PROVE Account
<1>1. /\ pc \in [Thread -> Label] /\ job \in [Thread -> Job] /\ Listener \in Thread
      /\ Disconnected \in Queue /\ Disconnected \notin Name /\ Disconnected # ServerDisconnected
  BY ThreadFacts, QueueFacts DEF TypeOK, ControlOK, DataOK
<1>2. /\ pc[Listener] \in {"batch", "read"} /\ m_events' = m_events /\ handled' = handled /\ lost' = lost
      /\ \A t \in Thread : t # Listener => pc'[t] = pc[t] /\ job'[t] = job[t]
      /\ open \subseteq open'
  BY <1>1 DEF Network, Accept, CloseConnection, PickEvent, CloseServer, Goto
<1>3. ~ Carry(Listener) /\ Others(Listener)
  <2>1. Others(Listener)
    BY <1>2, StaysUnmoved DEF Others
  <2> QED
    BY <1>2, <2>1 DEF Carry
<1>4. ASSUME ~ Carry(Listener)'
      PROVE  Quiet
  BY <1>1, <1>2, <1>3, <1>4, IdleUnmoved DEF Quiet, Others, Kept
<1>5. ASSUME NEW cn \in Internal, Accept(cn) PROVE Account
  <2>1. ~ Carry(Listener)'
    BY <1>1, <1>5 DEF Accept, Goto, Carry
  <2> QED
    BY <1>2, <1>4, <1>5, <2>1 DEF Account, Accept
<1>6. ASSUME NEW cn \in Conn, CloseConnection(cn) PROVE Account
  <2>1. /\ pc'[Listener] = "closing" /\ job'[Listener].q = Disconnected
        /\ job'[Listener].item = [cn |-> cn, seq |-> 0]
        /\ cn \in internal \cup External /\ internal' = internal \ {cn}
        /\ accepted' = accepted /\ open' = open
    BY <1>1, <1>6 DEF CloseConnection, Goto
  <2>2. Carry(Listener)'
    BY <2>1 DEF Carry
  <2>3. Begins(Listener, cn)
    BY <1>2, <1>3, <2>1, <2>2 DEF Begins, Kept
  <2> QED
    BY <1>1, <1>2, <2>3 DEF Account
<1>7. ASSUME NEW cn \in Conn, NEW n \in Name, PickEvent(cn, n) PROVE Account
  <2>1. job'[Listener].q = n /\ internal' = internal /\ accepted' = accepted
    BY <1>1, <1>7 DEF PickEvent
  <2>2. ~ Carry(Listener)'
    BY <1>1, <2>1 DEF Carry
  <2> QED
    BY <1>2, <1>4, <2>1, <2>2 DEF Account
<1>8. ASSUME NEW s \in Server, CloseServer(s) PROVE Account
  <2>1. job'[Listener].q = ServerDisconnected /\ internal' = internal /\ accepted' = accepted
    BY <1>1, <1>8 DEF CloseServer
  <2>2. ~ Carry(Listener)'
    BY <1>1, <2>1 DEF Carry
  <2> QED
    BY <1>2, <1>4, <2>1, <2>2 DEF Account
<1> QED
  BY <1>5, <1>6, <1>7, <1>8 DEF Network

\* So does a consumer.
LEMMA ConsumerAccount ==
    ASSUME TypeOK, TellsOK, NEW c \in Consumer, ConsumerStep(c) PROVE Account
<1>1. /\ c \in Thread /\ Disconnected \in Queue
      /\ m_events \in [Queue -> Seq(Item)] /\ handled \in [Queue -> Seq(Item)]
  BY ThreadFacts, QueueFacts DEF TypeOK, DataOK
<1>2. CASE TellCheck(c) \/ TellPush(c)
  BY <1>1, <1>2, Accounted
<1>3. CASE NextQueue(c)
  <2>1. pc' = pc /\ job' = job
    BY <1>3 DEF NextQueue
  <2> QED
    BY <1>3, <2>1, StaysUnmoved, QuietAccount DEF NextQueue
<1>4. CASE ConsumerTest(c) \/ WakeUp(c) \/ TimeOut(c) \/ EndPass(c) \/ CallbackReturn(c)
  <2>1. ~ Carry(c) /\ job' = job
    BY <1>4 DEF ConsumerTest, WakeUp, TimeOut, EndPass, CallbackReturn, Carry
  <2>2. PICK l \in {"wait", "drain", "test", "done"} : Goto(c, l)
    BY <1>4 DEF ConsumerTest, WakeUp, TimeOut, EndPass, CallbackReturn
  <2>3. /\ m_events' = m_events /\ handled' = handled /\ lost' = lost
        /\ accepted' = accepted /\ internal' = internal /\ open' = open
    BY <1>4 DEF ConsumerTest, WakeUp, TimeOut, EndPass, CallbackReturn
  <2> QED
    BY <1>1, <2>1, <2>2, <2>3, IdleMove, QuietAccount
<1>5. CASE Pop(c)
  <2>1. ~ Carry(c) /\ job' = job /\ Goto(c, "call")
    BY <1>5 DEF Pop, Carry
  <2>2. \A t \in Thread : Unmoved(t)
    BY <1>1, <2>1, IdleMove
  <2>3. lost' = lost /\ accepted' = accepted /\ internal' = internal /\ open' = open
    BY <1>5 DEF Pop
  <2>4. CASE StageQueue(stage[c]) = Disconnected
    <3>1. Serving
      BY <1>5, <2>2, <2>3, <2>4, Popped DEF Serving
    <3> QED
      BY <2>3, <3>1 DEF Account
  <2>5. CASE StageQueue(stage[c]) # Disconnected
    <3>1. Kept(Disconnected)
      BY <1>1, <1>5, <2>5 DEF Pop, Kept
    <3> QED
      BY <2>2, <2>3, <3>1 DEF Account, Quiet
  <2> QED
    BY <2>4, <2>5
<1> QED
  BY <1>2, <1>3, <1>4, <1>5 DEF ConsumerStep

\* So do the user and the callbacks.
LEMMA UserAccount ==
    ASSUME TypeOK, TellsOK, UserStep \/ Application PROVE Account
<1>1. /\ Listener \in Thread /\ User \in Thread /\ Consumer \subseteq Thread
      /\ External \subseteq Conn
  BY ThreadFacts DEF Conn
<1>2. CASE TellCheck(User) \/ TellPush(User)
  BY <1>1, <1>2, Accounted
<1>3. CASE JoinReturn
  <2>1. /\ pc[User] = "joining" /\ pc[waiting_for] = "done" /\ job' = job
        /\ pc' = [pc EXCEPT ![User] = "free", ![waiting_for] = "off"]
        /\ waiting_for \in Thread
    BY <1>3, ThreadFacts DEF JoinReturn, TypeOK, DataOK
  <2>2. ~ Carry(User) /\ ~ Carry(waiting_for)
    BY <2>1 DEF Carry
  <2>3. \A t \in Thread : Unmoved(t)
    BY <1>1, <2>1, <2>2, IdlePair
  <2> QED
    BY <1>3, <2>3, QuietAccount DEF JoinReturn
<1>4. CASE Refuse
  <2>1. pc[Listener] = "connect" /\ job[Listener].item.cn \in Conn
    BY <1>1, <1>4 DEF Refuse, TellsOK
  <2> QED
    BY <1>1, <1>4, <2>1, Accounted DEF Refuse
<1>5. ASSUME NEW c \in Consumer, NEW cn \in Conn, CallbackDisconnect(c, cn) PROVE Account
  BY <1>1, <1>5, Accounted DEF CallbackDisconnect
<1>6. ASSUME NEW cn \in External, UserDisconnect(cn) PROVE Account
  BY <1>1, <1>6, Accounted DEF UserDisconnect
<1>7. ASSUME NEW c \in Consumer, RunConsumer(c) PROVE Account
  <2>1. ~ Carry(c) /\ job' = job /\ Goto(c, "test")
    BY <1>7 DEF RunConsumer, Carry
  <2> QED
    BY <1>1, <1>7, <2>1, IdleMove, QuietAccount DEF RunConsumer
<1>8. ASSUME NEW t \in Consumer \cup {Listener}, JoinThread(t) PROVE Account
  <2>1. ~ Carry(User) /\ job' = job /\ Goto(User, "joining")
    BY <1>8 DEF JoinThread, Carry
  <2> QED
    BY <1>1, <1>8, <2>1, IdleMove, QuietAccount DEF JoinThread
<1> QED
  BY <1>2, <1>3, <1>4, <1>5, <1>6, <1>7, <1>8 DEF UserStep, Application

\* Every step accounts for itself.
LEMMA StepAccount ==
    ASSUME TypeOK, TellsOK, [Next]_vars, pc'[Listener] # "crashed"
    PROVE  Account
<1>1. CASE Crash
  BY <1>1, ThreadFacts DEF Crash
<1>2. CASE UNCHANGED vars
  BY <1>2, StaysUnmoved, QuietAccount DEF vars
<1> QED
  BY <1>1, <1>2, ListenerAccount, NetworkAccount, ConsumerAccount, UserAccount DEF Next

\* The steps keep TellsOK.
LEMMA TellsStep == TypeOK /\ TellsOK /\ [Next]_vars => TellsOK'
<1> SUFFICES ASSUME TypeOK, TellsOK, [Next]_vars, NEW t \in Thread,
                    pc'[t] \in {"closing", "connect", "tell_check", "tell_push"}
             PROVE  /\ pc'[t] # "connect" => job'[t].q = Disconnected
                    /\ pc'[t] # "closing" => job'[t].item.cn \in Conn
  BY DEF TellsOK
<1> DEFINE Goal == /\ pc'[t] # "connect" => job'[t].q = Disconnected
                   /\ pc'[t] # "closing" => job'[t].item.cn \in Conn
<1>1. /\ pc \in [Thread -> Label] /\ job \in [Thread -> Job]
      /\ Listener \in Thread /\ User \in Thread /\ Consumer \subseteq Thread
      /\ \A u \in Thread : job[u].ret \notin {"closing", "tell_check", "tell_push"}
      /\ External \subseteq Conn /\ Internal \subseteq Conn
  BY ThreadFacts DEF TypeOK, ControlOK, DataOK, Job, Conn
<1>2. ASSUME pc'[t] = pc[t], job'[t] = job[t] PROVE Goal
  BY <1>2 DEF TellsOK
<1>3. ASSUME NEW u \in Thread, NEW l, Goto(u, l), job' = job,
             l \notin {"closing", "connect", "tell_check", "tell_push"}
      PROVE  Goal
  BY <1>1, <1>2, <1>3 DEF Goto
<1>4. ASSUME NEW u \in Thread, NEW cn \in Conn, pc[u] \in {"connect", "close", "call", "free"},
             Disconnect(u, cn, pc[u])
      PROVE  Goal
  <2>1. CASE u # t
    BY <1>1, <1>2, <1>4, <2>1 DEF Disconnect, Goto
  <2>2. CASE u = t /\ Managed(cn)
    BY <1>1, <1>4, <2>2 DEF Disconnect, Goto
  <2>3. CASE u = t /\ ~ Managed(cn)
    BY <1>1, <1>2, <1>4, <2>3 DEF Disconnect, Goto
  <2> QED
    BY <2>1, <2>2, <2>3
<1>5. ASSUME NEW u \in Thread, TellCheck(u) \/ TellPush(u) PROVE Goal
  <2>1. /\ job' = job /\ pc'[u] \in {job[u].ret, "tell_push"} /\ \A w \in Thread : w # u => pc'[w] = pc[w]
    BY <1>1, <1>5 DEF TellCheck, TellPush, Goto
  <2>2. job[u].q = Disconnected /\ job[u].item.cn \in Conn
    BY <1>5 DEF TellsOK, TellCheck, TellPush
  <2> QED
    BY <1>2, <2>1, <2>2
<1>6. ASSUME pc'[t] \in {pc[t], "join", "free", "off"}, job' = job PROVE Goal
  BY <1>1, <1>2, <1>6
<1> SUFFICES Goal
  OBVIOUS
<1> HIDE DEF Goal
<1>7. CASE ListenerStep
  <2>1. CASE LoopTest \/ EndBatch \/ ConnectReturn \/ EndRead \/ SafeDisconnect
             \/ PushQueue(Listener) \/ CloseDone \/ Release
    BY <1>1, <1>3, <2>1 DEF LoopTest, EndBatch, ConnectReturn, EndRead, SafeDisconnect,
                            PushQueue, CloseDone, Release
  <2>2. CASE CheckQueue(Listener) \/ Notify
    <3>1. job[Listener].ret # "connect" /\ job[Listener].ret \notin {"closing", "tell_check", "tell_push"}
      BY <1>1, <2>2, Points DEF CheckQueue, Notify, PointOK
    <3>2. PICK l \in {"push", "notify", job[Listener].ret} : Goto(Listener, l)
      BY <2>2 DEF CheckQueue, Notify
    <3> QED
      BY <1>1, <1>3, <2>2, <3>1, <3>2 DEF CheckQueue, Notify
  <2>3. ASSUME NEW cn \in Internal, CloseInternal(cn) PROVE Goal
    BY <1>1, <1>4, <2>3 DEF CloseInternal
  <2>4. CASE JoinNext
    <3>1. Goto(Listener, "await") \/ pc' = pc
      BY <2>4 DEF JoinNext
    <3> QED
      BY <1>1, <1>2, <1>3, <2>4, <3>1 DEF JoinNext
  <2>5. CASE Joined
    <3>1. pc'[t] \in {pc[t], "join", "off"} /\ job' = job
      BY <1>1, <2>5, JoinedFacts DEF Joined
    <3> QED
      BY <1>6, <3>1
  <2> QED
    BY <1>1, <1>5, <1>7, <2>1, <2>2, <2>3, <2>4, <2>5 DEF ListenerStep
<1>8. CASE Network
  <2>1. ASSUME t # Listener PROVE Goal
    BY <1>1, <1>2, <1>8, <2>1 DEF Network, Accept, CloseConnection, PickEvent, CloseServer, Goto
  <2>2. ASSUME t = Listener, NEW cn \in Internal, Accept(cn) PROVE Goal
    BY <1>1, <2>2 DEF Accept, Goto, Goal
  <2>3. ASSUME t = Listener, NEW cn \in Conn, CloseConnection(cn) PROVE Goal
    BY <1>1, <2>3 DEF CloseConnection, Goto, Goal
  <2>4. ASSUME t = Listener PROVE ~ (\E cn \in Conn, n \in Name : PickEvent(cn, n))
                                  /\ ~ (\E s \in Server : CloseServer(s))
    BY <1>1, <2>4 DEF PickEvent, CloseServer, Goto
  <2> QED
    BY <1>8, <2>1, <2>2, <2>3, <2>4 DEF Network
<1>9. ASSUME NEW c \in Consumer, ConsumerStep(c) PROVE Goal
  <2>1. CASE TellCheck(c) \/ TellPush(c)
    BY <1>1, <1>5, <2>1
  <2>2. CASE NextQueue(c)
    BY <1>2, <2>2 DEF NextQueue
  <2>3. CASE Pop(c) \/ ConsumerTest(c) \/ WakeUp(c) \/ TimeOut(c) \/ EndPass(c) \/ CallbackReturn(c)
    <3>1. job' = job
      BY <2>3 DEF Pop, ConsumerTest, WakeUp, TimeOut, EndPass, CallbackReturn
    <3>2. PICK l \in {"wait", "drain", "test", "done", "call"} : Goto(c, l)
      BY <2>3 DEF Pop, ConsumerTest, WakeUp, TimeOut, EndPass, CallbackReturn
    <3> QED
      BY <1>1, <1>3, <3>1, <3>2
  <2> QED
    BY <1>9, <2>1, <2>2, <2>3 DEF ConsumerStep
<1>10. CASE JoinReturn
  <2>1. pc'[t] \in {pc[t], "free", "off"} /\ job' = job
    BY <1>1, <1>10 DEF JoinReturn
  <2> QED
    BY <1>6, <2>1
<1>11. CASE Application
  <2>1. CASE Refuse
    <3>1. pc[Listener] = "connect" /\ job[Listener].item.cn \in Conn
      BY <1>1, <2>1 DEF Refuse, TellsOK
    <3> QED
      BY <1>1, <1>4, <2>1, <3>1 DEF Refuse
  <2>2. ASSUME NEW c \in Consumer, NEW cn \in Conn, CallbackDisconnect(c, cn) PROVE Goal
    BY <1>1, <1>4, <2>2 DEF CallbackDisconnect
  <2>3. ASSUME NEW cn \in External, UserDisconnect(cn) PROVE Goal
    BY <1>1, <1>4, <2>3 DEF UserDisconnect
  <2>4. ASSUME NEW c \in Consumer, RunConsumer(c) PROVE Goal
    BY <1>1, <1>3, <2>4 DEF RunConsumer
  <2>5. ASSUME NEW u \in Consumer \cup {Listener}, JoinThread(u) PROVE Goal
    BY <1>1, <1>3, <2>5 DEF JoinThread
  <2> QED
    BY <1>11, <2>1, <2>2, <2>3, <2>4, <2>5 DEF Application
<1>12. CASE UserStep
  BY <1>1, <1>5, <1>10, <1>12 DEF UserStep
<1>13. CASE Crash \/ UNCHANGED vars
  BY <1>1, <1>2, <1>13 DEF Crash, vars
<1> QED
  BY <1>7, <1>8, <1>9, <1>11, <1>12, <1>13 DEF Next
------------------------------------------------------------------------------
(* How many announcements there are *)

\* Where a sequence is about connection cn.
About(s, cn) == {i \in DOMAIN s : s[i].cn = cn}

One(b) == IF b THEN 1 ELSE 0

\* The positions of a sequence that are about a connection are finitely many.
LEMMA AboutFinite ==
    ASSUME NEW s \in Seq(Item), NEW cn
    PROVE  IsFiniteSet(About(s, cn)) /\ Cardinality(About(s, cn)) \in Nat
<1>1. DOMAIN s = 1 .. Len(s) /\ Len(s) \in Nat
  BY LenProperties
<1>2. IsFiniteSet(1 .. Len(s))
  BY <1>1, FS_Interval
<1>3. About(s, cn) \in SUBSET (1 .. Len(s))
  BY <1>1 DEF About
<1> QED
  BY <1>2, <1>3, FS_Subset, FS_CardinalityType

\* One more is about it when its disconnection is appended.
LEMMA AboutAppend ==
    ASSUME NEW s \in Seq(Item), NEW x \in Item, NEW cn
    PROVE  Cardinality(About(Append(s, x), cn)) = Cardinality(About(s, cn)) + One(x.cn = cn)
<1> DEFINE t == Append(s, x)
           n == Len(s) + 1
<1>1. /\ Len(s) \in Nat /\ DOMAIN s = 1 .. Len(s) /\ DOMAIN t = 1 .. n /\ t[n] = x
      /\ \A i \in 1 .. Len(s) : t[i] = s[i]
  <2>1. /\ t \in Seq(Item) /\ Len(t) = n /\ t[n] = x
        /\ \A i \in 1 .. Len(s) : t[i] = s[i]
    BY AppendProperties
  <2> QED
    BY <2>1, LenProperties
<1>2. IsFiniteSet(About(s, cn)) /\ Cardinality(About(s, cn)) \in Nat
  BY AboutFinite
<1> HIDE DEF t
<1>3. 1 .. n = (1 .. Len(s)) \cup {n} /\ n \notin 1 .. Len(s)
  BY <1>1
<1> HIDE DEF n
<1>4. CASE x.cn = cn
  <2>1. About(t, cn) = About(s, cn) \cup {n} /\ n \notin About(s, cn)
    BY <1>1, <1>3, <1>4 DEF About
  <2>2. Cardinality(About(t, cn)) = Cardinality(About(s, cn)) + 1
    BY <1>2, <2>1, FS_AddElement
  <2> QED
    BY <1>4, <2>2 DEF One, t
<1>5. CASE x.cn # cn
  <2>1. About(t, cn) = About(s, cn)
    BY <1>1, <1>3, <1>5 DEF About
  <2> QED
    BY <1>2, <1>5, <2>1 DEF One, t
<1> QED
  BY <1>4, <1>5

\* One less when the head was.
LEMMA AboutTail ==
    ASSUME NEW s \in Seq(Item), s # <<>>, NEW cn
    PROVE  Cardinality(About(s, cn)) = Cardinality(About(Tail(s), cn)) + One(Head(s).cn = cn)
<1> DEFINE t == Tail(s)
           rest == About(s, cn) \ {1}
           f == [i \in About(t, cn) |-> i + 1]
<1>1. /\ Len(s) \in Nat \ {0} /\ DOMAIN s = 1 .. Len(s) /\ t \in Seq(Item)
      /\ DOMAIN t = 1 .. Len(s) - 1 /\ Head(s) = s[1]
      /\ \A i \in 1 .. Len(s) - 1 : t[i] = s[i + 1]
  <2>1. /\ t \in Seq(Item) /\ Len(t) = Len(s) - 1
        /\ \A i \in 1 .. Len(t) : t[i] = s[i + 1]
    BY HeadTailProperties
  <2>2. DOMAIN t = 1 .. Len(t) /\ Len(t) \in Nat /\ Len(s) \in Nat /\ DOMAIN s = 1 .. Len(s)
    BY <2>1, LenProperties
  <2> QED
    BY <2>1, <2>2
<1>2. /\ IsFiniteSet(About(s, cn)) /\ Cardinality(About(s, cn)) \in Nat
      /\ IsFiniteSet(About(t, cn)) /\ Cardinality(About(t, cn)) \in Nat
  BY <1>1, AboutFinite
<1> HIDE DEF t
<1>3. f \in [About(t, cn) -> rest]
  BY <1>1 DEF About
<1>4. \A i, j \in About(t, cn) : f[i] = f[j] => i = j
  BY <1>1 DEF About
<1>5. \A k \in rest : \E i \in About(t, cn) : f[i] = k
  <2> SUFFICES ASSUME NEW k \in rest PROVE k - 1 \in About(t, cn) /\ f[k - 1] = k
    OBVIOUS
  <2>1. k \in 1 .. Len(s) /\ k # 1 /\ s[k].cn = cn
    BY <1>1 DEF About
  <2>2. k - 1 \in 1 .. Len(s) - 1 /\ (k - 1) + 1 = k
    BY <1>1, <2>1
  <2> QED
    BY <1>1, <2>1, <2>2 DEF About
<1> HIDE DEF f
<1>6. Cardinality(rest) = Cardinality(About(t, cn))
  <2>1. f \in Bijection(About(t, cn), rest)
    BY <1>3, <1>4, <1>5, Fun_IsBij
  <2>2. ExistsBijection(About(t, cn), rest)
    BY <2>1, Fun_ExistsBij
  <2> HIDE DEF rest
  <2> QED
    BY <1>2, <2>2, FS_Bijection
<1>7. 1 \in About(s, cn) <=> Head(s).cn = cn
  BY <1>1 DEF About
<1>8. Cardinality(rest) = IF 1 \in About(s, cn) THEN Cardinality(About(s, cn)) - 1
                          ELSE Cardinality(About(s, cn))
  BY <1>2, FS_RemoveElement
<1> QED
  BY <1>2, <1>6, <1>7, <1>8 DEF One, t

\* What was dropped of connection cn, and who carries it.
Dropped(l, cn) == {x \in l : x[1] = Disconnected /\ x[2].cn = cn}

Carriers(p, j, cn) ==
    {t \in Thread : /\ p[t] \in {"closing", "check", "push", "tell_check", "tell_push"}
                    /\ j[t].q = Disconnected /\ j[t].item.cn = cn}

Sum(h, q, l, c, cn) == Cardinality(About(h, cn)) + Cardinality(About(q, cn))
                       + Cardinality(Dropped(l, cn)) + Cardinality(c)

\* The announcements of a connection are the sum of what the queue, the
\* callbacks, the losses and the threads have.
LEMMA AnnouncementSum ==
    ASSUME NEW cn
    PROVE  /\ Announcements(cn) = Sum(handled[Disconnected], m_events[Disconnected], lost,
                                      Carriers(pc, job, cn), cn)
           /\ Announcements(cn)' = Sum(handled'[Disconnected], m_events'[Disconnected], lost',
                                       Carriers(pc', job', cn), cn)
  BY DEF Announcements, About, Dropped, Carriers, Sum

\* All four are numbers.
LEMMA Counted ==
    ASSUME TypeOK, IsFiniteSet(lost), NEW cn
    PROVE  /\ Cardinality(About(handled[Disconnected], cn)) \in Nat
           /\ Cardinality(About(m_events[Disconnected], cn)) \in Nat
           /\ IsFiniteSet(Dropped(lost, cn)) /\ Cardinality(Dropped(lost, cn)) \in Nat
           /\ IsFiniteSet(Carriers(pc, job, cn)) /\ Cardinality(Carriers(pc, job, cn)) \in Nat
<1>1. /\ Cardinality(About(handled[Disconnected], cn)) \in Nat
      /\ Cardinality(About(m_events[Disconnected], cn)) \in Nat
  BY QueueLength, QueueFacts, AboutFinite
<1>2. Dropped(lost, cn) \in SUBSET lost /\ Carriers(pc, job, cn) \in SUBSET Thread
  BY DEF Dropped, Carriers
<1>3. IsFiniteSet(Dropped(lost, cn))
  BY <1>2, FS_Subset
<1> QED
  BY <1>1, <1>2, <1>3, ThreadFinite, FS_CardinalityType

\* Who carries what is as before.
LEMMA CarriersKept ==
    ASSUME NEW cn, \A t \in Thread : Unmoved(t)
    PROVE  Carriers(pc', job', cn) = Carriers(pc, job, cn)
BY DEF Carriers, Unmoved, Carry

\* A thread lets go of what it carries.
LEMMA CarrierLeaves ==
    ASSUME NEW cn, NEW t \in Thread, Carry(t), ~ Carry(t)', Others(t)
    PROVE  /\ job[t].item.cn = cn => /\ t \in Carriers(pc, job, cn)
                                     /\ Carriers(pc', job', cn) = Carriers(pc, job, cn) \ {t}
           /\ job[t].item.cn # cn => Carriers(pc', job', cn) = Carriers(pc, job, cn)
BY DEF Carriers, Others, Unmoved, Carry

\* A thread takes a connection.
LEMMA CarrierComes ==
    ASSUME NEW cn, NEW dn, NEW t \in Thread, Begins(t, dn)
    PROVE  /\ dn = cn => /\ t \notin Carriers(pc, job, cn)
                         /\ Carriers(pc', job', cn) = Carriers(pc, job, cn) \cup {t}
           /\ dn # cn => Carriers(pc', job', cn) = Carriers(pc, job, cn)
<1>1. ~ Carry(t) /\ Carry(t)' /\ Others(t) /\ job'[t].item.cn = dn
  BY DEF Begins
<1> QED
  BY <1>1 DEF Carriers, Others, Unmoved, Carry

\* A disconnection that begins is one announcement more of its connection.
LEMMA CountBegins ==
    ASSUME TypeOK, IsFiniteSet(lost), NEW cn, NEW dn, NEW t \in Thread, Begins(t, dn)
    PROVE  Announcements(cn)' = Announcements(cn) + One(dn = cn)
<1>1. /\ m_events'[Disconnected] = m_events[Disconnected]
      /\ handled'[Disconnected] = handled[Disconnected]
      /\ lost' = lost
  BY DEF Begins, Kept
<1> DEFINE c == Carriers(pc, job, cn)
           c1 == Carriers(pc', job', cn)
<1>2. IsFiniteSet(c) /\ Cardinality(c) \in Nat
  BY Counted
<1>3. Cardinality(c1) = Cardinality(c) + One(dn = cn)
  <2>1. CASE dn = cn
    <3>1. c1 = c \cup {t} /\ t \notin c
      BY <2>1, CarrierComes
    <3> HIDE DEF c, c1
    <3>2. Cardinality(c \cup {t}) = Cardinality(c) + 1
      BY <1>2, <3>1, FS_AddElement
    <3> QED
      BY <2>1, <3>1, <3>2 DEF One
  <2>2. CASE dn # cn
    <3>1. c1 = c
      BY <2>2, CarrierComes
    <3> HIDE DEF c, c1
    <3> QED
      BY <1>2, <2>2, <3>1 DEF One
  <2> QED
    BY <2>1, <2>2
<1>4. One(dn = cn) \in Nat
  BY DEF One
<1>5. /\ Announcements(cn) = Sum(handled[Disconnected], m_events[Disconnected], lost, c, cn)
      /\ Announcements(cn)' = Sum(handled[Disconnected], m_events[Disconnected], lost, c1, cn)
  BY <1>1, AnnouncementSum
<1> HIDE DEF c, c1
<1> QED
  BY <1>2, <1>3, <1>4, <1>5, Counted DEF Sum

\* A push leaves the count as it is.
LEMMA CountPushes ==
    ASSUME TypeOK, IsFiniteSet(lost), NEW cn, NEW t \in Thread, Pushes(t)
    PROVE  Announcements(cn)' = Announcements(cn)
<1> DEFINE c == Carriers(pc, job, cn)
           c1 == Carriers(pc', job', cn)
           q == m_events[Disconnected]
           q1 == m_events'[Disconnected]
           x == job[t].item
<1>1. /\ q1 = Append(q, x) /\ x \in Item /\ q \in Seq(Item)
      /\ handled'[Disconnected] = handled[Disconnected] /\ lost' = lost
      /\ Carry(t) /\ ~ Carry(t)' /\ Others(t)
  BY QueueLength, QueueFacts DEF Pushes
<1>2. IsFiniteSet(c) /\ Cardinality(c) \in Nat /\ Cardinality(About(q, cn)) \in Nat
  BY Counted
<1>3. Cardinality(About(q1, cn)) = Cardinality(About(q, cn)) + One(x.cn = cn)
  BY <1>1, AboutAppend
<1>4. Cardinality(c) = Cardinality(c1) + One(x.cn = cn)
  <2>1. CASE x.cn = cn
    <3>1. t \in c /\ c1 = c \ {t}
      BY <1>1, <2>1, CarrierLeaves
    <3> HIDE DEF c, c1
    <3>2. Cardinality(c \ {t}) = Cardinality(c) - 1
      BY <1>2, <3>1, FS_RemoveElement
    <3> QED
      BY <1>2, <2>1, <3>1, <3>2 DEF One
  <2>2. CASE x.cn # cn
    <3>1. c1 = c
      BY <1>1, <2>2, CarrierLeaves
    <3> HIDE DEF c, c1
    <3> QED
      BY <1>2, <2>2, <3>1 DEF One
  <2> QED
    BY <2>1, <2>2
<1>5. One(x.cn = cn) \in Nat /\ Cardinality(c1) \in Nat
  <2>1. c1 \in SUBSET Thread
    BY DEF Carriers
  <2> QED
    BY <2>1, ThreadFinite DEF One
<1>6. /\ Announcements(cn) = Sum(handled[Disconnected], q, lost, c, cn)
      /\ Announcements(cn)' = Sum(handled[Disconnected], q1, lost, c1, cn)
  BY <1>1, AnnouncementSum
<1>7. Cardinality(About(handled[Disconnected], cn)) \in Nat /\ Cardinality(Dropped(lost, cn)) \in Nat
  BY Counted
<1> HIDE DEF c, c1, q, q1, x
<1> QED
  BY <1>2, <1>3, <1>4, <1>5, <1>6, <1>7 DEF Sum

\* A drop does so too, unless the same was dropped before.
LEMMA CountDrops ==
    ASSUME TypeOK, IsFiniteSet(lost), NEW cn, NEW t \in Thread, Drops(t)
    PROVE  \/ Announcements(cn)' = Announcements(cn)
           \/ Announcements(cn)' = Announcements(cn) - 1 /\ Announcements(cn) >= 2
<1> DEFINE c == Carriers(pc, job, cn)
           c1 == Carriers(pc', job', cn)
           d == Dropped(lost, cn)
           d1 == Dropped(lost', cn)
           x == <<Disconnected, job[t].item>>
           e == Cardinality(About(handled[Disconnected], cn))
                  + Cardinality(About(m_events[Disconnected], cn))
<1>1. /\ handled'[Disconnected] = handled[Disconnected]
      /\ m_events'[Disconnected] = m_events[Disconnected]
      /\ lost' = lost \cup {x}
      /\ Carry(t) /\ ~ Carry(t)' /\ Others(t)
  BY DEF Drops, Kept
<1>2. /\ IsFiniteSet(c) /\ Cardinality(c) \in Nat /\ IsFiniteSet(d) /\ Cardinality(d) \in Nat
      /\ e \in Nat
  BY Counted
<1>3. /\ Announcements(cn) = e + Cardinality(d) + Cardinality(c)
      /\ Announcements(cn)' = e + Cardinality(d1) + Cardinality(c1)
  BY <1>1, AnnouncementSum DEF Sum
<1> HIDE DEF e
<1>4. CASE job[t].item.cn = cn
  <2>1. t \in c /\ c1 = c \ {t}
    BY <1>1, <1>4, CarrierLeaves
  <2>2. d1 = d \cup {x}
    BY <1>1, <1>4 DEF Dropped
  <2> HIDE DEF c, c1, d, d1, x
  <2>3. Cardinality(c1) = Cardinality(c) - 1
    BY <1>2, <2>1, FS_RemoveElement
  <2>4. Cardinality(d1) = Cardinality(d) + 1 \/ (x \in d /\ Cardinality(d1) = Cardinality(d))
    BY <1>2, <2>2, FS_AddElement
  <2>5. ASSUME x \in d PROVE Cardinality(d) >= 1
    <3>1. Cardinality(d) # 0
      BY <1>2, <2>5, FS_EmptySet
    <3> QED
      BY <1>2, <3>1
  <2>6. Cardinality(c) >= 1
    <3>1. Cardinality(c) # 0
      BY <1>2, <2>1, FS_EmptySet
    <3> QED
      BY <1>2, <3>1
  <2> QED
    BY <1>2, <1>3, <2>3, <2>4, <2>5, <2>6
<1>5. CASE job[t].item.cn # cn
  <2>1. c1 = c
    BY <1>1, <1>5, CarrierLeaves
  <2>2. d1 = d
    BY <1>1, <1>5 DEF Dropped
  <2> HIDE DEF c, c1, d, d1, x
  <2> QED
    BY <1>3, <2>1, <2>2
<1> QED
  BY <1>4, <1>5

\* A callback of on_disconnect moves an announcement to those that were handled.
LEMMA CountServing ==
    ASSUME TypeOK, IsFiniteSet(lost), NEW cn, Serving
    PROVE  Announcements(cn)' = Announcements(cn)
<1> DEFINE h == handled[Disconnected]
           h1 == handled'[Disconnected]
           q == m_events[Disconnected]
           q1 == m_events'[Disconnected]
           c == Carriers(pc, job, cn)
           x == Head(q)
<1>1. /\ q \in Seq(Item) /\ h \in Seq(Item) /\ q # <<>> /\ q1 = Tail(q) /\ h1 = Append(h, x)
      /\ lost' = lost /\ Carriers(pc', job', cn) = c
  BY QueueLength, QueueFacts, CarriersKept DEF Serving
<1>2. x \in Item /\ q1 \in Seq(Item)
  BY <1>1, HeadTailProperties
<1>3. /\ Announcements(cn) = Sum(h, q, lost, c, cn)
      /\ Announcements(cn)' = Sum(h1, q1, lost, c, cn)
  BY <1>1, AnnouncementSum
<1>4. /\ Cardinality(About(h, cn)) \in Nat /\ Cardinality(About(q, cn)) \in Nat
      /\ Cardinality(c) \in Nat /\ Cardinality(Dropped(lost, cn)) \in Nat
  BY Counted
<1> HIDE DEF h, h1, q, q1, c, x
<1>5. Cardinality(About(h1, cn)) = Cardinality(About(h, cn)) + One(x.cn = cn)
  BY <1>1, <1>2, AboutAppend
<1>6. Cardinality(About(q, cn)) = Cardinality(About(q1, cn)) + One(x.cn = cn)
  BY <1>1, AboutTail DEF x
<1>7. One(x.cn = cn) \in Nat /\ Cardinality(About(q1, cn)) \in Nat
  BY <1>2, AboutFinite DEF One
<1> QED
  BY <1>3, <1>4, <1>5, <1>6, <1>7 DEF Sum

\* Nothing else changes the count.
LEMMA CountQuiet ==
    ASSUME NEW cn, Quiet
    PROVE  Announcements(cn)' = Announcements(cn)
<1>1. Dropped(lost', cn) = Dropped(lost, cn)
  BY DEF Quiet, Dropped
<1>2. Carriers(pc', job', cn) = Carriers(pc, job, cn)
  BY CarriersKept DEF Quiet
<1>3. m_events'[Disconnected] = m_events[Disconnected] /\ handled'[Disconnected] = handled[Disconnected]
  BY DEF Quiet, Kept
<1> QED
  BY <1>1, <1>2, <1>3, AnnouncementSum DEF Sum
------------------------------------------------------------------------------
(* External connections *)

\* Every step leaves an announcement where there was one.
LEMMA CountLasts ==
    ASSUME TypeOK, IsFiniteSet(lost), Account, NEW cn, Announcements(cn) >= 1
    PROVE  Announcements(cn)' >= 1
<1>1. Announcements(cn) \in Nat
  BY AnnouncementSum, Counted DEF Sum
<1>2. ASSUME NEW t \in Thread, NEW dn, Begins(t, dn) PROVE Announcements(cn)' >= 1
  <2>1. Announcements(cn)' = Announcements(cn) + One(dn = cn) /\ One(dn = cn) \in Nat
    BY <1>2, CountBegins DEF One
  <2> QED
    BY <1>1, <2>1
<1>3. ASSUME NEW t \in Thread, Pushes(t) PROVE Announcements(cn)' >= 1
  BY <1>3, CountPushes
<1>4. ASSUME NEW t \in Thread, Drops(t) PROVE Announcements(cn)' >= 1
  BY <1>1, <1>4, CountDrops
<1>5. CASE Serving
  BY <1>5, CountServing
<1>6. CASE Quiet
  BY <1>6, CountQuiet
<1> QED
  BY <1>2, <1>3, <1>4, <1>5, <1>6 DEF Account

\* The threads carry what they should, and a connection that the user attached
\* is open or announced.
ExternalInv ==
    pc[Listener] # "crashed" =>
        /\ TellsOK /\ IsFiniteSet(lost)
        /\ \A cn \in External \ open : Announcements(cn) >= 1

\* Every step keeps this.
LEMMA ExternalStep == TypeOK /\ ExternalInv /\ [Next]_vars => ExternalInv'
<1> SUFFICES ASSUME TypeOK, ExternalInv, [Next]_vars, pc'[Listener] # "crashed"
             PROVE  /\ TellsOK' /\ IsFiniteSet(lost')
                    /\ \A cn \in External \ open' : Announcements(cn)' >= 1
  BY DEF ExternalInv
<1>1. TellsOK /\ IsFiniteSet(lost) /\ \A cn \in External \ open : Announcements(cn) >= 1
  <2>1. pc[Listener] # "crashed"
    BY ListenerFlow
  <2> QED
    BY <2>1 DEF ExternalInv
<1>2. TellsOK' /\ Account
  BY <1>1, TellsStep, StepAccount
<1>3. IsFiniteSet(lost')
  <2>1. lost' = lost \/ \E l : lost' = lost \cup {l}
    BY <1>2 DEF Account, Begins, Pushes, Drops, Serving, Quiet
  <2> QED
    BY <1>1, <2>1, FS_AddElement
<1>4. ASSUME NEW cn \in External \ open' PROVE Announcements(cn) >= 1
  <2>1. CASE cn \in open
    <3>1. PICK t \in Thread : Carry(t) /\ job[t].item.cn = cn
      BY <1>2, <1>4, <2>1 DEF Account
    <3>2. t \in Carriers(pc, job, cn)
      BY <3>1 DEF Carry, Carriers
    <3>3. /\ IsFiniteSet(Carriers(pc, job, cn)) /\ Cardinality(Carriers(pc, job, cn)) \in Nat
          /\ Cardinality(About(handled[Disconnected], cn)) \in Nat
          /\ Cardinality(About(m_events[Disconnected], cn)) \in Nat
          /\ Cardinality(Dropped(lost, cn)) \in Nat
      BY <1>1, Counted
    <3>4. Cardinality(Carriers(pc, job, cn)) # 0
      BY <3>2, <3>3, FS_EmptySet
    <3>5. Announcements(cn) = Sum(handled[Disconnected], m_events[Disconnected], lost,
                                  Carriers(pc, job, cn), cn)
      BY AnnouncementSum
    <3> QED
      BY <3>3, <3>4, <3>5 DEF Sum
  <2>2. CASE cn \notin open
    BY <1>1, <1>4, <2>2
  <2> QED
    BY <2>1, <2>2
<1> QED
  BY <1>1, <1>2, <1>3, <1>4, CountLasts

\* Initially nobody carries anything.
LEMMA InitCount ==
    ASSUME Init
    PROVE  /\ TellsOK /\ IsFiniteSet(lost)
           /\ \A cn : Announcements(cn) = 0
<1>1. \A t \in Thread : pc[t] \in {"test", "free", "off"}
  BY DEF Init
<1>2. TellsOK
  BY <1>1 DEF TellsOK
<1>3. lost = {} /\ handled[Disconnected] = <<>> /\ m_events[Disconnected] = <<>>
  BY QueueFacts DEF Init
<1>4. ASSUME NEW cn PROVE Announcements(cn) = 0
  <2>1. Carriers(pc, job, cn) = {}
    BY <1>1 DEF Carriers
  <2>2. Dropped(lost, cn) = {}
    BY <1>3 DEF Dropped
  <2>3. About(<<>>, cn) = {}
    <3>1. <<>> \in Seq(Item) /\ Len(<<>>) = 0
      BY EmptySeq
    <3>2. DOMAIN <<>> = 1 .. 0
      BY <3>1, LenProperties
    <3> QED
      BY <3>2 DEF About
  <2>4. Announcements(cn) = Sum(<<>>, <<>>, lost, {}, cn)
    BY <1>3, <2>1, AnnouncementSum
  <2>5. Sum(<<>>, <<>>, lost, {}, cn) = 0 + 0 + 0 + 0
    BY <2>2, <2>3, FS_EmptySet DEF Sum
  <2> QED
    BY <2>4, <2>5
<1> QED
  BY <1>2, <1>3, <1>4, FS_EmptySet

\* EventListener::tell_disconnected and close_connection: whatever the threads do
\* at a time, an attached connection is closed only by one that announces it.
THEOREM ExternalsAnnounced == Spec => []ExternalAnnounced
<1>1. Init => ExternalInv
  BY InitCount DEF Init, ExternalInv
<1>2. ExternalInv => ExternalAnnounced
  BY DEF ExternalInv, ExternalAnnounced
<1> QED
  BY <1>1, <1>2, InitType, TypeStep, ExternalStep, PTL DEF Spec
------------------------------------------------------------------------------
(* Internal connections *)

\* The shutdown has still to visit what is in the map.
ClosingInv ==
    External = {} /\ pc[Listener] # "crashed" =>
        /\ Stopping /\ pc[Listener] # "done" => internal \subseteq todo
        /\ pc[Listener] \in {"join", "await"} => todo = {}

\* Every step keeps this.
LEMMA ClosingStep == TypeOK /\ ClosingInv /\ [Next]_vars => ClosingInv'
<1> SUFFICES ASSUME TypeOK, ClosingInv, [Next]_vars, External = {}, pc'[Listener] # "crashed"
             PROVE  ClosingInv'
  BY DEF ClosingInv
<1>1. /\ pc[Listener] # "crashed"
      /\ Stopping /\ pc[Listener] # "done" => internal \subseteq todo
      /\ pc[Listener] \in {"join", "await"} => todo = {}
  <2>1. pc[Listener] # "crashed"
    BY ListenerFlow
  <2> QED
    BY <2>1 DEF ClosingInv
<1>2. /\ pc \in [Thread -> Label] /\ job \in [Thread -> Job]
      /\ Listener \in Thread /\ User \in Thread /\ Consumer \subseteq Thread
      /\ User # Listener /\ Listener \notin Consumer
  BY ThreadFacts DEF TypeOK, ControlOK, DataOK
<1>3. ASSUME pc'[Listener] \notin {"close", "join", "await", "tell_check", "tell_push"}
      PROVE  ClosingInv'
  BY <1>3 DEF ClosingInv, Stopping
<1>4. ASSUME pc'[Listener] = pc[Listener], job'[Listener] = job[Listener], todo' = todo,
             internal' \subseteq internal
      PROVE  ClosingInv'
  BY <1>1, <1>4 DEF ClosingInv, Stopping
<1>5. ASSUME NEW t \in Thread, t # Listener, NEW cn, NEW l, Disconnect(t, cn, l), todo' = todo
      PROVE  ClosingInv'
  <2>1. pc'[Listener] = pc[Listener] /\ job'[Listener] = job[Listener] /\ internal' \subseteq internal
    BY <1>2, <1>5 DEF Disconnect, Goto
  <2> QED
    BY <1>4, <1>5, <2>1
<1>6. CASE ListenerStep
  <2>1. CASE LoopTest
    BY <1>1, <1>2, <2>1 DEF LoopTest, Goto, ClosingInv, Stopping
  <2>2. CASE EndBatch \/ ConnectReturn \/ EndRead \/ SafeDisconnect \/ PushQueue(Listener) \/ Release
    BY <1>2, <1>3, <2>2 DEF EndBatch, ConnectReturn, EndRead, SafeDisconnect, PushQueue, Release, Goto
  <2>3. CASE CheckQueue(Listener) \/ Notify
    <3>1. job[Listener].ret \in {"read", "batch"}
      BY <2>3, Points, <1>2 DEF CheckQueue, Notify, PointOK
    <3>2. pc'[Listener] \in {"push", "notify", "read", "batch"}
      BY <1>2, <2>3, <3>1 DEF CheckQueue, Notify, Goto
    <3> QED
      BY <1>3, <3>2
  <2>4. CASE TellCheck(Listener) \/ TellPush(Listener)
    <3>1. job[Listener].ret \in {"connect", "close"}
      BY <2>4, Points, <1>2 DEF TellCheck, TellPush, PointOK
    <3>2. /\ pc'[Listener] \in {"tell_push", job[Listener].ret}
          /\ job' = job /\ todo' = todo /\ internal' = internal
          /\ pc[Listener] \in {"tell_check", "tell_push"}
      BY <1>2, <2>4 DEF TellCheck, TellPush, Goto
    <3> QED
      BY <1>1, <3>1, <3>2 DEF ClosingInv, Stopping
  <2>5. ASSUME NEW cn \in Internal, CloseInternal(cn) PROVE ClosingInv'
    <3>1. /\ pc[Listener] = "close" /\ todo' = todo \ {cn} /\ internal' = internal \ {cn}
          /\ pc'[Listener] \in {"close", "tell_check"}
      BY <1>2, <2>5 DEF CloseInternal, Disconnect, Managed, Goto
    <3> QED
      BY <1>1, <3>1 DEF ClosingInv, Stopping
  <2>6. CASE CloseDone
    BY <1>1, <1>2, <2>6 DEF CloseDone, Goto, ClosingInv, Stopping
  <2>7. CASE JoinNext \/ Joined
    <3>1. /\ pc[Listener] \in {"join", "await"} /\ todo' = todo /\ internal' = internal
      BY <2>7 DEF JoinNext, Joined
    <3> QED
      BY <1>1, <3>1 DEF ClosingInv, Stopping
  <2> QED
    BY <1>6, <2>1, <2>2, <2>3, <2>4, <2>5, <2>6, <2>7 DEF ListenerStep
<1>7. CASE Network
  <2>1. pc'[Listener] \in {"connect", "check", "closing"}
    BY <1>2, <1>7 DEF Network, Accept, CloseConnection, PickEvent, CloseServer, Goto
  <2> QED
    BY <1>3, <2>1
<1>8. ASSUME NEW c \in Consumer, ConsumerStep(c) PROVE ClosingInv'
  <2>1. pc'[Listener] = pc[Listener] /\ job' = job
    BY <1>8, ConsumerFrame
  <2>2. todo' = todo /\ internal' = internal
    BY <1>8 DEF ConsumerStep, ConsumerTest, WakeUp, TimeOut, Pop, NextQueue, EndPass,
                CallbackReturn, TellCheck, TellPush
  <2> QED
    BY <1>4, <2>1, <2>2
<1>9. CASE UserStep
  <2>1. todo' = todo /\ internal' = internal /\ job' = job
    BY <1>9 DEF UserStep, JoinReturn, TellCheck, TellPush
  <2>2. pc'[Listener] \in {pc[Listener], "off"}
    BY <1>2, <1>9 DEF UserStep, JoinReturn, TellCheck, TellPush, Goto
  <2> QED
    BY <1>3, <1>4, <2>1, <2>2
<1>10. CASE Application
  <2>1. CASE Refuse
    <3>1. \/ pc'[Listener] = "connect"
          \/ pc'[Listener] = "tell_check" /\ job'[Listener].ret = "connect"
      BY <1>2, <2>1 DEF Refuse, Disconnect, Goto
    <3> QED
      BY <3>1 DEF ClosingInv, Stopping
  <2>2. ASSUME NEW c \in Consumer, NEW cn \in Conn, CallbackDisconnect(c, cn) PROVE ClosingInv'
    BY <1>2, <1>5, <2>2 DEF CallbackDisconnect
  <2>3. ASSUME NEW cn \in External, UserDisconnect(cn) PROVE ClosingInv'
    BY <1>2, <1>5, <2>3 DEF UserDisconnect
  <2>4. ASSUME NEW c \in Consumer, RunConsumer(c) PROVE ClosingInv'
    BY <1>2, <1>4, <2>4 DEF RunConsumer, Goto
  <2>5. ASSUME NEW t \in Consumer \cup {Listener}, JoinThread(t) PROVE ClosingInv'
    BY <1>2, <1>4, <2>5 DEF JoinThread, Goto
  <2> QED
    BY <1>10, <2>1, <2>2, <2>3, <2>4, <2>5 DEF Application
<1>11. CASE Crash
  BY <1>2, <1>11 DEF Crash
<1>12. CASE UNCHANGED vars
  BY <1>4, <1>12 DEF vars
<1> QED
  BY <1>6, <1>7, <1>8, <1>9, <1>10, <1>11, <1>12 DEF Next

\* Each connection that left the map is announced once, each other not at all.
OnceInv == ExternalInv /\ ClosingInv /\ AnnouncedOnce

\* A step that announces an accepted connection takes it out of the map.
LEMMA OnceStep == TypeOK /\ OnceInv /\ [Next]_vars => AnnouncedOnce'
<1> SUFFICES ASSUME TypeOK, OnceInv, [Next]_vars, External = {}, pc'[Listener] # "crashed",
                    NEW cn \in Internal
             PROVE  Announcements(cn)' = IF cn \in accepted' \ internal' THEN 1 ELSE 0
  BY DEF AnnouncedOnce
<1>1. /\ pc[Listener] # "crashed" /\ TellsOK /\ IsFiniteSet(lost)
      /\ Announcements(cn) = IF cn \in accepted \ internal THEN 1 ELSE 0
      /\ pc[Listener] = "join" => internal = {}
  <2>1. pc[Listener] # "crashed"
    BY ListenerFlow
  <2> QED
    BY <2>1 DEF OnceInv, ExternalInv, ClosingInv, AnnouncedOnce, Stopping
<1>2. Account
  BY <1>1, StepAccount
<1>3. internal \subseteq accepted
  BY DEF TypeOK, DataOK
<1>4. ASSUME NEW t \in Thread, NEW dn, Begins(t, dn)
      PROVE  Announcements(cn)' = IF cn \in accepted' \ internal' THEN 1 ELSE 0
  <2>1. dn \in internal /\ internal' = internal \ {dn} /\ accepted' = accepted
    BY <1>4 DEF Begins
  <2>2. Announcements(cn)' = Announcements(cn) + One(dn = cn)
    BY <1>1, <1>4, CountBegins
  <2> QED
    BY <1>1, <1>3, <2>1, <2>2 DEF One
<1>5. ASSUME Quiet \/ Serving \/ \E t \in Thread : Pushes(t) \/ Drops(t)
      PROVE  Announcements(cn)' = Announcements(cn)
  <2>1. \/ Announcements(cn)' = Announcements(cn)
        \/ Announcements(cn) >= 2
    BY <1>1, <1>5, CountQuiet, CountServing, CountPushes, CountDrops
  <2> QED
    BY <1>1, <2>1
<1>6. ASSUME accepted' = accepted, internal' = internal, Announcements(cn)' = Announcements(cn)
      PROVE  Announcements(cn)' = IF cn \in accepted' \ internal' THEN 1 ELSE 0
  BY <1>1, <1>6
<1>7. ASSUME Quiet, Release
      PROVE  Announcements(cn)' = IF cn \in accepted' \ internal' THEN 1 ELSE 0
  BY <1>1, <1>5, <1>6, <1>7 DEF Release
<1>8. ASSUME Quiet, NEW dn \in Internal \ accepted, accepted' = accepted \cup {dn},
             internal' = internal \cup {dn}
      PROVE  Announcements(cn)' = IF cn \in accepted' \ internal' THEN 1 ELSE 0
  BY <1>1, <1>3, <1>5, <1>8
<1> QED
  BY <1>2, <1>4, <1>5, <1>6, <1>7, <1>8 DEF Account

\* The lookup under m_connections_mutex lets one thread announce an accepted
\* connection, however a hang-up, a callback and the shutdown race; none of them
\* forgets to.
THEOREM InternalsAnnouncedOnce == Spec => []AnnouncedOnce
<1>1. Init => OnceInv
  <2> SUFFICES ASSUME Init PROVE OnceInv
    OBVIOUS
  <2>1. accepted = {} /\ pc[Listener] = "test" /\ open = External
    BY ThreadFacts DEF Init
  <2> QED
    BY <2>1, InitCount DEF OnceInv, ExternalInv, ClosingInv, AnnouncedOnce, Stopping
<1>2. TypeOK /\ OnceInv /\ [Next]_vars => OnceInv'
  BY ExternalStep, ClosingStep, OnceStep DEF OnceInv
<1>3. OnceInv => AnnouncedOnce
  BY DEF OnceInv
<1> QED
  BY <1>1, <1>2, <1>3, InitType, TypeStep, PTL DEF Spec
------------------------------------------------------------------------------
(* The bus: what its variables are, and which steps change them *)

\* A name is a queue that no disconnection goes into.
LEMMA NameQueues == \A q \in Name : q \in Queue /\ q # Disconnected /\ q # Null
BY QueueFacts, CountAssumption DEF Name, Null

\* How much waits under a name is the length of its queue.
LEMMA BusTypes ==
    ASSUME TypeOK
    PROVE  /\ \A q \in Name : /\ BusSent[q] \in Seq(Item) /\ BusServed[q] \in Nat
                              /\ Len(BusSent[q]) - BusServed[q] = Len(m_events[q])
                              /\ Len(m_events[q]) \in Nat
           /\ \A cn \in Conn : received[cn] \in Nat
<1>1. ASSUME NEW q \in Name
      PROVE  /\ BusSent[q] \in Seq(Item) /\ BusServed[q] \in Nat
             /\ Len(BusSent[q]) - BusServed[q] = Len(m_events[q])
             /\ Len(m_events[q]) \in Nat
  <2>1. m_events[q] \in Seq(Item) /\ handled[q] \in Seq(Item) /\ Len(m_events[q]) \in Nat
    BY NameQueues, QueueLength
  <2>2. BusSent[q] = handled[q] \o m_events[q] /\ BusServed[q] = Len(handled[q])
    BY DEF BusSent, BusServed
  <2>3. handled[q] \o m_events[q] \in Seq(Item)
        /\ Len(handled[q] \o m_events[q]) = Len(handled[q]) + Len(m_events[q])
        /\ Len(handled[q]) \in Nat
    BY <2>1, ConcatProperties, LenProperties
  <2> QED
    BY <2>1, <2>2, <2>3
<1> QED
  BY <1>1 DEF TypeOK, DataOK

\* What is published under a name grows by a push of the listener.
LEMMA SentStays ==
    ASSUME TypeOK, [Next]_vars, ~ (PushQueue(Listener) /\ job[Listener].q \in Name)
    PROVE  BusSent' = BusSent
<1>1. \A q \in Name : handled'[q] \o m_events'[q] = handled[q] \o m_events[q]
  BY SeenStep DEF Seen
<1> QED
  BY <1>1 DEF BusSent

\* Callbacks are made by a pop of a consumer.
LEMMA ServedStays ==
    ASSUME TypeOK, [Next]_vars, \A c \in Consumer : ~ (Pop(c) /\ StageQueue(stage[c]) \in Name)
    PROVE  BusServed' = BusServed
<1>1. ASSUME NEW q \in Name PROVE handled'[q] = handled[q]
  <2>1. CASE Kept(q)
    BY <2>1 DEF Kept
  <2>2. CASE PushQueue(Listener)
    BY <2>2, Pushed
  <2> QED
    BY <2>1, <2>2, NameQueues, QueueChange
<1> QED
  BY <1>1 DEF BusServed

\* The listener drops what it tests for.
Dropping == CheckQueue(Listener) /\ IsFull(job[Listener].q)

\* The events that are dropped are dropped by the listener.
LEMMA LostStays ==
    ASSUME TypeOK, [Next]_vars, ~ (Dropping /\ job[Listener].q \in Name)
    PROVE  BusLost' = BusLost
<1>1. \/ lost' = lost
      \/ Dropping /\ lost' = lost \cup {<<job[Listener].q, job[Listener].item>>}
      \/ \E t \in Thread : lost' = lost \cup {<<Disconnected, job[t].item>>}
  <2>1. CASE CheckQueue(Listener)
    BY <2>1 DEF CheckQueue, Dropping
  <2>2. ASSUME NEW t \in Thread, TellCheck(t)
        PROVE  lost' = lost \/ lost' = lost \cup {<<Disconnected, job[t].item>>}
    BY <2>2 DEF TellCheck
  <2>3. CASE ~ CheckQueue(Listener) /\ \A t \in Thread : ~ TellCheck(t)
    BY <2>3, ThreadFacts
    DEF Next, ListenerStep, Network, ConsumerStep, UserStep, Application, LoopTest, EndBatch,
        ConnectReturn, EndRead, SafeDisconnect, PushQueue, Notify,
        TellPush, CloseInternal, CloseDone, JoinNext, Joined, Release, Accept, CloseConnection,
        PickEvent, CloseServer, ConsumerTest, WakeUp, TimeOut, Pop, NextQueue, EndPass,
        CallbackReturn, JoinReturn, Refuse, CallbackDisconnect, UserDisconnect, RunConsumer,
        JoinThread, Crash, vars
  <2> QED
    BY <2>1, <2>2, <2>3
<1>2. \A x \in {job[t].item : t \in Thread} : <<Disconnected, x>>[1] \notin Name
  BY QueueFacts
<1>3. ASSUME Dropping PROVE <<job[Listener].q, job[Listener].item>>[1] \notin Name
  BY <1>3
<1> QED
  BY <1>1, <1>2, <1>3 DEF BusLost

\* Only the listener is through with a consumer.
LEMMA JoinedStays ==
    ASSUME [Next]_vars, ~ Joined
    PROVE  joined' = joined
BY DEF Next, ListenerStep, Network, ConsumerStep, UserStep, Application, LoopTest, EndBatch,
       ConnectReturn, EndRead, SafeDisconnect, CheckQueue, PushQueue, Notify, TellCheck,
       TellPush, CloseInternal, CloseDone, JoinNext, Release, Accept, CloseConnection,
       PickEvent, CloseServer, ConsumerTest, WakeUp, TimeOut, Pop, NextQueue, EndPass,
       CallbackReturn, JoinReturn, Refuse, CallbackDisconnect, UserDisconnect, RunConsumer,
       JoinThread, Crash, vars

\* How the listener comes to its end.
LEMMA EndsBy ==
    ASSUME TypeOK, [Next]_vars, ~ Crash
    PROVE  /\ pc'[Listener] = "crashed" => pc[Listener] = "crashed"
           /\ pc'[Listener] \in {"done", "off"} /\ ~ Release => pc[Listener] \in {"done", "off"}
<1> USE ThreadFacts DEF TypeOK, ControlOK, Goto
<1>1. CASE ListenerStep
  <2>1. job[Listener].ret \notin {"done", "off", "crashed"}
    BY DEF DataOK, Job
  <2>2. CASE Joined
    BY <2>2, JoinedFacts DEF Joined
  <2>3. CASE ~ Joined
    BY <1>1, <2>1, <2>3
    DEF ListenerStep, LoopTest, EndBatch, ConnectReturn, EndRead, SafeDisconnect, CheckQueue,
        PushQueue, Notify, TellCheck, TellPush, CloseInternal, Disconnect, CloseDone, JoinNext,
        Release
  <2> QED
    BY <2>2, <2>3
<1>2. CASE Network
  BY <1>2 DEF Network, Accept, CloseConnection, PickEvent, CloseServer
<1>3. ASSUME NEW c \in Consumer, ConsumerStep(c) PROVE pc'[Listener] = pc[Listener]
  BY <1>3, ConsumerFrame
<1>4. CASE UserStep
  BY <1>4 DEF UserStep, JoinReturn, TellCheck, TellPush, DataOK
<1>5. CASE Application
  <2>1. CASE Refuse
    BY <2>1 DEF Refuse, Disconnect
  <2>2. CASE ~ Refuse
    BY <1>5, <2>2 DEF Application, CallbackDisconnect, UserDisconnect, Disconnect, RunConsumer,
                      JoinThread
  <2> QED
    BY <2>1, <2>2
<1>6. CASE UNCHANGED vars
  BY <1>6 DEF vars
<1> QED
  BY <1>1, <1>2, <1>3, <1>4, <1>5, <1>6 DEF Next

LEMMA OpenStays ==
    ASSUME TypeOK, [Next]_vars, ~ Release, ~ Crash
    PROVE  BusOpen' = BusOpen
<1>1. BusOpen' <=> BusOpen
  BY EndsBy, ListenerFlow DEF BusOpen
<1>2. BusOpen \in BOOLEAN /\ BusOpen' \in BOOLEAN
  BY DEF BusOpen
<1> QED
  BY <1>1, <1>2, Zenon

\* What the listener holds stays in its hands until it is queued or dropped, and
\* what it comes to hold it has just picked.
Held == /\ pc[Listener] \in {"check", "push", "crashed"}
        /\ job[Listener].q \in Name /\ job[Listener].ret # "close"

LEMMA HeldStays ==
    ASSUME TypeOK, [Next]_vars, Held, ~ PushQueue(Listener), ~ Dropping
    PROVE  Held' /\ job'[Listener] = job[Listener]
<1>1. job'[Listener] = job[Listener]
  BY LetGo DEF Held
<1>2. pc'[Listener] \in {"check", "push", "crashed"}
  <2> USE ThreadFacts DEF Goto, TypeOK, ControlOK
  <2>1. CASE ListenerStep
    <3>1. CASE CheckQueue(Listener)
      BY <3>1 DEF CheckQueue, Dropping
    <3>2. CASE ~ CheckQueue(Listener)
      BY <2>1, <3>2
      DEF Held, ListenerStep, LoopTest, EndBatch, ConnectReturn, EndRead, SafeDisconnect, Notify,
          TellCheck, TellPush, CloseInternal, CloseDone, JoinNext, Joined, Release
    <3> QED
      BY <3>1, <3>2
  <2>2. CASE Network
    BY <2>2 DEF Held, Network, Accept, CloseConnection, PickEvent, CloseServer
  <2>3. ASSUME NEW c \in Consumer, ConsumerStep(c) PROVE pc'[Listener] = pc[Listener]
    BY <2>3, ConsumerFrame
  <2>4. CASE UserStep
    BY <2>4 DEF Held, UserStep, JoinReturn, TellCheck, TellPush, DataOK
  <2>5. CASE Application
    <3>1. CASE Refuse
      BY <3>1 DEF Held, Refuse, Disconnect
    <3>2. CASE ~ Refuse
      BY <2>5, <3>2 DEF Held, Application, CallbackDisconnect, UserDisconnect, Disconnect,
                        RunConsumer, JoinThread, DataOK
    <3> QED
      BY <3>1, <3>2
  <2>6. CASE Crash
    BY <2>6 DEF Crash
  <2>7. CASE UNCHANGED vars
    BY <2>7 DEF Held, vars
  <2> QED
    BY <2>1, <2>2, <2>3, <2>4, <2>5, <2>6, <2>7 DEF Held, Next
<1> QED
  BY <1>1, <1>2 DEF Held

LEMMA HeldComes ==
    ASSUME TypeOK, HandsInv, [Next]_vars, ~ Held, Held'
    PROVE  \E cn \in Conn, n \in Name : PickEvent(cn, n)
<1>1. CASE pc'[Listener] \in {"check", "push"}
  <2>1. ASSUME job'[Listener] = job[Listener], pc[Listener] \in {"check", "push", "closing"} PROVE FALSE
    BY <2>1 DEF Held, HandsInv
  <2> QED
    BY <1>1, <2>1, Taken DEF Held
<1>2. CASE pc'[Listener] = "crashed"
  <2>1. CASE Crash
    <3>1. job' = job
      BY <2>1 DEF Crash
    <3>2. CASE DanglingIterator
      BY <3>1, <3>2 DEF DanglingIterator, Held
    <3>3. CASE EventsRace
      <4>1. pc[Listener] = "check" /\ job[Listener].q \in Name
        BY <3>3 DEF EventsRace
      <4> QED
        BY <3>1, <4>1 DEF Held
    <3> QED
      BY <2>1, <3>2, <3>3 DEF Crash
  <2>2. CASE ~ Crash
    <3>1. pc[Listener] = "crashed"
      BY <1>2, <2>2, EndsBy
    <3>2. job'[Listener] = job[Listener]
      BY <3>1, LetGo
    <3> QED
      BY <3>1, <3>2 DEF Held
  <2> QED
    BY <2>1, <2>2
<1> QED
  BY <1>1, <1>2 DEF Held

\* An event is taken when the listener lets go of it.
LEMMA TakenStays ==
    ASSUME TypeOK, HandsInv, [Next]_vars,
           ~ (PushQueue(Listener) /\ job[Listener].q \in Name),
           ~ (Dropping /\ job[Listener].q \in Name)
    PROVE  BusTaken' = BusTaken
<1>1. \A cn \in Conn : InHand(cn) <=> Held /\ job[Listener].item.cn = cn
  BY DEF InHand, Held
<1>2. \A cn \in Conn : InHand(cn)' <=> Held' /\ job'[Listener].item.cn = cn
  BY DEF InHand, Held
<1>3. received \in [Conn -> Nat] /\ received' \in [Conn -> Nat]
  BY TypeStep DEF TypeOK, DataOK
<1>4. ASSUME NEW cn \in Conn
      PROVE  (IF InHand(cn) THEN received[cn] - 1 ELSE received[cn])'
             = IF InHand(cn) THEN received[cn] - 1 ELSE received[cn]
  <2>1. ASSUME NEW dn \in Conn, NEW n \in Name, PickEvent(dn, n)
        PROVE  (IF InHand(cn) THEN received[cn] - 1 ELSE received[cn])'
               = IF InHand(cn) THEN received[cn] - 1 ELSE received[cn]
    <3>1. /\ received' = [received EXCEPT ![dn] = received[dn] + 1]
          /\ pc[Listener] \in {"batch", "read"} /\ pc'[Listener] = "check"
          /\ job'[Listener].q = n
          /\ job'[Listener].item = [cn |-> dn, seq |-> received[dn] + 1]
      BY <2>1, Picking
    <3>2. job'[Listener].ret # "close"
      <4>1. PointOK(Listener, pc[Listener], job[Listener].ret)'
        BY <3>1, TypeStep, ThreadFacts DEF TypeOK, ControlOK
      <4> QED
        BY <3>1, <4>1 DEF PointOK
    <3>3. ~ InHand(cn) /\ (InHand(cn)' <=> dn = cn)
      BY <3>1, <3>2, <1>1, <1>2 DEF Held
    <3>4. received'[cn] = IF dn = cn THEN received[cn] + 1 ELSE received[cn]
      BY <1>3, <3>1
    <3> QED
      BY <1>3, <3>3, <3>4
  <2>2. CASE ~ \E dn \in Conn, n \in Name : PickEvent(dn, n)
    <3>1. received' = received
      BY <2>2, ReceiveOnly
    <3>2. InHand(cn)' <=> InHand(cn)
      <4>1. CASE Held
        BY <1>1, <1>2, <4>1, HeldStays DEF Held
      <4>2. CASE ~ Held
        BY <1>1, <1>2, <2>2, <4>2, HeldComes
      <4> QED
        BY <4>1, <4>2
    <3> QED
      BY <3>1, <3>2
  <2> QED
    BY <2>1, <2>2
<1> QED
  BY <1>4 DEF BusTaken

\* A consumer is called back by its pop, until the callback returns.
LEMMA CallingStays ==
    ASSUME TypeOK, [Next]_vars, ~ Crash,
           \A c \in Consumer : ~ (Pop(c) /\ StageQueue(stage[c]) \in Name),
           \A c \in Consumer : ~ (CallbackReturn(c) /\ current[c].q \in Name)
    PROVE  BusCalling' = BusCalling
<1>1. ASSUME NEW c \in Consumer
      PROVE  /\ Calling(c) /\ current[c].q \in Name <=> Calling(c)' /\ current'[c].q \in Name
             /\ Calling(c) => current'[c] = current[c]
  <2> USE ThreadFacts DEF Goto, TypeOK, ControlOK, DataOK
  <2>1. CASE ~ ConsumerStep(c)
    <3>1. current'[c] = current[c]
      BY <2>1, ConsumerKept
    <3>2. Calling(c)' <=> Calling(c)
      <4>1. CASE RunConsumer(c)
        BY <4>1 DEF RunConsumer, Calling
      <4>2. CASE ~ RunConsumer(c)
        BY <2>1, <4>2, ConsumerKept DEF Calling
      <4> QED
        BY <4>1, <4>2
    <3> QED
      BY <3>1, <3>2
  <2>2. CASE ConsumerTest(c) \/ WakeUp(c) \/ TimeOut(c) \/ EndPass(c) \/ NextQueue(c)
    BY <2>2 DEF ConsumerTest, WakeUp, TimeOut, EndPass, NextQueue, Calling
  <2>3. CASE Pop(c)
    <3>1. pc[c] = "drain" /\ current'[c].q = StageQueue(stage[c])
      BY <2>3, Popped
    <3> QED
      BY <2>3, <3>1 DEF Calling
  <2>4. CASE CallbackReturn(c)
    BY <2>4 DEF CallbackReturn, Calling
  <2>5. CASE TellCheck(c) \/ TellPush(c)
    <3>1. PointOK(c, pc[c], job[c].ret)
      OBVIOUS
    <3>2. current' = current /\ Calling(c) /\ Calling(c)'
      BY <2>5, <3>1 DEF TellCheck, TellPush, Calling, PointOK
    <3> QED
      BY <3>2
  <2> QED
    BY <2>1, <2>2, <2>3, <2>4, <2>5 DEF ConsumerStep
<1>2. \A c \in Consumer :
        (IF Calling(c) /\ current[c].q \in Name THEN current[c].q ELSE Null)'
        = IF Calling(c) /\ current[c].q \in Name THEN current[c].q ELSE Null
  BY <1>1
<1> QED
  BY <1>2 DEF BusCalling, Calling
------------------------------------------------------------------------------
(* The bus: every step of the threads is a step of it, or none *)

\* A step of the listener leaves the callbacks alone.
LEMMA CallbacksAlone ==
    ASSUME TypeOK, NEW l, pc' = [pc EXCEPT ![Listener] = l], current' = current
    PROVE  BusCalling' = BusCalling
<1>1. \A c \in Consumer : pc'[c] = pc[c]
  BY ThreadFacts DEF TypeOK, ControlOK
<1> QED
  BY <1>1 DEF BusCalling

\* What the listener lets go of is the next event of its connection.
LEMMA LetsGo ==
    ASSUME TypeOK, OrderInv, StopInv, pc[Listener] \in {"check", "push"}, job[Listener].q \in Name,
           received' = received, pc'[Listener] \notin {"check", "push", "done", "off", "crashed"}
    PROVE  \E cn \in Conn :
             /\ BusOpen /\ joined = {} /\ BusOpen' = BusOpen
             /\ BusTaken' = [BusTaken EXCEPT ![cn] = BusTaken[cn] + 1]
             /\ job[Listener].item = [cn |-> cn, seq |-> BusTaken[cn] + 1]
<1>1. PICK cn \in Conn : job[Listener].item.cn = cn /\ job[Listener].item.seq = received[cn]
  BY DEF OrderInv, PickedLast, Pending
<1>2. job[Listener].item = [cn |-> cn, seq |-> received[cn]]
  <2>1. job[Listener].item \in Item
    BY ThreadFacts DEF TypeOK, DataOK, Job
  <2> QED
    BY <1>1, <2>1 DEF Item
<1>3. \A dn \in Conn : InHand(dn) <=> dn = cn
  <2>1. job[Listener].ret # "close" \/ pc[Listener] = "push"
    BY Points DEF PointOK
  <2>2. PointOK(Listener, pc[Listener], job[Listener].ret)
    BY Points
  <2>3. job[Listener].ret # "close"
    BY <2>2 DEF PointOK
  <2> QED
    BY <1>1, <2>3 DEF InHand
<1>4. \A dn \in Conn : ~ InHand(dn)'
  BY DEF InHand
<1>5. received \in [Conn -> Nat]
  BY DEF TypeOK, DataOK
<1>6. BusTaken = [dn \in Conn |-> IF dn = cn THEN received[dn] - 1 ELSE received[dn]]
  BY <1>3 DEF BusTaken
<1>7. BusTaken' = [dn \in Conn |-> received[dn]]
  BY <1>4 DEF BusTaken
<1>8. BusTaken[cn] + 1 = received[cn]
  BY <1>5, <1>6
<1>9. BusTaken' = [BusTaken EXCEPT ![cn] = BusTaken[cn] + 1]
  BY <1>5, <1>6, <1>7, <1>8
<1>10. BusOpen /\ joined = {} /\ BusOpen'
  BY DEF BusOpen, StopInv, ListenerStops
<1> QED
  BY <1>2, <1>8, <1>9, <1>10 DEF BusOpen

\* The push: the queue is still within the limit that the listener tested.
LEMMA BusPublishes ==
    ASSUME TypeOK, LimitInv, OrderInv, StopInv, [Next]_vars,
           PushQueue(Listener), job[Listener].q \in Name
    PROVE  \E cn \in Conn, q \in Name : Bus!Publish(cn, q)
<1> DEFINE q == job[Listener].q
           x == job[Listener].item
<1>1. /\ x \in Item /\ handled' = handled /\ received' = received
      /\ pc[Listener] = "push" /\ pc'[Listener] = "notify"
      /\ pc' = [pc EXCEPT ![Listener] = "notify"]
      /\ current' = current /\ lost' = lost /\ joined' = joined
  BY Pushed DEF PushQueue, Goto
<1>2. PICK cn \in Conn :
        /\ BusOpen /\ joined = {} /\ BusOpen' = BusOpen
        /\ BusTaken' = [BusTaken EXCEPT ![cn] = BusTaken[cn] + 1]
        /\ x = [cn |-> cn, seq |-> BusTaken[cn] + 1]
  BY <1>1, LetsGo
<1>3. BusSent' = [BusSent EXCEPT ![q] = Append(BusSent[q], x)]
  <2>1. \A r \in Name : r # q => handled'[r] \o m_events'[r] = Seen(r)
    BY SeenStep
  <2>2. handled'[q] \o m_events'[q] = Append(Seen(q), x)
    <3>1. /\ m_events'[q] = Append(m_events[q], x) /\ handled'[q] = handled[q]
          /\ m_events[q] \in Seq(Item) /\ handled[q] \in Seq(Item)
      BY <1>1, Pushed, NameQueues, QueueLength
    <3> DEFINE h == handled[q]
               m == m_events[q]
    <3>2. h \o Append(m, x) = Append(h \o m, x)
      <4>1. h \in Seq(Item) /\ m \in Seq(Item) /\ x \in Item
        BY <1>1, <3>1
      <4> HIDE DEF h, m, x
      <4> QED
        BY <4>1, AppendLast
    <3> QED
      BY <3>1, <3>2 DEF Seen
  <2>3. \A r \in Name : (handled[r] \o m_events[r])' = IF r = q THEN Append(BusSent[r], x) ELSE BusSent[r]
    BY <2>1, <2>2 DEF BusSent, Seen
  <2> QED
    BY <2>3 DEF BusSent
<1>4. BusServed' = BusServed /\ BusLost' = BusLost /\ BusCalling' = BusCalling
  <2>1. BusCalling' = BusCalling
    BY <1>1, CallbacksAlone
  <2> QED
    BY <1>1, <2>1 DEF BusServed, BusLost
<1>5. ~ (MaxQueueSize > 0 /\ Len(BusSent[q]) - BusServed[q] > MaxQueueSize)
  <2>1. Limited(q)
    BY NameQueues DEF LimitInv
  <2>2. Len(BusSent[q]) - BusServed[q] = Len(m_events[q]) /\ Len(m_events[q]) \in Nat
    BY BusTypes
  <2> QED
    BY <1>1, <2>1, <2>2, CountAssumption DEF Limited
<1> HIDE DEF q, x
<1>6. q \in Name
  BY DEF q
<1>7. Bus!Publish(cn, q)
  BY <1>1, <1>2, <1>3, <1>4, <1>5 DEF Bus!Publish, Bus!Take, Bus!Full, Bus!Backlog, Bus!Event
<1> QED
  BY <1>6, <1>7

\* The drop.
LEMMA BusDrops ==
    ASSUME TypeOK, OrderInv, StopInv, Dropping, job[Listener].q \in Name
    PROVE  \E cn \in Conn, q \in Name : Bus!Drop(cn, q)
<1> DEFINE q == job[Listener].q
           x == job[Listener].item
<1>1. /\ handled' = handled /\ m_events' = m_events /\ received' = received
      /\ pc[Listener] = "check" /\ pc' = [pc EXCEPT ![Listener] = job[Listener].ret]
      /\ current' = current /\ lost' = lost \cup {<<q, x>>} /\ joined' = joined
  BY DEF Dropping, CheckQueue, Goto
<1>2. pc'[Listener] \in {"read", "batch"}
  <2>1. job[Listener].ret \in {"read", "batch"}
    BY <1>1, Points DEF PointOK
  <2> QED
    BY <1>1, <2>1, ThreadFacts DEF TypeOK, ControlOK
<1>3. PICK cn \in Conn :
        /\ BusOpen /\ joined = {} /\ BusOpen' = BusOpen
        /\ BusTaken' = [BusTaken EXCEPT ![cn] = BusTaken[cn] + 1]
        /\ x = [cn |-> cn, seq |-> BusTaken[cn] + 1]
  BY <1>1, <1>2, LetsGo
<1>4. BusServed' = BusServed /\ BusSent' = BusSent /\ BusCalling' = BusCalling
  <2>1. BusCalling' = BusCalling
    BY <1>1, CallbacksAlone
  <2> QED
    BY <1>1, <2>1 DEF BusServed, BusSent
<1>5. MaxQueueSize > 0 /\ Len(BusSent[q]) - BusServed[q] > MaxQueueSize
  BY BusTypes DEF Dropping, IsFull
<1>6. BusLost' = BusLost \cup {<<q, x>>}
  BY <1>1 DEF BusLost
<1> HIDE DEF q, x
<1>7. q \in Name
  BY DEF q
<1>8. Bus!Drop(cn, q)
  BY <1>1, <1>3, <1>4, <1>5, <1>6 DEF Bus!Drop, Bus!Take, Bus!Full, Bus!Backlog, Bus!Event
<1> QED
  BY <1>7, <1>8

\* The pop: as long as the links are intact, the consumer owns what it serves.
LEMMA BusCalls ==
    ASSUME TypeOK, LinksOK, OwnersInv, [Next]_vars,
           NEW c \in Consumer, Pop(c), StageQueue(stage[c]) \in Name
    PROVE  \E q \in Name : Bus!Call(c, q)
<1> DEFINE q == StageQueue(stage[c])
<1>1. /\ m_events[q] # <<>> /\ m_events'[q] = Tail(m_events[q])
      /\ handled'[q] = Append(handled[q], Head(m_events[q]))
      /\ current'[c].q = q /\ received' = received /\ lost' = lost /\ job' = job
      /\ pc[c] = "drain" /\ pc'[c] = "call" /\ stage[c] \in Stage
      /\ pc'[Listener] = pc[Listener]
  BY Popped
<1>2. /\ handled' = [handled EXCEPT ![q] = Append(handled[q], Head(m_events[q]))]
      /\ current' = [current EXCEPT ![c] = [q |-> q, item |-> Head(m_events[q])]]
      /\ pc' = [pc EXCEPT ![c] = "call"] /\ joined' = joined
  BY DEF Pop, Goto
<1>3. BusOpen => Owner(q) = c
  <2> SUFFICES ASSUME BusOpen PROVE Owner(q) = c
    OBVIOUS
  <2>1. m_links = LinkTable
    BY DEF BusOpen, LinksOK
  <2>2. stage[c] # EndStage /\ InPass(c)
    BY <1>1, StageFacts DEF InPass
  <2>3. Serves(c, stage[c])
    BY <2>2 DEF OwnersInv, BusOpen
  <2> QED
    BY <1>1, <2>1, <2>3, ServesOwn
<1>4. m_events[q] \in Seq(Item) /\ handled[q] \in Seq(Item) /\ Head(m_events[q]) \in Item
  <2>1. m_events[q] \in Seq(Item) /\ handled[q] \in Seq(Item)
    BY NameQueues, QueueLength
  <2> QED
    BY <1>1, <2>1, HeadTailProperties
<1>5. BusServed' = [BusServed EXCEPT ![q] = BusServed[q] + 1]
  <2>1. Len(handled'[q]) = Len(handled[q]) + 1
    BY <1>1, <1>4, AppendProperties
  <2>2. \A r \in Name : r # q => handled'[r] = handled[r]
    BY <1>2, NameQueues DEF TypeOK, DataOK
  <2>3. \A r \in Name : Len(handled'[r]) = IF r = q THEN BusServed[r] + 1 ELSE BusServed[r]
    BY <2>1, <2>2 DEF BusServed
  <2> QED
    BY <2>3 DEF BusServed
<1>6. Len(BusSent[q]) - BusServed[q] > 0
  <2>1. Len(m_events[q]) # 0
    BY <1>1, <1>4, EmptySeq
  <2> QED
    BY <2>1, BusTypes
<1>7. BusCalling[c] = Null /\ BusCalling' = [BusCalling EXCEPT ![c] = q]
  <2>1. BusCalling[c] = Null
    BY <1>1 DEF BusCalling
  <2>2. \A d \in Consumer : d # c => pc'[d] = pc[d] /\ current'[d] = current[d]
    BY <1>2, ThreadFacts DEF TypeOK, DataOK, ControlOK
  <2>3. \A d \in Consumer :
          (IF pc[d] \in {"call", "tell_check", "tell_push"} /\ current[d].q \in Name
           THEN current[d].q ELSE Null)' = IF d = c THEN q ELSE BusCalling[d]
    BY <1>1, <2>2 DEF BusCalling
  <2> QED
    BY <2>1, <2>3 DEF BusCalling
<1>8. BusSent' = BusSent
  <2>1. ~ PushQueue(Listener)
    BY <1>1, Pushed
  <2> QED
    BY <2>1, SentStays
<1>9. BusTaken' = BusTaken /\ BusLost' = BusLost /\ BusOpen' = BusOpen
  BY <1>1 DEF BusTaken, BusLost, BusOpen, InHand
<1> HIDE DEF q
<1>10. q \in Name
  BY DEF q
<1>11. BusOpen => [r \in Name |-> Owner(r)][q] = c
  BY <1>3, <1>10
<1>12. Bus!Call(c, q)
  BY <1>2, <1>5, <1>6, <1>7, <1>8, <1>9, <1>11 DEF Bus!Call, Bus!Backlog
<1> QED
  BY <1>10, <1>12

\* A consumer is through with its callback.
LEMMA BusReturns ==
    ASSUME TypeOK, NEW c \in Consumer, CallbackReturn(c), current[c].q \in Name
    PROVE  Bus!Return(c)
<1>1. /\ pc[c] = "call" /\ pc' = [pc EXCEPT ![c] = "drain"] /\ current' = current
      /\ m_events' = m_events /\ handled' = handled /\ lost' = lost /\ joined' = joined
      /\ received' = received /\ job' = job
  BY DEF CallbackReturn, Goto
<1>2. pc'[c] = "drain" /\ pc'[Listener] = pc[Listener] /\ \A d \in Consumer : d # c => pc'[d] = pc[d]
  BY <1>1, ThreadFacts DEF TypeOK, ControlOK
<1>3. BusCalling[c] # Null
  BY <1>1, NameQueues DEF BusCalling
<1>4. BusCalling' = [BusCalling EXCEPT ![c] = Null]
  <2>1. \A d \in Consumer :
          (IF pc[d] \in {"call", "tell_check", "tell_push"} /\ current[d].q \in Name
           THEN current[d].q ELSE Null)' = IF d = c THEN Null ELSE BusCalling[d]
    BY <1>1, <1>2 DEF BusCalling
  <2> QED
    BY <2>1 DEF BusCalling
<1>5. BusTaken' = BusTaken /\ BusSent' = BusSent /\ BusServed' = BusServed /\ BusLost' = BusLost
      /\ BusOpen' = BusOpen
  BY <1>1, <1>2 DEF BusTaken, BusSent, BusServed, BusLost, BusOpen, InHand
<1> QED
  BY <1>1, <1>3, <1>4, <1>5 DEF Bus!Return

\* A consumer that was joined has left nothing under its names.
LEMMA BusJoins ==
    ASSUME TypeOK, StopInv, DrainInv, Joined
    PROVE  \E c \in Consumer : Bus!Join(c)
<1>1. /\ pc[Listener] = "await" /\ next_join \in Consumer /\ pc[next_join] = "done"
      /\ pc' = [pc EXCEPT ![Listener] = "join", ![next_join] = "off"]
      /\ joined' = joined \cup {next_join}
      /\ m_events' = m_events /\ handled' = handled /\ lost' = lost
      /\ received' = received /\ job' = job /\ current' = current
  BY JoinedFacts DEF Joined, StopInv, ListenerStops
<1>2. PICK c \in Consumer : c = next_join
  BY <1>1
<1>3. /\ pc'[Listener] = "join" /\ pc'[c] = "off"
      /\ \A d \in Consumer : d # c => pc'[d] = pc[d]
  BY <1>1, <1>2, ThreadFacts DEF TypeOK, ControlOK
<1>4. BusOpen /\ BusOpen' = BusOpen
  BY <1>1, <1>3 DEF BusOpen
<1>5. BusCalling[c] = Null
  BY <1>1, <1>2 DEF BusCalling
<1>6. BusCalling' = BusCalling
  <2>1. \A d \in Consumer : current'[d] = current[d]
          /\ (pc'[d] \in {"call", "tell_check", "tell_push"} <=> pc[d] \in {"call", "tell_check", "tell_push"})
    BY <1>1, <1>2, <1>3
  <2> QED
    BY <2>1 DEF BusCalling
<1>7. ASSUME NEW q \in Name, Owner(q) = c PROVE Len(BusSent[q]) - BusServed[q] = 0
  <2>1. Empties(c, q)
    BY <1>7, NameQueues DEF Empties
  <2>2. m_events[q] = <<>>
    BY <1>1, <1>2, <2>1, NameQueues DEF DrainInv
  <2>3. Len(m_events[q]) = 0
    BY <2>2, EmptySeq
  <2> QED
    BY <2>3, BusTypes
<1>8. \A q \in Name : [r \in Name |-> Owner(r)][q] = c => Len(BusSent[q]) - BusServed[q] = 0
  BY <1>7
<1>9. BusTaken' = BusTaken /\ BusSent' = BusSent /\ BusServed' = BusServed /\ BusLost' = BusLost
  BY <1>1, <1>3 DEF BusTaken, BusSent, BusServed, BusLost, InHand
<1>10. Bus!Join(c)
  BY <1>1, <1>2, <1>4, <1>5, <1>6, <1>8, <1>9 DEF Bus!Join, Bus!Backlog
<1> QED
  BY <1>10

\* The end of run_imp.
LEMMA BusReleases ==
    ASSUME TypeOK, Release
    PROVE  Bus!Close
<1>1. /\ pc[Listener] = "join" /\ pc' = [pc EXCEPT ![Listener] = "done"]
      /\ m_events' = m_events /\ handled' = handled /\ lost' = lost /\ joined' = joined
      /\ received' = received /\ job' = job /\ current' = current
  BY DEF Release, Goto
<1>2. pc'[Listener] = "done"
  BY <1>1, ThreadFacts DEF TypeOK, ControlOK
<1>3. BusOpen = TRUE /\ BusOpen' = FALSE
  BY <1>1, <1>2 DEF BusOpen
<1>4. BusCalling' = BusCalling
  BY <1>1, CallbacksAlone
<1>5. BusTaken' = BusTaken /\ BusSent' = BusSent /\ BusServed' = BusServed /\ BusLost' = BusLost
  BY <1>1, <1>2 DEF BusTaken, BusSent, BusServed, BusLost, InHand
<1> QED
  BY <1>1, <1>3, <1>4, <1>5 DEF Bus!Close

\* The end of the process: it stops where a thread may read freed memory, which is
\* before the listener ends.
LEMMA BusCrashes ==
    ASSUME TypeOK, HandsInv, [Next]_vars, Crash
    PROVE  Bus!Close
<1>1. /\ pc' = [t \in Thread |-> "crashed"]
      /\ m_events' = m_events /\ handled' = handled /\ lost' = lost /\ joined' = joined
      /\ received' = received /\ job' = job /\ current' = current
  BY DEF Crash
<1>2. \A t \in Thread : pc'[t] = "crashed"
  BY <1>1
<1>3. pc[Listener] \in {"check", "close"}
  BY DEF Crash, DanglingIterator, EventsRace
<1>4. BusOpen = TRUE /\ BusOpen' = FALSE
  BY <1>2, <1>3, ThreadFacts DEF BusOpen
<1>5. BusCalling' = [c \in Consumer |-> Null]
  BY <1>2, ThreadFacts DEF BusCalling
<1>6. BusTaken' = BusTaken
  <2>1. ~ PushQueue(Listener) /\ ~ Dropping
    <3>1. ASSUME PushQueue(Listener) PROVE FALSE
      BY <1>3, <3>1, Pushed
    <3>2. ASSUME Dropping PROVE FALSE
      <4>1. pc'[Listener] = job[Listener].ret
        \/ pc'[Listener] = "notify"
        BY <3>2, ThreadFacts DEF Dropping, CheckQueue, Goto, TypeOK, ControlOK
      <4>2. job[Listener].ret # "crashed"
        BY ThreadFacts DEF TypeOK, DataOK, Job
      <4> QED
        BY <1>2, <4>1, <4>2, ThreadFacts
    <3> QED
      BY <3>1, <3>2
  <2> QED
    BY <2>1, TakenStays
<1>7. BusSent' = BusSent /\ BusServed' = BusServed /\ BusLost' = BusLost
  BY <1>1 DEF BusSent, BusServed, BusLost
<1> QED
  BY <1>1, <1>4, <1>5, <1>6, <1>7 DEF Bus!Close

\* What the threads do without the bus is a stutter.
LEMMA BusStep ==
    ASSUME TypeOK, LinksOK, LimitInv, OwnersInv, HandsInv, OrderInv, StopInv, DrainInv, [Next]_vars
    PROVE  [Bus!Next]_(Bus!bus)
<1>1. CASE PushQueue(Listener) /\ job[Listener].q \in Name
  BY <1>1, BusPublishes DEF Bus!Next
<1>2. CASE Dropping /\ job[Listener].q \in Name
  BY <1>2, BusDrops DEF Bus!Next
<1>3. ASSUME NEW c \in Consumer, Pop(c), StageQueue(stage[c]) \in Name PROVE Bus!Next
  BY <1>3, BusCalls DEF Bus!Next
<1>4. ASSUME NEW c \in Consumer, CallbackReturn(c), current[c].q \in Name PROVE Bus!Next
  BY <1>4, BusReturns DEF Bus!Next
<1>5. CASE Joined
  BY <1>5, BusJoins DEF Bus!Next
<1>6. CASE Release \/ Crash
  BY <1>6, BusReleases, BusCrashes DEF Bus!Next
<1>7. CASE /\ ~ (PushQueue(Listener) /\ job[Listener].q \in Name)
           /\ ~ (Dropping /\ job[Listener].q \in Name)
           /\ \A c \in Consumer : ~ (Pop(c) /\ StageQueue(stage[c]) \in Name)
           /\ \A c \in Consumer : ~ (CallbackReturn(c) /\ current[c].q \in Name)
           /\ ~ Joined /\ ~ Release /\ ~ Crash
  <2>1. BusTaken' = BusTaken /\ BusSent' = BusSent /\ BusServed' = BusServed
    BY <1>7, TakenStays, SentStays, ServedStays
  <2>2. BusLost' = BusLost /\ BusCalling' = BusCalling /\ joined' = joined /\ BusOpen' = BusOpen
    BY <1>7, LostStays, CallingStays, JoinedStays, OpenStays
  <2> QED
    BY <2>1, <2>2 DEF Bus!bus
<1> QED
  BY <1>1, <1>2, <1>3, <1>4, <1>5, <1>6, <1>7

\* At first nothing was taken.
LEMMA BusInit == Init => Bus!Init
<1> SUFFICES ASSUME Init PROVE Bus!Init
  OBVIOUS
<1>1. /\ pc[Listener] = "test" /\ \A c \in Consumer : pc[c] = "off"
      /\ joined = {} /\ lost = {}
      /\ \A cn \in Conn : received[cn] = 0
      /\ \A q \in Name : handled[q] = <<>> /\ m_events[q] = <<>>
  BY ThreadFacts, NameQueues DEF Init
<1>2. BusTaken = [cn \in Conn |-> 0]
  BY <1>1 DEF BusTaken, InHand
<1>3. BusSent = [q \in Name |-> <<>>] /\ BusServed = [q \in Name |-> 0]
  <2>1. <<>> \o <<>> = <<>> /\ Len(<<>>) = 0
    BY EmptySeq, ConcatEmptySeq
  <2> QED
    BY <1>1, <2>1 DEF BusSent, BusServed
<1>4. BusLost = {} /\ BusCalling = [c \in Consumer |-> Null] /\ BusOpen = TRUE
  BY <1>1 DEF BusLost, BusCalling, BusOpen
<1> QED
  BY <1>1, <1>2, <1>3, <1>4 DEF Bus!Init

\* Everything about EventDispatch that the steps of the bus rest on.
BusInv == /\ TypeOK /\ LinksOK /\ LimitInv /\ OwnersInv /\ HandsInv /\ OrderInv
          /\ StopInv /\ DrainInv

\* All of them at once.
LEMMA BusAlways == Spec => []BusInv
<1>1. Init => BusInv
  <2>1. Init => LimitInv
    BY CountAssumption, ThreadFacts DEF Init, LimitInv, Limited
  <2>2. Init => OwnersInv /\ LinksOK
    BY ThreadFacts DEF Init, OwnersInv, LinksOK, InPass, Calling
  <2>3. Init => HandsInv
    BY ThreadFacts DEF Init, HandsInv, Pending
  <2> QED
    BY <2>1, <2>2, <2>3, InitType, OrderInit, InitStops DEF BusInv
<1>2. BusInv /\ [Next]_vars => BusInv'
  BY TypeStep, LinksStep, LimitStep, OwnersStep, HandsStep, OrderStep, StopStep, DrainStep DEF BusInv
<1> QED
  BY <1>1, <1>2, PTL DEF Spec

\* EventListener and EventConsumer: the listener and the consumers are the bus of
\* EventBus for the events with a name. The size test and the push of the listener,
\* which other threads come between, are as good as one step; callbacks are called by
\* the owner and in order; and the joins leave nothing behind for who was joined.
THEOREM DispatchImplementsBus == Spec => ImplementsBus
<1>1. BusInv /\ [Next]_vars => [Bus!Next]_(Bus!bus)
  BY BusStep DEF BusInv
<1> QED
  BY <1>1, BusAlways, BusInit, PTL DEF Spec, ImplementsBus, Bus!Spec

\* The bus keeps every event where it put it, and puts only the next event of a
\* connection anywhere, in one place.
LEMMA PlacesGrow ==
    ASSUME TypeOK, NEW cn \in Conn, NEW q \in Name, Bus!Publish(cn, q) \/ Bus!Drop(cn, q)
    PROVE  \E p : \A e :
             (Bus!Places(e))' = IF e = Bus!Event(cn) THEN Bus!Places(e) \cup {p} ELSE Bus!Places(e)
<1> DEFINE x == Bus!Event(cn)
<1>1. BusSent[q] \in Seq(Item) /\ BusSent \in [Name -> Seq(Item)]
  BY BusTypes DEF BusSent
<1>2. ASSUME Bus!Publish(cn, q)
      PROVE  \E p : \A e : (Bus!Places(e))' = IF e = x THEN Bus!Places(e) \cup {p} ELSE Bus!Places(e)
  <2> DEFINE i == Len(BusSent[q]) + 1
  <2>1. BusSent' = [BusSent EXCEPT ![q] = Append(BusSent[q], x)] /\ BusLost' = BusLost
    BY <1>2 DEF Bus!Publish
  <2>2. \A r \in Name : r # q => BusSent'[r] = BusSent[r]
    BY <1>1, <2>1
  <2>3. BusSent'[q] = Append(BusSent[q], x) /\ Len(BusSent'[q]) = i /\ i \in Nat \ {0}
        /\ BusSent'[q][i] = x /\ \A k \in 1 .. Len(BusSent[q]) : BusSent'[q][k] = BusSent[q][k]
    <3> HIDE DEF x
    <3>1. BusSent'[q] = Append(BusSent[q], x)
      BY <1>1, <2>1
    <3>2. Len(BusSent[q]) \in Nat
      BY <1>1, LenProperties
    <3> QED
      BY <1>1, <3>1, <3>2
  <2>4. ASSUME NEW e, NEW r \in Name, r # q
        PROVE  (Bus!At(r, e))' = Bus!At(r, e)
    BY <2>1, <2>2, <2>4 DEF Bus!At
  <2>5. ASSUME NEW e
        PROVE  (Bus!At(q, e))' = IF e = x THEN Bus!At(q, e) \cup {i} ELSE Bus!At(q, e)
    <3> HIDE DEF x
    <3>1. Len(BusSent[q]) \in Nat /\ i \notin 0 .. Len(BusSent[q])
          /\ 0 .. i = (0 .. Len(BusSent[q])) \cup {i}
      BY <1>1, LenProperties
    <3>2. (Bus!At(q, e))' = {k \in 0 .. i : IF k = 0 THEN <<q, e>> \in BusLost ELSE BusSent'[q][k] = e}
      BY <2>1, <2>3 DEF Bus!At
    <3>3. \A k \in 0 .. Len(BusSent[q]) : k # 0 => BusSent'[q][k] = BusSent[q][k]
      BY <2>3, <3>1
    <3> HIDE DEF i
    <3> QED
      BY <2>3, <3>1, <3>2, <3>3 DEF Bus!At
  <2>6. \A e : (Bus!Places(e))' = IF e = x THEN Bus!Places(e) \cup {<<q, i>>} ELSE Bus!Places(e)
    <3> HIDE DEF x, i
    <3> SUFFICES ASSUME NEW e
                 PROVE  (Bus!Places(e))' = IF e = x THEN Bus!Places(e) \cup {<<q, i>>} ELSE Bus!Places(e)
      OBVIOUS
    <3>1. ASSUME NEW r \in Name
          PROVE  {r} \X (Bus!At(r, e))' = IF r = q /\ e = x THEN ({r} \X Bus!At(r, e)) \cup {<<q, i>>}
                                                         ELSE {r} \X Bus!At(r, e)
      BY <2>4, <2>5
    <3> QED
      BY <3>1 DEF Bus!Places
  <2> QED
    BY <2>6
<1>3. ASSUME Bus!Drop(cn, q)
      PROVE  \E p : \A e : (Bus!Places(e))' = IF e = x THEN Bus!Places(e) \cup {p} ELSE Bus!Places(e)
  <2>1. BusSent' = BusSent /\ BusLost' = BusLost \cup {<<q, x>>}
    BY <1>3 DEF Bus!Drop
  <2> HIDE DEF x
  <2>2. ASSUME NEW e, NEW r \in Name
        PROVE  (Bus!At(r, e))' = IF r = q /\ e = x THEN Bus!At(r, e) \cup {0} ELSE Bus!At(r, e)
    <3>1. Len(BusSent[r]) \in Nat
      BY <1>1, LenProperties
    <3>2. <<r, e>> \in BusLost' <=> <<r, e>> \in BusLost \/ (r = q /\ e = x)
      BY <2>1
    <3>3. (Bus!At(r, e))' = {k \in 0 .. Len(BusSent[r]) : IF k = 0 THEN <<r, e>> \in BusLost' ELSE BusSent[r][k] = e}
      BY <2>1 DEF Bus!At
    <3> QED
      BY <3>1, <3>2, <3>3 DEF Bus!At
  <2>3. \A e : (Bus!Places(e))' = IF e = x THEN Bus!Places(e) \cup {<<q, 0>>} ELSE Bus!Places(e)
    <3> SUFFICES ASSUME NEW e
                 PROVE  (Bus!Places(e))' = IF e = x THEN Bus!Places(e) \cup {<<q, 0>>} ELSE Bus!Places(e)
      OBVIOUS
    <3>1. ASSUME NEW r \in Name
          PROVE  {r} \X (Bus!At(r, e))' = IF r = q /\ e = x THEN ({r} \X Bus!At(r, e)) \cup {<<q, 0>>}
                                                         ELSE {r} \X Bus!At(r, e)
      BY <2>2
    <3> QED
      BY <3>1 DEF Bus!Places
  <2> QED
    BY <2>3
<1> QED
  BY <1>2, <1>3

\* The inductive invariant: what the bus has not taken yet is nowhere, however far off.
FateInv ==
    \A cn \in Conn, n \in Int :
        LET places == Bus!Places([cn |-> cn, seq |-> n])
        IN  /\ n \in 1 .. BusTaken[cn] => \E p : places = {p}
            /\ n > BusTaken[cn] => places = {}

\* A step of the bus gives one event its place, and no other step moves one.
LEMMA FateStep ==
    ASSUME TypeOK, FateInv, [Bus!Next]_(Bus!bus)
    PROVE  FateInv'
<1>0. \A cn \in Conn : BusTaken[cn] \in Int
  BY BusTypes DEF BusTaken
<1>1. ASSUME NEW cn \in Conn, NEW q \in Name, Bus!Publish(cn, q) \/ Bus!Drop(cn, q)
      PROVE  FateInv'
  <2> DEFINE x == Bus!Event(cn)
  <2>1. x = [cn |-> cn, seq |-> BusTaken[cn] + 1]
    BY DEF Bus!Event
  <2>2. BusTaken' = [BusTaken EXCEPT ![cn] = BusTaken[cn] + 1]
    BY <1>1 DEF Bus!Publish, Bus!Drop, Bus!Take
  <2>3. PICK p : \A e : (Bus!Places(e))' = IF e = x THEN Bus!Places(e) \cup {p} ELSE Bus!Places(e)
    BY <1>1, PlacesGrow
  <2> HIDE DEF x
  <2> SUFFICES ASSUME NEW dn \in Conn, NEW n \in Int
               PROVE  LET e == [cn |-> dn, seq |-> n]
                      IN  /\ n \in 1 .. BusTaken'[dn] => \E s : (Bus!Places(e))' = {s}
                          /\ n > BusTaken'[dn] => (Bus!Places(e))' = {}
    BY DEF FateInv
  <2> DEFINE e == [cn |-> dn, seq |-> n]
  <2>4. BusTaken'[dn] = IF dn = cn THEN BusTaken[dn] + 1 ELSE BusTaken[dn]
    BY <2>2 DEF BusTaken
  <2>5. e = x <=> dn = cn /\ n = BusTaken[cn] + 1
    BY <2>1
  <2>6. /\ n \in 1 .. BusTaken[dn] => \E s : Bus!Places(e) = {s}
        /\ n > BusTaken[dn] => Bus!Places(e) = {}
    BY DEF FateInv
  <2>7. (Bus!Places(e))' = IF e = x THEN Bus!Places(e) \cup {p} ELSE Bus!Places(e)
    BY <2>3
  <2> HIDE DEF e
  <2>8. CASE e = x
    <3>1. (Bus!Places(e))' = {p}
      BY <1>0, <2>5, <2>6, <2>7, <2>8
    <3>2. ~ (n > BusTaken'[dn])
      BY <1>0, <2>4, <2>5, <2>8
    <3> QED
      BY <3>1, <3>2 DEF e
  <2>9. CASE e # x
    <3>1. n \in 1 .. BusTaken'[dn] => n \in 1 .. BusTaken[dn]
      BY <1>0, <2>4, <2>5, <2>9
    <3>2. n > BusTaken'[dn] => n > BusTaken[dn]
      BY <1>0, <2>4
    <3> QED
      BY <2>6, <2>7, <2>9, <3>1, <3>2 DEF e
  <2> QED
    BY <2>8, <2>9
<1>2. CASE BusTaken' = BusTaken /\ BusSent' = BusSent /\ BusLost' = BusLost
  <2>1. \A e : (Bus!Places(e))' = Bus!Places(e)
    BY <1>2 DEF Bus!Places, Bus!At
  <2> QED
    BY <1>2, <2>1 DEF FateInv
<1> QED
  BY <1>1, <1>2 DEF Bus!Next, Bus!bus, Bus!Call, Bus!Return, Bus!Join, Bus!Close

\* read_connection, check_queue_size and push: every event with a name that the
\* listener is done with is under one name and in one place there, in the order of
\* the callbacks or among the lost ones, never in two and never in none.
THEOREM EventsHaveOneFate == Spec => []OneFate
<1>1. Init => FateInv
  <2> SUFFICES ASSUME Init PROVE FateInv
    OBVIOUS
  <2>1. /\ BusTaken = [cn \in Conn |-> 0] /\ BusSent = [q \in Name |-> <<>>] /\ BusLost = {}
    BY BusInit DEF Bus!Init
  <2>2. ASSUME NEW e, NEW q \in Name PROVE Bus!At(q, e) = {}
    <3>1. Len(BusSent[q]) = 0
      BY <2>1, EmptySeq
    <3> QED
      BY <2>1, <3>1 DEF Bus!At
  <2>3. \A e : Bus!Places(e) = {}
    BY <2>2 DEF Bus!Places
  <2> QED
    BY <2>1, <2>3 DEF FateInv
<1>2. TypeOK /\ FateInv => OneFate
  <2> SUFFICES ASSUME TypeOK, FateInv, NEW cn \in Conn
               PROVE  /\ \A n \in 1 .. BusTaken[cn] : \E p \in Bus!Places([cn |-> cn, seq |-> n]) :
                             Bus!Places([cn |-> cn, seq |-> n]) = {p}
                      /\ Bus!Places([cn |-> cn, seq |-> BusTaken[cn] + 1]) = {}
    BY DEF OneFate, Bus!OneFate
  <2>1. BusTaken[cn] \in Int
    BY BusTypes DEF BusTaken
  <2>2. ASSUME NEW n \in 1 .. BusTaken[cn]
        PROVE  \E p \in Bus!Places([cn |-> cn, seq |-> n]) : Bus!Places([cn |-> cn, seq |-> n]) = {p}
    <3>1. n \in Int
      BY <2>1
    <3>2. PICK p : Bus!Places([cn |-> cn, seq |-> n]) = {p}
      BY <3>1 DEF FateInv
    <3> QED
      BY <3>2
  <2>3. Bus!Places([cn |-> cn, seq |-> BusTaken[cn] + 1]) = {}
    BY <2>1 DEF FateInv
  <2> QED
    BY <2>2, <2>3
<1>3. BusInv /\ FateInv /\ [Next]_vars => FateInv'
  BY BusStep, FateStep DEF BusInv
<1>4. BusInv => TypeOK
  BY DEF BusInv
<1> QED
  BY <1>1, <1>2, <1>3, <1>4, BusAlways, PTL DEF Spec
=============================================================================

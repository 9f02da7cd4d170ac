------------------------- MODULE EventDispatchProofs -------------------------
(***************************************************************************)
(* Proofs about EventDispatch: its type invariant, that the handshake on   *)
(* wake_up loses no notification, the limit of the queues, who runs the    *)
(* callbacks, that events stay in order and that none vanishes, for any    *)
(* number of names, consumers and connections and any binding of names.    *)
(***************************************************************************)
EXTENDS EventDispatch, SequenceTheorems, FiniteSetTheorems, TLAPS

\* The links made by run_init name consumers, or nobody.
LEMMA LinkTableType == LinkTable \in [Name -> Consumer \cup {Null, Absent}]
<1>1. SUFFICES ASSUME NEW n \in Name
               PROVE  LinkTable[n] \in Consumer \cup {Null, Absent}
  BY Zenon DEF LinkTable
<1>2. CASE \E c \in Consumer : n \in Slots[c]
  BY <1>2, Zenon DEF LinkTable
<1>3. CASE ~ \E c \in Consumer : n \in Slots[c]
  BY <1>3, Zenon DEF LinkTable
<1> QED
  BY <1>2, <1>3

\* The initial job of a thread is well typed.
LEMMA NoJobType == NoJob \in Job
  BY ObjectAssumption, CountAssumption DEF NoJob, Job, Item, Queue, Disconnected

\* Initially every variable has its type.
LEMMA InitType == Init => TypeOK
<1> SUFFICES ASSUME Init PROVE TypeOK
  OBVIOUS
<1> USE CountAssumption DEF Init
<1>1. m_events \in [Queue -> Seq(Item)] /\ handled \in [Queue -> Seq(Item)]
  BY EmptySeq
<1>2. m_links \in [Name -> Consumer \cup {Null, Absent}]
  BY LinkTableType
<1>3. /\ pc \in [Thread -> Label]
      /\ pc[Listener] = "test"
      /\ \A c \in Consumer : pc[c] = "off"
      /\ pc[User] = "free"
  BY DEF Thread, Listener, Consumer, User, Label, ListenerLabel, ConsumerLabel, UserLabel
<1>4. job \in [Thread -> Job]
  BY NoJobType
<1>5. current \in [Consumer -> [q : Queue, item : Item]]
  BY NoJobType DEF Job
<1>6. stage \in [Consumer -> Stage \cup {EndStage}]
  BY DEF Stage, EndStage, LastStage
<1>7. /\ event_keys \subseteq Name
      /\ wake_up \in [Consumer -> BOOLEAN]
      /\ m_running \in [Consumer \cup {Listener} -> BOOLEAN]
      /\ accepted \subseteq Internal
      /\ internal \subseteq accepted
      /\ open \subseteq Conn
      /\ listening \subseteq Server
      /\ received \in [Conn -> Nat]
      /\ final \in [Consumer -> BOOLEAN]
      /\ todo \subseteq Internal
      /\ next_join \in 1 .. NConsumers + 1
      /\ waiting_for \in Consumer \cup {Listener}
      /\ disconnects \in Nat
      /\ lost \subseteq Queue \X Item
      /\ joined \subseteq Consumer
  BY DEF Conn, Listener
<1> QED
  BY <1>1, <1>2, <1>3, <1>4, <1>5, <1>6, <1>7
  DEF TypeOK, DataOK, ControlOK, PointOK, ListenerLabel, ConsumerLabel, UserLabel

------------------------------------------------------------------------------
(* Threads, queues and stages *)

\* The listener, the consumers and the user are different threads.
LEMMA ThreadFacts == /\ Thread = Consumer \cup {Listener, User}
                     /\ Listener \notin Consumer
                     /\ User \notin Consumer
                     /\ User # Listener
                     /\ Null \notin Consumer
                     /\ Absent \notin Consumer
                     /\ Null # Absent
BY CountAssumption DEF Thread, Consumer, Listener, User, Null, Absent

\* The names and the two kinds of disconnection are different queues.
LEMMA QueueFacts == /\ Queue = Name \cup {ServerDisconnected, Disconnected}
                    /\ ServerDisconnected \notin Name
                    /\ Disconnected \notin Name
                    /\ ServerDisconnected # Disconnected
BY CountAssumption DEF Queue, Name, ServerDisconnected, Disconnected

\* Every stage visits a queue.
LEMMA StageFacts ==
    /\ EndStage \notin Stage
    /\ \A k \in Stage : StageQueue(k) \in Queue
    /\ \A k \in Stage : k \in Name => StageQueue(k) = k
BY CountAssumption DEF Stage, EndStage, LastStage, StageQueue, Queue, Name

------------------------------------------------------------------------------
(* Type correctness *)

\* What every step below may use.
USE DEF shared, sockets, consumer, joining, history

\* A thread that moves to one of its program points leaves the others at theirs.
LEMMA Move ==
    ASSUME TypeOK, NEW t \in Thread, NEW l, PointOK(t, l, job'[t].ret),
           pc' = [pc EXCEPT ![t] = l],
           \A u \in Thread : u # t => job'[u] = job[u]
    PROVE  ControlOK'
<1>1. l \in Label
  BY ThreadFacts DEF PointOK, Label
<1>2. pc' \in [Thread -> Label]
  BY <1>1 DEF TypeOK, ControlOK
<1>3. ASSUME NEW u \in Thread PROVE PointOK(u, pc'[u], job'[u].ret)
  <2>1. CASE u = t
    BY <2>1 DEF TypeOK, ControlOK
  <2>2. CASE u # t
    <3>1. pc'[u] = pc[u] /\ job'[u] = job[u]
      BY <2>2 DEF TypeOK, ControlOK
    <3> QED
      BY <3>1 DEF TypeOK, ControlOK
  <2> QED
    BY <2>1, <2>2
<1> QED
  BY <1>2, <1>3 DEF ControlOK

\* What a label of a thread implies about its job.
LEMMA Points ==
    ASSUME TypeOK
    PROVE  /\ PointOK(Listener, pc[Listener], job[Listener].ret)
           /\ \A c \in Consumer : PointOK(c, pc[c], job[c].ret)
           /\ PointOK(User, pc[User], job[User].ret)
BY ThreadFacts DEF TypeOK, ControlOK

\* Connection::disconnect preserves the types, whatever thread calls it.
LEMMA DisconnectType ==
    ASSUME TypeOK, NEW t \in Thread, NEW cn \in Conn \cup Server,
           NEW ret \in {"connect", "close", "call", "free"}, Disconnect(t, cn, ret),
           PointOK(t, ret, job[t].ret), PointOK(t, "tell_check", ret)
    PROVE  /\ job' \in [Thread -> Job]
           /\ internal' \subseteq accepted
           /\ open' \subseteq Conn
           /\ ControlOK'
<1>1. [q |-> Disconnected, item |-> [cn |-> cn, seq |-> 0], ret |-> ret] \in Job
  BY QueueFacts DEF Job, Item
<1>2. job' \in [Thread -> Job] /\ internal' \subseteq accepted /\ open' \subseteq Conn
  BY <1>1 DEF TypeOK, DataOK, Disconnect
<1>3. CASE Managed(cn)
  <2>1. pc' = [pc EXCEPT ![t] = "tell_check"]
    BY <1>3 DEF Disconnect, Goto
  <2>2. /\ job'[t].ret = ret
        /\ \A u \in Thread : u # t => job'[u] = job[u]
    BY <1>3 DEF Disconnect, TypeOK, DataOK
  <2> QED
    BY <1>2, <2>1, <2>2, Move
<1>4. CASE ~ Managed(cn)
  BY <1>2, <1>4, Move DEF Disconnect, Goto
<1> QED
  BY <1>3, <1>4

\* The end of disconnect() preserves the types, whatever thread runs it.
LEMMA TellType ==
    ASSUME TypeOK, NEW t \in Thread, TellCheck(t) \/ TellPush(t)
    PROVE  TypeOK'
<1>1. DataOK'
  <2>1. CASE TellCheck(t)
    BY <2>1, QueueFacts DEF TellCheck, TypeOK, DataOK, Job
  <2>2. CASE TellPush(t)
    BY <2>2, QueueFacts DEF TellPush, TypeOK, DataOK, Job
  <2> QED
    BY <2>1, <2>2
<1>2. PointOK(t, job[t].ret, job[t].ret)
  BY ThreadFacts, Points
  DEF TellCheck, TellPush, PointOK, ListenerLabel, ConsumerLabel, UserLabel
<1>3. CASE pc' = [pc EXCEPT ![t] = job[t].ret]
  BY <1>1, <1>2, <1>3, Move DEF TellCheck, TellPush, TypeOK
<1>4. CASE TellCheck(t) /\ ~ IsFull(Disconnected)
  <2>1. pc[t] = "tell_check" /\ job' = job /\ pc' = [pc EXCEPT ![t] = "tell_push"]
    BY <1>4 DEF TellCheck, Goto
  <2>2. PointOK(t, "tell_push", job[t].ret)
    BY <2>1, ThreadFacts, Points
    DEF PointOK, ListenerLabel, ConsumerLabel, UserLabel
  <2> QED
    BY <1>1, <2>1, <2>2, Move DEF TypeOK
<1> QED
  BY <1>3, <1>4 DEF TellCheck, TellPush, Goto

\* The listener only waits for a consumer, never for the user.
LEMMA JoinedFacts ==
    ASSUME TypeOK, pc[next_join] = "done"
    PROVE  next_join \in Consumer /\ next_join + 1 \in 1 .. NConsumers + 1
<1>1. next_join \in Consumer \/ next_join = User
  BY CountAssumption DEF TypeOK, DataOK, Consumer, User
<1>2. pc[User] # "done"
  BY Points, ThreadFacts DEF PointOK, UserLabel
<1>3. next_join \in Consumer
  BY <1>1, <1>2
<1> QED
  BY <1>3, CountAssumption DEF Consumer

\* Every step of the listener on its own preserves the types.
LEMMA ListenerType == TypeOK /\ ListenerStep => TypeOK'
<1> SUFFICES ASSUME TypeOK, ListenerStep
             PROVE  TypeOK'
  OBVIOUS
<1> USE ThreadFacts, Points DEF Goto
<1>1. CASE LoopTest
  <2>1. DataOK'
    BY <1>1 DEF LoopTest, TypeOK, DataOK
  <2>2. ControlOK'
    BY <1>1, Move DEF LoopTest, PointOK, ListenerLabel
  <2> QED
    BY <2>1, <2>2 DEF TypeOK
<1>2. CASE EndBatch
  <2>1. DataOK'
    BY <1>2 DEF EndBatch, TypeOK, DataOK
  <2>2. ControlOK'
    BY <1>2, Move DEF EndBatch, PointOK, ListenerLabel
  <2> QED
    BY <2>1, <2>2 DEF TypeOK
<1>3. CASE ConnectReturn
  <2>1. DataOK'
    BY <1>3 DEF ConnectReturn, TypeOK, DataOK
  <2>2. ControlOK'
    BY <1>3, Move DEF ConnectReturn, PointOK, ListenerLabel
  <2> QED
    BY <2>1, <2>2 DEF TypeOK
<1>4. CASE EndRead
  <2>1. DataOK'
    BY <1>4 DEF EndRead, TypeOK, DataOK
  <2>2. ControlOK'
    BY <1>4, Move DEF EndRead, PointOK, ListenerLabel
  <2> QED
    BY <2>1, <2>2 DEF TypeOK
<1>5. CASE SafeDisconnect
  <2>1. DataOK'
    BY <1>5 DEF SafeDisconnect, TypeOK, DataOK
  <2>2. ControlOK'
    BY <1>5, Move DEF SafeDisconnect, PointOK, ListenerLabel
  <2> QED
    BY <2>1, <2>2 DEF TypeOK
<1>6. CASE CheckQueue(Listener)
  <2>1. DataOK'
    <3>1. job[Listener].q \in Queue /\ job[Listener].item \in Item
      BY DEF TypeOK, DataOK, Job
    <3>2. lost' \subseteq Queue \X Item
      BY <1>6, <3>1 DEF CheckQueue, TypeOK, DataOK
    <3>3. event_keys' \subseteq Name
      BY <1>6 DEF CheckQueue, Touch, TypeOK, DataOK
    <3> QED
      BY <1>6, <3>2, <3>3 DEF CheckQueue, TypeOK, DataOK
  <2>2. ControlOK'
    BY <1>6, Move DEF CheckQueue, Touch, PointOK, ListenerLabel
  <2> QED
    BY <2>1, <2>2 DEF TypeOK
<1>7. CASE PushQueue(Listener)
  <2>1. DataOK'
    <3>1. job[Listener].q \in Queue /\ job[Listener].item \in Item
      BY DEF TypeOK, DataOK, Job
    <3> QED
      BY <1>7, <3>1 DEF PushQueue, TypeOK, DataOK
  <2>2. ControlOK'
    BY <1>7, Move DEF PushQueue, PointOK, ListenerLabel
  <2> QED
    BY <2>1, <2>2 DEF TypeOK
<1>8. CASE Notify
  <2>1. DataOK'
    BY <1>8 DEF Notify, TypeOK, DataOK
  <2>2. ControlOK'
    BY <1>8, Move DEF Notify, PointOK, ListenerLabel
  <2> QED
    BY <2>1, <2>2 DEF TypeOK
<1>9. CASE CloseDone
  <2>1. DataOK'
    BY <1>9 DEF CloseDone, TypeOK, DataOK
  <2>2. ControlOK'
    BY <1>9, Move DEF CloseDone, PointOK, ListenerLabel
  <2> QED
    BY <2>1, <2>2 DEF TypeOK
<1>10. CASE JoinNext
  <2>1. DataOK'
    <3>1. next_join \in Consumer => next_join + 1 \in 1 .. NConsumers + 1
      BY CountAssumption DEF Consumer
    <3> QED
      BY <1>10, <3>1 DEF JoinNext, TypeOK, DataOK
  <2>2. ControlOK'
    <3>1. CASE m_running[next_join]
      BY <1>10, <3>1, Move DEF JoinNext, PointOK, ListenerLabel
    <3>2. CASE ~ m_running[next_join]
      BY <1>10, <3>2 DEF JoinNext, TypeOK, ControlOK
    <3> QED
      BY <3>1, <3>2
  <2> QED
    BY <2>1, <2>2 DEF TypeOK
<1>11. CASE Joined
  <2>1. DataOK'
    <3>1. next_join + 1 \in 1 .. NConsumers + 1 /\ next_join \in Consumer
      BY <1>11, JoinedFacts DEF Joined
    <3> QED
      BY <1>11, <3>1 DEF Joined, TypeOK, DataOK
  <2>2. ControlOK'
    <3>1. next_join \in Consumer /\ job' = job
      BY <1>11, JoinedFacts DEF Joined
    <3>2. pc' = [pc EXCEPT ![Listener] = "join", ![next_join] = "off"]
      BY <1>11 DEF Joined
    <3>3. pc' \in [Thread -> Label]
      BY <3>1, <3>2 DEF TypeOK, ControlOK, Label, ListenerLabel, ConsumerLabel
    <3>4. ASSUME NEW u \in Thread PROVE PointOK(u, pc'[u], job'[u].ret)
      <4>1. CASE u = Listener
        BY <3>1, <3>2, <4>1 DEF TypeOK, ControlOK, PointOK, ListenerLabel
      <4>2. CASE u = next_join
        BY <3>1, <3>2, <4>2 DEF TypeOK, ControlOK, PointOK, ConsumerLabel
      <4>3. CASE u # Listener /\ u # next_join
        BY <3>1, <3>2, <4>3 DEF TypeOK, ControlOK
      <4> QED
        BY <4>1, <4>2, <4>3
    <3> QED
      BY <3>3, <3>4 DEF ControlOK
  <2> QED
    BY <2>1, <2>2 DEF TypeOK
<1>12. CASE Release
  <2>1. DataOK'
    BY <1>12 DEF Release, TypeOK, DataOK
  <2>2. ControlOK'
    BY <1>12, Move DEF Release, PointOK, ListenerLabel
  <2> QED
    BY <2>1, <2>2 DEF TypeOK
<1>13. CASE TellCheck(Listener) \/ TellPush(Listener)
  BY <1>13, TellType
<1>14. CASE \E cn \in Internal : CloseInternal(cn)
  <2>1. PICK cn \in Internal : CloseInternal(cn)
    BY <1>14
  <2>2. Disconnect(Listener, cn, "close")
    BY <2>1 DEF CloseInternal
  <2>3. /\ job' \in [Thread -> Job] /\ internal' \subseteq accepted /\ open' \subseteq Conn
        /\ ControlOK'
    BY <2>2, DisconnectType DEF PointOK, ListenerLabel, Conn
  <2> QED
    BY <2>1, <2>3 DEF CloseInternal, TypeOK, DataOK
<1> QED
  BY <1>1, <1>2, <1>3, <1>4, <1>5, <1>6, <1>7, <1>8, <1>9, <1>10, <1>11, <1>12, <1>13, <1>14 DEF ListenerStep

\* What the network makes the listener do preserves the types.
LEMMA NetworkType == TypeOK /\ Network => TypeOK'
<1> SUFFICES ASSUME TypeOK, Network
             PROVE  TypeOK'
  OBVIOUS
<1> USE ThreadFacts, QueueFacts DEF Goto
<1>1. ASSUME NEW cn \in Internal, Accept(cn) PROVE TypeOK'
  <2>1. DataOK'
    <3>1. job' \in [Thread -> Job]
      <4>1. [job[Listener] EXCEPT !.item = [cn |-> cn, seq |-> 0]] \in Job
        <5>1. job[Listener] \in Job /\ [cn |-> cn, seq |-> 0] \in Item
          BY DEF TypeOK, DataOK, Item, Conn
        <5> QED
          BY <5>1 DEF Job
      <4>2. job' = [job EXCEPT ![Listener] = [job[Listener] EXCEPT
                                                  !.item = [cn |-> cn, seq |-> 0]]]
        BY <1>1 DEF Accept
      <4> QED
        BY <4>1, <4>2 DEF TypeOK, DataOK
    <3> QED
      BY <1>1, <3>1 DEF Accept, TypeOK, DataOK, Conn
  <2>2. ControlOK'
    BY <1>1, Move DEF Accept, PointOK, ListenerLabel, TypeOK, DataOK
  <2> QED
    BY <2>1, <2>2 DEF TypeOK
<1>2. ASSUME NEW cn \in Conn, CloseConnection(cn) PROVE TypeOK'
  <2>1. DataOK'
    BY <1>2 DEF CloseConnection, TypeOK, DataOK, Job, Item
  <2>2. ControlOK'
    <3>1. job'[Listener].ret = "batch"
      BY <1>2 DEF CloseConnection, TypeOK, DataOK
    <3> QED
      BY <1>2, <3>1, Move DEF CloseConnection, PointOK, ListenerLabel, TypeOK, DataOK
  <2> QED
    BY <2>1, <2>2 DEF TypeOK
<1>3. ASSUME NEW cn \in Conn, NEW n \in Name, PickEvent(cn, n) PROVE TypeOK'
  <2>1. received[cn] \in Nat /\ received[cn] + 1 \in Nat
    BY DEF TypeOK, DataOK
  <2>2. DataOK'
    BY <1>3, <2>1 DEF PickEvent, TypeOK, DataOK, Job, Item
  <2>3. ControlOK'
    <3>1. job'[Listener].ret = "read"
      BY <1>3 DEF PickEvent, TypeOK, DataOK
    <3> QED
      BY <1>3, <3>1, Move DEF PickEvent, PointOK, ListenerLabel, TypeOK, DataOK
  <2> QED
    BY <2>2, <2>3 DEF TypeOK
<1>4. ASSUME NEW s \in Server, CloseServer(s) PROVE TypeOK'
  <2>1. DataOK'
    BY <1>4 DEF CloseServer, TypeOK, DataOK, Job, Item
  <2>2. ControlOK'
    <3>1. job'[Listener].ret = "batch"
      BY <1>4 DEF CloseServer, TypeOK, DataOK
    <3> QED
      BY <1>4, <3>1, Move DEF CloseServer, PointOK, ListenerLabel, TypeOK, DataOK
  <2> QED
    BY <2>1, <2>2 DEF TypeOK
<1> QED
  BY <1>1, <1>2, <1>3, <1>4 DEF Network

\* Every step of a consumer preserves the types.
LEMMA ConsumerType ==
    ASSUME TypeOK, NEW c \in Consumer, ConsumerStep(c)
    PROVE  TypeOK'
<1> USE ThreadFacts, Points DEF Goto
<1>1. CASE ConsumerTest(c)
  <2>1. DataOK'
    <3>1. CASE m_running[c]
      BY <1>1, <3>1 DEF ConsumerTest, TypeOK, DataOK
    <3>2. CASE ~ m_running[c]
      <4>1. stage' \in [Consumer -> Stage \cup {EndStage}]
        BY <1>1, <3>2 DEF ConsumerTest, EnterStage, TypeOK, DataOK
      <4>2. final' \in [Consumer -> BOOLEAN]
        BY <1>1, <3>2 DEF ConsumerTest, TypeOK, DataOK
      <4> QED
        BY <1>1, <4>1, <4>2 DEF ConsumerTest, TypeOK, DataOK
    <3> QED
      BY <3>1, <3>2
  <2>2. ControlOK'
    BY <1>1, Move DEF ConsumerTest, PointOK, ConsumerLabel
  <2> QED
    BY <2>1, <2>2 DEF TypeOK
<1>2. CASE WakeUp(c)
  <2>1. DataOK'
    BY <1>2 DEF WakeUp, EnterStage, TypeOK, DataOK
  <2>2. ControlOK'
    BY <1>2, Move DEF WakeUp, PointOK, ConsumerLabel
  <2> QED
    BY <2>1, <2>2 DEF TypeOK
<1>3. CASE TimeOut(c)
  <2>1. DataOK'
    BY <1>3 DEF TimeOut, TypeOK, DataOK
  <2>2. ControlOK'
    BY <1>3, Move DEF TimeOut, PointOK, ConsumerLabel
  <2> QED
    BY <2>1, <2>2 DEF TypeOK
<1>4. CASE Pop(c)
  <2> DEFINE q == StageQueue(stage[c])
  <2>1. q \in Queue
    BY <1>4, StageFacts DEF Pop, TypeOK, DataOK
  <2>2. m_events[q] \in Seq(Item) /\ m_events[q] # <<>>
    BY <1>4, <2>1 DEF Pop, TypeOK, DataOK
  <2>3. Head(m_events[q]) \in Item /\ Tail(m_events[q]) \in Seq(Item)
    BY <2>2, HeadTailProperties
  <2>4. handled[q] \in Seq(Item) /\ Append(handled[q], Head(m_events[q])) \in Seq(Item)
    BY <2>1, <2>3 DEF TypeOK, DataOK
  <2>5. DataOK'
    BY <1>4, <2>1, <2>3, <2>4 DEF Pop, Touch, TypeOK, DataOK
  <2>6. ControlOK'
    BY <1>4, Move DEF Pop, PointOK, ConsumerLabel
  <2> QED
    BY <2>5, <2>6 DEF TypeOK
<1>5. CASE NextQueue(c)
  <2>1. DataOK'
    <3>1. event_keys' \subseteq Name
      BY <1>5 DEF NextQueue, Touch, TypeOK, DataOK
    <3>2. stage' \in [Consumer -> Stage \cup {EndStage}]
      BY <1>5 DEF NextQueue, EnterStage, TypeOK, DataOK
    <3> QED
      BY <1>5, <3>1, <3>2 DEF NextQueue, TypeOK, DataOK
  <2>2. ControlOK'
    BY <1>5 DEF NextQueue, TypeOK, ControlOK
  <2> QED
    BY <2>1, <2>2 DEF TypeOK
<1>6. CASE EndPass(c)
  <2>1. DataOK'
    BY <1>6 DEF EndPass, TypeOK, DataOK
  <2>2. ControlOK'
    BY <1>6, Move DEF EndPass, PointOK, ConsumerLabel
  <2> QED
    BY <2>1, <2>2 DEF TypeOK
<1>7. CASE CallbackReturn(c)
  <2>1. DataOK'
    BY <1>7 DEF CallbackReturn, TypeOK, DataOK
  <2>2. ControlOK'
    BY <1>7, Move DEF CallbackReturn, PointOK, ConsumerLabel
  <2> QED
    BY <2>1, <2>2 DEF TypeOK
<1>8. CASE TellCheck(c) \/ TellPush(c)
  BY <1>8, TellType
<1> QED
  BY <1>1, <1>2, <1>3, <1>4, <1>5, <1>6, <1>7, <1>8 DEF ConsumerStep

\* A join returns: the joined thread and the user move together.
LEMMA JoinReturnType == TypeOK /\ JoinReturn => TypeOK'
<1> SUFFICES ASSUME TypeOK, JoinReturn
             PROVE  TypeOK'
  OBVIOUS
<1> USE ThreadFacts
<1>1. DataOK'
  BY DEF JoinReturn, TypeOK, DataOK
<1>2. /\ waiting_for \in Consumer \cup {Listener}
      /\ job' = job
      /\ pc' = [pc EXCEPT ![User] = "free", ![waiting_for] = "off"]
  BY DEF JoinReturn, TypeOK, DataOK
<1>3. pc' \in [Thread -> Label]
  BY <1>2 DEF TypeOK, ControlOK, Label, UserLabel, ConsumerLabel
<1>4. ASSUME NEW u \in Thread PROVE PointOK(u, pc'[u], job'[u].ret)
  <2>1. CASE u = User
    BY <1>2, <2>1 DEF TypeOK, ControlOK, PointOK, UserLabel
  <2>2. CASE u = waiting_for
    BY <1>2, <2>2 DEF TypeOK, ControlOK, PointOK, ListenerLabel, ConsumerLabel
  <2>3. CASE u # User /\ u # waiting_for
    BY <1>2, <2>3 DEF TypeOK, ControlOK
  <2> QED
    BY <2>1, <2>2, <2>3
<1> QED
  BY <1>1, <1>3, <1>4 DEF TypeOK, ControlOK

\* What callbacks and the user choose to call preserves the types.
LEMMA ApplicationType == TypeOK /\ Application => TypeOK'
<1> SUFFICES ASSUME TypeOK, Application
             PROVE  TypeOK'
  OBVIOUS
<1> USE ThreadFacts, Points DEF Goto
<1>1. CASE Refuse
  <2> DEFINE cn == job[Listener].item.cn
  <2>1. cn \in Conn \cup Server
    BY DEF TypeOK, DataOK, Job, Item
  <2>2. Disconnect(Listener, cn, "connect") /\ pc[Listener] = "connect"
    BY <1>1 DEF Refuse
  <2>3. /\ job' \in [Thread -> Job] /\ internal' \subseteq accepted /\ open' \subseteq Conn
        /\ ControlOK'
    BY <2>1, <2>2, DisconnectType DEF PointOK, ListenerLabel
  <2> QED
    BY <1>1, <2>3 DEF Refuse, TypeOK, DataOK
<1>2. ASSUME NEW c \in Consumer, NEW cn \in Conn, CallbackDisconnect(c, cn) PROVE TypeOK'
  <2>1. Disconnect(c, cn, "call")
    BY <1>2 DEF CallbackDisconnect
  <2>2. /\ job' \in [Thread -> Job] /\ internal' \subseteq accepted /\ open' \subseteq Conn
        /\ ControlOK'
    BY <2>1, DisconnectType DEF PointOK, ConsumerLabel
  <2>3. disconnects' \in Nat /\ UNCHANGED <<shared, accepted, listening, received, consumer, joining, history>>
    BY <1>2 DEF CallbackDisconnect, TypeOK, DataOK
  <2> QED
    BY <2>2, <2>3 DEF TypeOK, DataOK
<1>3. ASSUME NEW cn \in External, UserDisconnect(cn) PROVE TypeOK'
  <2>1. Disconnect(User, cn, "free")
    BY <1>3 DEF UserDisconnect
  <2>2. /\ job' \in [Thread -> Job] /\ internal' \subseteq accepted /\ open' \subseteq Conn
        /\ ControlOK'
    BY <2>1, DisconnectType DEF PointOK, UserLabel, Conn
  <2> QED
    BY <1>3, <2>2 DEF UserDisconnect, TypeOK, DataOK
<1>4. ASSUME NEW c \in Consumer, RunConsumer(c) PROVE TypeOK'
  <2>1. DataOK'
    BY <1>4 DEF RunConsumer, TypeOK, DataOK
  <2>2. ControlOK'
    BY <1>4, Move DEF RunConsumer, PointOK, ConsumerLabel
  <2> QED
    BY <2>1, <2>2 DEF TypeOK
<1>5. ASSUME NEW t \in Consumer \cup {Listener}, JoinThread(t) PROVE TypeOK'
  <2>1. DataOK'
    BY <1>5 DEF JoinThread, TypeOK, DataOK
  <2>2. ControlOK'
    BY <1>5, Move DEF JoinThread, PointOK, UserLabel
  <2> QED
    BY <2>1, <2>2 DEF TypeOK
<1> QED
  BY <1>1, <1>2, <1>3, <1>4, <1>5 DEF Application

\* Every step preserves the types.
LEMMA TypeStep == TypeOK /\ [Next]_vars => TypeOK'
<1> SUFFICES ASSUME TypeOK, [Next]_vars PROVE TypeOK'
  OBVIOUS
<1>1. CASE UserStep
  BY <1>1, TellType, JoinReturnType, ThreadFacts DEF UserStep
<1>2. CASE Crash
  <2>1. DataOK'
    BY <1>2 DEF Crash, TypeOK, DataOK
  <2>2. ControlOK'
    BY <1>2, ThreadFacts DEF Crash, ControlOK, PointOK, Label, ListenerLabel, ConsumerLabel,
                             UserLabel
  <2> QED
    BY <2>1, <2>2 DEF TypeOK
<1>3. CASE UNCHANGED vars
  BY <1>3 DEF vars, TypeOK, DataOK, ControlOK
<1> QED
  BY <1>1, <1>2, <1>3, ListenerType, NetworkType, ConsumerType, ApplicationType DEF Next

\* Type correctness: every variable keeps its type, every thread stands at one
\* of its program points, and a push returns where its caller continues.
THEOREM TypeCorrect == Spec => []TypeOK
<1>1. Init => TypeOK
  BY InitType
<1>2. TypeOK /\ [Next]_vars => TypeOK'
  BY TypeStep
<1> QED
  BY <1>1, <1>2, PTL DEF Spec

------------------------------------------------------------------------------
(* No notification is lost *)

\* A queue has one owner at most, a consumer.
LEMMA OwnerType == \A q \in Queue : Owner(q) \in Consumer \cup {Null}
BY LinkTableType, QueueFacts, SlotAssumption DEF Owner

\* The owner of a queue visits it in each of its passes, at one stage.
LEMMA OwnerServes ==
    ASSUME TypeOK, LinksOK, NEW q \in Queue, Owner(q) # Null
    PROVE  /\ OwnerStage(q) \in Stage
           /\ StageQueue(OwnerStage(q)) = q
           /\ Serves(Owner(q), OwnerStage(q))
<1>1. CASE q \in Name /\ LinkTable[q] # Absent
  <2>1. OwnerStage(q) = q /\ q \in Stage /\ StageQueue(q) = q
    BY <1>1, CountAssumption DEF OwnerStage, Stage, LastStage, StageQueue, Name
  <2>2. Owner(q) = LinkTable[q]
    BY <1>1, QueueFacts DEF Owner
  <2>3. q \in Slots[LinkTable[q]]
    BY <1>1, <2>2, Zenon DEF LinkTable
  <2> QED
    BY <1>1, <2>1, <2>2, <2>3 DEF Serves
<1>2. CASE q \in Name /\ LinkTable[q] = Absent
  <2>1. /\ OwnerStage(q) = q + NNames /\ q + NNames \in Stage
        /\ StageQueue(q + NNames) = q /\ (q + NNames) - NNames = q
    BY <1>2, CountAssumption DEF OwnerStage, Stage, LastStage, StageQueue, Name
  <2>2. Owner(q) = OnEvent
    BY <1>2, QueueFacts DEF Owner
  <2>3. m_links[q] = Absent
    BY <1>2 DEF LinksOK
  <2> QED
    BY <1>2, <2>1, <2>2, <2>3 DEF Serves
<1>3. CASE q \notin Name
  <2>1. q = ServerDisconnected \/ q = Disconnected
    BY <1>3, QueueFacts
  <2>2. /\ OwnerStage(q) = q + NNames /\ q + NNames \in Stage
        /\ StageQueue(q + NNames) = q
    BY <1>3, <2>1, CountAssumption
    DEF OwnerStage, Stage, LastStage, StageQueue, Name, ServerDisconnected, Disconnected
  <2> QED
    BY <2>1, <2>2, QueueFacts DEF Serves, Owner
<1> QED
  BY <1>1, <1>2, <1>3

\* What the listener notifies for a queue is the owner of the queue.
LEMMA NotifyOwner ==
    ASSUME TypeOK, LinksOK, pc[Listener] = "notify",
           NEW q \in Queue, Owner(q) # Null
    PROVE  NotifyTarget(q) = Owner(q)
<1>1. m_links = LinkTable
  BY DEF LinksOK
<1>2. CASE q \in Name
  <2>1. LinkTable[q] \in Consumer \cup {Null, Absent}
    BY <1>2, LinkTableType
  <2> QED
    BY <1>1, <1>2, <2>1, QueueFacts, ThreadFacts DEF NotifyTarget, Owner
<1>3. CASE q \notin Name
  BY <1>3, QueueFacts DEF NotifyTarget, Owner
<1> QED
  BY <1>2, <1>3

\* A consumer that starts a pass will visit all its queues.
LEMMA PassBegins ==
    ASSUME TypeOK, LinksOK, NEW q \in Queue, NEW c \in Consumer, Owner(q) = c,
           NEW j \in Stage \cup {EndStage}, NextStage(c, 0, j)
    PROVE  j <= OwnerStage(q)
<1>1. OwnerStage(q) \in Stage /\ Serves(c, OwnerStage(q))
  BY OwnerServes, ThreadFacts
<1>2. OwnerStage(q) \in Int /\ 0 < OwnerStage(q) /\ j \in Int
  BY <1>1, CountAssumption DEF Stage, EndStage, LastStage
<1> QED
  BY <1>1, <1>2 DEF NextStage

\* A consumer that leaves a queue has none of its queues left behind but that one.
LEMMA PassContinues ==
    ASSUME TypeOK, LinksOK, NEW q \in Queue, NEW c \in Consumer, Owner(q) = c,
           NEW k \in Stage, StageQueue(k) # q, k <= OwnerStage(q),
           NEW j \in Stage \cup {EndStage}, NextStage(c, k, j)
    PROVE  j <= OwnerStage(q)
<1>1. OwnerStage(q) \in Stage /\ Serves(c, OwnerStage(q)) /\ OwnerStage(q) # k
  BY OwnerServes, ThreadFacts
<1>2. OwnerStage(q) \in Int /\ k < OwnerStage(q) /\ j \in Int
  BY <1>1, CountAssumption DEF Stage, EndStage, LastStage
<1> QED
  BY <1>1, <1>2 DEF NextStage

\* Once the listener let its consumers go, it never listens again; a crash is
\* final.
LEMMA ListenerFlow ==
    ASSUME TypeOK, [Next]_vars
    PROVE  /\ pc[Listener] \in {"done", "off", "crashed"}
                => pc'[Listener] \in {"done", "off", "crashed"}
           /\ pc[Listener] = "crashed" => pc'[Listener] = "crashed"
<1> USE ThreadFacts DEF TypeOK, ControlOK, Goto
<1>1. CASE ListenerStep
  <2>1. pc[Listener] \notin {"done", "off", "crashed"}
    BY <1>1 DEF ListenerStep, LoopTest, EndBatch, ConnectReturn, EndRead, SafeDisconnect,
                CheckQueue, PushQueue, Notify, TellCheck, TellPush, CloseInternal,
                CloseDone, JoinNext, Joined, Release
  <2> QED
    BY <2>1
<1>2. CASE Network
  <2>1. pc[Listener] \notin {"done", "off", "crashed"}
    BY <1>2 DEF Network, Accept, CloseConnection, PickEvent, CloseServer
  <2> QED
    BY <2>1
<1>3. ASSUME NEW c \in Consumer, ConsumerStep(c) PROVE pc'[Listener] = pc[Listener]
  BY <1>3 DEF ConsumerStep, ConsumerTest, WakeUp, TimeOut, Pop, NextQueue, EndPass,
              CallbackReturn, TellCheck, TellPush
<1>4. CASE UserStep
  <2>1. CASE JoinReturn
    BY <2>1 DEF JoinReturn, DataOK
  <2>2. CASE TellCheck(User) \/ TellPush(User)
    BY <2>2 DEF TellCheck, TellPush
  <2> QED
    BY <1>4, <2>1, <2>2 DEF UserStep
<1>5. CASE Application
  <2>1. CASE Refuse
    BY <2>1 DEF Refuse
  <2>2. CASE ~ Refuse
    BY <1>5, <2>2 DEF Application, CallbackDisconnect, UserDisconnect, Disconnect,
                      RunConsumer, JoinThread
  <2> QED
    BY <2>1, <2>2
<1>6. CASE Crash
  BY <1>6 DEF Crash
<1>7. CASE UNCHANGED vars
  BY <1>7 DEF vars
<1> QED
  BY <1>1, <1>2, <1>3, <1>4, <1>5, <1>6, <1>7 DEF Next

\* Only the end of the listener thread changes the links.
LEMMA LinksChange == Next => m_links' = m_links \/ Release
BY DEF Next, ListenerStep, Network, ConsumerStep, UserStep, Application, LoopTest, EndBatch,
       ConnectReturn, EndRead, SafeDisconnect, CheckQueue, PushQueue, Notify, TellCheck,
       TellPush, CloseInternal, CloseDone, JoinNext, Joined, Accept, CloseConnection,
       PickEvent, CloseServer, ConsumerTest, WakeUp, TimeOut, Pop, NextQueue, EndPass,
       CallbackReturn, JoinReturn, Refuse, CallbackDisconnect, UserDisconnect, RunConsumer,
       JoinThread, Crash

\* The links stay what run_init made them until they are cleared.
LEMMA LinksStep == TypeOK /\ LinksOK /\ [Next]_vars => LinksOK'
<1> SUFFICES ASSUME TypeOK, LinksOK, [Next]_vars PROVE LinksOK'
  OBVIOUS
<1>1. CASE m_links' = m_links
  BY <1>1, ListenerFlow DEF LinksOK
<1>2. CASE Release
  BY <1>2, ThreadFacts DEF Release, LinksOK, Goto, TypeOK, ControlOK
<1> QED
  BY <1>1, <1>2, LinksChange DEF vars

\* A step of the listener that neither pushes nor notifies changes nothing here.
LEMMA ListenerQuiet ==
    ASSUME TypeOK, NEW q \in Queue, Awaited(q),
           m_events' = m_events, wake_up' = wake_up, stage' = stage,
           pc[Listener] # "notify",
           \A c \in Consumer : pc'[c] = pc[c] \/ (pc[c] = "done" /\ pc'[c] = "off")
    PROVE  Awaited(q)'
<1>1. Owner(q) # Null => (StillToVisit(Owner(q), q) => StillToVisit(Owner(q), q)')
  BY OwnerType DEF StillToVisit, InPass
<1> QED
  BY <1>1 DEF Awaited, Notifying

\* Every step of the listener on its own keeps a queue awaited.
LEMMA ListenerAwaited ==
    ASSUME TypeOK, LinksOK, NEW q \in Queue \ {Disconnected}, Awaited(q), ListenerStep
    PROVE  Awaited(q)'
<1> USE ThreadFacts DEF Goto
<1> DEFINE Quiet == /\ m_events' = m_events /\ wake_up' = wake_up /\ stage' = stage
                    /\ pc[Listener] # "notify"
                    /\ \A c \in Consumer : pc'[c] = pc[c] \/ (pc[c] = "done" /\ pc'[c] = "off")
<1>1. CASE LoopTest
  <2>1. Quiet
    BY <1>1 DEF LoopTest, TypeOK, ControlOK
  <2> QED
    BY <2>1, ListenerQuiet
<1>2. CASE EndBatch
  <2>1. Quiet
    BY <1>2 DEF EndBatch, TypeOK, ControlOK
  <2> QED
    BY <2>1, ListenerQuiet
<1>3. CASE ConnectReturn
  <2>1. Quiet
    BY <1>3 DEF ConnectReturn, TypeOK, ControlOK
  <2> QED
    BY <2>1, ListenerQuiet
<1>4. CASE EndRead
  <2>1. Quiet
    BY <1>4 DEF EndRead, TypeOK, ControlOK
  <2> QED
    BY <2>1, ListenerQuiet
<1>5. CASE SafeDisconnect
  <2>1. Quiet
    BY <1>5 DEF SafeDisconnect, TypeOK, ControlOK
  <2> QED
    BY <2>1, ListenerQuiet
<1>6. CASE CheckQueue(Listener)
  <2>1. Quiet
    BY <1>6 DEF CheckQueue, TypeOK, ControlOK
  <2> QED
    BY <2>1, ListenerQuiet
<1>7. CASE CloseDone
  <2>1. Quiet
    BY <1>7 DEF CloseDone, TypeOK, ControlOK
  <2> QED
    BY <2>1, ListenerQuiet
<1>8. CASE JoinNext
  <2>1. Quiet
    BY <1>8 DEF JoinNext, TypeOK, ControlOK
  <2> QED
    BY <2>1, ListenerQuiet
<1>9. CASE Release
  <2>1. Quiet
    BY <1>9 DEF Release, TypeOK, ControlOK
  <2> QED
    BY <2>1, ListenerQuiet
<1>10. CASE Joined
  <2>1. Quiet
    BY <1>10 DEF Joined, TypeOK, ControlOK
  <2> QED
    BY <2>1, ListenerQuiet
<1>11. CASE \E cn \in Internal : CloseInternal(cn)
  <2>1. Quiet
    BY <1>11 DEF CloseInternal, Disconnect, TypeOK, ControlOK
  <2> QED
    BY <2>1, ListenerQuiet
<1>12. CASE TellCheck(Listener)
  <2>1. Quiet
    BY <1>12 DEF TellCheck, TypeOK, ControlOK
  <2> QED
    BY <2>1, ListenerQuiet
<1>13. CASE TellPush(Listener)
  <2>1. m_events'[q] = m_events[q] /\ wake_up' = wake_up /\ stage' = stage
    BY <1>13, QueueFacts DEF TellPush, TypeOK, DataOK
  <2>2. \A c \in Consumer : pc'[c] = pc[c]
    BY <1>13 DEF TellPush, TypeOK, ControlOK
  <2>3. pc[Listener] # "notify"
    BY <1>13 DEF TellPush
  <2> QED
    BY <2>1, <2>2, <2>3, OwnerType DEF Awaited, Notifying, StillToVisit, InPass
<1>14. CASE PushQueue(Listener)
  <2>1. CASE job[Listener].q = q
    <3>1. Notifying(q)'
      BY <1>14, <2>1 DEF PushQueue, Notifying, TypeOK, ControlOK
    <3> QED
      BY <3>1 DEF Awaited
  <2>2. CASE job[Listener].q # q
    <3>1. m_events'[q] = m_events[q] /\ wake_up' = wake_up /\ stage' = stage
      BY <1>14, <2>2 DEF PushQueue, TypeOK, DataOK
    <3>2. \A c \in Consumer : pc'[c] = pc[c]
      BY <1>14 DEF PushQueue, TypeOK, ControlOK
    <3>3. pc[Listener] # "notify"
      BY <1>14 DEF PushQueue
    <3> QED
      BY <3>1, <3>2, <3>3, OwnerType DEF Awaited, Notifying, StillToVisit, InPass
  <2> QED
    BY <2>1, <2>2
<1>15. CASE Notify
  <2>1. m_events' = m_events /\ stage' = stage
    BY <1>15 DEF Notify
  <2>2. \A c \in Consumer : pc'[c] = pc[c]
    BY <1>15 DEF Notify, TypeOK, ControlOK
  <2>3. \A c \in Consumer : wake_up[c] => wake_up'[c]
    BY <1>15 DEF Notify
  <2>4. CASE job[Listener].q = q
    <3>1. Owner(q) # Null => wake_up'[Owner(q)]
      BY <1>15, <2>4, NotifyOwner, OwnerType DEF Notify
    <3> QED
      BY <3>1 DEF Awaited
  <2>5. CASE job[Listener].q # q
    BY <2>1, <2>2, <2>3, <2>5, OwnerType DEF Awaited, Notifying, StillToVisit, InPass
  <2> QED
    BY <2>4, <2>5
<1> QED
  BY <1>1, <1>2, <1>3, <1>4, <1>5, <1>6, <1>7, <1>8, <1>9, <1>10, <1>11, <1>12, <1>13, <1>14, <1>15 DEF ListenerStep

\* What the network makes the listener do keeps a queue awaited.
LEMMA NetworkAwaited ==
    ASSUME TypeOK, NEW q \in Queue, Awaited(q), Network
    PROVE  Awaited(q)'
<1>1. /\ m_events' = m_events /\ wake_up' = wake_up /\ stage' = stage
      /\ pc[Listener] # "notify"
      /\ \A c \in Consumer : pc'[c] = pc[c]
  BY ThreadFacts DEF Network, Accept, CloseConnection, PickEvent, CloseServer, Goto,
                     TypeOK, ControlOK
<1> QED
  BY <1>1, ListenerQuiet

\* A step of a consumer leaves the listener and the other consumers where they are.
LEMMA ConsumerFrame ==
    ASSUME TypeOK, NEW c \in Consumer, ConsumerStep(c)
    PROVE  /\ pc'[Listener] = pc[Listener]
           /\ job' = job
           /\ \A d \in Consumer : d # c => pc'[d] = pc[d] /\ stage'[d] = stage[d]
                                           /\ wake_up'[d] = wake_up[d]
<1> USE ThreadFacts DEF Goto, TypeOK, ControlOK, DataOK
<1>1. CASE ConsumerTest(c) \/ NextQueue(c)
  BY <1>1 DEF ConsumerTest, NextQueue, EnterStage
<1>2. CASE WakeUp(c)
  BY <1>2 DEF WakeUp, EnterStage
<1>3. CASE Pop(c)
  BY <1>3 DEF Pop
<1>4. CASE TimeOut(c) \/ EndPass(c) \/ CallbackReturn(c) \/ TellCheck(c) \/ TellPush(c)
  BY <1>4 DEF TimeOut, EndPass, CallbackReturn, TellCheck, TellPush
<1> QED
  BY <1>1, <1>2, <1>3, <1>4 DEF ConsumerStep

\* A step of a consumer adds nothing to a queue but m_disconnected_queue.
LEMMA ConsumerTakes ==
    ASSUME TypeOK, NEW c \in Consumer, ConsumerStep(c), NEW q \in Queue \ {Disconnected},
           m_events'[q] # <<>>
    PROVE  m_events[q] # <<>>
<1>1. CASE m_events' = m_events
  BY <1>1
<1>2. CASE Pop(c)
  BY <1>2 DEF Pop, TypeOK, DataOK
<1>3. CASE TellPush(c)
  BY <1>3, QueueFacts DEF TellPush, TypeOK, DataOK
<1> QED
  BY <1>1, <1>2, <1>3
  DEF ConsumerStep, ConsumerTest, WakeUp, TimeOut, NextQueue, EndPass, CallbackReturn, TellCheck

\* Every step of a consumer keeps a queue awaited: a pass only ends once it
\* visited the queue and found it empty.
LEMMA ConsumerAwaited ==
    ASSUME TypeOK, LinksOK, NEW q \in Queue \ {Disconnected}, Awaited(q),
           NEW c \in Consumer, ConsumerStep(c)
    PROVE  Awaited(q)'
<1> USE ThreadFacts DEF Goto
<1> SUFFICES ASSUME Owner(q) # Null, m_events'[q] # <<>>
             PROVE  wake_up'[Owner(q)] \/ Notifying(q)' \/ StillToVisit(Owner(q), q)'
  BY DEF Awaited
<1>1. m_events[q] # <<>>
  BY ConsumerTakes
<1>2. wake_up[Owner(q)] \/ Notifying(q) \/ StillToVisit(Owner(q), q)
  BY <1>1 DEF Awaited
<1>3. CASE Notifying(q)
  BY <1>3, ConsumerFrame DEF Notifying
<1>4. CASE Owner(q) # c
  BY <1>2, <1>4, ConsumerFrame, OwnerType DEF Notifying, StillToVisit, InPass
<1>5. CASE Owner(q) = c /\ ~ Notifying(q)
  <2>1. pc \in [Thread -> Label] /\ stage \in [Consumer -> Stage \cup {EndStage}]
    BY DEF TypeOK, ControlOK, DataOK
  <2>2. wake_up[c] \/ (InPass(c) /\ stage[c] <= OwnerStage(q))
    BY <1>2, <1>5 DEF StillToVisit
  <2>3. CASE ConsumerTest(c)
    <3>1. wake_up' = wake_up /\ ~ InPass(c)
      BY <2>3 DEF ConsumerTest, InPass
    <3> QED
      BY <1>5, <2>2, <3>1
  <2>4. CASE WakeUp(c)
    <3>1. PICK j \in Stage \cup {EndStage} :
              NextStage(c, 0, j) /\ stage' = [stage EXCEPT ![c] = j]
      BY <2>4 DEF WakeUp, EnterStage
    <3>2. j <= OwnerStage(q)
      BY <1>5, <3>1, PassBegins
    <3>3. stage'[c] = j /\ pc'[c] = "drain"
      BY <2>1, <2>4, <3>1 DEF WakeUp
    <3> QED
      BY <1>5, <3>2, <3>3 DEF StillToVisit, InPass
  <2>5. CASE TimeOut(c)
    <3>1. wake_up' = wake_up /\ ~ InPass(c)
      BY <2>5 DEF TimeOut, InPass
    <3> QED
      BY <1>5, <2>2, <3>1
  <2>6. CASE Pop(c) \/ CallbackReturn(c) \/ TellCheck(c) \/ TellPush(c)
    <3>1. wake_up' = wake_up /\ stage' = stage
      BY <2>6 DEF Pop, CallbackReturn, TellCheck, TellPush
    <3>2. pc'[c] \in {"drain", "call", "tell_check", "tell_push"}
      BY <2>1, <2>6, Points DEF Pop, CallbackReturn, TellCheck, TellPush, PointOK
    <3> QED
      BY <1>5, <2>2, <3>1, <3>2 DEF StillToVisit, InPass
  <2>7. CASE NextQueue(c)
    <3>1. wake_up' = wake_up /\ pc' = pc /\ InPass(c)
      BY <2>7 DEF NextQueue, InPass
    <3>2. CASE wake_up[c]
      BY <1>5, <3>1, <3>2
    <3>3. CASE stage[c] <= OwnerStage(q)
      <4>1. PICK j \in Stage \cup {EndStage} :
                NextStage(c, stage[c], j) /\ stage' = [stage EXCEPT ![c] = j]
        BY <2>7 DEF NextQueue, EnterStage
      <4>2. stage[c] \in Stage /\ StageQueue(stage[c]) # q
        BY <1>1, <2>1, <2>7 DEF NextQueue
      <4>3. j <= OwnerStage(q)
        BY <1>5, <3>3, <4>1, <4>2, PassContinues
      <4>4. stage'[c] = j
        BY <2>1, <4>1
      <4> QED
        BY <1>5, <3>1, <4>3, <4>4 DEF StillToVisit, InPass
    <3> QED
      BY <2>2, <3>2, <3>3
  <2>8. CASE EndPass(c)
    <3>1. wake_up' = wake_up /\ stage[c] = EndStage
      BY <2>8 DEF EndPass
    <3>2. OwnerStage(q) < EndStage
      BY <1>5, OwnerServes, CountAssumption DEF Stage, EndStage, LastStage
    <3>3. ~ (stage[c] <= OwnerStage(q))
      BY <3>1, <3>2, <1>5, OwnerServes, CountAssumption DEF Stage, EndStage, LastStage
    <3> QED
      BY <1>5, <2>2, <3>1, <3>3
  <2> QED
    BY <2>3, <2>4, <2>5, <2>6, <2>7, <2>8 DEF ConsumerStep
<1> QED
  BY <1>3, <1>4, <1>5

\* What the user and the callbacks call keeps a queue awaited.
LEMMA CallerAwaited ==
    ASSUME TypeOK, NEW q \in Queue \ {Disconnected}, Awaited(q), UserStep \/ Application
    PROVE  Awaited(q)'
<1> USE ThreadFacts DEF Goto
<1>1. m_events'[q] = m_events[q] /\ wake_up' = wake_up /\ stage' = stage
  BY QueueFacts
  DEF UserStep, Application, JoinReturn, TellCheck, TellPush, Refuse, CallbackDisconnect,
      UserDisconnect, RunConsumer, JoinThread, TypeOK, DataOK
<1>2. Notifying(q) => Notifying(q)'
  <2>1. CASE Refuse
    BY <2>1 DEF Refuse, Notifying
  <2>2. CASE JoinReturn
    BY <2>2 DEF JoinReturn, Notifying, TypeOK, ControlOK, DataOK
  <2>3. CASE ~ Refuse /\ ~ JoinReturn
    BY <2>3
    DEF UserStep, Application, TellCheck, TellPush, CallbackDisconnect, UserDisconnect,
        Disconnect, RunConsumer, JoinThread, Notifying, TypeOK, ControlOK, DataOK
  <2> QED
    BY <2>1, <2>2, <2>3
<1>3. ASSUME NEW c \in Consumer, InPass(c) PROVE InPass(c)'
  <2>1. CASE Refuse
    BY <1>3, <2>1 DEF Refuse, Disconnect, InPass, TypeOK, ControlOK
  <2>2. CASE JoinReturn
    BY <1>3, <2>2 DEF JoinReturn, InPass, TypeOK, ControlOK, DataOK
  <2>3. CASE \E d \in Consumer, cn \in Conn : CallbackDisconnect(d, cn)
    BY <1>3, <2>3 DEF CallbackDisconnect, Disconnect, InPass, TypeOK, ControlOK
  <2>4. CASE UserStep /\ ~ JoinReturn
    BY <1>3, <2>4 DEF UserStep, TellCheck, TellPush, InPass, TypeOK, ControlOK
  <2>5. CASE \E cn \in External : UserDisconnect(cn)
    BY <1>3, <2>5 DEF UserDisconnect, Disconnect, InPass, TypeOK, ControlOK
  <2>6. CASE \E d \in Consumer : RunConsumer(d)
    BY <1>3, <2>6 DEF RunConsumer, InPass, TypeOK, ControlOK
  <2>7. CASE \E t \in Consumer \cup {Listener} : JoinThread(t)
    BY <1>3, <2>7 DEF JoinThread, InPass, TypeOK, ControlOK
  <2> QED
    BY <2>1, <2>2, <2>3, <2>4, <2>5, <2>6, <2>7 DEF Application
<1> QED
  BY <1>1, <1>2, <1>3, OwnerType DEF Awaited, StillToVisit

\* No notification is lost, whatever the threads, the names and the bindings.
THEOREM NoNotificationLost == Spec => []NoLostWakeup
<1>1. Init => DispatchInv
  <2> SUFFICES ASSUME Init PROVE DispatchInv
    OBVIOUS
  <2>1. m_links = LinkTable
    BY DEF Init
  <2>2. \A q \in Queue : m_events[q] = <<>>
    BY DEF Init
  <2> QED
    BY <2>1, <2>2, InitType DEF DispatchInv, LinksOK, NoLostWakeup, Awaited
<1>2. DispatchInv /\ [Next]_vars => DispatchInv'
  <2> SUFFICES ASSUME DispatchInv, [Next]_vars PROVE DispatchInv'
    OBVIOUS
  <2> USE DEF DispatchInv
  <2>1. TypeOK'
    BY TypeStep
  <2>2. LinksOK'
    BY LinksStep
  <2>3. NoLostWakeup'
    <3> SUFFICES ASSUME pc'[Listener] # "crashed", NEW q \in Queue \ {Disconnected}
                 PROVE  Awaited(q)'
      BY DEF NoLostWakeup
    <3>1. Awaited(q)
      BY ListenerFlow DEF NoLostWakeup
    <3>2. CASE Crash
      BY <3>2, ThreadFacts DEF Crash
    <3>3. CASE UNCHANGED vars
      BY <3>1, <3>3 DEF vars, Awaited, Notifying, StillToVisit, InPass
    <3> QED
      BY <3>1, <3>2, <3>3, ListenerAwaited, NetworkAwaited, ConsumerAwaited, CallerAwaited
      DEF Next
  <2> QED
    BY <2>1, <2>2, <2>3
<1>3. DispatchInv => NoLostWakeup
  BY DEF DispatchInv
<1> QED
  BY <1>1, <1>2, <1>3, PTL DEF Spec
------------------------------------------------------------------------------
(* What a step does to a queue, and to what the listener holds *)

\* What every step below may use.
USE DEF shared, sockets, consumer, joining, history

\* Queue q and what was handled of it stay as they are.
Kept(q) == m_events'[q] = m_events[q] /\ handled'[q] = handled[q]

\* A queue changes by a push of the listener, by a pop of a consumer, or, for
\* m_disconnected_queue, by tell_disconnected.
LEMMA QueueChange ==
    ASSUME TypeOK, [Next]_vars, NEW q \in Queue
    PROVE  \/ Kept(q)
           \/ PushQueue(Listener) /\ job[Listener].q = q
           \/ \E c \in Consumer : Pop(c) /\ StageQueue(stage[c]) = q
           \/ q = Disconnected /\ \E t \in Thread : TellPush(t)
<1> USE ThreadFacts
<1>1. CASE m_events' = m_events /\ handled' = handled
  BY <1>1 DEF Kept
<1>2. CASE PushQueue(Listener)
  BY <1>2 DEF PushQueue, Kept, TypeOK, DataOK
<1>3. ASSUME NEW c \in Consumer, Pop(c) PROVE Kept(q) \/ StageQueue(stage[c]) = q
  BY <1>3 DEF Pop, Kept, TypeOK, DataOK
<1>4. ASSUME NEW t \in Thread, TellPush(t) PROVE Kept(q) \/ q = Disconnected
  BY <1>4 DEF TellPush, Kept, TypeOK, DataOK
<1>5. CASE ListenerStep
  <2>1. \/ m_events' = m_events /\ handled' = handled
        \/ PushQueue(Listener) \/ TellPush(Listener)
    BY <1>5
    DEF ListenerStep, LoopTest, EndBatch, ConnectReturn, EndRead, SafeDisconnect,
        CheckQueue, Notify, TellCheck, CloseInternal, CloseDone, JoinNext, Joined, Release
  <2> QED
    BY <1>1, <1>2, <1>4, <2>1
<1>6. CASE Network
  BY <1>1, <1>6 DEF Network, Accept, CloseConnection, PickEvent, CloseServer
<1>7. ASSUME NEW c \in Consumer, ConsumerStep(c)
      PROVE  (m_events' = m_events /\ handled' = handled) \/ Pop(c) \/ TellPush(c)
  BY <1>7
  DEF ConsumerStep, ConsumerTest, WakeUp, TimeOut, NextQueue, EndPass, CallbackReturn, TellCheck
<1>8. CASE UserStep
  BY <1>1, <1>4, <1>8 DEF UserStep, JoinReturn, TellCheck
<1>9. CASE Application
  BY <1>1, <1>9
  DEF Application, Refuse, CallbackDisconnect, UserDisconnect, RunConsumer, JoinThread
<1>10. CASE Crash \/ UNCHANGED vars
  BY <1>1, <1>10 DEF Crash, vars
<1>11. CASE \E c \in Consumer : ConsumerStep(c)
  BY <1>1, <1>3, <1>4, <1>7, <1>11
<1> QED
  BY <1>5, <1>6, <1>8, <1>9, <1>10, <1>11 DEF Next

\* The push of the listener.
LEMMA Pushed ==
    ASSUME TypeOK, PushQueue(Listener)
    PROVE  /\ job[Listener].q \in Queue /\ job[Listener].item \in Item
           /\ m_events'[job[Listener].q] = Append(m_events[job[Listener].q], job[Listener].item)
           /\ handled' = handled /\ job' = job /\ received' = received
           /\ pc[Listener] = "push" /\ pc'[Listener] = "notify"
BY ThreadFacts DEF PushQueue, TypeOK, DataOK, ControlOK, Job, Goto

\* The pop of a consumer moves the head of the queue to what was handled.
LEMMA Popped ==
    ASSUME TypeOK, NEW c \in Consumer, Pop(c)
    PROVE  LET q == StageQueue(stage[c])
           IN  /\ q \in Queue /\ m_events[q] # <<>>
               /\ m_events'[q] = Tail(m_events[q])
               /\ handled'[q] = Append(handled[q], Head(m_events[q]))
               /\ current'[c].q = q
               /\ pc'[Listener] = pc[Listener] /\ job' = job /\ received' = received /\ lost' = lost
               /\ stage' = stage /\ pc[c] = "drain" /\ pc'[c] = "call" /\ stage[c] \in Stage
<1>1. stage[c] \in Stage
  BY DEF Pop, TypeOK, DataOK
<1>2. StageQueue(stage[c]) \in Queue
  BY <1>1, StageFacts
<1> QED
  BY <1>1, <1>2, ThreadFacts DEF Pop, TypeOK, DataOK, ControlOK, Goto

\* The push of tell_disconnected.
LEMMA Told ==
    ASSUME TypeOK, NEW t \in Thread, TellPush(t)
    PROVE  /\ pc[t] = "tell_push" /\ job[t].item \in Item
           /\ m_events'[Disconnected] = Append(m_events[Disconnected], job[t].item)
           /\ handled' = handled /\ job' = job /\ lost' = lost
           /\ pc' = [pc EXCEPT ![t] = job[t].ret]
BY QueueFacts DEF TellPush, TypeOK, DataOK, Job, Goto

\* What the listener pushes it has tested for, and holds since.
LEMMA TestedBefore ==
    ASSUME TypeOK, [Next]_vars, pc'[Listener] = "push"
    PROVE  /\ job'[Listener] = job[Listener]
           /\ \/ pc[Listener] = "push" /\ ~ PushQueue(Listener)
              \/ CheckQueue(Listener) /\ ~ IsFull(job[Listener].q)
<1> USE ThreadFacts DEF Goto, TypeOK, ControlOK
<1>1. CASE ListenerStep
  <2>1. CASE CheckQueue(Listener)
    <3>1. job[Listener].ret # "push"
      BY DEF DataOK, Job
    <3> QED
      BY <2>1, <3>1 DEF CheckQueue
  <2>2. CASE TellCheck(Listener) \/ TellPush(Listener) \/ Notify
    BY <2>2 DEF TellCheck, TellPush, Notify, DataOK, Job
  <2>3. CASE \E cn \in Internal : CloseInternal(cn)
    BY <2>3 DEF CloseInternal, Disconnect
  <2>4. CASE LoopTest \/ EndBatch \/ ConnectReturn \/ EndRead \/ SafeDisconnect \/ PushQueue(Listener)
    BY <2>4 DEF LoopTest, EndBatch, ConnectReturn, EndRead, SafeDisconnect, PushQueue
  <2>5. CASE CloseDone \/ JoinNext \/ Joined \/ Release
    BY <2>5, JoinedFacts DEF CloseDone, JoinNext, Joined, Release
  <2> QED
    BY <1>1, <2>1, <2>2, <2>3, <2>4, <2>5 DEF ListenerStep
<1>2. CASE Network
  BY <1>2 DEF Network, Accept, CloseConnection, PickEvent, CloseServer
<1>3. ASSUME NEW c \in Consumer, ConsumerStep(c)
      PROVE  pc[Listener] = "push" /\ job'[Listener] = job[Listener] /\ ~ PushQueue(Listener)
  <2>1. pc'[Listener] = pc[Listener] /\ job' = job
    BY <1>3, ConsumerFrame
  <2> QED
    BY <2>1 DEF PushQueue
<1>4. CASE UserStep
  BY <1>4 DEF UserStep, JoinReturn, TellCheck, TellPush, PushQueue, DataOK
<1>5. CASE Application
  <2>1. CASE Refuse
    BY <2>1 DEF Refuse, Disconnect
  <2>2. CASE ~ Refuse
    BY <1>5, <2>2 DEF Application, CallbackDisconnect, UserDisconnect, Disconnect, RunConsumer,
                      JoinThread, PushQueue, DataOK
  <2> QED
    BY <2>1, <2>2
<1>6. CASE Crash
  BY <1>6 DEF Crash
<1>7. CASE UNCHANGED vars
  BY <1>7 DEF vars, PushQueue
<1> QED
  BY <1>1, <1>2, <1>3, <1>4, <1>5, <1>6, <1>7 DEF Next

\* A queue holds items, and its length is a number.
LEMMA QueueLength ==
    ASSUME TypeOK, NEW q \in Queue
    PROVE  m_events[q] \in Seq(Item) /\ handled[q] \in Seq(Item) /\ Len(m_events[q]) \in Nat
BY LenProperties DEF TypeOK, DataOK

\* A queue but m_disconnected_queue only grows by the push of the listener.
LEMMA Shrinks ==
    ASSUME TypeOK, TypeOK', [Next]_vars, NEW q \in Queue \ {Disconnected},
           ~ (PushQueue(Listener) /\ job[Listener].q = q)
    PROVE  Len(m_events'[q]) <= Len(m_events[q])
<1>1. CASE Kept(q)
  BY <1>1, QueueLength DEF Kept
<1>2. ASSUME NEW c \in Consumer, Pop(c), StageQueue(stage[c]) = q
      PROVE  Len(m_events'[q]) <= Len(m_events[q])
  <2>1. m_events[q] # <<>> /\ m_events'[q] = Tail(m_events[q]) /\ m_events[q] \in Seq(Item)
    BY <1>2, Popped, QueueLength
  <2>2. Len(m_events'[q]) = Len(m_events[q]) - 1
    BY <2>1, HeadTailProperties
  <2> QED
    BY <2>2, QueueLength
<1> QED
  BY <1>1, <1>2, QueueChange
------------------------------------------------------------------------------
(* The limit of the queues that only the listener fills *)

\* Between the test and the push of the listener a queue is within the limit,
\* because consumers only shrink it.
Limited(q) ==
    MaxQueueSize > 0 =>
        /\ Len(m_events[q]) <= MaxQueueSize + 1
        /\ pc[Listener] = "push" /\ job[Listener].q = q => Len(m_events[q]) <= MaxQueueSize

LimitInv == \A q \in Queue \ {Disconnected} : Limited(q)

\* Every step keeps the limit.
LEMMA LimitStep == TypeOK /\ LimitInv /\ [Next]_vars => LimitInv'
<1> SUFFICES ASSUME TypeOK, LimitInv, [Next]_vars, NEW q \in Queue \ {Disconnected}, MaxQueueSize > 0
             PROVE  /\ Len(m_events'[q]) <= MaxQueueSize + 1
                    /\ pc'[Listener] = "push" /\ job'[Listener].q = q
                         => Len(m_events'[q]) <= MaxQueueSize
  BY DEF LimitInv, Limited
<1>1. TypeOK'
  BY TypeStep
<1>2. /\ Len(m_events[q]) \in Nat /\ Len(m_events'[q]) \in Nat /\ MaxQueueSize \in Nat
      /\ Len(m_events[q]) <= MaxQueueSize + 1
      /\ pc[Listener] = "push" /\ job[Listener].q = q => Len(m_events[q]) <= MaxQueueSize
  <2>1. Len(m_events'[q]) \in Nat
    BY <1>1, LenProperties DEF TypeOK, DataOK
  <2> QED
    BY <2>1, QueueLength, CountAssumption DEF LimitInv, Limited
<1>3. CASE PushQueue(Listener) /\ job[Listener].q = q
  <2>1. Len(m_events'[q]) = Len(m_events[q]) + 1
    BY <1>3, Pushed, QueueLength, AppendProperties
  <2> QED
    BY <1>2, <1>3, <2>1, Pushed
<1>4. CASE ~ (PushQueue(Listener) /\ job[Listener].q = q)
  <2>1. Len(m_events'[q]) <= Len(m_events[q])
    BY <1>1, <1>4, Shrinks
  <2>2. CASE pc'[Listener] = "push" /\ job'[Listener].q = q /\ pc[Listener] # "push"
    <3>1. CheckQueue(Listener) /\ ~ IsFull(q)
      BY <2>2, TestedBefore
    <3>2. Len(m_events[q]) <= MaxQueueSize
      BY <1>2, <3>1 DEF IsFull
    <3> QED
      BY <1>2, <2>1, <3>2
  <2>3. CASE pc'[Listener] = "push" /\ job'[Listener].q = q /\ pc[Listener] = "push"
    BY <1>2, <2>1, <2>3, TestedBefore
  <2> QED
    BY <1>2, <2>1, <2>2, <2>3
<1> QED
  BY <1>3, <1>4

\* SafeQueue and m_max_queue_size: however the size test, the push and the pops
\* of the consumers interleave, a queue of events or of server disconnections
\* passes the limit by one at most.
THEOREM QueuesLimited == Spec => []ListenerQueueLimit
<1>1. Init => LimitInv
  BY CountAssumption, ThreadFacts DEF Init, LimitInv, Limited
<1>2. LimitInv => ListenerQueueLimit
  BY DEF LimitInv, Limited, ListenerQueueLimit
<1> QED
  BY <1>1, <1>2, InitType, TypeStep, LimitStep, PTL DEF Spec
------------------------------------------------------------------------------
(* Who runs the callbacks of a queue *)

Calling(c) == pc[c] \in {"call", "tell_check", "tell_push"}

\* As long as the listener runs, a consumer in a pass is at a queue it serves.
\* Once the links are cleared, a consumer with on_event takes every name.
OwnersInv ==
    pc[Listener] \notin {"done", "off", "crashed"} =>
        \A c \in Consumer :
            /\ InPass(c) => stage[c] = EndStage \/ Serves(c, stage[c])
            /\ Calling(c) => Owner(current[c].q) = c

\* The queue that a consumer serves at a stage is its own.
LEMMA ServesOwn ==
    ASSUME m_links = LinkTable, NEW c \in Consumer, NEW k \in Stage, Serves(c, k)
    PROVE  Owner(StageQueue(k)) = c
<1> USE CountAssumption DEF Name, StageQueue
<1>1. CASE k \in Name /\ k \in Slots[c]
  <2>1. LinkTable[k] = CHOOSE d \in Consumer : k \in Slots[d]
    BY <1>1, Zenon DEF LinkTable
  <2>2. LinkTable[k] \in Consumer /\ k \in Slots[LinkTable[k]]
    BY <1>1, <2>1
  <2>3. LinkTable[k] = c
    BY <1>1, <2>2, SlotAssumption
  <2>4. StageQueue(k) = k
    BY <1>1
  <2> QED
    BY <1>1, <2>3, <2>4, ThreadFacts, QueueFacts DEF Owner
<1>2. CASE k - NNames \in Name /\ c = OnEvent /\ m_links[k - NNames] = Absent
  <2>1. StageQueue(k) = k - NNames
    BY <1>2 DEF Stage
  <2> QED
    BY <1>2, <2>1, QueueFacts DEF Owner
<1>3. CASE StageQueue(k) = ServerDisconnected /\ c = OnServerDisconnect
  BY <1>3, QueueFacts DEF Owner
<1>4. CASE StageQueue(k) = Disconnected /\ c = OnDisconnect
  BY <1>4, QueueFacts DEF Owner
<1> QED
  BY <1>1, <1>2, <1>3, <1>4 DEF Serves

\* What the other threads do to a consumer: its callback disconnects, it is
\* joined, or it is run again.
LEMMA ConsumerKept ==
    ASSUME TypeOK, [Next]_vars, ~ Crash, NEW c \in Consumer, ~ ConsumerStep(c)
    PROVE  /\ stage'[c] = stage[c] /\ current'[c] = current[c]
           /\ \/ /\ final'[c] = final[c]
                 /\ \/ pc'[c] = pc[c]
                    \/ pc[c] = "call" /\ pc'[c] \in {"call", "tell_check"}
                    \/ pc[c] = "done" /\ pc'[c] = "off" /\ JoinReturn /\ waiting_for = c
                    \/ pc[c] = "done" /\ pc'[c] = "off" /\ Joined /\ next_join = c
              \/ RunConsumer(c)
<1> USE ThreadFacts DEF Goto, TypeOK, ControlOK, DataOK
<1>1. CASE ListenerStep
  <2>1. stage' = stage /\ current' = current /\ final' = final
    BY <1>1
    DEF ListenerStep, LoopTest, EndBatch, ConnectReturn, EndRead, SafeDisconnect, CheckQueue,
        PushQueue, Notify, TellCheck, TellPush, CloseInternal, CloseDone, JoinNext, Joined, Release
  <2>2. CASE Joined
    BY <2>1, <2>2 DEF Joined
  <2>3. CASE ~ Joined
    BY <1>1, <2>1, <2>3
    DEF ListenerStep, LoopTest, EndBatch, ConnectReturn, EndRead, SafeDisconnect, CheckQueue,
        PushQueue, Notify, TellCheck, TellPush, CloseInternal, Disconnect, CloseDone, JoinNext,
        Release
  <2> QED
    BY <2>2, <2>3
<1>2. CASE Network
  BY <1>2 DEF Network, Accept, CloseConnection, PickEvent, CloseServer
<1>3. ASSUME NEW d \in Consumer, d # c, ConsumerStep(d)
      PROVE  /\ stage'[c] = stage[c] /\ current'[c] = current[c]
             /\ final'[c] = final[c] /\ pc'[c] = pc[c]
  <2>1. stage'[c] = stage[c] /\ pc'[c] = pc[c]
    BY <1>3, ConsumerFrame
  <2>2. current'[c] = current[c] /\ final'[c] = final[c]
    BY <1>3 DEF ConsumerStep, ConsumerTest, WakeUp, TimeOut, Pop, NextQueue, EndPass,
                CallbackReturn, TellCheck, TellPush
  <2> QED
    BY <2>1, <2>2
<1>4. CASE UserStep
  <2>1. stage' = stage /\ current' = current /\ final' = final
    BY <1>4 DEF UserStep, JoinReturn, TellCheck, TellPush
  <2>2. CASE JoinReturn
    BY <2>1, <2>2 DEF JoinReturn
  <2>3. CASE TellCheck(User) \/ TellPush(User)
    BY <2>1, <2>3 DEF TellCheck, TellPush
  <2> QED
    BY <1>4, <2>2, <2>3 DEF UserStep
<1>5. CASE Application
  <2>1. CASE Refuse
    BY <2>1 DEF Refuse, Disconnect
  <2>2. ASSUME NEW d \in Consumer, NEW cn \in Conn, CallbackDisconnect(d, cn)
        PROVE  /\ stage' = stage /\ current' = current /\ final' = final
               /\ pc'[c] = pc[c] \/ (pc[c] = "call" /\ pc'[c] \in {"call", "tell_check"})
    BY <2>2 DEF CallbackDisconnect, Disconnect
  <2>3. ASSUME NEW cn \in External, UserDisconnect(cn)
        PROVE  /\ stage' = stage /\ current' = current /\ final' = final
               /\ pc'[c] = pc[c]
    BY <2>3 DEF UserDisconnect, Disconnect
  <2>4. ASSUME NEW d \in Consumer, RunConsumer(d)
        PROVE  /\ stage' = stage /\ current' = current
               /\ d # c => pc'[c] = pc[c] /\ final'[c] = final[c]
    BY <2>4 DEF RunConsumer
  <2>5. ASSUME NEW t \in Consumer \cup {Listener}, JoinThread(t)
        PROVE  /\ stage' = stage /\ current' = current /\ final' = final
               /\ pc'[c] = pc[c]
    BY <2>5 DEF JoinThread
  <2> QED
    BY <1>5, <2>1, <2>2, <2>3, <2>4, <2>5 DEF Application
<1>6. CASE UNCHANGED vars
  BY <1>6 DEF vars
<1> QED
  BY <1>1, <1>2, <1>3, <1>4, <1>5, <1>6 DEF Next

\* Where a consumer enters a stage it serves it, or ends its pass.
LEMMA Enters ==
    ASSUME TypeOK, NEW c \in Consumer, NEW k, EnterStage(c, k)
    PROVE  stage'[c] = EndStage \/ (stage'[c] \in Stage /\ Serves(c, stage'[c]))
BY DEF EnterStage, NextStage, TypeOK, DataOK

\* Every step keeps the callbacks with their owners.
LEMMA OwnersStep == TypeOK /\ LinksOK /\ OwnersInv /\ [Next]_vars => OwnersInv'
<1> SUFFICES ASSUME TypeOK, LinksOK, OwnersInv, [Next]_vars,
                    pc'[Listener] \notin {"done", "off", "crashed"},
                    NEW c \in Consumer
             PROVE  /\ InPass(c)' => stage'[c] = EndStage \/ Serves(c, stage[c])'
                    /\ Calling(c)' => Owner(current'[c].q) = c
  BY DEF OwnersInv, Owner, LinkTable
<1>1. LinksOK' /\ pc[Listener] \notin {"done", "off", "crashed"}
  BY LinksStep, ListenerFlow
<1>2. m_links = LinkTable /\ m_links' = m_links
  BY <1>1 DEF LinksOK
<1>3. /\ InPass(c) => stage[c] = EndStage \/ Serves(c, stage[c])
      /\ Calling(c) => Owner(current[c].q) = c
  BY <1>1 DEF OwnersInv
<1>4. ~ Crash
  BY ThreadFacts DEF Crash
<1>5. CASE ~ ConsumerStep(c)
  <2>1. stage'[c] = stage[c] /\ current'[c] = current[c]
    BY <1>4, <1>5, ConsumerKept
  <2>2. (InPass(c)' => InPass(c)) /\ (Calling(c)' => Calling(c))
    <3>1. CASE RunConsumer(c)
      BY <3>1 DEF RunConsumer, Goto, TypeOK, ControlOK, InPass, Calling
    <3>2. CASE ~ RunConsumer(c)
      BY <1>4, <1>5, <3>2, ConsumerKept DEF InPass, Calling
    <3> QED
      BY <3>1, <3>2
  <2> QED
    BY <1>2, <1>3, <2>1, <2>2 DEF Serves
<1>6. CASE ConsumerTest(c) \/ WakeUp(c) \/ TimeOut(c)
  <2>1. ~ Calling(c)'
    BY <1>6 DEF ConsumerTest, WakeUp, TimeOut, Goto, Calling, TypeOK, ControlOK
  <2>2. InPass(c)' => EnterStage(c, 0)
    BY <1>6 DEF ConsumerTest, WakeUp, TimeOut, Goto, InPass, TypeOK, ControlOK
  <2> QED
    BY <1>2, <2>1, <2>2, Enters DEF Serves
<1>7. CASE NextQueue(c)
  <2>1. ~ Calling(c)' /\ EnterStage(c, stage[c])
    BY <1>7 DEF NextQueue, Calling
  <2> QED
    BY <1>2, <2>1, Enters DEF Serves
<1>8. CASE Pop(c)
  <2>1. /\ stage'[c] = stage[c] /\ stage[c] \in Stage /\ InPass(c)
        /\ current'[c].q = StageQueue(stage[c])
    BY <1>8, Popped DEF InPass
  <2>2. Serves(c, stage[c])
    BY <1>3, <2>1, StageFacts
  <2> QED
    BY <1>2, <2>1, <2>2, ServesOwn DEF Serves
<1>9. CASE EndPass(c)
  BY <1>9 DEF EndPass, Goto, InPass, Calling, TypeOK, ControlOK
<1>10. CASE CallbackReturn(c) \/ TellCheck(c) \/ TellPush(c)
  <2>1. /\ stage'[c] = stage[c] /\ current' = current
        /\ Calling(c) /\ InPass(c)
    BY <1>10 DEF CallbackReturn, TellCheck, TellPush, Calling, InPass
  <2> QED
    BY <1>2, <1>3, <2>1 DEF Serves
<1> QED
  BY <1>5, <1>6, <1>7, <1>8, <1>9, <1>10 DEF ConsumerStep

\* EventConsumer::consume_events: as long as the listener runs, the callbacks of
\* one queue are run by one consumer, the one that bound them.
THEOREM CallbacksWithOwner == Spec => []OwnerHandles
<1>1. Init => OwnersInv /\ LinksOK
  BY ThreadFacts DEF Init, OwnersInv, LinksOK, InPass, Calling
<1>2. OwnersInv => OwnerHandles
  BY DEF OwnersInv, OwnerHandles, Calling
<1> QED
  BY <1>1, <1>2, InitType, TypeStep, LinksStep, OwnersStep, PTL DEF Spec
------------------------------------------------------------------------------
(* What becomes of an event that was picked *)

Pending == pc[Listener] \in {"check", "push"}

\* What the listener holds with a number is an event: the queue is that of a name.
HandsInv ==
    /\ pc[Listener] = "closing" => job[Listener].q \notin Name /\ job[Listener].item.seq = 0
    /\ Pending => job[Listener].q \in Name \/ job[Listener].item.seq = 0

\* A record that stands in a sequence.
Holds(s, x) == \E i \in DOMAIN s : s[i] = x

LEMMA AppendHolds ==
    ASSUME NEW S, NEW s \in Seq(S), NEW x \in S, NEW y
    PROVE  Holds(Append(s, x), y) <=> Holds(s, y) \/ y = x
<1>1. /\ Append(s, x) \in Seq(S) /\ Len(Append(s, x)) = Len(s) + 1 /\ Len(s) \in Nat
      /\ \A i \in 1 .. Len(s) : Append(s, x)[i] = s[i]
      /\ Append(s, x)[Len(s) + 1] = x
  BY AppendProperties, LenProperties
<1>2. DOMAIN s = 1 .. Len(s) /\ DOMAIN Append(s, x) = 1 .. Len(s) + 1
  BY <1>1, LenProperties
<1>3. 1 .. Len(s) + 1 = (1 .. Len(s)) \cup {Len(s) + 1}
  BY <1>1
<1> QED
  BY <1>1, <1>2, <1>3 DEF Holds

LEMMA TailHolds ==
    ASSUME NEW S, NEW s \in Seq(S), s # <<>>, NEW y
    PROVE  Holds(s, y) => Holds(Tail(s), y) \/ y = Head(s)
<1>1. /\ Tail(s) \in Seq(S) /\ Len(Tail(s)) = Len(s) - 1 /\ Len(s) \in Nat
      /\ \A i \in 1 .. Len(Tail(s)) : Tail(s)[i] = s[i + 1]
  BY HeadTailProperties, LenProperties
<1>2. DOMAIN s = 1 .. Len(s) /\ DOMAIN Tail(s) = 1 .. Len(s) - 1 /\ Head(s) = s[1]
  BY <1>1, LenProperties
<1>3. ASSUME NEW i \in 1 .. Len(s), s[i] = y, i # 1 PROVE Holds(Tail(s), y)
  <2>1. i - 1 \in 1 .. Len(s) - 1 /\ (i - 1) + 1 = i
    BY <1>1, <1>3
  <2>2. Tail(s)[i - 1] = y
    BY <1>1, <1>3, <2>1
  <2> QED
    BY <1>2, <2>1, <2>2 DEF Holds
<1> QED
  BY <1>2, <1>3 DEF Holds

\* How the listener comes to hold something.
LEMMA Taken ==
    ASSUME TypeOK, [Next]_vars, pc'[Listener] \in {"check", "push", "closing"}
    PROVE  \/ /\ job'[Listener] = job[Listener] /\ received' = received
              /\ pc[Listener] \in {"check", "push", "closing"}
              /\ pc'[Listener] = "closing" => pc[Listener] = "closing"
           \/ \E cn \in Conn, n \in Name : PickEvent(cn, n)
           \/ /\ job'[Listener].q \notin Name /\ job'[Listener].item.seq = 0
              /\ received' = received
<1> USE ThreadFacts DEF Goto, TypeOK, ControlOK
<1>1. CASE ListenerStep
  <2>1. job[Listener].ret \notin {"check", "push", "closing"}
    BY DEF DataOK, Job
  <2>2. CASE CheckQueue(Listener) \/ SafeDisconnect
    BY <2>1, <2>2 DEF CheckQueue, SafeDisconnect
  <2>3. CASE TellCheck(Listener) \/ TellPush(Listener) \/ Notify
    BY <2>1, <2>3 DEF TellCheck, TellPush, Notify
  <2>4. CASE \E cn \in Internal : CloseInternal(cn)
    BY <2>4 DEF CloseInternal, Disconnect
  <2>5. CASE LoopTest \/ EndBatch \/ ConnectReturn \/ EndRead \/ PushQueue(Listener)
    BY <2>5 DEF LoopTest, EndBatch, ConnectReturn, EndRead, PushQueue
  <2>6. CASE CloseDone \/ JoinNext \/ Joined \/ Release
    BY <2>6, JoinedFacts DEF CloseDone, JoinNext, Joined, Release
  <2> QED
    BY <1>1, <2>2, <2>3, <2>4, <2>5, <2>6 DEF ListenerStep
<1>2. CASE Network
  <2>1. ASSUME NEW cn \in Conn, CloseConnection(cn)
        PROVE  job'[Listener].q \notin Name /\ job'[Listener].item.seq = 0 /\ received' = received
    BY <2>1, QueueFacts DEF CloseConnection, DataOK
  <2>2. ASSUME NEW s \in Server, CloseServer(s)
        PROVE  job'[Listener].q \notin Name /\ job'[Listener].item.seq = 0 /\ received' = received
    BY <2>2, QueueFacts DEF CloseServer, DataOK
  <2>3. ASSUME NEW cn \in Internal, Accept(cn) PROVE FALSE
    BY <2>3 DEF Accept
  <2> QED
    BY <1>2, <2>1, <2>2, <2>3 DEF Network
<1>3. ASSUME NEW c \in Consumer, ConsumerStep(c)
      PROVE  pc[Listener] = pc'[Listener] /\ job'[Listener] = job[Listener] /\ received' = received
  <2>1. pc'[Listener] = pc[Listener] /\ job' = job
    BY <1>3, ConsumerFrame
  <2>2. received' = received
    BY <1>3 DEF ConsumerStep, ConsumerTest, WakeUp, TimeOut, Pop, NextQueue, EndPass,
                CallbackReturn, TellCheck, TellPush
  <2> QED
    BY <2>1, <2>2
<1>4. CASE UserStep
  BY <1>4 DEF UserStep, JoinReturn, TellCheck, TellPush, DataOK
<1>5. CASE Application
  <2>1. CASE Refuse
    BY <2>1 DEF Refuse, Disconnect
  <2>2. CASE ~ Refuse
    BY <1>5, <2>2 DEF Application, CallbackDisconnect, UserDisconnect, Disconnect, RunConsumer,
                      JoinThread, DataOK
  <2> QED
    BY <2>1, <2>2
<1>6. CASE Crash
  BY <1>6 DEF Crash
<1>7. CASE UNCHANGED vars
  BY <1>7 DEF vars
<1> QED
  BY <1>1, <1>2, <1>3, <1>4, <1>5, <1>6, <1>7 DEF Next

\* How the listener lets go of what it holds.
LEMMA LetGo ==
    ASSUME TypeOK, [Next]_vars, pc[Listener] \in {"check", "push", "crashed"}
    PROVE  /\ job'[Listener] = job[Listener]
           /\ \/ pc'[Listener] \in {"check", "push", "crashed"}
              \/ PushQueue(Listener)
              \/ <<job[Listener].q, job[Listener].item>> \in lost'
<1> USE ThreadFacts DEF Goto, TypeOK, ControlOK
<1>1. CASE ListenerStep
  <2>1. CASE CheckQueue(Listener)
    BY <2>1 DEF CheckQueue
  <2>2. CASE PushQueue(Listener)
    BY <2>2 DEF PushQueue
  <2>3. CASE ~ CheckQueue(Listener) /\ ~ PushQueue(Listener)
    BY <1>1, <2>3
    DEF ListenerStep, LoopTest, EndBatch, ConnectReturn, EndRead, SafeDisconnect, Notify,
        TellCheck, TellPush, CloseInternal, CloseDone, JoinNext, Joined, Release
  <2> QED
    BY <2>1, <2>2, <2>3
<1>2. CASE Network
  BY <1>2 DEF Network, Accept, CloseConnection, PickEvent, CloseServer
<1>3. ASSUME NEW c \in Consumer, ConsumerStep(c)
      PROVE  pc[Listener] = pc'[Listener] /\ job'[Listener] = job[Listener]
  BY <1>3, ConsumerFrame
<1>4. CASE UserStep
  BY <1>4 DEF UserStep, JoinReturn, TellCheck, TellPush, DataOK
<1>5. CASE Application
  <2>1. CASE Refuse
    BY <2>1 DEF Refuse, Disconnect
  <2>2. CASE ~ Refuse
    BY <1>5, <2>2 DEF Application, CallbackDisconnect, UserDisconnect, Disconnect, RunConsumer,
                      JoinThread, DataOK
  <2> QED
    BY <2>1, <2>2
<1>6. CASE Crash
  BY <1>6 DEF Crash
<1>7. CASE UNCHANGED vars
  BY <1>7 DEF vars
<1> QED
  BY <1>1, <1>2, <1>3, <1>4, <1>5, <1>6, <1>7 DEF Next

\* Only picking counts as receiving; nothing that was lost is found again.
LEMMA ReceiveOnly ==
    ASSUME [Next]_vars
    PROVE  /\ received' = received \/ \E cn \in Conn, n \in Name : PickEvent(cn, n)
           /\ lost \subseteq lost'
BY DEF Next, ListenerStep, Network, ConsumerStep, UserStep, Application, LoopTest, EndBatch,
       ConnectReturn, EndRead, SafeDisconnect, CheckQueue, PushQueue, Notify, TellCheck,
       TellPush, CloseInternal, CloseDone, JoinNext, Joined, Release, Accept, CloseConnection,
       PickEvent, CloseServer, ConsumerTest, WakeUp, TimeOut, Pop, NextQueue, EndPass,
       CallbackReturn, JoinReturn, Refuse, CallbackDisconnect, UserDisconnect, RunConsumer,
       JoinThread, Crash, vars

\* What picking an event does.
LEMMA Picking ==
    ASSUME TypeOK, NEW cn \in Conn, NEW n \in Name, PickEvent(cn, n)
    PROVE  /\ received' = [received EXCEPT ![cn] = received[cn] + 1]
           /\ pc[Listener] \in {"batch", "read"} /\ pc'[Listener] = "check"
           /\ job'[Listener].q = n
           /\ job'[Listener].item = [cn |-> cn, seq |-> received[cn] + 1]
           /\ m_events' = m_events /\ handled' = handled
BY ThreadFacts DEF PickEvent, TypeOK, DataOK, ControlOK, Goto

\* Every step keeps what the listener holds in the form above.
LEMMA HandsStep == TypeOK /\ HandsInv /\ [Next]_vars => HandsInv'
<1> SUFFICES ASSUME TypeOK, HandsInv, [Next]_vars PROVE HandsInv'
  OBVIOUS
<1>1. CASE pc'[Listener] \notin {"check", "push", "closing"}
  BY <1>1 DEF HandsInv, Pending
<1>2. ASSUME NEW cn \in Conn, NEW n \in Name, PickEvent(cn, n) PROVE HandsInv'
  BY <1>2, Picking DEF HandsInv, Pending
<1>3. CASE pc'[Listener] \in {"check", "push", "closing"}
  BY <1>2, <1>3, Taken DEF HandsInv, Pending
<1> QED
  BY <1>1, <1>3

\* What was given to a callback of a name, or waits for it, stays known.
LEMMA QueuedStays ==
    ASSUME TypeOK, [Next]_vars, NEW q \in Name, NEW x, Holds(handled[q], x) \/ Holds(m_events[q], x)
    PROVE  Holds(handled'[q], x) \/ Holds(m_events'[q], x)
<1>1. q \in Queue /\ q # Disconnected
  BY QueueFacts
<1>2. m_events[q] \in Seq(Item) /\ handled[q] \in Seq(Item)
  BY <1>1, QueueLength
<1>3. CASE Kept(q)
  BY <1>3 DEF Kept
<1>4. CASE PushQueue(Listener) /\ job[Listener].q = q
  <2>1. /\ m_events'[q] = Append(m_events[q], job[Listener].item) /\ handled' = handled
        /\ job[Listener].item \in Item
    BY <1>4, Pushed
  <2> QED
    BY <1>2, <2>1, AppendHolds
<1>5. ASSUME NEW c \in Consumer, Pop(c), StageQueue(stage[c]) = q
      PROVE  Holds(handled'[q], x) \/ Holds(m_events'[q], x)
  <2>1. /\ m_events[q] # <<>> /\ m_events'[q] = Tail(m_events[q])
        /\ handled'[q] = Append(handled[q], Head(m_events[q]))
    BY <1>5, Popped
  <2>2. Head(m_events[q]) \in Item
    BY <1>2, <2>1, HeadTailProperties
  <2>3. CASE Holds(handled[q], x) \/ x = Head(m_events[q])
    BY <1>2, <2>1, <2>2, <2>3, AppendHolds
  <2>4. CASE Holds(m_events[q], x)
    BY <1>2, <2>1, <2>3, <2>4, TailHolds
  <2> QED
    BY <2>3, <2>4
<1> QED
  BY <1>1, <1>3, <1>4, <1>5, QueueChange

\* The places of NothingVanishes, one by one.
LEMMA LocatedAt ==
    ASSUME NEW cn \in Conn, NEW n \in Nat
    PROVE  Located(cn, n) <=>
             LET x == [cn |-> cn, seq |-> n]
             IN  \/ \E q \in Name : Holds(handled[q], x) \/ Holds(m_events[q], x)
                 \/ \E q \in Name : <<q, x>> \in lost
                 \/ pc[Listener] \in {"check", "push", "crashed"} /\ job[Listener].item = x
BY DEF Located, Holds

\* Every step keeps the events that were picked.
LEMMA VanishStep == TypeOK /\ HandsInv /\ NothingVanishes /\ [Next]_vars => NothingVanishes'
<1> SUFFICES ASSUME TypeOK, HandsInv, NothingVanishes, [Next]_vars,
                    NEW cn \in Conn, NEW n \in 1 .. received'[cn]
             PROVE  Located(cn, n)'
  BY DEF NothingVanishes
<1> DEFINE x == [cn |-> cn, seq |-> n]
           At == \/ \E q \in Name : Holds(handled'[q], x) \/ Holds(m_events'[q], x)
                 \/ \E q \in Name : <<q, x>> \in lost'
                 \/ pc'[Listener] \in {"check", "push", "crashed"} /\ job'[Listener].item = x
<1>1. received[cn] \in Nat /\ n \in Nat /\ n > 0
  <2>1. received[cn] \in Nat /\ received'[cn] \in Nat
    BY TypeStep DEF TypeOK, DataOK
  <2> QED
    BY <2>1
<1>2. SUFFICES At
  BY DEF Located, Holds
<1>3. CASE n \in 1 .. received[cn]
  <2>1. Located(cn, n)
    BY <1>3 DEF NothingVanishes
  <2>2. \/ \E q \in Name : Holds(handled[q], x) \/ Holds(m_events[q], x)
        \/ \E q \in Name : <<q, x>> \in lost
        \/ pc[Listener] \in {"check", "push", "crashed"} /\ job[Listener].item = x
    BY <1>1, <2>1, LocatedAt
  <2>3. CASE \E q \in Name : Holds(handled[q], x) \/ Holds(m_events[q], x)
    BY <2>3, QueuedStays
  <2>4. CASE \E q \in Name : <<q, x>> \in lost
    BY <2>4, ReceiveOnly
  <2>5. CASE pc[Listener] \in {"check", "push", "crashed"} /\ job[Listener].item = x
    <3>1. CASE pc'[Listener] \in {"check", "push", "crashed"}
      BY <2>5, <3>1, LetGo
    <3>2. CASE PushQueue(Listener)
      <4>1. /\ job[Listener].q \in Queue /\ job[Listener].item \in Item
            /\ m_events'[job[Listener].q] = Append(m_events[job[Listener].q], job[Listener].item)
            /\ pc[Listener] = "push"
        BY <3>2, Pushed
      <4>2. job[Listener].q \in Name
        BY <1>1, <2>5, <4>1 DEF HandsInv, Pending
      <4>3. Holds(m_events'[job[Listener].q], x)
        BY <2>5, <4>1, QueueLength, AppendHolds
      <4> QED
        BY <4>2, <4>3
    <3>3. CASE /\ <<job[Listener].q, job[Listener].item>> \in lost'
               /\ pc'[Listener] \notin {"check", "push", "crashed"}
      <4>1. pc[Listener] # "crashed"
        BY <3>3, ListenerFlow
      <4>2. job[Listener].q \in Name
        BY <1>1, <2>5, <4>1 DEF HandsInv, Pending
      <4> QED
        BY <2>5, <3>3, <4>2
    <3> QED
      BY <2>5, <3>1, <3>2, <3>3, LetGo
  <2> QED
    BY <2>2, <2>3, <2>4, <2>5
<1>4. CASE n \notin 1 .. received[cn]
  <2>1. received' # received
    BY <1>4
  <2>2. PICK dn \in Conn, m \in Name : PickEvent(dn, m)
    BY <2>1, ReceiveOnly
  <2>3. /\ received' = [received EXCEPT ![dn] = received[dn] + 1]
        /\ pc'[Listener] = "check"
        /\ job'[Listener].item = [cn |-> dn, seq |-> received[dn] + 1]
    BY <2>2, Picking
  <2>4. dn = cn /\ n = received[cn] + 1
    BY <1>1, <1>4, <2>3 DEF TypeOK, DataOK
  <2> QED
    BY <2>3, <2>4
<1> QED
  BY <1>3, <1>4

\* EventListener::read_connection picks an event and pushes it: whatever the
\* consumers, the callbacks and the shutdown do meanwhile, an event that was
\* picked was given to a callback, waits in its queue, was dropped by a full
\* one, or is still in the hands of the listener.
THEOREM NoEventVanishes == Spec => []NothingVanishes
<1>1. ASSUME Init PROVE HandsInv /\ NothingVanishes
  <2>1. pc[Listener] = "test"
    BY <1>1, ThreadFacts DEF Init
  <2>2. \A cn \in Conn : 1 .. received[cn] = {}
    BY <1>1 DEF Init
  <2> QED
    BY <2>1, <2>2 DEF HandsInv, Pending, NothingVanishes
<1> QED
  BY <1>1, InitType, TypeStep, HandsStep, VanishStep, PTL DEF Spec
------------------------------------------------------------------------------
(* The order of the events of a connection *)

\* What the callbacks of a name have seen, and will see next.
Seen(q) == handled[q] \o m_events[q]

\* An event the listener holds is the last it picked, and nothing that was
\* pushed is behind it.
PickedLast ==
    Pending /\ job[Listener].q \in Name =>
        /\ job[Listener].item.cn \in Conn
        /\ job[Listener].item.seq = received[job[Listener].item.cn]

Before(x) ==
    /\ x.cn \in Conn
    /\ x.seq <= received[x.cn]
    /\ Pending /\ job[Listener].q \in Name /\ x.cn = job[Listener].item.cn
         => x.seq < job[Listener].item.seq

OrderInv ==
    /\ PickedLast
    /\ \A q \in Name : \A i \in DOMAIN Seen(q) : Before(Seen(q)[i])
    /\ InOrder

\* A pop of a consumer moves the border between the two, no more.
LEMMA MoveHead ==
    ASSUME NEW S, NEW h \in Seq(S), NEW s \in Seq(S), s # <<>>
    PROVE  Append(h, Head(s)) \o Tail(s) = h \o s
<1>1. Head(s) \in S /\ Tail(s) \in Seq(S)
  BY HeadTailProperties
<1>2. <<Head(s)>> \in Seq(S) /\ Append(h, Head(s)) = h \o <<Head(s)>>
  BY <1>1, AppendIsConcat
<1>3. <<Head(s)>> \o Tail(s) = s
  <2> DEFINE u == <<Head(s)>> \o Tail(s)
  <2>1. /\ Len(Tail(s)) = Len(s) - 1 /\ Len(s) \in Nat
        /\ \A i \in 1 .. Len(Tail(s)) : Tail(s)[i] = s[i + 1]
        /\ Len(<<Head(s)>>) = 1 /\ <<Head(s)>>[1] = s[1]
    BY HeadTailProperties, LenProperties
  <2>2. /\ u \in Seq(S) /\ Len(u) = 1 + (Len(s) - 1)
        /\ \A i \in 1 .. 1 + (Len(s) - 1) : u[i] = IF i <= 1 THEN <<Head(s)>>[i] ELSE Tail(s)[i - 1]
    BY <1>1, <1>2, <2>1, ConcatProperties
  <2> HIDE DEF u
  <2>3. ASSUME NEW i \in 1 .. Len(u) PROVE u[i] = s[i]
    <3>1. CASE i = 1
      BY <2>1, <2>2, <3>1
    <3>2. CASE i # 1
      <4>1. i - 1 \in 1 .. Len(Tail(s)) /\ (i - 1) + 1 = i
        BY <2>1, <2>2, <3>2
      <4>2. Tail(s)[i - 1] = s[i]
        BY <2>1, <4>1
      <4> QED
        BY <2>1, <2>2, <3>2, <4>2
    <3> QED
      BY <3>1, <3>2
  <2>4. Len(u) = Len(s)
    BY <2>1, <2>2
  <2>5. u = s
    BY <2>2, <2>3, <2>4, SeqEqual
  <2> QED
    BY <2>5 DEF u
<1> QED
  BY <1>1, <1>2, <1>3, ConcatAssociative

\* A push adds to the end.
LEMMA AppendLast ==
    ASSUME NEW S, NEW h \in Seq(S), NEW s \in Seq(S), NEW x \in S
    PROVE  h \o Append(s, x) = Append(h \o s, x)
<1>1. <<x>> \in Seq(S) /\ h \o s \in Seq(S)
  BY AppendIsConcat, ConcatProperties
<1> QED
  BY <1>1, AppendIsConcat, ConcatAssociative

\* What a step does to the sequence of a name.
LEMMA SeenStep ==
    ASSUME TypeOK, [Next]_vars, NEW q \in Name
    PROVE  \/ handled'[q] \o m_events'[q] = Seen(q)
           \/ /\ PushQueue(Listener) /\ job[Listener].q = q
              /\ handled'[q] \o m_events'[q] = Append(Seen(q), job[Listener].item)
<1>1. q \in Queue /\ q # Disconnected
  BY QueueFacts
<1>2. m_events[q] \in Seq(Item) /\ handled[q] \in Seq(Item)
  BY <1>1, QueueLength
<1>3. CASE Kept(q)
  BY <1>3 DEF Kept, Seen
<1>4. CASE PushQueue(Listener) /\ job[Listener].q = q
  <2>1. /\ m_events'[q] = Append(m_events[q], job[Listener].item) /\ handled'[q] = handled[q]
        /\ job[Listener].item \in Item
    BY <1>4, Pushed
  <2>2. handled[q] \o Append(m_events[q], job[Listener].item)
          = Append(handled[q] \o m_events[q], job[Listener].item)
    <3> DEFINE h == handled[q]
               e == m_events[q]
               x == job[Listener].item
    <3>1. h \in Seq(Item) /\ e \in Seq(Item) /\ x \in Item
      BY <1>2, <2>1
    <3> HIDE DEF h, e, x
    <3>2. h \o Append(e, x) = Append(h \o e, x)
      BY <3>1, AppendLast
    <3> QED
      BY <3>2 DEF h, e, x
  <2> QED
    BY <1>4, <2>1, <2>2 DEF Seen
<1>5. ASSUME NEW c \in Consumer, Pop(c), StageQueue(stage[c]) = q
      PROVE  handled'[q] \o m_events'[q] = Seen(q)
  <2>1. /\ m_events[q] # <<>> /\ m_events'[q] = Tail(m_events[q])
        /\ handled'[q] = Append(handled[q], Head(m_events[q]))
    BY <1>5, Popped
  <2>2. Append(handled[q], Head(m_events[q])) \o Tail(m_events[q]) = handled[q] \o m_events[q]
    BY <1>2, <2>1, MoveHead
  <2> QED
    BY <2>1, <2>2 DEF Seen
<1> QED
  BY <1>1, <1>3, <1>4, <1>5, QueueChange

\* Every step keeps the order.
LEMMA OrderStep == TypeOK /\ HandsInv /\ OrderInv /\ [Next]_vars => OrderInv'
<1> SUFFICES ASSUME TypeOK, HandsInv, OrderInv, [Next]_vars PROVE OrderInv'
  OBVIOUS
<1>1. TypeOK' /\ HandsInv'
  BY TypeStep, HandsStep
<1>2. received \in [Conn -> Nat] /\ received' \in [Conn -> Nat] /\ \A q \in Name : q \in Queue
  BY <1>1, QueueFacts DEF TypeOK, DataOK
<1>3. \A cn \in Conn : received[cn] <= received'[cn]
  <2>1. ASSUME NEW dn \in Conn, NEW n \in Name, PickEvent(dn, n), NEW cn \in Conn
        PROVE  received[cn] <= received'[cn]
    <3>1. received' = [received EXCEPT ![dn] = received[dn] + 1]
      BY <2>1, Picking
    <3>2. received[cn] \in Nat
      BY <1>2
    <3> QED
      BY <1>2, <3>1, <3>2
  <2> QED
    BY <1>2, <2>1, ReceiveOnly
<1> DEFINE Held == pc'[Listener] \in {"check", "push"} /\ job'[Listener].q \in Name
           x == job'[Listener].item
\* What is held after the step was picked in it, or was held before.
<1>4. ASSUME Held
      PROVE  \/ Pending /\ job[Listener].q \in Name /\ job'[Listener] = job[Listener] /\ received' = received
             \/ \E cn \in Conn, n \in Name : PickEvent(cn, n)
  <2>1. CASE /\ job'[Listener] = job[Listener] /\ received' = received
             /\ pc[Listener] \in {"check", "push", "closing"}
    BY <1>4, <2>1 DEF HandsInv, Pending
  <2> QED
    BY <1>4, <2>1, Taken
<1>5. PickedLast'
  <2> SUFFICES ASSUME Held PROVE x.cn \in Conn /\ x.seq = received'[x.cn]
    BY DEF PickedLast, Pending
  <2>1. ASSUME NEW cn \in Conn, NEW n \in Name, PickEvent(cn, n)
        PROVE  x.cn \in Conn /\ x.seq = received'[x.cn]
    <3>1. received' = [received EXCEPT ![cn] = received[cn] + 1]
      BY <2>1, Picking
    <3>2. x = [cn |-> cn, seq |-> received[cn] + 1]
      BY <2>1, Picking
    <3> QED
      BY <1>2, <3>1, <3>2
  <2> QED
    BY <1>4, <2>1 DEF OrderInv, PickedLast
<1>6. ASSUME NEW y, Before(y), y.seq \in Nat
      PROVE  /\ y.cn \in Conn /\ y.seq <= received'[y.cn]
             /\ Held /\ y.cn = x.cn => y.seq < x.seq
  <2>1. y.cn \in Conn /\ y.seq <= received[y.cn] /\ y.seq <= received'[y.cn]
    BY <1>2, <1>3, <1>6 DEF Before
  <2>2. ASSUME Held, y.cn = x.cn PROVE y.seq < x.seq
    <3>1. ASSUME NEW cn \in Conn, NEW n \in Name, PickEvent(cn, n)
          PROVE  y.seq < x.seq
      <4>1. x.cn = cn /\ x.seq = received[cn] + 1
        <5>1. x = [cn |-> cn, seq |-> received[cn] + 1]
          BY <3>1, Picking
        <5> QED
          BY <5>1
      <4> QED
        BY <1>2, <1>6, <2>1, <2>2, <4>1
    <3> QED
      BY <1>4, <1>6, <2>2, <3>1 DEF Before
  <2> QED
    BY <2>1, <2>2
<1>7. ASSUME NEW q \in Name
      PROVE  /\ \A i \in DOMAIN Seen(q)' : Before(Seen(q)[i])'
             /\ \A i, j \in DOMAIN Seen(q)' :
                  i < j /\ Seen(q)'[i].cn = Seen(q)'[j].cn => Seen(q)'[i].seq < Seen(q)'[j].seq
  <2>1. /\ Seen(q) \in Seq(Item) /\ Len(Seen(q)) \in Nat /\ DOMAIN Seen(q) = 1 .. Len(Seen(q))
        /\ \A i \in DOMAIN Seen(q) : Seen(q)[i] \in Item
    <3>1. Seen(q) \in Seq(Item)
      BY <1>2, QueueLength, ConcatProperties DEF Seen
    <3> QED
      BY <3>1, LenProperties
  <2>2. \A i, j \in DOMAIN Seen(q) :
          i < j /\ Seen(q)[i].cn = Seen(q)[j].cn => Seen(q)[i].seq < Seen(q)[j].seq
    BY DEF OrderInv, InOrder, Seen
  <2>3. \A i \in DOMAIN Seen(q) :
          /\ Seen(q)[i].cn \in Conn /\ Seen(q)[i].seq <= received'[Seen(q)[i].cn]
          /\ Held /\ Seen(q)[i].cn = x.cn => Seen(q)[i].seq < x.seq
    BY <1>6, <2>1 DEF OrderInv, Item
  <2>4. CASE Seen(q)' = Seen(q)
    BY <2>2, <2>3, <2>4 DEF Before, Pending
  <2>5. CASE PushQueue(Listener) /\ job[Listener].q = q /\ Seen(q)' = Append(Seen(q), job[Listener].item)
    <3> DEFINE y == job[Listener].item
    <3>1. /\ y \in Item /\ pc[Listener] = "push" /\ job' = job /\ received' = received
          /\ pc'[Listener] = "notify"
      BY <2>5, Pushed
    <3>2. y.cn \in Conn /\ y.seq = received'[y.cn] /\ y.seq \in Nat
      BY <2>5, <3>1 DEF OrderInv, PickedLast, Pending, Item
    <3>3. \A i \in DOMAIN Seen(q) : Seen(q)[i].cn = y.cn => Seen(q)[i].seq < y.seq
      BY <2>5, <3>1 DEF OrderInv, Before, Pending
    <3>4. /\ DOMAIN Seen(q)' = 1 .. Len(Seen(q)) + 1
          /\ \A i \in 1 .. Len(Seen(q)) : Seen(q)'[i] = Seen(q)[i]
          /\ Seen(q)'[Len(Seen(q)) + 1] = y
      <4> HIDE DEF y
      <4>1. /\ Append(Seen(q), y) \in Seq(Item) /\ Len(Append(Seen(q), y)) = Len(Seen(q)) + 1
            /\ \A i \in 1 .. Len(Seen(q)) : Append(Seen(q), y)[i] = Seen(q)[i]
            /\ Append(Seen(q), y)[Len(Seen(q)) + 1] = y
        BY <2>1, <3>1, AppendProperties
      <4>2. DOMAIN Append(Seen(q), y) = 1 .. Len(Seen(q)) + 1
        BY <4>1, LenProperties
      <4> QED
        BY <2>5, <4>1, <4>2 DEF y
    <3> QED
      <4>1. ASSUME NEW i \in 1 .. Len(Seen(q)) + 1
            PROVE  i \in 1 .. Len(Seen(q)) \/ i = Len(Seen(q)) + 1
        BY <2>1
      <4>2. ~ Held
        BY <3>1
      <4>3. ASSUME NEW i \in DOMAIN Seen(q)' PROVE Before(Seen(q)[i])'
        BY <2>1, <2>3, <3>2, <3>4, <4>1, <4>2, <4>3 DEF Before, Pending
      <4>4. ASSUME NEW i \in DOMAIN Seen(q)', NEW j \in DOMAIN Seen(q)', i < j,
                   Seen(q)'[i].cn = Seen(q)'[j].cn
            PROVE  Seen(q)'[i].seq < Seen(q)'[j].seq
        <5>1. i \in 1 .. Len(Seen(q))
          BY <2>1, <3>4, <4>4
        <5>2. CASE j \in 1 .. Len(Seen(q))
          BY <2>1, <2>2, <3>4, <4>4, <5>1, <5>2
        <5>3. CASE j = Len(Seen(q)) + 1
          BY <2>1, <3>3, <3>4, <4>4, <5>1, <5>3
        <5> QED
          BY <3>4, <4>1, <5>2, <5>3
      <4> QED
        BY <4>3, <4>4
  <2> QED
    BY <2>4, <2>5, SeenStep DEF Seen
<1>8. InOrder'
  BY <1>7 DEF InOrder, Seen
<1> QED
  BY <1>5, <1>7, <1>8 DEF OrderInv

\* At first nothing was published.
LEMMA OrderInit == Init => OrderInv
<1> SUFFICES ASSUME Init PROVE OrderInv
  OBVIOUS
<1>1. pc[Listener] = "test"
  BY ThreadFacts DEF Init
<1>2. \A q \in Name : DOMAIN (handled[q] \o m_events[q]) = {}
  <2>1. \A q \in Name : handled[q] = <<>> /\ m_events[q] = <<>>
    BY QueueFacts DEF Init
  <2>2. <<>> \o <<>> = <<>> /\ DOMAIN <<>> = {}
    <3>1. <<>> \in Seq(Item) /\ Len(<<>>) = 0
      BY EmptySeq
    <3>2. DOMAIN <<>> = 1 .. 0
      BY <3>1, LenProperties
    <3> QED
      BY <3>1, <3>2, ConcatEmptySeq
  <2> QED
    BY <2>1, <2>2
<1> QED
  BY <1>1, <1>2 DEF OrderInv, PickedLast, Pending, Seen, InOrder

\* read_connection and consume_events: the callbacks of a name see the events
\* of one connection in the order they arrived, none of them twice.
THEOREM EventsInOrder == Spec => []InOrder
<1>1. Init => HandsInv
  BY ThreadFacts DEF Init, HandsInv, Pending
<1>2. OrderInv => InOrder
  BY DEF OrderInv
<1> QED
  BY <1>1, <1>2, OrderInit, InitType, TypeStep, HandsStep, OrderStep, PTL DEF Spec
=============================================================================

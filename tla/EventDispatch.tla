---------------------------- MODULE EventDispatch ----------------------------
(***************************************************************************)
(* The threads of SedNL between the socket and the callbacks: the listener *)
(* thread (EventListener::run_imp) pushes what it reads into one queue per *)
(* event name and one queue per kind of disconnection; the consumer        *)
(* threads (EventConsumer::run_imp) sleep on a condition variable, drain   *)
(* the queues they are bound to and run the callbacks; the thread that     *)
(* owns the objects starts and joins all of them.                          *)
(*                                                                         *)
(* Threads are integers: 0 is the listener, 1..NConsumers are the          *)
(* consumers in the order of m_consumers, NConsumers+1 is the user thread. *)
(* Queues are integers too: 1..NNames are the keys of m_events, in the     *)
(* order a pass visits them, then m_server_disconnected_queue and          *)
(* m_disconnected_queue.                                                   *)
(***************************************************************************)
EXTENDS Integers, Sequences, FiniteSets

CONSTANTS
    NNames,             \* number of event names the peers use
    NConsumers,         \* number of consumers linked to the listener
    Slots,              \* [Consumer -> SUBSET Name]: names with a callback
    EmptySlots,         \* names some consumer bound without setting a callback
    OnEvent,            \* the consumer with an on_event callback, or Null
    OnServerDisconnect, \* the consumer with an on_server_disconnect callback
    OnDisconnect,       \* the consumer with an on_disconnect callback
    Internal,           \* connections accepted from the servers
    External,           \* connections attached by the user (TCPClient)
    Server,             \* servers attached by the user
    MaxQueueSize,       \* m_max_queue_size, 0 for no limit
    CrashOnUB,          \* may undefined behaviour stop the process?
    MaxReceived,        \* bound: events read from one connection
    MaxDisconnects      \* bound: calls of disconnect() by callbacks and user

Null == 0
Absent == -1
Listener == 0
Consumer == 1 .. NConsumers
User == NConsumers + 1
Thread == 0 .. NConsumers + 1

Name == 1 .. NNames
ServerDisconnected == NNames + 1
Disconnected == NNames + 2
Queue == 1 .. NNames + 2

Conn == Internal \cup External
Item == [cn : Conn \cup Server, seq : Nat]

ASSUME CountAssumption == /\ NNames \in Nat
                          /\ NConsumers \in Nat
                          /\ MaxQueueSize \in Nat
                          /\ MaxReceived \in Nat
                          /\ MaxDisconnects \in Nat

\* run_init throws EventCollision unless every callback has one consumer.
ASSUME SlotAssumption ==
    /\ Slots \in [Consumer -> SUBSET Name]
    /\ \A c, d \in Consumer : c # d => Slots[c] \cap Slots[d] = {}
    /\ EmptySlots \subseteq Name
    /\ {OnEvent, OnServerDisconnect, OnDisconnect} \subseteq Consumer \cup {Null}

ASSUME ObjectAssumption == /\ Internal \cap External = {}
                           /\ Server \cap Conn = {}
                           /\ Conn \cup Server # {}
                           /\ CrashOnUB \in BOOLEAN

VARIABLES
    m_events,     \* [Queue -> Seq(Item)]: the three kinds of SafeQueue
    event_keys,   \* the names m_events has an entry for
    m_links,      \* [Name -> Consumer \cup {Null, Absent}]
    wake_up,      \* [Consumer -> BOOLEAN]: ConsumerDescriptor::wake_up
    m_running,    \* [0..NConsumers -> BOOLEAN]
    accepted,     \* the internal connections that were accepted so far
    internal,     \* m_internal_connections
    open,         \* the connections with m_connected set
    listening,    \* the servers whose descriptor is open
    received,     \* [Conn -> Nat]: events picked from the connection
    pc,           \* [Thread -> label]
    job,          \* [Thread -> what the thread is about to push]
    stage,        \* [Consumer -> Nat]: position in consume_events
    final,        \* [Consumer -> BOOLEAN]: in the pass after the loop
    current,      \* [Consumer -> what the callback was given]
    todo,         \* connections the shutdown loop has still to visit
    next_join,    \* the consumer the listener joins next
    waiting_for,  \* the thread the user joins
    disconnects,  \* calls of disconnect() so far
    handled,      \* history: [Queue -> Seq(Item)], what callbacks were given
    lost,         \* history: pairs <<queue, item>> dropped by a full queue
    joined        \* history: consumers the listener found running and joined

shared == <<m_events, event_keys, m_links, wake_up, m_running>>
sockets == <<accepted, internal, open, listening, received, disconnects>>
consumer == <<stage, final, current>>
joining == <<todo, next_join, waiting_for, joined>>
history == <<handled, lost>>
vars == <<shared, sockets, consumer, joining, history, pc, job>>
------------------------------------------------------------------------------
(* Links and stages *)

\* m_links once run_init linked every consumer. link_consumer leaves a null
\* pointer under the name of an empty slot.
LinkTable ==
    [n \in Name |-> IF \E c \in Consumer : n \in Slots[c]
                    THEN CHOOSE c \in Consumer : n \in Slots[c]
                    ELSE IF n \in EmptySlots THEN Null ELSE Absent]

\* Mutation: read_connection forgets the consumer with on_event.
NotifyTargetBoundOnly(q) ==
    CASE q = Disconnected       -> OnDisconnect
      [] q = ServerDisconnected -> OnServerDisconnect
      [] OTHER -> IF m_links[q] \in Consumer THEN m_links[q] ELSE Null

\* The descriptor that read_connection, close_connection and
\* tell_disconnected(TCPServer *) notify for a queue.
NotifyTarget(q) ==
    CASE q = Disconnected       -> OnDisconnect
      [] q = ServerDisconnected -> OnServerDisconnect
      [] OTHER -> IF m_links[q] \in Consumer THEN m_links[q] ELSE OnEvent

\* consume_events as a sequence of stages: the bound names, then the names
\* for on_event, then the two queues of disconnections.
LastStage == 2 * NNames + 2
EndStage == LastStage + 1
Stage == 1 .. LastStage

StageQueue(k) == IF k <= NNames THEN k ELSE k - NNames

\* Mutation: consume_events gives on_event the bound names too.
ServesEveryName(c, k) ==
    \/ k \in Name /\ k \in Slots[c]
    \/ k - NNames \in Name /\ c = OnEvent
    \/ StageQueue(k) = ServerDisconnected /\ c = OnServerDisconnect
    \/ StageQueue(k) = Disconnected /\ c = OnDisconnect

\* Consumer c has a callback for the queue of stage k.
Serves(c, k) ==
    \/ k \in Name /\ k \in Slots[c]
    \/ k - NNames \in Name /\ c = OnEvent /\ m_links[k - NNames] = Absent
    \/ StageQueue(k) = ServerDisconnected /\ c = OnServerDisconnect
    \/ StageQueue(k) = Disconnected /\ c = OnDisconnect

\* j is the stage consumer c enters when it leaves stage k.
NextStage(c, k, j) ==
    /\ k < j
    /\ j = EndStage \/ Serves(c, j)
    /\ \A i \in Stage : k < i /\ i < j => ~ Serves(c, i)
------------------------------------------------------------------------------
(* Queues *)

\* m_events[name] creates the entry it does not find.
Touch(q) == event_keys' = event_keys \cup ({q} \cap Name)

\* Mutations: the limit is off by one; the test of "no limit" is inverted.
IsFullLate(q) == MaxQueueSize > 0 /\ Len(m_events[q]) > MaxQueueSize + 1
IsFullInverted(q) == MaxQueueSize = 0 /\ Len(m_events[q]) > MaxQueueSize

IsFull(q) == MaxQueueSize > 0 /\ Len(m_events[q]) > MaxQueueSize

Goto(t, l) == pc' = [pc EXCEPT ![t] = l]

NoJob == [q |-> Disconnected, item |-> [cn |-> CHOOSE x \in Conn \cup Server : TRUE,
                                        seq |-> 0], ret |-> "test"]

\* Mutation: the event that was reported as lost is pushed all the same.
\* A push is two critical sections of the queue: size(), then push_back.
\* A dropped event is not notified; a disconnection is notified all the same.
CheckQueue(t) ==
    LET q == job[t].q IN
    /\ pc[t] = "check"
    /\ IF IsFull(q)
       THEN /\ lost' = lost \cup {<<q, job[t].item>>}
            /\ Goto(t, IF q \in Name THEN job[t].ret ELSE "notify")
       ELSE /\ Goto(t, "push")
            /\ UNCHANGED lost
    /\ Touch(q)
    /\ UNCHANGED <<m_events, m_links, wake_up, m_running, sockets, consumer, joining,
                   handled, job>>

\* Mutations: push_front for push_back; an assignment for the push.
PushQueueFront(t) ==
    /\ pc[t] = "push"
    /\ m_events' = [m_events EXCEPT ![job[t].q] = <<job[t].item>> \o @]
    /\ Goto(t, "notify")
    /\ UNCHANGED <<event_keys, m_links, wake_up, m_running, sockets, consumer, joining,
                   history, job>>

PushQueueOverwrite(t) ==
    /\ pc[t] = "push"
    /\ m_events' = [m_events EXCEPT ![job[t].q] = <<job[t].item>>]
    /\ Goto(t, "notify")
    /\ UNCHANGED <<event_keys, m_links, wake_up, m_running, sockets, consumer, joining,
                   history, job>>

PushQueue(t) ==
    /\ pc[t] = "push"
    /\ m_events' = [m_events EXCEPT ![job[t].q] = Append(@, job[t].item)]
    /\ Goto(t, "notify")
    /\ UNCHANGED <<event_keys, m_links, wake_up, m_running, sockets, consumer, joining,
                   history, job>>

\* EventListener::notify: a null descriptor is ignored.
Notify ==
    LET c == NotifyTarget(job[Listener].q) IN
    /\ pc[Listener] = "notify"
    /\ wake_up' = [d \in Consumer |-> d = c \/ wake_up[d]]
    /\ Goto(Listener, job[Listener].ret)
    /\ UNCHANGED <<m_events, event_keys, m_links, m_running, sockets, consumer, joining,
                   history, job>>
------------------------------------------------------------------------------
(* Connection::disconnect, called with t as the current thread *)

\* cn.m_mutex is held from the lock_guard of disconnect() to its end.
Locked(cn) == \E t \in Thread : /\ pc[t] \in {"tell_check", "tell_push"}
                                /\ job[t].item.cn = cn

\* Mutations: a connection that left the map is still found; the external
\* connections are not searched.
ManagedForever(cn) == IF External # {} THEN cn \in External ELSE cn \in accepted
ManagedInternal(cn) == cn \in internal

\* The lookup of tell_disconnected: the internal connections are searched only
\* when no external connection is attached.
Managed(cn) == IF External # {} THEN cn \in External ELSE cn \in internal

Disconnect(t, cn, ret) ==
    /\ ~ Locked(cn)
    /\ IF Managed(cn)
       THEN /\ Goto(t, "tell_check")
            /\ job' = [job EXCEPT ![t] = [q |-> Disconnected,
                                          item |-> [cn |-> cn, seq |-> 0],
                                          ret |-> ret]]
            /\ internal' = internal \ {cn}
            /\ UNCHANGED open
       ELSE /\ Goto(t, ret)
            /\ open' = open \ {cn}
            /\ UNCHANGED <<job, internal>>

\* tell_disconnected pushes and unsafe_disconnect closes; nobody is notified.
TellCheck(t) ==
    /\ pc[t] = "tell_check"
    /\ IF IsFull(Disconnected)
       THEN /\ lost' = lost \cup {<<Disconnected, job[t].item>>}
            /\ open' = open \ {job[t].item.cn}
            /\ Goto(t, job[t].ret)
       ELSE /\ Goto(t, "tell_push")
            /\ UNCHANGED <<lost, open>>
    /\ UNCHANGED <<shared, accepted, internal, listening, received, disconnects, consumer, joining,
                   handled, job>>

TellPush(t) ==
    /\ pc[t] = "tell_push"
    /\ m_events' = [m_events EXCEPT ![Disconnected] = Append(@, job[t].item)]
    /\ open' = open \ {job[t].item.cn}
    /\ Goto(t, job[t].ret)
    /\ UNCHANGED <<event_keys, m_links, wake_up, m_running, accepted, internal, listening,
                   received, disconnects, consumer, joining, history, job>>
------------------------------------------------------------------------------
(* The listener thread *)

\* while (m_running): another batch of the poller, or the shutdown.
LoopTest ==
    /\ pc[Listener] = "test"
    /\ IF m_running[Listener]
       THEN Goto(Listener, "batch") /\ UNCHANGED todo
       ELSE Goto(Listener, "close") /\ todo' = internal
    /\ UNCHANGED <<shared, sockets, consumer, next_join, waiting_for, joined, history, job>>

\* next_event() has nothing left, or wait_for_events timed out.
EndBatch ==
    /\ pc[Listener] = "batch"
    /\ Goto(Listener, "test")
    /\ UNCHANGED <<shared, sockets, consumer, joining, history, job>>

\* accept_connections: the connection is stored, then on_connect is called.
Accept(cn) ==
    /\ pc[Listener] = "batch"
    /\ listening # {}
    /\ cn \in Internal \ accepted
    /\ accepted' = accepted \cup {cn}
    /\ internal' = internal \cup {cn}
    /\ open' = open \cup {cn}
    /\ Goto(Listener, "connect")
    /\ job' = [job EXCEPT ![Listener].item = [cn |-> cn, seq |-> 0]]
    /\ UNCHANGED <<shared, listening, received, disconnects, consumer, joining, history>>

\* The on_connect callback, which runs in the listener thread, may refuse the
\* client.
Refuse ==
    /\ pc[Listener] = "connect"
    /\ disconnects < MaxDisconnects
    /\ disconnects' = disconnects + 1
    /\ Disconnect(Listener, job[Listener].item.cn, "connect")
    /\ UNCHANGED <<shared, accepted, listening, received, consumer, joining, history>>

ConnectReturn ==
    /\ pc[Listener] = "connect"
    /\ Goto(Listener, "batch")
    /\ UNCHANGED <<shared, sockets, consumer, joining, history, job>>

\* read_connection picked an event named n: the connection was found when the
\* read began, and what was received is picked whatever happens to it since.
PickEvent(cn, n) ==
    /\ \/ pc[Listener] = "batch" /\ cn \in open /\ cn \in internal \cup External
       \/ pc[Listener] = "read" /\ cn = job[Listener].item.cn
    /\ received[cn] < MaxReceived
    /\ received' = [received EXCEPT ![cn] = @ + 1]
    /\ Goto(Listener, "check")
    /\ job' = [job EXCEPT ![Listener] = [q |-> n,
                                         item |-> [cn |-> cn, seq |-> received[cn] + 1],
                                         ret |-> "read"]]
    /\ UNCHANGED <<shared, accepted, internal, open, listening, disconnects, consumer,
                   joining, history>>

\* recv fails with EAGAIN.
EndRead ==
    /\ pc[Listener] = "read"
    /\ Goto(Listener, "batch")
    /\ UNCHANGED <<shared, sockets, consumer, joining, history, job>>

\* close_connection up to its lookup: on an error or a hang-up reported by the
\* poller, or on an error or the end of the stream met by recv. get_fd() waits
\* for the mutex of an external connection and is -1 once it is closed; an
\* internal one is found under the descriptor it had.
CloseConnection(cn) ==
    /\ \/ pc[Listener] = "batch"
       \/ pc[Listener] = "read" /\ cn = job[Listener].item.cn
    /\ \/ cn \in internal
       \/ cn \in External \cap open /\ ~ Locked(cn)
    /\ internal' = internal \ {cn}
    /\ Goto(Listener, "closing")
    /\ job' = [job EXCEPT ![Listener] = [q |-> Disconnected,
                                         item |-> [cn |-> cn, seq |-> 0],
                                         ret |-> "batch"]]
    /\ UNCHANGED <<shared, accepted, open, listening, received, disconnects, consumer,
                   joining, history>>

\* safe_disconnect, before the event is pushed and its consumer notified.
SafeDisconnect ==
    /\ pc[Listener] = "closing"
    /\ ~ Locked(job[Listener].item.cn)
    /\ open' = open \ {job[Listener].item.cn}
    /\ Goto(Listener, "check")
    /\ UNCHANGED <<shared, accepted, internal, listening, received, disconnects, consumer,
                   joining, history, job>>

\* close_server: tell_disconnected pushes and notifies, then the descriptor is
\* closed.
CloseServer(s) ==
    /\ pc[Listener] = "batch"
    /\ s \in listening
    /\ listening' = listening \ {s}
    /\ Goto(Listener, "check")
    /\ job' = [job EXCEPT ![Listener] = [q |-> ServerDisconnected,
                                         item |-> [cn |-> s, seq |-> 0],
                                         ret |-> "batch"]]
    /\ UNCHANGED <<shared, accepted, internal, open, received, disconnects, consumer,
                   joining, history>>
------------------------------------------------------------------------------
(* The shutdown, run by the listener thread *)

\* One iteration over m_internal_connections.
CloseInternal(cn) ==
    /\ pc[Listener] = "close"
    /\ cn \in todo
    /\ todo' = todo \ {cn}
    /\ Disconnect(Listener, cn, "close")
    /\ UNCHANGED <<shared, accepted, listening, received, disconnects, consumer, next_join,
                   waiting_for, joined, history>>

CloseDone ==
    /\ pc[Listener] = "close"
    /\ todo = {}
    /\ Goto(Listener, "join")
    /\ UNCHANGED <<shared, sockets, consumer, joining, history, job>>

\* consumer->join(): nothing for a consumer that does not run.
JoinNext ==
    /\ pc[Listener] = "join"
    /\ next_join \in Consumer
    /\ IF m_running[next_join]
       THEN /\ m_running' = [m_running EXCEPT ![next_join] = FALSE]
            /\ Goto(Listener, "await")
            /\ UNCHANGED next_join
       ELSE /\ next_join' = next_join + 1
            /\ UNCHANGED <<m_running, pc>>
    /\ UNCHANGED <<m_events, event_keys, m_links, wake_up, sockets, consumer, todo,
                   waiting_for, joined, history, job>>

\* Mutation: the loop over the consumers advances twice.
JoinedTwice ==
    /\ pc[Listener] = "await"
    /\ pc[next_join] = "done"
    /\ pc' = [pc EXCEPT ![Listener] = "join", ![next_join] = "off"]
    /\ joined' = joined \cup {next_join}
    /\ next_join' = next_join + 2
    /\ UNCHANGED <<shared, sockets, consumer, todo, waiting_for, history, job>>

Joined ==
    /\ pc[Listener] = "await"
    /\ pc[next_join] = "done"
    /\ pc' = [pc EXCEPT ![Listener] = "join", ![next_join] = "off"]
    /\ joined' = joined \cup {next_join}
    /\ next_join' = next_join + 1
    /\ UNCHANGED <<shared, sockets, consumer, todo, waiting_for, history, job>>

\* The end of run_imp.
Release ==
    /\ pc[Listener] = "join"
    /\ next_join \notin Consumer
    /\ internal' = {}
    /\ m_links' = [n \in Name |-> Absent]
    /\ Goto(Listener, "done")
    /\ UNCHANGED <<m_events, event_keys, wake_up, m_running, accepted, open, listening,
                   received, disconnects, consumer, joining, history, job>>
------------------------------------------------------------------------------
(* A consumer thread *)

EnterStage(c, k) ==
    \E j \in Stage \cup {EndStage} :
        /\ NextStage(c, k, j)
        /\ stage' = [stage EXCEPT ![c] = j]

\* Mutation: the thread ends without a last pass.
ConsumerTestNoLastPass(c) ==
    /\ pc[c] = "test"
    /\ Goto(c, IF m_running[c] THEN "wait" ELSE "done")
    /\ UNCHANGED <<shared, sockets, consumer, joining, history, job>>

\* while (m_running): wait, or the last pass.
ConsumerTest(c) ==
    /\ pc[c] = "test"
    /\ IF m_running[c]
       THEN Goto(c, "wait") /\ UNCHANGED <<stage, final>>
       ELSE /\ Goto(c, "drain")
            /\ final' = [final EXCEPT ![c] = TRUE]
            /\ EnterStage(c, 0)
    /\ UNCHANGED <<shared, sockets, current, joining, history, job>>

\* wait_for returns with wake_up set: reset it and consume.
WakeUp(c) ==
    /\ pc[c] = "wait"
    /\ wake_up[c]
    /\ wake_up' = [wake_up EXCEPT ![c] = FALSE]
    /\ Goto(c, "drain")
    /\ EnterStage(c, 0)
    /\ UNCHANGED <<m_events, event_keys, m_links, m_running, sockets, final, current,
                   joining, history, job>>

\* Mutation: a wait() without a time limit goes back to sleep.
TimeOutNever(c) == pc[c] = "wait" /\ ~ wake_up[c] /\ UNCHANGED vars

\* wait_for times out: back to the loop test without a pass.
TimeOut(c) ==
    /\ pc[c] = "wait"
    /\ ~ wake_up[c]
    /\ Goto(c, "test")
    /\ UNCHANGED <<shared, sockets, consumer, joining, history, job>>

\* Mutation: the queue is emptied by the pop.
\* pop() of process() returns an element: the callback is called with it.
Pop(c) ==
    LET q == StageQueue(stage[c]) IN
    /\ pc[c] = "drain"
    /\ stage[c] # EndStage
    /\ m_events[q] # <<>>
    /\ m_events' = [m_events EXCEPT ![q] = Tail(@)]
    /\ handled' = [handled EXCEPT ![q] = Append(@, Head(m_events[q]))]
    /\ current' = [current EXCEPT ![c] = [q |-> q, item |-> Head(m_events[q])]]
    /\ Touch(q)
    /\ Goto(c, "call")
    /\ UNCHANGED <<m_links, wake_up, m_running, sockets, stage, final, joining, lost, job>>

\* pop() returns false: the next queue of the pass.
NextQueue(c) ==
    LET q == StageQueue(stage[c]) IN
    /\ pc[c] = "drain"
    /\ stage[c] # EndStage
    /\ m_events[q] = <<>>
    /\ IF stage[c] \in Name THEN Touch(q) ELSE UNCHANGED event_keys
    /\ EnterStage(c, stage[c])
    /\ UNCHANGED <<m_events, m_links, wake_up, m_running, sockets, final, current, joining,
                   history, job, pc>>

\* Mutation: wake_up is reset after the pass.
EndPassResets(c) ==
    /\ pc[c] = "drain"
    /\ stage[c] = EndStage
    /\ wake_up' = [wake_up EXCEPT ![c] = FALSE]
    /\ Goto(c, IF final[c] THEN "done" ELSE "test")
    /\ UNCHANGED <<m_events, event_keys, m_links, m_running, sockets, consumer, joining,
                   history, job>>

EndPass(c) ==
    /\ pc[c] = "drain"
    /\ stage[c] = EndStage
    /\ Goto(c, IF final[c] THEN "done" ELSE "test")
    /\ UNCHANGED <<shared, sockets, consumer, joining, history, job>>

\* A callback may disconnect the connection it was called for, or one the
\* user attached.
CallbackDisconnect(c, cn) ==
    /\ pc[c] = "call"
    /\ disconnects < MaxDisconnects
    /\ cn \in External \cup ({current[c].item.cn} \ Server)
    /\ disconnects' = disconnects + 1
    /\ Disconnect(c, cn, "call")
    /\ UNCHANGED <<shared, accepted, listening, received, consumer, joining, history>>

\* slot_call returns; an exception of the callback is swallowed there.
CallbackReturn(c) ==
    /\ pc[c] = "call"
    /\ Goto(c, "drain")
    /\ UNCHANGED <<shared, sockets, consumer, joining, history, job>>
------------------------------------------------------------------------------
(* The user thread *)

UserDisconnect(cn) ==
    /\ pc[User] = "free"
    /\ disconnects < MaxDisconnects
    /\ disconnects' = disconnects + 1
    /\ cn \in External
    /\ Disconnect(User, cn, "free")
    /\ UNCHANGED <<shared, accepted, listening, received, consumer, joining, history>>

\* EventConsumer::run
RunConsumer(c) ==
    /\ pc[User] = "free"
    /\ ~ m_running[c]
    /\ pc[c] = "off"
    /\ m_running' = [m_running EXCEPT ![c] = TRUE]
    /\ final' = [final EXCEPT ![c] = FALSE]
    /\ Goto(c, "test")
    /\ UNCHANGED <<m_events, event_keys, m_links, wake_up, sockets, stage, current, joining,
                   history, job>>

\* EventListener::join and EventConsumer::join called by the user.
JoinThread(t) ==
    /\ pc[User] = "free"
    /\ m_running[t]
    /\ m_running' = [m_running EXCEPT ![t] = FALSE]
    /\ waiting_for' = t
    /\ Goto(User, "joining")
    /\ UNCHANGED <<m_events, event_keys, m_links, wake_up, sockets, consumer, todo,
                   next_join, joined, history, job>>

JoinReturn ==
    /\ pc[User] = "joining"
    /\ pc[waiting_for] = "done"
    /\ pc' = [pc EXCEPT ![User] = "free", ![waiting_for] = "off"]
    /\ UNCHANGED <<shared, sockets, consumer, joining, history, job>>
------------------------------------------------------------------------------
(* Undefined behaviour *)

\* The shutdown loop erases the element its iterator is on; the increment then
\* reads a freed node.
DanglingIterator == pc[Listener] = "close" /\ External = {} /\ job[Listener].ret = "close"

\* m_events is a std::map that the listener grows while consumers search it.
EventsRace ==
    /\ pc[Listener] = "check"
    /\ job[Listener].q \in Name \ event_keys
    /\ \E c \in Consumer : pc[c] = "drain" /\ stage[c] <= 2 * NNames

Crash ==
    /\ CrashOnUB
    /\ DanglingIterator \/ EventsRace
    /\ pc' = [t \in Thread |-> "crashed"]
    /\ UNCHANGED <<shared, sockets, consumer, joining, history, job>>
------------------------------------------------------------------------------
Init ==
    /\ m_events = [q \in Queue |-> <<>>]
    /\ event_keys = {}
    /\ m_links = LinkTable
    /\ wake_up = [c \in Consumer |-> FALSE]
    /\ m_running = [t \in Consumer \cup {Listener} |-> t = Listener]
    /\ accepted = {}
    /\ internal = {}
    /\ open = External
    /\ listening = Server
    /\ received = [cn \in Conn |-> 0]
    /\ pc = [t \in Thread |-> IF t = Listener THEN "test"
                              ELSE IF t = User THEN "free" ELSE "off"]
    /\ job = [t \in Thread |-> NoJob]
    /\ stage = [c \in Consumer |-> EndStage]
    /\ final = [c \in Consumer |-> FALSE]
    /\ current = [c \in Consumer |-> [q |-> NoJob.q, item |-> NoJob.item]]
    /\ todo = {}
    /\ next_join = 1
    /\ waiting_for = Listener
    /\ disconnects = 0
    /\ handled = [q \in Queue |-> <<>>]
    /\ lost = {}
    /\ joined = {}

\* What the listener does on its own, and what the network makes it do.
ListenerStep ==
    \/ LoopTest \/ EndBatch \/ ConnectReturn \/ EndRead \/ SafeDisconnect
    \/ CheckQueue(Listener) \/ PushQueue(Listener) \/ Notify
    \/ TellCheck(Listener) \/ TellPush(Listener)
    \/ \E cn \in Internal : CloseInternal(cn)
    \/ CloseDone \/ JoinNext \/ Joined \/ Release

Network ==
    \/ \E cn \in Internal : Accept(cn)
    \/ \E cn \in Conn : CloseConnection(cn)
    \/ \E cn \in Conn, n \in Name : PickEvent(cn, n)
    \/ \E s \in Server : CloseServer(s)

ConsumerStep(c) ==
    \/ ConsumerTest(c) \/ WakeUp(c) \/ TimeOut(c)
    \/ Pop(c) \/ NextQueue(c) \/ EndPass(c) \/ CallbackReturn(c)
    \/ TellCheck(c) \/ TellPush(c)

UserStep == JoinReturn \/ TellCheck(User) \/ TellPush(User)

\* What callbacks and the user choose to call.
Application ==
    \/ Refuse
    \/ \E c \in Consumer, cn \in Conn : CallbackDisconnect(c, cn)
    \/ \E cn \in External : UserDisconnect(cn)
    \/ \E c \in Consumer : RunConsumer(c)
    \/ \E t \in Consumer \cup {Listener} : JoinThread(t)

Next ==
    \/ ListenerStep
    \/ Network
    \/ \E c \in Consumer : ConsumerStep(c)
    \/ UserStep
    \/ Application
    \/ Crash

Spec == Init /\ [][Next]_vars

\* Every thread is scheduled, callbacks return, a wait times out; the network
\* and the application are free to do nothing.
FairSpec ==
    /\ Spec
    /\ WF_vars(ListenerStep)
    /\ \A c \in Consumer : WF_vars(ConsumerStep(c))
    /\ WF_vars(UserStep)
------------------------------------------------------------------------------
(* Type invariant *)

ListenerLabel == {"test", "batch", "connect", "read", "closing", "check", "push", "notify",
                  "tell_check", "tell_push", "close", "join", "await", "done", "off",
                  "crashed"}
ConsumerLabel == {"off", "test", "wait", "drain", "call", "tell_check", "tell_push", "done",
                  "crashed"}
UserLabel == {"free", "joining", "tell_check", "tell_push", "crashed"}
Label == ListenerLabel \cup ConsumerLabel \cup UserLabel
Job == [q : Queue, item : Item,
        ret : {"test", "batch", "read", "connect", "close", "call", "free"}]

\* The program points of thread t, and where its push returns to.
PointOK(t, l, ret) ==
    /\ t = Listener => /\ l \in ListenerLabel
                       /\ l \in {"closing", "check", "push", "notify"}
                              => ret \in {"read", "batch"}
                       /\ l \in {"tell_check", "tell_push"} => ret \in {"connect", "close"}
    /\ t \in Consumer => /\ l \in ConsumerLabel
                         /\ l \in {"tell_check", "tell_push"} => ret = "call"
    /\ t = User => /\ l \in UserLabel
                   /\ l \in {"tell_check", "tell_push"} => ret = "free"

ControlOK == /\ pc \in [Thread -> Label]
             /\ \A t \in Thread : PointOK(t, pc[t], job[t].ret)

DataOK ==
    /\ m_events \in [Queue -> Seq(Item)]
    /\ event_keys \subseteq Name
    /\ m_links \in [Name -> Consumer \cup {Null, Absent}]
    /\ wake_up \in [Consumer -> BOOLEAN]
    /\ m_running \in [Consumer \cup {Listener} -> BOOLEAN]
    /\ accepted \subseteq Internal
    /\ internal \subseteq accepted
    /\ open \subseteq Conn
    /\ listening \subseteq Server
    /\ received \in [Conn -> Nat]
    /\ job \in [Thread -> Job]
    /\ stage \in [Consumer -> Stage \cup {EndStage}]
    /\ final \in [Consumer -> BOOLEAN]
    /\ current \in [Consumer -> [q : Queue, item : Item]]
    /\ todo \subseteq Internal
    /\ next_join \in 1 .. NConsumers + 1
    /\ waiting_for \in Consumer \cup {Listener}
    /\ disconnects \in Nat
    /\ handled \in [Queue -> Seq(Item)]
    /\ lost \subseteq Queue \X Item
    /\ joined \subseteq Consumer

\* Every variable holds what its declaration in the code allows, and every
\* thread stands at one of its own program points.
TypeOK == DataOK /\ ControlOK
------------------------------------------------------------------------------
(* Safety *)

\* The consumer whose callback the links gave a queue to, Null for none.
Owner(q) == CASE q = Disconnected       -> OnDisconnect
              [] q = ServerDisconnected -> OnServerDisconnect
              [] OTHER -> IF LinkTable[q] = Absent THEN OnEvent ELSE LinkTable[q]

\* The stage at which its owner visits a queue.
OwnerStage(q) == IF q \in Name /\ LinkTable[q] # Absent THEN q ELSE q + NNames

InPass(c) == pc[c] \in {"drain", "call", "tell_check", "tell_push"}

StillToVisit(c, q) == InPass(c) /\ stage[c] <= OwnerStage(q)

Notifying(q) == pc[Listener] = "notify" /\ job[Listener].q = q

Awaited(q) ==
    Owner(q) # Null /\ m_events[q] # <<>> =>
        wake_up[Owner(q)] \/ Notifying(q) \/ StillToVisit(Owner(q), q)

\* The handshake on wake_up loses no notification: whenever a queue holds
\* something for a consumer, the flag of this consumer is set, or the listener
\* is between the push and the notify, or the pass in progress has still to
\* visit the queue. m_disconnected_queue is excepted: tell_disconnected pushes
\* there without a notify.
NoLostWakeup ==
    pc[Listener] # "crashed" => \A q \in Queue \ {Disconnected} : Awaited(q)

\* The links stay what run_init made them until the consumers are joined, and a
\* name without a link never gets one.
LinksOK ==
    /\ pc[Listener] \notin {"done", "off", "crashed"} => m_links = LinkTable
    /\ \A n \in Name : LinkTable[n] = Absent => m_links[n] = Absent

\* NoLostWakeup, strengthened to what every step preserves: the notification
\* reaches the owner because the links are intact, and the owner visits the
\* queue because its stage is served whatever became of the links.
DispatchInv == TypeOK /\ LinksOK /\ NoLostWakeup

\* Callbacks see the events of one name and one connection in the order the
\* listener picked them, each at most once, and the queue continues that order.
InOrder ==
    \A q \in Name :
        LET seen == handled[q] \o m_events[q] IN
        \A i, j \in DOMAIN seen :
            i < j /\ seen[i].cn = seen[j].cn => seen[i].seq < seen[j].seq

\* An event that was picked is somewhere: given to a callback, queued, dropped
\* by a full queue, or in the hands of the listener.
Located(cn, n) ==
    \/ \E q \in Name : \E s \in {handled[q], m_events[q]} :
           \E i \in DOMAIN s : s[i] = [cn |-> cn, seq |-> n]
    \/ \E q \in Name : <<q, [cn |-> cn, seq |-> n]>> \in lost
    \/ /\ pc[Listener] \in {"check", "push", "crashed"}
       /\ job[Listener].item = [cn |-> cn, seq |-> n]

NothingVanishes == \A cn \in Conn : \A n \in 1 .. received[cn] : Located(cn, n)

\* EventListener.hpp calls max_queue_size the upper bound on the size of a queue,
\* but the size test and the push are two critical sections. A queue that only the
\* listener fills still passes its limit by one at most, because the listener
\* tests "more than max_queue_size" and consumers only shrink the queue.
ListenerQueueLimit ==
    MaxQueueSize > 0 =>
        \A q \in Queue \ {Disconnected} : Len(m_events[q]) <= MaxQueueSize + 1

\* m_disconnected_queue is filled by every thread that disconnects: each of them
\* may have tested the size before the others pushed.
DisconnectedLimit ==
    MaxQueueSize > 0 =>
        Len(m_events[Disconnected]) <= MaxQueueSize + Cardinality(Thread)

\* As long as the listener runs, a callback is called by the consumer that
\* bound it, so that two threads never run the callbacks of one queue at a time.
OwnerHandles ==
    pc[Listener] \notin {"done", "off", "crashed"} =>
        \A c \in Consumer : pc[c] \in {"call", "tell_check", "tell_push"} =>
            Owner(current[c].q) = c

\* Consumer c leaves queue q empty for good. A callback of a consumer that is
\* joined later may still disconnect, and tell_disconnected pushes: only the last
\* consumer does so for m_disconnected_queue.
Empties(c, q) == Owner(q) = c /\ (q = Disconnected => c = NConsumers)

\* When EventListener::join is about to return, the queues of the consumers
\* that were running when the listener joined them are empty; the queue of
\* disconnections is, when its consumer is the last of m_consumers.
DrainedAtJoin ==
    pc[Listener] = "done" =>
        \A c \in joined : \A q \in Queue : Empties(c, q) => m_events[q] = <<>>

\* What is queued, handled, lost or being pushed for the disconnection of cn.
Announcements(cn) ==
    LET about(s) == {i \in DOMAIN s : s[i].cn = cn}
    IN  Cardinality(about(handled[Disconnected]))
        + Cardinality(about(m_events[Disconnected]))
        + Cardinality({l \in lost : l[1] = Disconnected /\ l[2].cn = cn})
        + Cardinality({t \in Thread :
              /\ pc[t] \in {"closing", "check", "push", "tell_check", "tell_push"}
              /\ job[t].q = Disconnected
              /\ job[t].item.cn = cn})

\* However a hang-up, a callback and the shutdown race to disconnect an accepted
\* connection, its disconnection is announced once: never twice, and without
\* fail once it is closed, when no external connection is attached.
AnnouncedOnce ==
    External = {} /\ pc[Listener] # "crashed" =>
        \A cn \in Internal : Announcements(cn) = IF cn \in accepted \ internal THEN 1 ELSE 0

\* A connection the user attached is never closed in silence; it may be
\* announced more than once.
ExternalAnnounced ==
    pc[Listener] # "crashed" =>
        \A cn \in External \ open : Announcements(cn) >= 1
------------------------------------------------------------------------------
(* The bus that the threads implement for the events with a name *)

\* The event that the listener holds is taken once it is queued or lost; a process
\* that ends meanwhile holds it for ever.
InHand(cn) ==
    /\ pc[Listener] \in {"check", "push", "crashed"}
    /\ job[Listener].q \in Name /\ job[Listener].ret # "close"
    /\ job[Listener].item.cn = cn

BusTaken   == [cn \in Conn |-> IF InHand(cn) THEN received[cn] - 1 ELSE received[cn]]
BusSent    == [q \in Name |-> handled[q] \o m_events[q]]
BusServed  == [q \in Name |-> Len(handled[q])]
BusLost    == {l \in lost : l[1] \in Name}
BusCalling == [c \in Consumer |->
                  IF pc[c] \in {"call", "tell_check", "tell_push"} /\ current[c].q \in Name
                  THEN current[c].q ELSE Null]
BusOpen    == pc[Listener] \notin {"done", "off", "crashed"}

Bus == INSTANCE EventBus WITH
           OwnerOf <- [q \in Name |-> Owner(q)], None <- Null, Limit <- MaxQueueSize,
           taken <- BusTaken, sent <- BusSent, served <- BusServed, lost <- BusLost,
           calling <- BusCalling, open <- BusOpen

\* The queues, locks and notifications between the listener and the callbacks of the
\* consumers are the bus of EventBus: the size test and the push are as good as one
\* step, and pops, callbacks, joins and the end come in no order that it forbids.
ImplementsBus == Bus!Spec

\* An event that was picked is queued or handled once, under one name, or was dropped
\* once, never two of these.
OneFate == Bus!OneFate
------------------------------------------------------------------------------
(* Liveness, under FairSpec *)

Waiting(q) == Owner(q) # Null /\ m_running[Owner(q)] /\ m_events[q] # <<>>

\* What is queued under a name that a running consumer handles is consumed,
\* unless the consumer is stopped first; a disconnection of a server too.
QueuesServed == \A q \in Queue \ {Disconnected} : Waiting(q) ~> ~ Waiting(q)

\* A call of join returns.
JoinReturns == pc[User] = "joining" ~> pc[User] = "free"
------------------------------------------------------------------------------
(* What the documentation says and the code does not do *)

\* EventListener::join: every disconnected event will be processed.
DisconnectedProcessedAtJoin ==
    pc[Listener] = "done" /\ OnDisconnect \in joined =>
        \A cn \in accepted : \E i \in DOMAIN handled[Disconnected] :
            handled[Disconnected][i].cn = cn

\* EventConsumer::run: once launched, the consumer reads the producer's queues.
DisconnectedServed == Waiting(Disconnected) ~> ~ Waiting(Disconnected)

\* join closes the internal connections and returns: the process survives it.
ShutdownSurvives == pc[Listener] # "crashed"
=============================================================================

------------------------------ MODULE Attachment ------------------------------
(***************************************************************************)
(* What the program ties together before and between runs: connections and *)
(* servers attached to a listener, consumers to their producer, callbacks  *)
(* to names; and the runs and joins of the threads that find it so.        *)
(*                                                                         *)
(* Any thread may make any call, and no lock holds over more than one read *)
(* or write of m_running: a call is its tests and then its writes, one     *)
(* step each, and the calls of several threads interleave.  Calls that are *)
(* refused (AlreadyListened, EventListenerRunning ...) change nothing and  *)
(* are left out, but for those that leave a noexcept function.  What the   *)
(* threads do with events is in EventDispatch.                             *)
(***************************************************************************)
EXTENDS Integers, FiniteSets

CONSTANTS
    User,        \* the threads of the program
    Listener,
    Consumer,
    Element,     \* connections and servers that may be attached
    Name,        \* names of events and the unnamed slots
    Special,     \* the unnamed slots: on_event, on_disconnect, on_server_disconnect
    MaxCalls     \* bound: the calls, but for joins

CONSTANTS Null, Absent   \* nullptr; no entry

ASSUME AttachmentAssumption ==
    /\ Special \subseteq Name /\ IsFiniteSet(Consumer)
    /\ Listener \cap Consumer = {} /\ User \cap Listener = {}
    /\ MaxCalls \in Nat
    /\ {Null, Absent} \cap (Listener \cup Consumer \cup Element) = {} /\ Null # Absent
    /\ Element \cap (Listener \cup Consumer) = {}

Threaded == Listener \cup Consumer
Object   == Threaded \cup Element
Actor    == User \cup Listener

VARIABLES
    alive,      \* the listeners and consumers that are not destroyed
    listened,   \* m_servers and m_connections of each listener
    parent,     \* m_listener of each element
    consumers,  \* m_consumers of each listener
    producer,   \* m_producer of each consumer
    slots,      \* m_slots and the unnamed slots: "absent", "empty" or "set"
    links,      \* m_links and the unnamed links
    running,    \* the objects with m_running
    thread,     \* m_thread: "none", "running", "leaving" or "ended"
    toJoin,     \* the consumers that the end of run_imp has still to join
    pc,         \* each thread's call: the next step, `of` which object and
                \* `with` which, and the objects it uses
    stopped,    \* has the process stopped, and why
    calls,      \* history: the calls, but for joins
    late,       \* history: names bound since the listener's run
    shared,     \* history: the objects that two calls used at once
    misused,    \* history: the objects whose join returned too early, or whose
                \* std::thread was assigned, joined or destroyed when it must not
    spurious    \* history: the listeners whose run threw EventCollision without one

ends    == <<listened, parent, consumers, producer>>
objects == <<alive, ends, slots>>
threads == <<running, thread, toJoin>>
ghosts  == <<calls, late, misused, spurious>>
vars    == <<objects, links, threads, pc, shared, stopped, ghosts>>

Idle == [at |-> "idle", of |-> Null, with |-> Null, uses |-> {}]
Ready(a) == stopped = "no" /\ pc[a] = Idle

\* A thread comes to objects, which other calls may be using.
Touch(a, xs) == shared' = shared \cup {x \in xs : \E b \in Actor \ {a} : x \in pc[b].uses}

\* A call goes on to its next step, with more objects, or ends.
Call(a, at, x, y, xs) == pc' = [pc EXCEPT ![a] = [at |-> at, of |-> x, with |-> y, uses |-> xs]]
Then(a, at, xs) == Call(a, at, pc[a].of, pc[a].with, pc[a].uses \cup xs)
Return(a) == pc' = [pc EXCEPT ![a] = Idle]

\* The next step of a call none of whose objects was destroyed.
Goes(a, at) == stopped = "no" /\ pc[a].at = at /\ pc[a].uses \cap Threaded \subseteq alive
Dangles == stopped' = "dangling"

Counted == calls < MaxCalls /\ calls' = calls + 1
------------------------------------------------------------------------------
\* __attach: nothing for an element of the list, AlreadyListened for one of
\* another listener, EventListenerRunning while m_running; then m_listener
Attach(u, l, e) ==
    /\ l \in alive \ running /\ e \notin listened[l] /\ parent[e] \in {Null, l}
    /\ Call(u, "adopt", l, e, {l, e}) /\ Touch(u, {l, e})
    /\ Counted
    /\ UNCHANGED <<objects, links, threads, stopped, late, misused, spurious>>

Adopt(u) ==
    /\ Goes(u, "adopt")
    /\ parent' = [parent EXCEPT ![pc[u].with] = pc[u].of]
    /\ Then(u, "list", {})
    /\ UNCHANGED <<alive, listened, consumers, producer, slots, links, threads, shared, stopped, ghosts>>

\* and the list.
List(u) ==
    /\ Goes(u, "list")
    /\ listened' = [listened EXCEPT ![pc[u].of] = @ \cup {pc[u].with}]
    /\ Return(u)
    /\ UNCHANGED <<alive, parent, consumers, producer, slots, links, threads, shared, stopped, ghosts>>

\* __detach, which throws WrongParentListener only for an element of the list.
Detach(u, l, e) ==
    /\ l \in alive \ running /\ e \in listened[l] /\ parent[e] = l
    /\ Call(u, "orphan", l, e, {l, e}) /\ Touch(u, {l, e})
    /\ Counted
    /\ UNCHANGED <<objects, links, threads, stopped, late, misused, spurious>>

\* Mutation: the element keeps m_listener.
OrphanKept(u) ==
    /\ Goes(u, "orphan")
    /\ Then(u, "erase", {})
    /\ UNCHANGED <<objects, links, threads, shared, stopped, ghosts>>

Orphan(u) ==
    /\ Goes(u, "orphan")
    /\ parent' = [parent EXCEPT ![pc[u].with] = Null]
    /\ Then(u, "erase", {})
    /\ UNCHANGED <<alive, listened, consumers, producer, slots, links, threads, shared, stopped, ghosts>>

Erase(u) ==
    /\ Goes(u, "erase")
    /\ listened' = [listened EXCEPT ![pc[u].of] = @ \ {pc[u].with}]
    /\ Return(u)
    /\ UNCHANGED <<alive, parent, consumers, producer, slots, links, threads, shared, stopped, ghosts>>

\* disconnect of an element tells its m_listener, destroyed or not.
Disconnect(e) ==
    /\ parent[e] \notin alive \cup {Null}
    /\ Dangles
    /\ UNCHANGED <<objects, links, threads, pc, shared, ghosts>>
------------------------------------------------------------------------------
\* set_producer, and remove_producer for Null, which is noexcept: its exception
\* for a running consumer ends the process.
SetProducer(u, c, l) ==
    /\ c \in alive /\ l \in alive \cup {Null}
    /\ IF c \in running
       THEN l = Null /\ stopped' = "noexcept" /\ UNCHANGED pc
       ELSE /\ l # Null \/ producer[c] # Null
            /\ Call(u, IF producer[c] = Null THEN "add" ELSE "remove", c, l, {c, l} \ {Null})
            /\ UNCHANGED stopped
    /\ Touch(u, {c, l} \ {Null})
    /\ Counted
    /\ UNCHANGED <<objects, links, threads, late, misused, spurious>>

\* A call of l's remove_consumer or add_consumer, which are noexcept: `to` is
\* what m_consumers becomes.  A step of its own: a thread that comes between
\* the test of m_running and the list finds l in use just as well.
Enlists(u, l, to, at) ==
    /\ IF l \notin alive THEN Dangles /\ UNCHANGED <<consumers, pc>>
       ELSE IF l \in running THEN stopped' = "noexcept" /\ UNCHANGED <<consumers, pc>>
       ELSE consumers' = [consumers EXCEPT ![l] = to] /\ Then(u, at, {l}) /\ UNCHANGED stopped
    /\ Touch(u, {l} \ {Null})
    /\ UNCHANGED <<alive, listened, parent, producer, slots, links, threads, ghosts>>

\* m_producer->remove_consumer, of an m_producer that may be null by now;
Remove(u) ==
    /\ Goes(u, "remove")
    /\ LET l == producer[pc[u].of] IN Enlists(u, l, consumers[l] \ {pc[u].of}, "unset")

\* m_producer is null;
Unset(u) ==
    /\ Goes(u, "unset")
    /\ producer' = [producer EXCEPT ![pc[u].of] = Null]
    /\ IF pc[u].with = Null THEN Return(u) ELSE Then(u, "add", {})
    /\ UNCHANGED <<alive, listened, parent, consumers, slots, links, threads, shared, stopped, ghosts>>

\* producer.add_consumer;
Add(u) ==
    /\ Goes(u, "add")
    /\ LET l == pc[u].with IN Enlists(u, l, consumers[l] \cup {pc[u].of}, "assign")

\* and m_producer is the producer.
Assign(u) ==
    /\ Goes(u, "assign")
    /\ producer' = [producer EXCEPT ![pc[u].of] = pc[u].with]
    /\ Return(u)
    /\ UNCHANGED <<alive, listened, parent, consumers, slots, links, threads, shared, stopped, ghosts>>

\* bind makes an entry for the name; set_function and reset fill and empty a
\* slot.  The program does not bind while the consumer runs.
Bind(u, c, n, slot) ==
    /\ c \in alive \ running /\ thread[c] = "none" /\ slots[c][n] # slot
    /\ slots' = [slots EXCEPT ![c][n] = slot]
    /\ late' = [l \in Listener |-> IF c \in consumers[l] THEN late[l] \cup {n} ELSE late[l]]
    /\ Touch(u, {c})
    /\ Counted
    /\ UNCHANGED <<alive, ends, links, threads, pc, stopped, misused, spurious>>
------------------------------------------------------------------------------
\* Mutation: the link of an unnamed slot goes like an entry of the map.
ClearedAbsent == [n \in Name |-> Absent]

\* clear_consumer_links.
Cleared == [n \in Name |-> IF n \in Special THEN Null ELSE Absent]

Owners(l, n) == {c \in consumers[l] : slots[c][n] = "set"}

\* Mutation: the last consumer has the link.
CollidesNever(l) == FALSE

\* link_consumer finds a link where a callback wants one.
Collides(l) ==
    \E n \in Name : \/ Cardinality(Owners(l, n)) > 1
                    \/ Owners(l, n) # {} /\ links[l][n] \in Consumer

\* m_links behind run_init: the mention of an empty slot leaves nullptr.
Linked(l) ==
    [n \in Name |->
        IF Owners(l, n) # {} THEN CHOOSE c \in Owners(l, n) : TRUE
        ELSE IF links[l][n] = Absent /\ \E c \in consumers[l] : slots[c][n] = "empty" THEN Null
        ELSE links[l][n]]

\* clean_slots: empty slots leave m_slots, the unnamed ones stay.
Cleaned(s) == [n \in Name |-> IF n \notin Special /\ s[n] = "empty" THEN "absent" ELSE s[n]]

\* run, of a listener or a consumer: the test of m_running,
Run(u, x) ==
    /\ x \in alive \ running
    /\ Call(u, "init", x, Null, {x}) /\ Touch(u, {x})
    /\ Counted
    /\ UNCHANGED <<objects, links, threads, stopped, late, misused, spurious>>

\* run_init, which throws EventCollision behind clear_consumer_links (a failure
\* of the poller changes nothing),
InitListener(u) ==
    LET l == pc[u].of IN
    /\ Goes(u, "init") /\ l \in Listener
    /\ Touch(u, consumers[l])
    /\ IF ~(consumers[l] \subseteq alive)
       THEN Dangles /\ UNCHANGED <<links, pc, late, spurious>>
       ELSE IF Collides(l)
       THEN /\ links' = [links EXCEPT ![l] = Cleared]
            /\ spurious' = IF \A n \in Name : Cardinality(Owners(l, n)) < 2
                           THEN spurious \cup {l} ELSE spurious
            /\ Return(u)
            /\ UNCHANGED <<stopped, late>>
       ELSE /\ links' = [links EXCEPT ![l] = Linked(l)]
            /\ late' = [late EXCEPT ![l] = {}]
            /\ Then(u, "set", consumers[l])
            /\ UNCHANGED <<stopped, spurious>>
    /\ UNCHANGED <<objects, threads, calls, misused>>

InitConsumer(u) ==
    /\ Goes(u, "init") /\ pc[u].of \in Consumer
    /\ slots' = [slots EXCEPT ![pc[u].of] = Cleaned(@)]
    /\ Then(u, "set", {})
    /\ UNCHANGED <<alive, ends, links, threads, shared, stopped, ghosts>>

\* m_running,
Set(u) ==
    /\ Goes(u, "set")
    /\ running' = running \cup {pc[u].of}
    /\ Then(u, "start", {})
    /\ UNCHANGED <<objects, links, thread, toJoin, shared, stopped, ghosts>>

\* and m_thread; a std::thread that was not joined cannot be assigned.
Start(u) ==
    LET x == pc[u].of IN
    /\ Goes(u, "start")
    /\ IF thread[x] = "none"
       THEN thread' = [thread EXCEPT ![x] = "running"] /\ UNCHANGED <<stopped, misused>>
       ELSE stopped' = "terminated" /\ misused' = misused \cup {x} /\ UNCHANGED thread
    /\ Return(u)
    /\ UNCHANGED <<objects, links, running, toJoin, shared, calls, late, spurious>>
------------------------------------------------------------------------------
\* join, of a program's thread or at the end of run_imp: the test of m_running,
Join(a, x) ==
    /\ IF x \in running THEN Call(a, "clear", x, Null, {x}) /\ UNCHANGED misused
       ELSE misused' = (IF thread[x] = "none" THEN misused ELSE misused \cup {x}) /\ UNCHANGED pc
    /\ Touch(a, {x})
    /\ UNCHANGED <<objects, links, running, thread, stopped, calls, late, spurious>>

\* Mutation: nobody waits for the thread.
JoinClearOnly(a) ==
    /\ Goes(a, "clear")
    /\ running' = running \ {pc[a].of}
    /\ Return(a)
    /\ UNCHANGED <<objects, links, thread, toJoin, shared, stopped, ghosts>>

\* then m_running is cleared and joinable() asked,
JoinClear(a) ==
    /\ Goes(a, "clear")
    /\ running' = running \ {pc[a].of}
    /\ IF thread[pc[a].of] = "none" THEN Return(a) ELSE Then(a, "wait", {})
    /\ UNCHANGED <<objects, links, thread, toJoin, shared, stopped, ghosts>>

\* and the thread waited for.  Of two threads that join one std::thread the
\* second returns too, or stops the process.
JoinWait(a) ==
    LET x == pc[a].of IN
    /\ Goes(a, "wait")
    /\ \/ /\ thread[x] = "ended"
          /\ thread' = [thread EXCEPT ![x] = "none"]
          /\ Return(a)
          /\ UNCHANGED <<stopped, misused>>
       \/ /\ thread[x] = "none" \/ \E b \in Actor \ {a} : pc[b].at = "wait" /\ pc[b].of = x
          /\ stopped' = "terminated" /\ misused' = misused \cup {x}
          /\ UNCHANGED <<thread, pc>>
    /\ UNCHANGED <<objects, links, running, toJoin, shared, calls, late, spurious>>

\* The destructors join first; then a std::thread that is joinable ends the
\* process.  A listener outlives its consumers.
Destroy(u, x) ==
    /\ x \in alive \ running
    /\ x \in Listener => \A c \in alive \cap Consumer : producer[c] # x
    /\ alive' = alive \ {x}
    /\ IF thread[x] = "none" THEN UNCHANGED <<stopped, misused>>
       ELSE stopped' = "terminated" /\ misused' = misused \cup {x}
    /\ Touch(u, {x})
    /\ Counted
    /\ UNCHANGED <<ends, slots, links, threads, pc, late, spurious>>

\* A call goes on in an object that another thread has destroyed.
Stray(a) ==
    /\ stopped = "no" /\ ~(pc[a].uses \cap Threaded \subseteq alive)
    /\ Dangles
    /\ UNCHANGED <<objects, links, threads, pc, shared, ghosts>>
------------------------------------------------------------------------------
\* The end of run_imp: the consumers are joined,
Leave(l) ==
    /\ stopped = "no" /\ thread[l] = "running" /\ l \notin running
    /\ thread' = [thread EXCEPT ![l] = "leaving"]
    /\ toJoin' = [toJoin EXCEPT ![l] = consumers[l]]
    /\ UNCHANGED <<objects, links, running, pc, shared, stopped, ghosts>>

JoinNext(l) ==
    /\ Ready(l) /\ thread[l] = "leaving"
    /\ \E c \in toJoin[l] :
         /\ toJoin' = [toJoin EXCEPT ![l] = @ \ {c}]
         /\ IF c \in alive THEN Join(l, c)
            ELSE Dangles /\ UNCHANGED <<objects, links, running, thread, pc, shared, ghosts>>

\* and the links cleared.
Finish(l) ==
    /\ Ready(l) /\ thread[l] = "leaving" /\ toJoin[l] = {}
    /\ links' = [links EXCEPT ![l] = Cleared]
    /\ thread' = [thread EXCEPT ![l] = "ended"]
    /\ UNCHANGED <<objects, running, toJoin, pc, shared, stopped, ghosts>>

\* A pass of consume_events goes through m_producer as soon as it has a
\* callback; behind the last one the thread ends.
Consume(c) ==
    /\ stopped = "no" /\ thread[c] = "running"
    /\ IF producer[c] = Null /\ \E n \in Name : slots[c][n] = "set"
       THEN Dangles /\ UNCHANGED thread
       ELSE c \notin running /\ thread' = [thread EXCEPT ![c] = "ended"] /\ UNCHANGED stopped
    /\ UNCHANGED <<objects, links, running, toJoin, pc, shared, ghosts>>
------------------------------------------------------------------------------
\* The constructor of a consumer may have a producer.
Init ==
    /\ alive = Threaded
    /\ listened = [l \in Listener |-> {}] /\ parent = [e \in Element |-> Null]
    /\ producer \in [Consumer -> Listener \cup {Null}]
    /\ consumers = [l \in Listener |-> {c \in Consumer : producer[c] = l}]
    /\ slots = [c \in Consumer |-> [n \in Name |-> IF n \in Special THEN "empty" ELSE "absent"]]
    /\ links = [l \in Listener |-> Cleared]
    /\ running = {} /\ thread = [x \in Threaded |-> "none"]
    /\ toJoin = [l \in Listener |-> {}] /\ pc = [a \in Actor |-> Idle]
    /\ stopped = "no"
    /\ calls = 0
    /\ late = [l \in Listener |-> {}] /\ shared = {} /\ misused = {} /\ spurious = {}

\* A thread of the program begins a call,
Begin(u) ==
    /\ Ready(u)
    /\ \/ \E l \in Listener, e \in Element : Attach(u, l, e) \/ Detach(u, l, e)
       \/ \E e \in Element : Disconnect(e)
       \/ \E c \in Consumer, l \in Listener \cup {Null} : SetProducer(u, c, l)
       \/ \E c \in Consumer, n \in Name, slot \in {"empty", "set"} : Bind(u, c, n, slot)
       \/ \E x \in alive : Run(u, x) \/ Destroy(u, x)
       \/ \E x \in alive : Join(u, x) /\ UNCHANGED toJoin

\* or takes the next step of one.
Continue(u) ==
    \/ Adopt(u) \/ List(u) \/ Orphan(u) \/ Erase(u)
    \/ Remove(u) \/ Unset(u) \/ Add(u) \/ Assign(u)
    \/ InitListener(u) \/ InitConsumer(u) \/ Set(u) \/ Start(u)

Next ==
    \/ \E u \in User : Begin(u) \/ Continue(u)
    \/ \E a \in Actor : JoinClear(a) \/ JoinWait(a) \/ Stray(a)
    \/ \E l \in Listener : Leave(l) \/ JoinNext(l) \/ Finish(l)
    \/ \E c \in Consumer : Consume(c)

Spec == Init /\ [][Next]_vars
------------------------------------------------------------------------------
ObjectsOK ==
    /\ alive \subseteq Threaded
    /\ listened \in [Listener -> SUBSET Element]
    /\ parent \in [Element -> Listener \cup {Null}]
    /\ consumers \in [Listener -> SUBSET Consumer]
    /\ producer \in [Consumer -> Listener \cup {Null}]
    /\ slots \in [Consumer -> [Name -> {"absent", "empty", "set"}]]

LinksOK ==
    /\ links \in [Listener -> [Name -> Consumer \cup {Null, Absent}]]
    /\ \A l \in Listener, n \in Special : links[l][n] # Absent

ThreadsOK ==
    /\ running \subseteq Threaded
    /\ thread \in [Threaded -> {"none", "running", "leaving", "ended"}]
    /\ toJoin \in [Listener -> SUBSET Consumer]

\* Each call uses the objects its next step is about.
ElementPoints == {"adopt", "list", "orphan", "erase"}
ThreadPoints  == {"init", "set", "start", "clear", "wait"}

Calls ==
    {Idle} \cup
    [at : ElementPoints, of : Listener, with : Element, uses : SUBSET Object] \cup
    [at : {"remove", "unset"}, of : Consumer, with : Listener \cup {Null}, uses : SUBSET Threaded] \cup
    [at : {"add", "assign"}, of : Consumer, with : Listener, uses : SUBSET Threaded] \cup
    [at : ThreadPoints, of : Threaded, with : {Null}, uses : SUBSET Threaded]

CallsOK ==
    /\ pc \in [Actor -> Calls]
    /\ \A a \in Actor : {pc[a].of, pc[a].with} \ {Null} \subseteq pc[a].uses

HistoryOK ==
    /\ stopped \in {"no", "noexcept", "terminated", "dangling"}
    /\ calls \in 0 .. MaxCalls
    /\ late \in [Listener -> SUBSET Name]
    /\ shared \subseteq Object /\ misused \subseteq Threaded /\ spurious \subseteq Listener

\* Types of the variables, the objects of each call in progress among them; a
\* link of an unnamed slot is a pointer, never an entry that may be missing.
AttachmentTypeOK == ObjectsOK /\ LinksOK /\ ThreadsOK /\ CallsOK /\ HistoryOK

AtRest(x) == \A a \in Actor : x \notin pc[a].uses

\* Both ends of every tie agree, whoever else attaches, moves, runs and
\* destroys, for the objects that no two calls used at once and none is using
\* now: m_listener names the one listener whose list has the element,
\* m_producer the one whose m_consumers has the consumer.
ListsAgree ==
    \A l \in Listener \ shared :
        /\ \A e \in Element \ shared : AtRest(e) => (e \in listened[l] <=> parent[e] = l)
        /\ \A c \in Consumer \ shared : AtRest(c) => (c \in consumers[l] <=> producer[c] = l)

\* For a listener that no two calls used at once, nor its consumers: while it
\* runs, a name has at most one callback among its consumers, and the link
\* leads to it, but for names bound since; a name that only has an empty slot
\* keeps a null link, which hides it from on_event.  Between the runs no link is
\* left, so that the next one meets a collision only where two consumers bind
\* one name.
OneOwner ==
    \A l \in Listener \ shared :
        /\ thread[l] = "none" /\ AtRest(l) => links[l] = Cleared
        /\ l \in running /\ thread[l] = "running" /\ consumers[l] \cap shared = {} =>
             \A n \in Name \ late[l] :
                Owners(l, n) = IF links[l][n] \in Consumer THEN {links[l][n]} ELSE {}
        /\ l \notin spurious

\* run, join and the destructors belong together: only where two calls used
\* one object at once does a join of it return while its thread is still
\* there, or is its std::thread assigned, joined or destroyed when it must not.
\* The process stops otherwise only by exceptions through noexcept and by what
\* was destroyed while a listener has it, or a producer that is missing.
EndsExplained ==
    /\ misused \subseteq shared
    /\ stopped = "terminated" => misused # {}
    /\ stopped = "dangling" =>
         \/ shared # {}
         \/ \E l \in Listener : ~(consumers[l] \subseteq alive)
         \/ \E e \in Element : parent[e] \in Listener \ alive
         \/ \E c \in Consumer : thread[c] = "running" /\ producer[c] = Null
    /\ stopped = "noexcept" => running # {}
=============================================================================

# A TLA+ model of SedNL

SedNL is a C++11 library that exchanges named events over TCP. A program opens
servers and clients, attaches them to an `EventListener`, links
`EventConsumer`s to the listener and gives callbacks to the consumers. This
directory holds TLA+ modules that model the library, TLC configurations that
check them on small instances and TLAPS proofs that hold for every instance.
`PROJECT.json` maps every definition to the lines of the source it models.

## The system

| Component | State | Operations | Interacts with |
|---|---|---|---|
| `EventListener` | `m_running`, `m_servers`, `m_connections` (attached), `m_internal_connections` (accepted), `m_events` (a queue for each name), the two queues of disconnections, `m_links` | `attach`, `detach`, `run`, `join`; its thread `run_imp`: poll, accept, read, close | reads sockets, fills the queues, notifies consumers, joins them; is called back by `disconnect()` from any thread |
| `EventConsumer` | `m_running`, `m_slots` and the catch-all slots, a `ConsumerDescriptor` (mutex, condition variable, `wake_up`) | `bind`, `run`, `join`; its thread `run_imp`: wait, `consume_events` | drains the listener's queues, calls callbacks, which may call `disconnect` and `send` |
| `SafeQueue`, `SafeType` | a queue or a value and a mutex | `size`, `push`, `pop` | one critical section for each call |
| `Connection` | `m_fd`, `m_connected`, `m_mutex`, `m_buffer`, user data | `disconnect`, `safe_disconnect`, `send` | `disconnect` calls `tell_disconnected` of the listener with the mutex held |
| `RingBuf` | `m_dt`, `m_start`, `m_end` | `put`, `pick_event`, `reset` | filled and emptied by the listener's `read_connection` |
| `Event`, `Packet`, `Serializer` | bytes | pack, validity, reading and writing typed items | the contents of frames |
| `TCPServer`, `TCPClient` | descriptor, `m_connected`, mutex | `connect`, `disconnect` | look-ups of `retrieve_addresses`; descriptors the poller watches |
| `Poller` (epoll, select, WSAPoll) | watched descriptors, the batch being read | `add_fd`, `remove_fd`, `wait_for_events`, `next_event` | drives the listener's loop |

What is hard here: the listener, each consumer and the user's thread run at
once; the state they share (queues, `wake_up`, `m_links`, the two maps, the
connections) has a mutex for each piece and none for steps that need two pieces;
disconnections reach the listener from everywhere; shutdown runs against all of
it. On the byte level, events are read from a ring whose positions go round.

Descriptors are numbers that the kernel gives again, and the library goes by them
in the poller, in its maps and in each object; the objects point at each other
and may be destroyed or moved by any thread.

What makes each part correct: the listener loses no event and keeps their order;
a notification is never lost; a consumer serves its own queues only, all of
them, and drains them before `join` ends; a disconnection is announced, once; a
ring buffer is a first-in first-out queue of bytes that keeps frame boundaries; a
descriptor is closed once, by who opened it; a frame goes to the wire whole; two
objects that are tied agree that they are.
The hazards behind these properties are listed in `PROJECT.json`, at their lines.

## Modules

| Module | Models |
|---|---|
| `EventDispatch` | the threads between socket and callback: `EventListener`, `EventConsumer`, `SafeQueue`, `Connection::disconnect` |
| `EventBus` | the abstract specification of a listener and its consumers: a bus for events with a name, which `EventDispatch` refines |
| `EventDispatchProofs` | theorems about `EventDispatch`: types, wake-ups, limits, owners, order, no event lost |
| `EventDispatchEndProofs` | extends it: what `join` drains, the queue of disconnections, announcements, the bus |
| `Attachment` | what the program ties together: `attach`, `detach`, `set_producer`, `bind`, `run_init`, and the run, join and destruction of the objects, the calls of several threads step by step |
| `AttachmentProofs` | theorems about `Attachment` |
| `Poller` | the kernel's descriptors and the three back ends of the poller |
| `Lifecycle` | extends `Poller` with the listener's thread by descriptor: accept, read, close, shutdown, next to a thread that disconnects |
| `LifecycleProofs` | theorems about `Lifecycle` |
| `Connect` | `TCPClient::connect`, `TCPServer::connect`, `retrieve_addresses` and `disconnect` on one object |
| `ConnectProofs` | theorems about `Connect` |
| `Connection` | `Connection::send`, `disconnect` and the user data, for several threads |
| `ConnectionProofs` | theorems about `Connection` |
| `ByteQueue` | the abstract specification of `RingBuf`: a bounded queue of bytes |
| `RingBuf` | `RingBuf` with its cells, and its refinement of `ByteQueue` |
| `EventStream` | extends `RingBuf` with the peer, the wire and the reading loop of `read_connection` |
| `EventStreamProofs` | theorems about `RingBuf` and `EventStream` |
| `PacketFormat` | the bytes of a packet: tokens and byte orders, what `<<`, `is_valid`, `>>` and the output do with them, and the reference |
| `Packet` | extends it with one packet on its way: written, sent, validated, read, printed |
| `PacketProofs` | theorems about `PacketFormat` and `Packet` |
| `MC...` | constants for TLC |

The listener appears four times, each time with another of its concerns:
`EventDispatch` has its queues and notifications, `Lifecycle` its descriptors,
`EventStream` the bytes it reads, `Attachment` its lists and its thread. What one
of them takes as given, another shows: `EventDispatch` starts with links that have
one owner (`OneOwner`), and `read_connection` gets whole frames in order if
`send` writes them so (`FramesWhole`).

### EventDispatch

Thread 0 is the listener, 1..`NConsumers` the consumers in the order of
`m_consumers`, and one more is the thread of the user. `pc` says where each
stands; one label is one critical section or one piece of code that no other
thread can watch half-way. The variables `m_events`, `m_links`, `wake_up` and
`m_running` have the names of the code; `internal` is `m_internal_connections`,
`open` the connections with `m_connected`. The three kinds of queue are one
function over queue numbers. `job` is what a thread is about to push and where it
goes on afterwards, which stands for the locals of `read_connection`,
`close_connection` and `tell_disconnected`.

* `CheckQueue`, `PushQueue` and `Notify` are the three critical sections of
  pushing an event: the size, the push and the descriptor's mutex. `TellCheck`
  and `TellPush` are those of `tell_disconnected(Connection *)`, which has no
  third. They run in whatever thread called `disconnect()`, with the mutex of the
  connection held (`Locked`).
* `Accept`, `PickEvent`, `CloseConnection`, `CloseServer` are what the poller and
  the socket make the listener do, chosen freely. A batch and a timeout end in
  `EndBatch`. `CloseInternal`, `JoinNext`, `Joined`, `Release` are the end of
  `run_imp`.
* `consume_events` is a sequence of stages: the names the consumer bound, the
  names left to `on_event`, then the two queues of disconnections. `Pop` and
  `NextQueue` move along it.
* `Disconnect` is `Connection::disconnect` wherever it is called: by the
  callback of a new connection (`Refuse`), by a callback of a consumer, by the
  user or by the shutdown.
* Undefined behaviour is a choice: the code runs on as written or, when
  `CrashOnUB` holds, the process stops (`Crash`). Two cases are modelled: the
  shutdown loop whose element is erased under it (`DanglingIterator`) and the
  map `m_events` that grows while it is walked (`EventsRace`).

What all of it is for is `EventBus`. There, an event is published under a name or
dropped in one step, with the test of the limit (`Publish`, `Drop`); the owner of the
name calls back for the oldest one (`Call`, `Return`), a consumer is joined when
nothing is left for it (`Join`), and the bus closes after the joins or with the
process (`Close`). It has no threads, locks, passes, flags or notifications. `Bus` is
the mapping: what was published under a name is what was handled and what is still
queued; what was taken from a connection is what was picked, but for the event in
the listener's hands; and a callback lasts from the pop to its return, with whatever
`disconnect` the callback calls. Disconnections are not on the bus: any thread
queues them, and they have properties of their own.

`EventDispatch` assumes one thread that runs and joins the objects and no second
run of the listener (`Attachment` has several and many); callbacks disconnect the connection they were
called for or one that is attached; a lock or an allocation never fails. Searching
`m_internal_connections` and erasing from it is one step here and two in
`Lifecycle`. Descriptors and partial reads belong to other modules.

### Attachment

Nothing in `attach`, `detach`, `set_producer`, `run` and `join` holds a lock over
more than one access, so a call is a sequence of steps and any thread may come
between two of them. `pc` says for each thread (those of `User`, and those of
the listeners, which join at their end) which step of which call comes next, and
which objects the call uses.

| Call | Steps |
|---|---|
| `attach` | the tests (`Attach`), `m_listener` (`Adopt`), the list (`List`) |
| `detach` | the tests (`Detach`), `m_listener` (`Orphan`), the list (`Erase`) |
| `set_producer`, `remove_producer` | the tests (`SetProducer`), `remove_consumer` of the old producer (`Remove`), `m_producer` null (`Unset`), `add_consumer` of the new one (`Add`), `m_producer` (`Assign`) |
| `run` | the test of `m_running` (`Run`), `run_init` (`InitListener` with `link_consumer` and `EventCollision`, or `InitConsumer` with `clean_slots`), `m_running` (`Set`), `m_thread` (`Start`) |
| `join` | the test of `m_running` (`Join`), its reset and `joinable()` (`JoinClear`), the wait (`JoinWait`) |
| `bind`, `on_event` ..., the destructors, `disconnect` of an element | one step (`Bind`, `Destroy`, `Disconnect`) |

The end of `run_imp` (`Leave`, `JoinNext`, `Finish`) joins the consumers with the
same steps as a program's thread, and a consumer's thread goes through its producer
(`Consume`). `Stray` is a call that goes on in an object another thread has
destroyed. `links` is `m_links` and the unnamed links, where `Absent` is no entry,
`Null` the pointer that `m_links[name]` leaves behind. What ends the process is
`stopped`: a `std::thread` assigned, joined or destroyed against its rules, an exception
through `noexcept`, or a pointer to an object that is gone.

The library can only be used safely when the calls on one object are made one after
the other, which its documentation does not say. The model does not assume it: it
remembers in `shared` the objects that two calls used at once, a listener's join of
its consumers included. Under `shared` the states contain what the code does then: two `set_producer` of one consumer
leave it in the lists of two listeners, two `run` of one listener throw
`EventCollision` for the links of the first and clear them, a `join` between
`m_running` and `m_thread` returns without a thread to wait for, and a destructor
then meets a joinable `std::thread`. `ListsAgree`, `OneOwner` and `EndsExplained` make
their claims of the objects that are not shared, while calls on all the others,
which may be their listeners, consumers and elements, go on in any order; for the
shared ones they say nothing.

`run_init`, and each `add_consumer` and `remove_consumer`, are one step: a thread
that comes between their accesses uses the same object, which is shared then. What
overlapping calls do to the inside of a `std::vector` or `std::map` is not modelled.
The calls that throw an exception and change nothing are left out.

### Poller and Lifecycle

`table` is the descriptor table of the process: each number stands for a socket,
for a descriptor of the application (`App`) or is free, and `accept` returns the
lowest free one. `watched` and `batch` are the poller's. `Report` is what a back
end says of a socket: epoll and WSAPoll report a hang-up as `is_close`, select
reports it as readable; epoll reports news once (`edge`), up to `MaxEvents` of
them. Back ends differ in what closing does: epoll forgets closed descriptors,
select fails for them and then leaves every descriptor set.

The application opens and closes a descriptor of its own (`AppOpens`, `AppCloses`),
which may be a file or a socket: a client that is not attached, or a connection of
another listener. When it gets a number that the poller still waits for, the back
ends report for it whatever they would report for a socket with a state of its own
(`Answers`), and `recv` on it may return data, return that there is none, or fail:
`ReceiveMessage` and `ReceiveNothing` choose. The data goes to the connection that
`get_connection` found, which is how a dead connection is fed, and through a null
pointer when it found none (`readNull`).

The listener takes a batch (`TakeBatch`), then one event after the other
(`NextEvent`) through `accept_connections` (`Accept` to `Unwind`),
`read_connection` (`GetConnection`, `ReceiveMessage`, `ReceiveNothing`),
`close_connection` (`FindConnection`, `SafeDisconnect`) or `close_server`; behind
`LeaveLoop` come the shutdown and the destructor of the server. Each step ends
where another thread can come between. That other thread is `Disconnect` and
`CloseTarget`, around the call of `tell_disconnected`, with the mutex of the
connection held (`locked`), and `DisconnectServer`. Failures of the system are
choices (`Fails`). `Lifecycle` only counts that a disconnection was told
(`Tells`, `Told`), which `EventDispatch` then follows to the callback.

There is one server, and one descriptor of the application at a time. Attached
clients do not connect again. After a failed `emplace`, WSAPoll may have a number in
two slots; here it has it once.

### Connect and Connection

`Connect` is one `TCPClient` or `TCPServer` (`kind`) that two threads connect and
disconnect. `Lookup` is one round of the loop in `retrieve_addresses`, with the two
keepers that own the returned lists; `frees` counts how often each list was freed.
`Socket`, `Connecting`, `Select`, `NextAddress` are the loop over the addresses,
`Bind` and `Setup` the server's way. `connect` ends with two assignments without
the mutex, which are two steps (`PublishConnected`, `StoreFd`), and
`disconnect` is four, under the mutex.

`Connection` has the loop of `send`: `SendSome`, `SendFails`, `SendNothing` are what
`::send` may return, and counts are numbers modulo `M`, which is 2^64 in the code
and a small number for TLC. The user data is a tag and a union.

### RingBuf and EventStream

`RingBuf` has the cells, `m_start` and `m_end`. `Put` writes a whole string, or
fails. `PickEvent` is every way through `pick_event`: too few bytes
(`Incomplete`), a name without an end, an invalid packet, a success
(`Complete`). The code rounds the position of the first byte of the name but
neither the positions after it nor that of the second byte of the length: such a
read leaves the array, and the model takes any byte of `Garbage` for it. Valid
packets are a constant.

`EventStream` composes the buffer with its two neighbours. `Send` appends a frame
to the wire, `Recv` takes a chunk of any size up to `Chunk` and puts it (and drops
it when `put` refuses, since the result is ignored), `Pick` is the loop on
`pick_event`. `Frames` are what `Event::pack` builds: a 16-bit length, a name, a
zero, a packet (`Pack`). The reference is `Decode`, the event a frame stands for.
What was sent is kept as one string of bytes (`sent`) and the positions at which its
frames end (`ends`), so that a frame is a part of a string and nothing has to be
folded.

### Packet

A packet is a sequence of typed items in `m_data`. The state is one packet on its
way: the program writes items into it (`Write`) and sends it, or the packet of a
peer is there instead (`Arrive`: any short string of bytes); `Validate` is the
test of `pick_event`; then a `PacketReader` reads (`Read`). An item is a sequence
of tokens, where a token is a number, a string, an array or the header of an
object, and an object is its header followed by its fields. `write_as_object`
writes straight into the packet, so what was written before a field throws
remains (`spoilt` remembers that it did); `read_as_object` reads with a copy of the
reader and keeps it only if nothing was thrown.

The operators of `PacketFormat` are about a host, the bytes of a packet and a position
in them. `Ends` is where `valid_next_item` leads (`Behind` for the type it finds,
`OneMore` for one item behind the others) and `Scan` the loop of `is_valid` around it.
They are sets of ends, since the type of a field of an object is taken at
`m_data[i]` before `i` is compared with anything: it may come from behind the
packet, and is any byte of `Garbage` then. The reference is `WellFormed`, which knows
neither that recursion nor a host: the items are read in prefix notation, where each
token pays one of the items that are owed and the header of an object owes its fields,
and at the end of the packet nothing may be owed (`Left` for bytes, `LeftOf` for
tokens).

Numbers are their bytes, most significant first, and each of the two hosts has them
in memory in its own order (`Memory`): `Push` and `FrontOf` are `__push_8` to
`__push_64` and `__front_8` to `__front_64` with `htons`, `htonl` and the swap of the
halves of 64 bits. `Encode` is what `operator<<` appends for one token, `TokenAt` what
`operator>>` takes at a position. `Shown` and `ShownAll` are how far `output_one` reads
when a packet is printed; the text it prints is left out. `ExceptionByType` is the
exception a reader gets, which names the type that was found, not the one that was
wanted.

## Runs

| Run | Shows | Bounds |
|---|---|---|
| `dispatch` | the threads implement the bus; types, order, one fate for every event, lost wake-ups, the right consumer, drained at join, one announcement | two consumers, one name, one accepted connection with 3 events, a server whose end has no callback, limit 1, two `disconnect`s, undefined behaviour may stop the process |
| `dispatch_clients` | announcements of attached clients, the limit of the queue of disconnections | three interchangeable clients, two `disconnect`s |
| `dispatch_live` | events are consumed, joins return | two consumers, one accepted connection, one server |
| `attachment` | both ends of every tie agree, one owner for a name, why the process ends | two threads, two listeners, two consumers that may have a producer from the start, one element, one name and `on_event`; three calls besides the joins, each with all its steps |
| `lifecycle` | every descriptor is closed once, nothing that the poller should report is left, what another thread can disturb | the three back ends, three descriptors, two peers, a client attached or not, a file or socket of the application's, one message for each connection, one failing call, one `disconnect` |
| `connect` | which descriptors and lists a connect loses, that a disconnect closes its own | two threads with two calls each, two addresses for each look-up, three descriptors |
| `connection` | frames do not mix, the law of the count in `send`, user data | two threads, frames of two and three bytes, three sends, two failures, M = 12 |
| `ring_queue` | the buffer implements the queue of bytes, call by call | four bytes, two byte values, any initial contents, every string of up to five bytes, longer than the buffer |
| `stream` | frame boundaries, intact events, no chunk refused, no frame left | eleven bytes, chunks up to 6, frames of 3, 4 and 6 bytes, six frames |
| `packet` | `is_valid` accepts exactly the whole items, what is written can be read back in order on a host of the other byte order, failing writes and reads do no harm, reader and output stay in the packet | writes out of thirteen items as long as there are fewer than three tokens, peers' packets of up to five bytes over six values, arrays up to 2 |
| `stream_wrap`, `server_disconnect` | each refutes one statement of the documentation; see below | the smallest instance that shows it |

The bounds are chosen at the edge of the interesting case. With a limit of one, a
queue fills with the third event; two consumers are enough for one to be joined
while the other still runs its callbacks; three clients with two calls of
`disconnect` let every thread be between the size test and the push with the
queue already past its limit, and the bound of `DisconnectedLimit` is reached.
In `attachment`, two threads can run, join or move one object at once, step between
step; with the ties of the constructors, three calls are enough to move a consumer
and to run it and its listener, or to bind one name twice and run. In
`lifecycle`, three descriptors are fewer than the sockets that want one, so that a
number is given again in the middle of a batch, `accept` runs out of numbers, and
`FdSetSize` and `MaxEvents` are both reached. In `connect`, three descriptors let
two connects hold one each next to the one of the object. In `connection`, M is
twice the longest frame and the failures, and the count goes below zero and round. In
`stream` the longest frame and a chunk just fit (6 + 6 = 11 + 1), a chunk can end
two frames at once, and six frames go round the twelve cells up to three times. In
`packet`, five bytes hold an object in an object with a field, an object with a
string and an array that announces more than there is; the six values are the
types of the short items and the small lengths. `MaxReceived`, `MaxDisconnects`,
`MaxMessages`, `MaxFailures`, `MaxCalls`, `MaxAddresses`,
`MaxSends`, `MaxPut`, `MaxFrames`, `MaxItems` and `MaxSize` are bounds of the model
only; `MaxQueueSize`, `Size`, `Chunk`, `MaxArray`, `FdSetSize`, `MaxEvents` and `M`
are parameters of the code (0 or more, 4095, 512, 65535, 1024, the back end's
number and 2^64).

Only `dispatch_clients`, `dispatch_live` and `ring_queue` check for deadlock. In
the others the system may really stop: a process that stopped takes no step, and
neither does a peer that has sent its frames, a packet that was dropped, a program
that has made its calls, or a thread that waits for a mutex it holds.

Fairness, in `FairSpec`: weak fairness of what the listener does on its own, of
each consumer and of the user's pending call. The threads are scheduled by the
operating system and the waits of the code have time-outs (100 ms for the poller,
200 ms for a consumer), so a thread that can move will; callbacks are assumed to
return. The network and the application have no fairness: nothing has to arrive,
and nobody has to call anything.

## What the code does not do

Two runs refute statements of the documentation:

* `stream_wrap`: an event that passes the last cell of the buffer is read from
  behind the array. With 4095 bytes this comes once in a turn of the buffer.
* `server_disconnect`: `TCPServer::disconnect` of an attached server locks the
  server's mutex and then, in `tell_disconnected`, waits for it.

The modules state more of what the documentation says and the code does not do.
To see the counterexample, put the name under `INVARIANT` (or `PROPERTY`) of the
run's configuration:

| Definition | Module, run | What happens |
|---|---|---|
| `ShutdownSurvives` | `EventDispatch`, `dispatch` | the shutdown loop erases the element it stands on |
| `DisconnectedServed` | `EventDispatch`, `dispatch_live` | a disconnection by `Connection::disconnect` is queued and nobody is notified |
| `DisconnectedProcessedAtJoin` | `EventDispatch`, `dispatch_clients` with an accepted connection | with an attached client, `tell_disconnected` does not look among the accepted connections, so their end is not announced |
| `NoneLeftBehind` | `EventStream`, `stream` with `Frames <- AnyFrames` | an invalid packet is "dropped" in the log only and blocks the connection |
| `AddressesOwned` | `Connect`, `connect` | a list of addresses is freed twice, and used between the two |
| `FailureThrows` | `Connection`, `connection` | a send on a closed connection returns, after 2^64 - size turns, as if it had sent |
| `MessagesNotLost` | `Lifecycle`, `lifecycle` | what arrives with a hang-up that the poller reports is discarded unread, with epoll and WSAPoll |
| `PollerReleased` | `Lifecycle`, `lifecycle` | `m_poller.release()` gives the poller up without deleting it |

And some that a module shows in passing. Naming an event with `bind` and leaving
its slot empty hides the event from `on_event`, if the listener runs first:
`m_links[name]` leaves a null entry that `consume_events` takes for a link. `bind`
after the listener's run is not searched for collisions (`late`). A consumer that
is destroyed stays in `m_consumers` of its producer, which joins it later, and
`remove_producer` of a running consumer throws out of a `noexcept` function (both
are ends of the process that `EndsExplained` names). `detach` throws
`WrongParentListener` only for an element that is in its list, which has no
other parent unless two calls use it at once (`ListsAgree`). With an attached client, the map of accepted
connections keeps those that other threads have closed, until `accept` returns such
a number again and its assertion fails (`StopsExplained`). If the application gets the
number first, with select and WSAPoll the listener reads the application's socket
into the closed connection (`OnlyWhenDisturbed`). And an object with a
field that cannot be written leaves a packet that no receiver accepts (`spoilt` in
`Packet`), although Packet.hpp says that all packets a program sends are valid.

## Proofs

Checked by TLAPS for all values of the constants that satisfy the assumptions,
which TLC evaluates in the runs:

* `CountAssumption`, `SlotAssumption`, `ObjectAssumption` of `EventDispatch`: counts
  are naturals, every callback belongs to one consumer, objects are distinct;
* `RingAssumption`: the buffer has cells; `AttachmentAssumption`: listeners,
  consumers and null are different things, there are finitely many consumers;
* `ConnectAssumption`: finitely many descriptors, which are naturals;
  `ConnectionAssumption`: frames are not empty, and the modulus of the count is more
  than twice a frame and the failures (2^64 in the code);
* `PollerAssumption`, `NamesAssumption`, `LifecycleAssumption`: finitely many
  descriptors other than 0, the three back ends, sockets that are different things,
  and descriptors for the server and the clients that are attached at the start;
* `StreamAssumption`: a frame has three bytes or more and begins with its length;
* `FormatAssumption`: what lies behind a packet are bytes, and an array has at most
  65535 elements; `PacketAssumption`: the program hands whole items of its own types
  to `<<` (an object with the fields it announces), peers send bytes.

`MaxReceived`, `MaxCalls` and the other bounds of the model are any naturals.
Each theorem has the same three parts: the initial states satisfy an invariant,
every action keeps it, it implies the property. Where the property is not inductive,
TLC checked the invariant on the runs before the proof was tried.

### EventDispatch

* `TypeCorrect`: `Spec => []TypeOK`. `TypeOK` is inductive; it includes the program
  points of each thread (`PointOK`), because the return label of a push is data.
* `NoNotificationLost`: `Spec => []NoLostWakeup`. It is not inductive alone. The
  invariant `DispatchInv` adds that the links are those of `run_init` while the
  listener runs (`LinksOK`), so that `notify` reaches the owner of the queue, and
  that a name without a link never gets one, so that the owner's pass stops at
  the queue (`OwnerServes`). The proof goes by thread: a listener's step pushes only
  on its way to `Notify`; a consumer that resets its flag is at the beginning of
  a pass (`PassBegins`) and skips no queue of its own (`PassContinues`).
  `Disconnected` is excluded, since there the property is false.
* `QueuesLimited`: `Spec => []ListenerQueueLimit`, the limit of the bus for the queues
  themselves. `LimitInv` adds the test that came before the push: who is at `push`
  found the queue within its limit, and only the listener pushes there, so that the
  test is still true.
* `DisconnectionsLimited`: `Spec => []DisconnectedLimit`. The queue of disconnections is
  pushed to by every thread, so a test can be stale. `RoomInv` counts the threads
  between test and push (`Pushers`): the length and their number together stay
  within the limit and the number of threads.
* `CallbacksWithOwner`: `Spec => []OwnerHandles`. `OwnersInv`: a consumer in a pass
  stands at a stage it serves (`Serves`), and with the links of `run_init`
  what it serves is its own (`ServesOwn`).
* `NoEventVanishes`: `Spec => []NothingVanishes`, half of `OneFate` in terms of the
  queues. `HandsInv` says that what the listener holds with a number is an event for
  the queue of a name, so that the push at the end of a batch and the one of a
  disconnection cannot be confused.
* `EventsInOrder`: `Spec => []InOrder`. `OrderInv`: the queue behind what was
  handled (`Seen`) is one sequence that only grows at its end; every event in it came
  `Before` the one in the listener's hands, which is the last one picked.
* `JoinDrains`: `Spec => []DrainedAtJoin`. `StopInv` says who still runs at each point
  of the shutdown; `DrainInv`, that a consumer on its last pass (`final`) has left the
  queues of its earlier stages empty, and a joined one all its queues. A first
  form of the property, for all queues of all joined consumers, was refuted by
  TLC when the invariant was tried: a callback of the second consumer may disconnect
  after the first one, with `on_disconnect`, was joined. The property now asks it of
  the queue of disconnections only when its consumer is joined last (`Empties`).
* `ExternalsAnnounced`: `Spec => []ExternalAnnounced`. `ExternalInv`: who is inside
  `disconnect` carries a connection it has closed itself (`TellsOK`), so a closed
  connection is accounted for until its push, and for ever after.
* `InternalsAnnouncedOnce`: `Spec => []AnnouncedOnce`. `OnceInv` adds that the shutdown
  has still to visit whatever is in the map (`ClosingInv`). The step that takes a
  connection from the map begins its announcement, and no other step does
  (`CountBegins`, `CountQuiet`).

* `DispatchImplementsBus`: `Spec => ImplementsBus`. `BusInv` is the invariants of the
  theorems above together. Each variable of the bus is changed by one kind of step
  only (`TakenStays`, `SentStays`, `ServedStays`, `LostStays`, `CallingStays`,
  `JoinedStays`, `OpenStays`), so whatever is not one of them is a stutter
  (`BusStep`); and each of them is a step of the bus for a reason that one of the
  invariants gives. At the push the queue is still within the limit (`BusPublishes`,
  from `LimitInv`) and what is pushed is the next event of its connection (`LetsGo`,
  from `OrderInv`); who pops owns the name (`BusCalls`, from `OwnersInv`); who is
  joined has left nothing (`BusJoins`, from `DrainInv`); and the listener takes nothing
  once it joins, nor does it when the process ends (`BusCrashes`).
* `EventsHaveOneFate`: `Spec => []OneFate`. It is shown of the bus and follows for the
  threads by the refinement. `FateInv`: what was not taken yet is nowhere, however far
  off; `PlacesGrow`: a step of the bus adds one place for one event, the next one, and
  moves no other.

### RingBuf

In `EventStreamProofs`, as the next ones.

* `RingTypeCorrect`: `RingSpec => []RingTypeOK`, which is inductive. The positions
  stay inside the array, and the events that `pick_event` builds have no zero in
  their names (`TerminatorType`).
* `RingImplementsByteQueue`: `RingSpec => FirstInFirstOut`, for every size and
  alphabet. The queue has the calls, the string that `put` was given and the results
  as well as the bytes (`call`, `given`, `result`): a `put` that returns true has
  appended its argument, whole and in order, and one that returns false was given a
  string that does not fit. `Content` is a stretch of cells
  that goes round; `StretchAppend` says that what `put` writes lengthens it by the string and touches no byte of it,
  `StretchDrop` that moving `m_start` shortens it at the front. Both rest on
  `RoundTwice`, going round in two steps or in one. What `pick_event` reads behind
  the array changes which event it builds, and the bytes it removes are still the
  oldest ones (`PickMoves`).

### EventStream

For every size of the buffer, every chunk, every set of frames and every order of
sends, recvs and picks. The first two hold as long as `put` refused nothing and no
length was read across the last cell, the third as long as no frame passed it.

* `FramesKept`: `FramingKept`, from `StartInv`: `m_start` is where the next frame
  begins, counted around the buffer, and the buffer and the wire hold the bytes from
  there on. `EndsInv` has the frames one behind the other in `sent`. A `put` is
  `PutContent` and a pick `PickContent`, the lemmas of the refinement; going round
  from the remainder of a position is `RoundShift`, for which division is taken apart
  (`DivMod`, `ModUnique`). The length that `pick_event` reads is that of the next
  frame as long as its second byte lies inside (`LengthRead`), so that a pick takes
  this frame or stays (`PickKinds`).
* `EventsDelivered`: `EventsIntact`, from `DeliverInv`. What is read of a frame that
  does not pass the last cell are its bytes (`BodyWhole`).
* `NoneWaits`: `NoneLeftBehind` for frames with a name that ends and a valid packet
  (`WellFormed`; TLC evaluates this of the frames it sends). It is false without, see
  the table above. When `read_connection` asks for more there is less than a frame,
  so that a chunk has room.
* `PackBuildsFrames`: what `Event::pack` builds of a name without a zero and a valid
  packet is well formed and meets `StreamAssumption`, up to 65535 bytes. Beyond, the
  length is cut and none of the theorems applies.

### Attachment

* `AttachmentTypeCorrect`: `Spec => []AttachmentTypeOK`, inductive action by action.
* `TiesAgree`: `Spec => []ListsAgree`. `Exclusive` says that an object which two calls
  use is shared, so that the one call on an unshared object is known. `TieInv` says
  how far it is: between the steps of `attach` and `detach` (`ElementTied`) and of
  `set_producer` (`ConsumerTied`) the pointer and the lists differ in the way the next
  step repairs, and no other step writes them.
* `NamesHaveOneOwner`: `Spec => []OneOwner`. `OwnerInv` says of each listener that is
  not shared that its links lead to its callbacks from `run_init` on (`LinksLead`, `Lead`)
  and that none is left when no thread and no `run` is under way. That `Linked` leads rests
  on the absence of a collision, which makes the set of owners a singleton
  (`LinkedLead`); that its thread has cleared the links before a second run begins, on
  `ThreadInv`.
* `EndsAreExplained`: `Spec => []EndsExplained`. `ThreadInv` says what a call knows of
  the thread of its object (`CallKnows`: at `start` there is none yet, at `wait` there is
  one), that whoever is running has a thread or a call about to start it, and who is not
  has none or a call that waits for it (`ThreadsAwaited`), and that a listener still has
  to join consumers of its own only (`JoinsOwn`); all of it for objects that are not
  shared. `UsesLive` and `ProducersLive` with `TieInv` explain the pointers to what is gone.

### Connect and Connection

* `ConnectTypeCorrect`: `Spec => []ConnectTypeOK`. That no list is freed three times and
  no address passed twice is part of the types, and not inductive: `ListsInv` says of
  each program point which ways through `retrieve_addresses` lead there (`Looking`,
  `Walks`, `Ended`). `ListsFreedRight`: `Spec => []ListsFreed`, from the same.
* `OwnClosed`: `Spec => []ClosesOwn`. `DescriptorInv`: the mutex is held exactly inside
  `disconnect`, a connect at a point behind `socket` has an open descriptor, no
  two have the same, and `m_fd` is another one unless it is being closed.
* `UsableWhenConnected`: `Spec => []ConnectedUsable`. `UsableInv` adds the mode of the
  descriptors on the way to the object (`ModeInv`) and that `m_connected` and `m_fd`
  disagree only while one thread is between the two assignments (`PairInv`), as long
  as no connect ended inside another one or a disconnect (`raced`).
* `LossesCounted`: `Spec => []StraysCounted`, which is inductive with `DescriptorInv`
  and `UsableInv`: a descriptor is lost by the publication on a connected object, or
  by a throw behind a server's bind, and by one at a time.
* `ConnectionTypeCorrect`: `Spec => []ConnectionTypeOK`, inductive.
* `CountLawHolds` and `FramesStayWhole`: `Spec => []CountLaw` and `Spec => []FramesWhole`.
  `ConnectionInv` has `Progress`: what the loop has put, less the failures it has
  counted as -1, differs from its count by nothing or by one modulus; the comparison
  with the size then ends the loop when it should for every modulus that is large
  enough. With `SendersAlone`, one thread writes at a time, and the places of its
  frame on the wire are consecutive.

### Lifecycle

The steps are classified by what they do to the kernel, the poller and the objects
(`StepKinds`), and an invariant is proved for each kind.

* `LifecycleTypeCorrect`: `Spec => []LifecycleTypeOK`; the inductive form `TypeInv` has
  the fields of the events and of the locals as well.
* `ReadBeforeClosed`: `Spec => []ReadToTheEnd`, from `EndInv`: what `recv` found
  ended stays ended, since its peer has closed, and the number of the event comes to
  no other connection on the way through `close_connection`, since only the listener
  itself accepts (`TableFrom`) and what it takes from the map has that number or is
  closed (`NumberInv`).
* `NumbersClosedOnce`: `Spec => []ClosedOnce`. `SafetyInv` says whose each number is:
  `ObjectsInv` (a connected object has an open descriptor of its own socket),
  `KeptInv` (an open socket is held by its object, by the locals of
  `accept_connections` or by who is closing it, so nothing is lost), `NewInv` and
  `UnwindInv` (the socket between `accept` and `emplace`, and the number that
  the handler of a failed one closes again), `MapInv` (an element of the map that
  is connected stands under its own number), `ServerInv` and `MiscloseInv` (the
  server's number, which the application may have been given after the listener
  closed it).
* `AloneNoneMisdirected` and `StopsAreExplained`: `Spec => []OnlyWhenDisturbed` and
  `Spec => []StopsExplained`. `AboutInv` follows an event from `Report` to the
  descriptor it closes or feeds: `BatchInv` (its number is still that of the
  connection it was reported for while no other thread disconnects, and with WSAPoll
  for longer), `NumberInv`, `FreshInv`, `UnwatchedInv`, `HangUpInv`, `RecvInv`. For the
  numbers that a connection has left (`Dead`, and the application may have), `DeadInv`
  says that the poller waits for one only when the map still has it, `DeadEvents`,
  `DeadRead` and `DeadRecv` follow its event to the `recv`, and so what is read there
  goes to a closed connection or, disturbed, to none. `MarksInv` and `StopInv` keep what
  was found.
* `NoneIsStranded`: `Spec => []NothingStranded`. `NotedInv`: every open socket that is
  not being disconnected is watched, and what an edge-triggered poller has told
  is still to be read in this batch (`Seen`); `TakenInv` for the descriptor
  that the listener is about to close.

### Packet

No bound on the packet, the depth of its objects, the values or the number of calls;
both byte orders on either side, and any bytes behind the packet.

* `IsValidExact`: `is_valid` answers true for the well-formed packets and for no others.
  `WrittenWell`: what was written is well formed if and only if every object has got
  its fields. `ReadAsWritten`: a reader on any host takes the tokens with the
  values they were written with, one behind the other. `OutputOfValid`: printing a
  valid packet stays inside it and never says CORRUPTED.
* `PacketTyped`, `PacketValidity`, `PacketWritten`, `PacketReadBack`, `PacketInside`:
  `Spec =>` always `PacketTypeOK`, `ValidityExact`, `WrittenValid`, `ReadBack`,
  `ReaderInside`.

The definitions are recursive over pairs of a position and a count. `Recursion` and
`Induction` come from the well-founded order of the naturals: a function whose value
at `x` looks only at arguments of smaller measure satisfies its equation, and a set
that holds `x` as soon as it holds everything smaller holds everything. Both take sets
and functions, not operators, so that the provers can use them; the measure of the
formats is mostly what is left of the packet, then the count. With the equations
(`EndsIs`, `ScanIs`, `LeftEq`, `ShownIs`, `ShownAllIs`, `HeadsAre`, `OwesAre`) the argument is:

1. `AllKeeps`: from `n` owed items, `valid_next_item` either comes to a place where the
   tokens have paid these `n`, or fails where they do. A type from behind the packet
   leads behind it, where the loop does not accept. Hence `ScanRight`.
2. `PushIs` and `EncodeIs`: what a host writes does not depend on its order; `TokenLies`:
   these bytes are one token, and what any host takes of them is the token
   (`HeadHolds` for the tokens of a packet in turn). `LeftWritten` has them pay what
   their tokens owe.
3. `OneTells`, `AllShowWell`, `ShownAllWell`: `output_one` walks the same tokens.
4. `IInv`: what the program wrote are the `Bytes` of its tokens, and nothing is owed
   behind them unless a write was `spoilt`; what was read are the first of the tokens,
   and `m_idx` stands behind these (`Follows`); from `m_idx` on there are whole tokens
   (`Reads`), so that no read leaves the packet; who is in `read` is well formed, and who
   was dropped is not.

### What TLC alone checks

The liveness of `EventDispatch` (`QueuesServed`, `JoinReturns`): fairness and
`ENABLED` are out of the prover's reach. Every safety property of the passing runs is
a theorem. The two runs that refute a statement show it on one instance, which is what
a counterexample is.

## Not modelled

`Exception`, `Version` and the headers hold values or text, as do the printable
parts of `SocketAddress` and the accessors of `Event`. The macros of `Serializer`
call `write_as_object` and `read_as_object`, which are `Write` and `Read` of
`Packet`; their expansion and hooks are left out, as is the text of a printed
packet. Branches for Windows sockets are left out; the WSAPoll back end is modelled,
as its logic does not depend on them. Failing locks (`std::system_error`) are left
out, and failing allocations too, but for those of `accept_connections` and
`retrieve_addresses`, which the code handles. Frames of more than 65535 bytes, whose
length `Pack` cuts, are beyond a run of TLC. The examples and tests were read for
what they say of the library.

## Plan

What is left: valid packets of `RingBuf`, now a constant, from `WellFormed` of
`PacketFormat`, so that `EventsDelivered` and `ReadAsWritten` become one theorem from
the sender's `<<` to the receiver's `>>`.

------------------------------- MODULE Poller -------------------------------
(***************************************************************************)
(* The Poller and the kernel under it: descriptor numbers, of which the    *)
(* lowest free one is given again, sockets with what they have to read,    *)
(* and the three back ends.  epoll is edge-triggered and forgets closed    *)
(* descriptors by itself; select and WSAPoll are level-triggered and keep  *)
(* numbers until remove_fd.                                                *)
(***************************************************************************)
EXTENDS Integers, FiniteSets, FiniteSetsExt

CONSTANTS
    Fd,            \* descriptor numbers
    FdSetSize,     \* FD_SETSIZE of select
    MaxEvents,     \* MAX_EVENTS: events of an epoll batch, slots of WSAPoll
    Backends,      \* the back ends a run looks at
    Peer,          \* peers that connect to the server
    Client         \* clients that may be attached to the listener

CONSTANTS Server, App, Free, NoOne

ASSUME PollerAssumption ==
    /\ Fd \subseteq Nat /\ IsFiniteSet(Fd) /\ 0 \notin Fd
    /\ FdSetSize \in Nat /\ MaxEvents \in Nat
    /\ Backends \subseteq {"epoll", "select", "wsapoll"}

\* The names of sockets and of what is none are different.
ASSUME NamesAssumption ==
    /\ Peer \cap Client = {} /\ {Server, App, Free, NoOne} \cap (Peer \cup Client) = {}
    /\ Server \notin {App, Free, NoOne} /\ App \notin {Free, NoOne} /\ Free # NoOne

VARIABLES
    backend,     \* the back end, never changed
    table,       \* kernel: what each descriptor stands for
    backlog,     \* kernel: peers that accept has not taken
    fresh,       \* kernel: peers that have not connected
    inbox,       \* kernel: messages not received, for each connection
    hup,         \* kernel: connections whose peer has closed
    failing,     \* kernel: is there an error on the server's socket?
    edge,        \* kernel: sockets epoll has something new about
    watched,     \* the descriptors of the Poller: m_epoll, m_readfds or m_events
    batch,       \* the events of the batch that next_event has not returned
    misclosed    \* history: was a number closed that stood for something else?

kernelVars == <<table, backlog, fresh, inbox, hup, failing, edge>>
pollerVars == <<watched, batch>>

Connections == Peer \cup Client
Socket == Connections \cup {Server}
NoEvent == [fd |-> 0, close |-> FALSE, read |-> FALSE, about |-> NoOne]

FreeFds == {f \in Fd : table[f] = Free}
OpenOf(s) == {f \in Fd : table[f] = s}

Readable(s) == IF s = Server THEN backlog # {} \/ failing
               ELSE s \in Connections /\ (inbox[s] > 0 \/ s \in hup)
HungUp(s) == IF s = Server THEN failing ELSE s \in hup
------------------------------------------------------------------------------
\* close(f) by code that takes f for a descriptor of s; what the socket had
\* not delivered is gone, and epoll forgets it.
Close(f, s) ==
    IF f \in Fd
    THEN /\ table' = [table EXCEPT ![f] = Free]
         /\ inbox' = [c \in Connections |-> IF c = table[f] THEN 0 ELSE inbox[c]]
         /\ hup' = hup \ {table[f]}
         /\ edge' = edge \ {table[f]}
         /\ misclosed' = (misclosed \/ table[f] \notin {s, Free})
    ELSE UNCHANGED <<table, inbox, hup, edge, misclosed>>

Forgotten(f) == IF backend = "epoll" THEN watched \ {f} ELSE watched

\* Something happens to a socket: epoll notes it when the socket is watched.
Watches(s) == backend = "epoll" /\ \E f \in watched : table[f] = s
Happens(s) == edge' = IF Watches(s) THEN edge \cup {s} ELSE edge

\* add_fd: select takes the numbers an fd_set has a bit for, WSAPoll as many as
\* it has slots.
InFdSet(f) == f < FdSetSize
SlotLeft   == Cardinality(watched) < MaxEvents

MayAdd(f) == /\ backend = "select" => InFdSet(f)
             /\ backend = "wsapoll" => SlotLeft

AddFd(f) == /\ watched' = watched \cup {f}
            /\ edge' = IF backend = "epoll" /\ Readable(table[f]) THEN edge \cup {table[f]} ELSE edge

\* Mutation: the results stay in the slot that is cleared.
UnreportedKept(f) == batch

\* remove_fd: nothing to do for epoll; WSAPoll clears the slot's results too.
Removed(f) == IF backend = "epoll" THEN watched ELSE watched \ {f}
Unreported(f) == IF backend = "wsapoll" THEN {e \in batch : e.fd # f} ELSE batch
------------------------------------------------------------------------------
\* What poll may say of a descriptor of the application's, which is a socket with
\* a state of its own or no socket at all.
Answers == [close : BOOLEAN, read : BOOLEAN]

\* is_close: EPOLLERR, EPOLLHUP and EPOLLRDHUP; POLLHUP and POLLNVAL, but not
\* POLLERR, an error on a server's socket; select has no such thing.
EpollClose(s) == backend = "epoll" /\ HungUp(s)
WsapollClose(s, answer) ==
    backend = "wsapoll" /\ (s = Free \/ s \in hup \/ (s = App /\ answer.close))

\* is_read: EPOLLIN and POLLIN; what select leaves in the set.
IsRead(s, answer) ==
    \/ backend = "select"
    \/ s = Server /\ backlog # {}
    \/ s \in Connections /\ Readable(s)
    \/ s = App /\ answer.read

\* The event that a batch has for a descriptor.
Report(f, answer) ==
    LET s == table[f] IN
    [fd |-> f, about |-> s, close |-> EpollClose(s) \/ WsapollClose(s, answer),
     read |-> IsRead(s, answer)]

\* Mutation: what is left of a full batch is forgotten.
WaitEpollOnce ==
    LET ready == {f \in watched : table[f] \in edge /\ Readable(table[f])} IN
    \E taken \in SUBSET ready :
        /\ Cardinality(taken) = (IF Cardinality(ready) < MaxEvents THEN Cardinality(ready) ELSE MaxEvents)
        /\ taken # {}
        /\ \E answer \in Answers : batch' = {Report(f, answer) : f \in taken}
        /\ edge' = {}

\* wait_for_events of the back ends: epoll returns up to MAX_EVENTS of the new
\* events, and drops what is no event any more; WSAPoll returns what there is,
\* a number that is not open included; select fails for such a number, and
\* leaves every descriptor set.
WaitEpoll ==
    LET ready == {f \in watched : table[f] \in edge /\ Readable(table[f])} IN
    \E taken \in SUBSET ready :
        /\ Cardinality(taken) = (IF Cardinality(ready) < MaxEvents THEN Cardinality(ready) ELSE MaxEvents)
        /\ taken # {}
        /\ \E answer \in Answers : batch' = {Report(f, answer) : f \in taken}
        /\ edge' = {s \in edge : Readable(s)} \ {table[f] : f \in taken}

\* A descriptor of the application's may have something to report or not.
Ready(quiet) == {f \in watched : table[f] \in Socket => Readable(table[f])} \ quiet
Bad == {f \in watched : table[f] = Free}

WaitLevel ==
    \E quiet \in SUBSET OpenOf(App), answer \in Answers :
        /\ Ready(quiet) # {}
        /\ batch' = {Report(f, answer) :
                        f \in IF backend = "select" /\ Bad # {} THEN watched ELSE Ready(quiet)}
        /\ UNCHANGED edge

Wait == IF backend = "epoll" THEN WaitEpoll ELSE WaitLevel

\* next_event: epoll in the kernel's order, select by number, WSAPoll by slot.
MayReturn(e) == e \in batch /\ (backend = "select" => \A d \in batch : e.fd <= d.fd)
------------------------------------------------------------------------------
\* The network and the application, which opens and closes a descriptor of its own:
\* a file, or a socket that the listener knows nothing of.
PeerConnects(p) ==
    /\ p \in fresh /\ OpenOf(Server) # {}
    /\ fresh' = fresh \ {p} /\ backlog' = backlog \cup {p}
    /\ Happens(Server)
    /\ UNCHANGED <<table, inbox, hup, failing>>

PeerSends(p) ==
    /\ OpenOf(p) # {} \/ p \in backlog
    /\ p \notin hup
    /\ inbox' = [inbox EXCEPT ![p] = @ + 1]
    /\ Happens(p)
    /\ UNCHANGED <<table, backlog, fresh, hup, failing>>

PeerCloses(p) ==
    /\ OpenOf(p) # {} \/ p \in backlog
    /\ p \notin hup
    /\ hup' = hup \cup {p}
    /\ Happens(p)
    /\ UNCHANGED <<table, backlog, fresh, inbox, failing>>

ServerFails ==
    /\ OpenOf(Server) # {} /\ ~failing
    /\ failing' = TRUE
    /\ Happens(Server)
    /\ UNCHANGED <<table, backlog, fresh, inbox, hup>>

AppOpens ==
    /\ FreeFds # {} /\ OpenOf(App) = {}
    /\ table' = [table EXCEPT ![Min(FreeFds)] = App]
    /\ UNCHANGED <<backlog, fresh, inbox, hup, failing, edge>>

AppCloses ==
    \E f \in OpenOf(App) :
        /\ table' = [table EXCEPT ![f] = Free]
        /\ UNCHANGED <<backlog, fresh, inbox, hup, failing, edge>>
=============================================================================

------------------------------ MODULE Lifecycle ------------------------------
(***************************************************************************)
(* Who closes what.  The listener's thread takes batches of events from    *)
(* the Poller and accepts, reads and closes by descriptor number, while    *)
(* another thread disconnects connections and the server, and the          *)
(* application opens descriptors of its own.  What is queued for the       *)
(* consumers is in EventDispatch; here a disconnection is only counted.    *)
(***************************************************************************)
EXTENDS Poller

CONSTANTS
    MaxMessages,   \* bound: the messages of a peer that wait to be received
    MaxFailures,   \* bound: the calls of the system that fail
    MaxDisconnects \* bound: the disconnections by the other thread

ASSUME LifecycleAssumption ==
    /\ {MaxMessages, MaxFailures, MaxDisconnects} \subseteq Nat
    /\ Cardinality(Fd) > Cardinality(Client)

VARIABLES
    attached,    \* the clients attached to the listener (m_connections), never changed
    object,      \* m_connected and m_fd of each object
    locked,      \* the objects whose m_mutex the other thread holds
    internal,    \* m_internal_connections
    pc,          \* where the listener's thread is
    cur,         \* the event it handles
    cn,          \* the connection it has looked up
    accepted,    \* the peer and the descriptor that accept returned
    running,     \* m_running
    pollers,     \* the Poller objects that exist
    user,        \* where the other thread is
    target       \* what it disconnects

VARIABLES        \* history
    failures, disconnects,
    disturbed,   \* did the other thread disconnect since the batch was taken?
    misdirected, \* did an event close, or data feed, another connection than its own?
    gaveUp,      \* did accept_connections leave before the backlog was empty?
    lost,        \* for what the listener closed a socket that had a message to read
    serverClosed, \* has the listener closed the server?
    retaken      \* did the code close a number it had given up before?

listenerVars == <<pc, cur, cn, accepted>>
userVars == <<user, target>>
countVars == <<failures, disconnects>>
ghostVars == <<disturbed, misdirected, gaveUp, lost, serverClosed, retaken>>
lcVars == <<backend, attached, kernelVars, pollerVars, misclosed, object, locked, internal, listenerVars,
            running, pollers, userVars, countVars, ghostVars>>

NoAccept == [peer |-> NoOne, fd |-> 0]
Closed   == [connected |-> FALSE, fd |-> -1]

Goto(l) == pc' = l
Fails   == failures < MaxFailures /\ failures' = failures + 1

\* get_fd of objects waits for their m_mutex.
Unlocked(objects) == objects \cap locked = {}

\* The clients that a search for a number asks: the loop stops at the first match.
Asked(f) ==
    IF \E c \in attached : object[c].fd = f
    THEN {c \in attached : object[c].fd = f}
    ELSE attached

IsServer(f) == object[Server].fd = f

\* The attached client, or the accepted connection, with a descriptor number.
Lookup(f) ==
    IF \E c \in attached : object[c].fd = f
    THEN CHOOSE c \in attached : object[c].fd = f
    ELSE internal[f]
------------------------------------------------------------------------------
\* The batch is done.
Waiting == pc = "next" /\ batch = {}

\* run_imp: wait_for_events, while m_running.
TakeBatch ==
    /\ Waiting /\ running
    /\ Wait
    /\ disturbed' = (user # "idle")
    /\ UNCHANGED <<backend, attached, table, backlog, fresh, inbox, hup, failing, watched, misclosed, object,
                   locked, internal, listenerVars, running, pollers, userVars, countVars, misdirected,
                   gaveUp, lost, serverClosed, retaken>>

\* next_event, and the tests of is_close and is_read.
NextEvent ==
    /\ pc = "next" /\ Unlocked({Server})
    /\ \E e \in batch :
         /\ MayReturn(e)
         /\ batch' = batch \ {e}
         /\ IF ~e.close /\ ~e.read THEN cur' = NoEvent /\ Goto("next")
            ELSE /\ cur' = e
                 /\ Goto(IF e.close THEN IF IsServer(e.fd) THEN "closeServer" ELSE "closeConnection"
                         ELSE IF IsServer(e.fd) THEN "accept" ELSE "read")
    /\ UNCHANGED <<backend, attached, kernelVars, watched, misclosed, object, locked, internal, cn, accepted,
                   running, pollers, userVars, countVars, ghostVars>>

\* The end of a handler.
Handled == cur' = NoEvent /\ cn' = NoOne /\ accepted' = NoAccept /\ Goto("next")

\* close_server: the server's object keeps m_connected and m_fd.
CloseServer ==
    /\ pc = "closeServer" /\ Unlocked({Server})
    /\ Close(cur.fd, Server)
    /\ watched' = watched \ {cur.fd} /\ batch' = Unreported(cur.fd)
    /\ serverClosed' = TRUE
    /\ Handled
    /\ UNCHANGED <<backend, attached, backlog, fresh, failing, object, locked, internal, running,
                   pollers, userVars, failures, disconnects, disturbed, misdirected, gaveUp, lost,
                   retaken>>
------------------------------------------------------------------------------
\* close_connection: the look-up, which takes an accepted connection out.
FindConnection ==
    /\ pc = "closeConnection" /\ Unlocked(Asked(cur.fd))
    /\ LET found == Lookup(cur.fd) IN
       /\ IF found \in Peer THEN internal' = [internal EXCEPT ![cur.fd] = NoOne] ELSE UNCHANGED internal
       /\ IF found = NoOne THEN Handled
          ELSE cn' = found /\ Goto("disconnect") /\ UNCHANGED <<cur, accepted>>
    /\ UNCHANGED <<backend, attached, kernelVars, pollerVars, misclosed, object, locked, running, pollers,
                   userVars, countVars, ghostVars>>

\* close_connection: safe_disconnect, remove_fd and the event.
SafeDisconnect ==
    /\ pc = "disconnect" /\ Unlocked({cn})
    /\ LET o == object[cn] IN
       /\ IF o.connected THEN Close(o.fd, cn) ELSE UNCHANGED <<table, inbox, hup, edge, misclosed>>
       /\ object' = [object EXCEPT ![cn] = IF o.connected THEN Closed ELSE o]
       /\ watched' = IF backend = "epoll" THEN watched \ {o.fd} ELSE watched \ {cur.fd}
    /\ batch' = Unreported(cur.fd)
    /\ misdirected' = IF cur.close => cur.about \notin Connections \ {cn} THEN misdirected
                      ELSE IF disturbed THEN "disturbed" ELSE "alone"
    /\ lost' = IF object[cn].connected /\ inbox[cn] > 0
               THEN IF cur.close THEN "hangUp" ELSE "read"
               ELSE lost
    /\ Handled
    /\ UNCHANGED <<backend, attached, backlog, fresh, failing, locked, internal, running, pollers,
                   userVars, failures, disconnects, disturbed, gaveUp, serverClosed,
                   retaken>>

------------------------------------------------------------------------------
\* accept_connections: one round of its loop, up to accept.
Accept ==
    /\ pc = "accept"
    /\ IF table[cur.fd] = Server /\ backlog # {} /\ FreeFds # {}
       THEN \E p \in backlog :
              /\ accepted' = [peer |-> p, fd |-> Min(FreeFds)]
              /\ table' = [table EXCEPT ![Min(FreeFds)] = p]
              /\ backlog' = backlog \ {p}
              /\ Goto("setUp")
              /\ UNCHANGED <<cur, cn, gaveUp>>
       ELSE /\ Handled
            /\ gaveUp' = (table[cur.fd] # Server \/ backlog # {} \/ failing)
            /\ UNCHANGED <<table, backlog>>
    /\ UNCHANGED <<backend, attached, fresh, inbox, hup, failing, edge, pollerVars, misclosed, object, locked,
                   internal, running, pollers, userVars, countVars, disturbed, misdirected, lost, serverClosed, retaken>>

\* Mutation: what accept returns is not tested.
AcceptFailsUnseen ==
    /\ pc = "accept" /\ table[cur.fd] = Server /\ backlog # {} /\ Fails
    /\ Goto("setUp")
    /\ UNCHANGED <<backend, attached, kernelVars, pollerVars, misclosed, object, locked, internal, cur, cn,
                   accepted, running, pollers, userVars, disconnects, ghostVars>>

\* accept fails although there is a connection and a descriptor.
AcceptFails ==
    /\ pc = "accept" /\ table[cur.fd] = Server /\ backlog # {} /\ Fails
    /\ Handled
    /\ gaveUp' = TRUE
    /\ UNCHANGED <<backend, attached, kernelVars, pollerVars, misclosed, object, locked, internal, running,
                   pollers, userVars, disconnects, disturbed, misdirected, lost, serverClosed, retaken>>

\* Mutation: a socket that cannot be set up stays open.
SetUpOpen ==
    /\ pc = "setUp"
    /\ \/ /\ MayAdd(accepted.fd) /\ AddFd(accepted.fd)
          /\ Goto("emplace")
          /\ UNCHANGED <<cur, cn, accepted, gaveUp, failures>>
       \/ /\ Fails \/ (~MayAdd(accepted.fd) /\ UNCHANGED failures)
          /\ Handled
          /\ gaveUp' = TRUE
          /\ UNCHANGED <<watched, edge>>
    /\ UNCHANGED <<backend, attached, table, backlog, fresh, inbox, hup, failing, batch, misclosed, object,
                   locked, internal, running, pollers, userVars, disconnects, disturbed,
                   misdirected, lost, serverClosed, retaken>>

\* set_non_blocking and add_fd; when one fails, the socket is closed and the
\* loop left.
SetUp ==
    /\ pc = "setUp"
    /\ \/ /\ MayAdd(accepted.fd) /\ AddFd(accepted.fd)
          /\ Goto("emplace")
          /\ UNCHANGED <<table, inbox, hup, misclosed, cur, cn, accepted, gaveUp, failures>>
       \/ /\ Fails \/ (~MayAdd(accepted.fd) /\ UNCHANGED failures)
          /\ Close(accepted.fd, accepted.peer)
          /\ Handled
          /\ gaveUp' = TRUE
          /\ UNCHANGED watched
    /\ UNCHANGED <<backend, attached, backlog, fresh, failing, batch, object, locked, internal,
                   running, pollers, userVars, disconnects, disturbed, misdirected, lost,
                   serverClosed, retaken>>

\* The Connection, its place in the map and on_connect.  The assertion stops
\* the process when the map still has the number.
Emplace ==
    /\ pc = "emplace"
    /\ LET p == accepted.peer
           f == accepted.fd
       IN IF internal[f] # NoOne THEN Goto("aborted") /\ UNCHANGED <<object, internal, accepted>>
          ELSE /\ object' = [object EXCEPT ![p] = [connected |-> TRUE, fd |-> f]]
               /\ internal' = [internal EXCEPT ![f] = p]
               /\ accepted' = NoAccept
               /\ Goto("accept")
    /\ UNCHANGED <<backend, attached, kernelVars, pollerVars, misclosed, locked, cur, cn, running, pollers,
                   userVars, countVars, ghostVars>>

\* The Connection cannot be allocated, or its place cannot: then the handler
\* has the socket closed by ~Connection before it closes it itself.
EmplaceFails ==
    /\ pc = "emplace" /\ Fails
    /\ Close(accepted.fd, accepted.peer)
    /\ \/ /\ watched' = watched \ {accepted.fd} /\ batch' = Unreported(accepted.fd)
          /\ gaveUp' = TRUE
          /\ Handled
       \/ /\ watched' = Forgotten(accepted.fd)
          /\ Goto("unwind")
          /\ UNCHANGED <<batch, cur, cn, accepted, gaveUp>>
    /\ UNCHANGED <<backend, attached, backlog, fresh, failing, object, locked, internal, running,
                   pollers, userVars, disconnects, disturbed, misdirected, lost, serverClosed, retaken>>

\* The handler: close and remove_fd.
Unwind ==
    /\ pc = "unwind"
    /\ Close(accepted.fd, accepted.peer)
    /\ watched' = watched \ {accepted.fd} /\ batch' = Unreported(accepted.fd)
    /\ retaken' = TRUE /\ gaveUp' = TRUE
    /\ Handled
    /\ UNCHANGED <<backend, attached, backlog, fresh, failing, object, locked, internal, running,
                   pollers, userVars, countVars, disturbed, misdirected, lost, serverClosed>>
------------------------------------------------------------------------------
\* read_connection: get_connection, which may find none.
GetConnection ==
    /\ pc = "read" /\ Unlocked(Asked(cur.fd))
    /\ cn' = Lookup(cur.fd)
    /\ Goto("recv")
    /\ UNCHANGED <<backend, attached, kernelVars, pollerVars, misclosed, object, locked, internal, cur,
                   accepted, running, pollers, userVars, countVars, ghostVars>>

\* How a message of another socket than cn's came to cn: one of the listener's, or
\* one that the application was given the number for.
Astray(s) ==
    IF s = App THEN IF object[cn].connected THEN "open" ELSE IF disturbed THEN "closed" ELSE "stale"
    ELSE IF disturbed THEN "disturbed" ELSE "alone"

\* recv has a message, of whatever socket the number stands for: it goes to the
\* buffer of the connection looked up, and through a null pointer when there is none.
ReceiveMessage ==
    LET s == table[cur.fd] IN
    /\ pc = "recv" /\ (s = App \/ (s \in Connections /\ inbox[s] > 0))
    /\ inbox' = IF s = App THEN inbox ELSE [inbox EXCEPT ![s] = @ - 1]
    /\ Goto(IF cn = NoOne THEN "readNull" ELSE "recv")
    /\ misdirected' = IF cn \in {s, NoOne} THEN misdirected ELSE Astray(s)
    /\ UNCHANGED <<backend, attached, table, backlog, fresh, hup, failing, edge, pollerVars, misclosed, object,
                   locked, internal, cur, cn, accepted, running, pollers, userVars, failures, disconnects, disturbed, gaveUp, lost, serverClosed, retaken>>

\* Mutation: a recv that would block is taken for one that fails.
ReceiveNothingFails ==
    /\ pc = "recv" /\ (table[cur.fd] \in Connections => inbox[table[cur.fd]] = 0)
    /\ Goto("closeConnection") /\ cur' = [cur EXCEPT !.close = FALSE] /\ cn' = NoOne /\ UNCHANGED accepted
    /\ UNCHANGED <<backend, attached, kernelVars, pollerVars, misclosed, object, locked, internal, running,
                   pollers, userVars, countVars, ghostVars>>

\* recv would block, or has been reset, which Windows leaves to the next poll; or
\* it ends or fails.
ReceiveNothing ==
    LET s == table[cur.fd] IN
    /\ pc = "recv" /\ (s \in Connections => inbox[s] = 0)
    /\ \/ /\ s = App \/ s \in Connections \ hup \/ (backend = "wsapoll" /\ s \in hup)
          /\ Handled
       \/ /\ s \notin Connections \ hup
          /\ Goto("closeConnection") /\ cur' = [cur EXCEPT !.close = FALSE] /\ cn' = NoOne /\ UNCHANGED accepted
    /\ UNCHANGED <<backend, attached, kernelVars, pollerVars, misclosed, object, locked, internal, running,
                   pollers, userVars, countVars, ghostVars>>

------------------------------------------------------------------------------
\* Mutation: the map is searched whether or not a client is attached, and the
\* element stays in it.
ToldKept(c) == internal

\* tell_disconnected(c) and then unsafe_disconnect: a client is searched in the
\* list, an accepted connection in the map when the list is empty.
Tells(c) == c \in attached \/ (attached = {} /\ \E f \in Fd : internal[f] = c)
Told(c) == IF attached = {} THEN [f \in Fd |-> IF internal[f] = c THEN NoOne ELSE internal[f]] ELSE internal

\* The end of run_imp.
LeaveLoop ==
    /\ Waiting /\ ~running
    /\ Goto("shutDown")
    /\ UNCHANGED <<backend, attached, kernelVars, pollerVars, misclosed, object, locked, internal, cur, cn,
                   accepted, running, pollers, userVars, countVars, ghostVars>>

\* The loop that disconnects what was accepted.  With no client attached the
\* call erases the element the loop stands on; ending there is one outcome.
ShutDown ==
    /\ pc = "shutDown"
    /\ \E p \in Peer :
         /\ Unlocked({p}) /\ object[p].connected /\ \E f \in Fd : internal[f] = p
         /\ internal' = Told(p)
         /\ watched' = IF Tells(p) \/ backend = "epoll" THEN watched \ {object[p].fd} ELSE watched
         /\ Close(object[p].fd, p)
         /\ object' = [object EXCEPT ![p] = Closed]
         /\ Goto("shutDown") \/ (internal' # internal /\ Goto("loopLost"))
    /\ UNCHANGED <<backend, attached, backlog, fresh, failing, batch, locked, cur, cn, accepted,
                   running, pollers, userVars, failures, disconnects, ghostVars>>

\* m_poller.release() gives the Poller up without deleting it; the map is cleared.
Release ==
    /\ pc = "shutDown"
    /\ \A f \in Fd : internal[f] # NoOne => ~object[internal[f]].connected
    /\ internal' = [f \in Fd |-> NoOne]
    /\ watched' = {} /\ batch' = {}
    /\ Goto("done")
    /\ UNCHANGED <<backend, attached, kernelVars, misclosed, object, locked, cur, cn, accepted, running,
                   pollers, userVars, countVars, ghostVars>>

\* ~TCPServer: unsafe_disconnect.
DestroyServer ==
    /\ pc = "done" /\ user = "idle" /\ object[Server].connected
    /\ Close(object[Server].fd, Server)
    /\ retaken' = (retaken \/ serverClosed)
    /\ object' = [object EXCEPT ![Server] = Closed]
    /\ UNCHANGED <<backend, attached, backlog, fresh, failing, pollerVars, locked, internal,
                   listenerVars, running, pollers, userVars, countVars, disturbed, misdirected, gaveUp, lost,
                   serverClosed>>
------------------------------------------------------------------------------
Stopped == {"aborted", "readNull", "loopLost"}
Alive == pc \notin Stopped

\* Another thread: a connection it was handed by on_connect, or a client.
Handed(c) == c \in attached \/ object[c].connected

\* Connection::disconnect up to the return of tell_disconnected.
Disconnect(c) ==
    /\ Alive /\ user = "idle" /\ disconnects < MaxDisconnects /\ Handed(c)
    /\ locked' = locked \cup {c}
    /\ internal' = Told(c)
    /\ IF Tells(c)
       THEN watched' = Removed(object[c].fd) /\ batch' = Unreported(object[c].fd)
       ELSE UNCHANGED pollerVars
    /\ user' = "close" /\ target' = c
    /\ disconnects' = disconnects + 1
    /\ disturbed' = TRUE
    /\ UNCHANGED <<backend, attached, kernelVars, misclosed, object, listenerVars, running, pollers, failures, misdirected, gaveUp, lost, serverClosed, retaken>>

\* unsafe_disconnect, and the end of the section.
CloseTarget ==
    /\ Alive /\ (user = "close" \/ (user = "getFd" /\ Unlocked({Server})))
    /\ IF object[target].connected
       THEN /\ Close(object[target].fd, target)
            /\ watched' = Forgotten(object[target].fd)
            /\ object' = [object EXCEPT ![target] = Closed]
       ELSE UNCHANGED <<table, inbox, hup, edge, misclosed, watched, object>>
    /\ locked' = locked \ {target}
    /\ user' = "idle" /\ target' = NoOne
    /\ UNCHANGED <<backend, attached, backlog, fresh, failing, batch, internal, listenerVars,
                   running, pollers, countVars, ghostVars>>

\* TCPServer::disconnect locks m_mutex; the get_fd in the tell_disconnected it
\* calls locks it too.
DisconnectServer ==
    /\ Alive /\ user = "idle" /\ disconnects < MaxDisconnects
    /\ locked' = locked \cup {Server}
    /\ user' = "getFd" /\ target' = Server
    /\ disconnects' = disconnects + 1
    /\ UNCHANGED <<backend, attached, kernelVars, pollerVars, misclosed, object, internal, listenerVars,
                   running, pollers, failures, ghostVars>>

\* EventListener::join.
Stop ==
    /\ Alive /\ running
    /\ running' = FALSE
    /\ UNCHANGED <<backend, attached, kernelVars, pollerVars, misclosed, object, locked, internal, listenerVars,
                   pollers, userVars, countVars, ghostVars>>

Surroundings ==
    /\ Alive
    /\ \/ \E p \in Peer : PeerConnects(p) /\ UNCHANGED failures
       \/ \E c \in Connections : inbox[c] < MaxMessages /\ PeerSends(c) /\ UNCHANGED failures
       \/ \E c \in Connections : PeerCloses(c) /\ UNCHANGED failures
       \/ ServerFails /\ Fails
       \/ AppOpens /\ UNCHANGED failures
       \/ AppCloses /\ UNCHANGED failures
    /\ UNCHANGED <<backend, attached, pollerVars, misclosed, object, locked, internal, listenerVars, running,
                   pollers, userVars, disconnects, ghostVars>>
------------------------------------------------------------------------------
\* run_init has registered the server and the clients.
Init ==
    /\ backend \in Backends /\ attached \in SUBSET Client
    /\ table \in [Fd -> {Free, Server} \cup attached]
    /\ \A s \in attached \cup {Server} : Cardinality(OpenOf(s)) = 1
    /\ table[1] = Server /\ \A f \in FreeFds, g \in Fd : g > f => table[g] = Free
    /\ backlog = {} /\ fresh = Peer /\ hup = {} /\ failing = FALSE /\ edge = {}
    /\ inbox = [c \in Connections |-> 0]
    /\ object = [s \in Socket |-> IF OpenOf(s) = {} THEN Closed
                                  ELSE [connected |-> TRUE, fd |-> Min(OpenOf(s))]]
    /\ watched = Fd \ FreeFds /\ batch = {}
    /\ locked = {} /\ internal = [f \in Fd |-> NoOne]
    /\ pc = "next" /\ cur = NoEvent /\ cn = NoOne /\ accepted = NoAccept
    /\ running = TRUE /\ pollers = 1
    /\ user = "idle" /\ target = NoOne
    /\ failures = 0 /\ disconnects = 0
    /\ disturbed = FALSE /\ misdirected = "never" /\ gaveUp = FALSE /\ lost = "never" /\ serverClosed = FALSE
    /\ retaken = FALSE /\ misclosed = FALSE

Listener ==
    \/ TakeBatch \/ NextEvent \/ CloseServer \/ FindConnection \/ SafeDisconnect
    \/ Accept \/ AcceptFails \/ SetUp \/ Emplace \/ EmplaceFails \/ Unwind
    \/ GetConnection \/ ReceiveMessage \/ ReceiveNothing
    \/ LeaveLoop \/ ShutDown \/ Release

User ==
    \/ \E c \in Connections : Disconnect(c)
    \/ CloseTarget \/ DisconnectServer \/ Stop \/ DestroyServer

Next == Listener \/ User \/ Surroundings

Spec == Init /\ [][Next]_lcVars
------------------------------------------------------------------------------
Points == {"next", "closeServer", "closeConnection", "disconnect", "accept", "setUp", "emplace",
           "unwind", "read", "recv", "shutDown", "done"} \cup Stopped

\* Types of the variables; the locals of accept_connections belong to its steps.
LifecycleTypeOK ==
    /\ backend \in Backends /\ attached \subseteq Client
    /\ table \in [Fd -> Socket \cup {App, Free}]
    /\ backlog \subseteq Peer /\ fresh \subseteq Peer /\ hup \subseteq Connections
    /\ inbox \in [Connections -> Nat] /\ failing \in BOOLEAN /\ edge \subseteq Socket
    /\ watched \subseteq Fd
    /\ batch \subseteq [fd : Fd, about : Socket \cup {App, Free}, close : BOOLEAN, read : BOOLEAN]
    /\ object \in [Socket -> [connected : BOOLEAN, fd : Fd \cup {-1}]]
    /\ locked \subseteq Socket /\ internal \in [Fd -> Peer \cup {NoOne}]
    /\ pc \in Points /\ cn \in Connections \cup {NoOne}
    /\ accepted \in {NoAccept} \cup [peer : Peer, fd : Fd]
    /\ accepted # NoAccept <=> pc \in {"setUp", "emplace", "unwind", "aborted"}
    /\ user \in {"idle", "close", "getFd"} /\ target \in Socket \cup {NoOne}

\* No accepted socket is lost on the way through failing calls, closes by two
\* threads and the shutdown: it is being accepted, or it is the one of a
\* connected object that the map or a thread about to close it still has.
NoStray ==
    \A f \in Fd : table[f] \in Peer =>
        LET p == table[f] IN
        \/ pc \in {"setUp", "emplace", "aborted"} /\ accepted = [peer |-> p, fd |-> f]
        \/ /\ object[p] = [connected |-> TRUE, fd |-> f]
           /\ internal[f] = p \/ cn = p \/ target = p

\* And no socket is closed by the number of another: a number that stands for
\* something else is closed only by code that has closed its own before, a
\* failed emplace and a server the listener has closed.
ClosedOnce == NoStray /\ (misclosed => retaken)

\* What the listener waits for it will be told of.  With epoll an event is told
\* once: whatever is left to read then has an event to come, but for what the
\* server has left when accept_connections returns at a failure.
NothingStranded ==
    Waiting => \A s \in Socket : \A f \in OpenOf(s) :
        Readable(s) /\ target # s =>
            /\ f \in watched
            /\ backend = "epoll" => s \in edge \/ (s = Server /\ gaveUp)

\* The events of a batch and the map go by number, and numbers are given again.
\* Between the connections of the listener an event or data goes astray only when
\* another thread disconnects within the batch, and only with epoll.  What a socket
\* of the application's had to read never goes to a connection that is open; it goes
\* to one that another thread has closed, within the batch, or before it when clients
\* are attached, so that neither the map nor the poller was told, and the poller
\* keeps closed numbers.
OnlyWhenDisturbed ==
    /\ misdirected \notin {"alone", "open"}
    /\ misdirected = "disturbed" => backend = "epoll"
    /\ misdirected = "stale" => attached # {} /\ backend # "epoll"

\* How the process may stop.  The comment "There shouldn't be an old cfd file
\* descriptor" of accept_connections holds without attached clients; with one,
\* the map keeps what other threads have closed.  Data is read for nobody, clients
\* or not, only when another thread has disconnected since the batch was taken:
\* what it closed before is either no more in the poller or still in the map.  The
\* shutdown loop's calls erase from the map only without clients.
StopsExplained ==
    /\ pc = "aborted" => attached # {}
    /\ pc = "readNull" => disturbed
    /\ pc = "loopLost" => attached = {}
    /\ \A f \in Fd : internal[f] # NoOne /\ ~object[internal[f]].connected => attached # {}

\* The listener closes a socket that has something to read for a reported hang-up
\* only: one that recv has found ended was read to its end, whatever other threads
\* close, and whatever comes between recv and the close.
ReadToTheEnd == lost # "read"

\* A thread in TCPServer::disconnect does not wait for a mutex it holds.
\* TCPServer.hpp: "This method is thread safe, and can be called in a callback".
ServerDisconnects == user = "getFd" => Unlocked({Server})

\* mainpage.hpp: "Messages can't be lost, and will always be received".
MessagesNotLost == lost = "never"

\* The comment "Release resources" of run_imp: behind the join the Poller is gone.
PollerReleased == pc = "done" => pollers = 0
=============================================================================

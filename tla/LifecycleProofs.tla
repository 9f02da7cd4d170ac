--------------------------- MODULE LifecycleProofs ---------------------------
(***************************************************************************)
(* Theorems about Lifecycle, for any number of descriptors, peers and      *)
(* clients and each of the three pollers.                                  *)
(***************************************************************************)
EXTENDS Lifecycle, FiniteSetTheorems, WellFoundedInduction, TLAPS

USE DEF kernelVars, pollerVars, listenerVars, userVars, countVars, ghostVars

Events == [fd : Fd, about : Socket \cup {App, Free}, close : BOOLEAN, read : BOOLEAN]

Objects == [connected : BOOLEAN, fd : Fd \cup {-1}]

\* Where the listener handles an event, and where it has left its loop.
Handling == {"closeServer", "closeConnection", "disconnect", "accept", "setUp", "emplace",
             "unwind", "read", "recv"}
Over     == {"shutDown", "done"}

KernelOK ==
    /\ table \in [Fd -> Socket \cup {App, Free}]
    /\ backlog \subseteq Peer /\ fresh \subseteq Peer /\ hup \subseteq Connections
    /\ inbox \in [Connections -> Nat] /\ failing \in BOOLEAN /\ edge \subseteq Socket

PollerOK ==
    /\ backend \in Backends /\ attached \subseteq Client
    /\ watched \subseteq Fd /\ batch \subseteq Events

ObjectOK ==
    /\ object \in [Socket -> Objects]
    /\ internal \in [Fd -> Peer \cup {NoOne}]

\* The listener's thread with its locals.
ListenerOK ==
    /\ pc \in Points /\ cn \in Connections \cup {NoOne}
    /\ accepted \in {NoAccept} \cup [peer : Peer, fd : Fd]
    /\ accepted # NoAccept <=> pc \in {"setUp", "emplace", "unwind", "aborted"}
    /\ cur \in Events \cup {NoEvent} /\ (pc \in Handling => cur \in Events)
    /\ pc = "disconnect" => cn \in Connections
    /\ pc \notin {"disconnect", "recv"} => cn = NoOne

\* The other thread and the mutex it holds.
UserOK ==
    /\ user \in {"idle", "close", "getFd"} /\ target \in Socket \cup {NoOne}
    /\ (user = "idle") <=> (target = NoOne)
    /\ user = "getFd" => target = Server
    /\ user = "close" => target \in Connections
    /\ locked = IF user = "idle" THEN {} ELSE {target}

TypeInv == KernelOK /\ PollerOK /\ ObjectOK /\ ListenerOK /\ UserOK
------------------------------------------------------------------------------
\* The names of the model are different.
LEMMA Names ==
    /\ Server \notin Connections /\ App \notin Socket /\ Free \notin Socket /\ NoOne \notin Socket
    /\ App # Free /\ NoOne # App /\ NoOne # Free
    /\ \A c \in Connections : (c \in Peer) <=> ~(c \in Client)
    /\ Connections \subseteq Socket /\ Server \in Socket /\ Peer \subseteq Connections /\ Client \subseteq Connections
  BY NamesAssumption DEF Connections, Socket

LEMMA Numbers == Fd \subseteq Nat /\ 0 \notin Fd /\ -1 \notin Fd
  BY PollerAssumption

\* The lowest of some descriptors is one of them.
LEMMA Least ==
    ASSUME NEW S \in SUBSET Fd, S # {}
    PROVE  Min(S) \in S
<1> DEFINE R == {ss \in Nat \X Nat : ss[1] < ss[2]}
<1>1. S \subseteq Nat
  BY Numbers
<1>2. IsWellFoundedOn(R, Nat)
  BY NatLessThanWellFounded DEF OpToRel
<1>3. \A x, y \in S : y < x => <<y, x>> \in R
  BY <1>1
<1> HIDE DEF R
<1>4. PICK x \in S : \A y \in S : ~(<<y, x>> \in R)
  BY <1>1, <1>2, WFMin
<1>5. ASSUME NEW y \in S
      PROVE  x =< y
  <2>1. x \in Nat /\ y \in Nat
    BY <1>1
  <2>2. ~(y < x)
    BY <1>3, <1>4
  <2> QED
    BY <2>1, <2>2
<1> QED
  BY <1>4, <1>5 DEF Min

LEMMA LeastFree ==
    ASSUME FreeFds # {}
    PROVE  Min(FreeFds) \in Fd /\ table[Min(FreeFds)] = Free
<1>1. FreeFds \in SUBSET Fd
  BY DEF FreeFds
<1>2. Min(FreeFds) \in FreeFds
  BY <1>1, Least
<1> QED
  BY <1>2 DEF FreeFds

LEMMA TypeParts == LifecycleTypeOK <=>
    /\ KernelOK /\ PollerOK /\ ObjectOK /\ locked \subseteq Socket
    /\ pc \in Points /\ cn \in Connections \cup {NoOne}
    /\ accepted \in {NoAccept} \cup [peer : Peer, fd : Fd]
    /\ accepted # NoAccept <=> pc \in {"setUp", "emplace", "unwind", "aborted"}
    /\ user \in {"idle", "close", "getFd"} /\ target \in Socket \cup {NoOne}
  BY DEF LifecycleTypeOK, KernelOK, PollerOK, ObjectOK, Events, Objects

LEMMA TypeEnough == TypeInv => LifecycleTypeOK
  BY TypeParts DEF TypeInv, ListenerOK, UserOK
------------------------------------------------------------------------------
\* close(f) keeps the types of the kernel's variables.
LEMMA CloseTypes ==
    ASSUME KernelOK, NEW f, NEW s, Close(f, s), UNCHANGED <<backlog, fresh, failing>>
    PROVE  KernelOK'
<1>1. CASE f \in Fd
  <2>1. table' \in [Fd -> Socket \cup {App, Free}]
    BY <1>1 DEF Close, KernelOK
  <2>2. inbox' \in [Connections -> Nat]
    BY <1>1 DEF Close, KernelOK
  <2>3. hup' \subseteq Connections /\ edge' \subseteq Socket
    BY <1>1 DEF Close, KernelOK
  <2> QED
    BY <2>1, <2>2, <2>3 DEF KernelOK
<1>2. CASE f \notin Fd
  BY <1>2 DEF Close, KernelOK
<1> QED
  BY <1>1, <1>2

\* An event reports a descriptor; what epoll has found readable is read or closed.
LEMMA ReportTypes ==
    ASSUME KernelOK, PollerOK, NEW f \in Fd, NEW answer \in Answers
    PROVE  /\ Report(f, answer) \in Events
           /\ Report(f, answer).fd = f /\ Report(f, answer).about = table[f]
           /\ backend = "select" => ~Report(f, answer).close
           /\ backend = "epoll" /\ Readable(table[f]) => Report(f, answer).read \/ Report(f, answer).close
<1>1. table[f] \in Socket \cup {App, Free} /\ failing \in BOOLEAN
  BY DEF KernelOK
<1>2. answer.close \in BOOLEAN /\ answer.read \in BOOLEAN
  BY DEF Answers
<1> DEFINE c == EpollClose(table[f]) \/ WsapollClose(table[f], answer)
           r == IsRead(table[f], answer)
<1>3. c \in BOOLEAN
  BY <1>1, <1>2 DEF EpollClose, WsapollClose, HungUp
<1>4. r \in BOOLEAN
  BY <1>2 DEF IsRead, Readable
<1>5. Report(f, answer) = [fd |-> f, about |-> table[f], close |-> c, read |-> r]
  BY DEF Report
<1>6. backend = "select" => ~c
  BY DEF EpollClose, WsapollClose
<1>7. backend = "epoll" /\ Readable(table[f]) => r \/ c
  BY DEF IsRead, EpollClose, Readable, HungUp
<1> HIDE DEF c, r
<1>8. Report(f, answer) \in Events
  BY <1>1, <1>3, <1>4, <1>5 DEF Events
<1> QED
  BY <1>5, <1>6, <1>7, <1>8

\* A batch is of reports of watched descriptors; epoll reports what it takes
\* from its edges, and keeps what it could not take.
LEMMA WaitReports ==
    ASSUME KernelOK, PollerOK, Wait
    PROVE  /\ \E taken \in SUBSET watched, answer \in Answers :
                /\ batch' = {Report(f, answer) : f \in taken}
                /\ backend = "epoll" =>
                     /\ \A f \in taken : Readable(table[f])
                     /\ \A s \in edge : Readable(s) => s \in edge' \/ \E f \in taken : table[f] = s
           /\ edge' \subseteq edge
<1>1. CASE backend = "epoll"
  <2> DEFINE ready == {f \in watched : table[f] \in edge /\ Readable(table[f])}
  <2>1. PICK taken \in SUBSET ready, answer \in Answers :
           /\ batch' = {Report(f, answer) : f \in taken}
           /\ edge' = {s \in edge : Readable(s)} \ {table[f] : f \in taken}
    BY <1>1 DEF Wait, WaitEpoll
  <2>2. taken \in SUBSET watched /\ \A f \in taken : Readable(table[f])
    OBVIOUS
  <2>3. \A s \in edge : Readable(s) => s \in edge' \/ \E f \in taken : table[f] = s
    BY <2>1
  <2> QED
    BY <2>1, <2>2, <2>3
<1>2. CASE backend # "epoll"
  <2>0. PICK quiet \in SUBSET OpenOf(App), answer \in Answers :
           /\ batch' = {Report(f, answer) :
                           f \in IF backend = "select" /\ Bad # {} THEN watched ELSE Ready(quiet)}
           /\ edge' = edge
    BY <1>2 DEF Wait, WaitLevel
  <2> DEFINE taken == IF backend = "select" /\ Bad # {} THEN watched ELSE Ready(quiet)
  <2>1. batch' = {Report(f, answer) : f \in taken} /\ edge' = edge
    BY <2>0
  <2>2. taken \in SUBSET watched
    BY DEF Ready
  <2> HIDE DEF taken
  <2> QED
    BY <1>2, <2>1, <2>2
<1> QED
  BY <1>1, <1>2
------------------------------------------------------------------------------
LEMMA InitTypes == Init => TypeInv
<1> SUFFICES ASSUME Init PROVE TypeInv
  OBVIOUS
<1>1. KernelOK
  BY Names DEF Init, KernelOK, Connections, Socket
<1>2. PollerOK
  BY DEF Init, PollerOK
<1>3. \A s \in Socket : OpenOf(s) # {} => Min(OpenOf(s)) \in OpenOf(s)
  <2>1. \A s \in Socket : OpenOf(s) \in SUBSET Fd
    BY DEF OpenOf
  <2> QED
    BY <2>1, Least
<1>4. ObjectOK
  BY <1>3, Names DEF Init, ObjectOK, Objects, Closed, OpenOf
<1>5. ListenerOK
  BY DEF Init, ListenerOK, Points, Stopped, Handling, NoAccept
<1>6. UserOK
  BY DEF Init, UserOK
<1> QED
  BY <1>1, <1>2, <1>4, <1>5, <1>6 DEF TypeInv

LEMMA KernelKept == TypeInv /\ [Next]_lcVars => KernelOK'
<1> SUFFICES ASSUME TypeInv, [Next]_lcVars PROVE KernelOK'
  OBVIOUS
<1> USE DEF TypeInv
<1>1. CASE UNCHANGED kernelVars
  BY <1>1 DEF KernelOK
<1>2. ASSUME NEW f, NEW s, Close(f, s), UNCHANGED <<backlog, fresh, failing>>
      PROVE  KernelOK'
  BY <1>2, CloseTypes
<1>3. CASE TakeBatch
  BY <1>3, WaitReports DEF TakeBatch, KernelOK
<1>4. CASE CloseServer
  BY <1>2, <1>4 DEF CloseServer
<1>5. CASE SafeDisconnect
  BY <1>1, <1>2, <1>5 DEF SafeDisconnect
<1>6. CASE Accept
  <2>1. CASE UNCHANGED <<table, backlog>>
    BY <1>1, <1>6, <2>1 DEF Accept
  <2>2. CASE FreeFds # {} /\ \E p \in backlog : table' = [table EXCEPT ![Min(FreeFds)] = p] /\ backlog' = backlog \ {p}
    BY <1>6, <2>2, LeastFree, Names DEF Accept, KernelOK
  <2> QED
    BY <1>6, <2>1, <2>2 DEF Accept
<1>7. CASE SetUp
  <2>1. CASE AddFd(accepted.fd) /\ UNCHANGED <<table, inbox, hup>>
    <3>1. accepted.fd \in Fd
      BY <1>7 DEF SetUp, ListenerOK
    <3>2. table[accepted.fd] \in Socket \cup {App, Free}
      BY <3>1 DEF KernelOK
    <3>3. Readable(table[accepted.fd]) => table[accepted.fd] \in Socket
      BY <3>2, Names DEF Readable
    <3> QED
      BY <1>7, <2>1, <3>3 DEF SetUp, AddFd, KernelOK
  <2> QED
    BY <1>2, <1>7, <2>1 DEF SetUp
<1>8. CASE EmplaceFails
  BY <1>2, <1>8 DEF EmplaceFails
<1>9. CASE Unwind
  BY <1>2, <1>9 DEF Unwind
<1>10. CASE ReceiveMessage
  <2>1. inbox' \in [Connections -> Nat]
    <3>1. CASE table[cur.fd] = App
      BY <1>10, <3>1 DEF ReceiveMessage, KernelOK
    <3>2. CASE table[cur.fd] # App
      BY <1>10, <3>2 DEF ReceiveMessage, KernelOK
    <3> QED
      BY <3>1, <3>2
  <2> QED
    BY <1>10, <2>1 DEF ReceiveMessage, KernelOK
<1>11. CASE ShutDown
  BY <1>2, <1>11 DEF ShutDown
<1>12. CASE CloseTarget
  BY <1>1, <1>2, <1>12 DEF CloseTarget
<1>13. CASE DestroyServer
  BY <1>2, <1>13 DEF DestroyServer
<1>14. CASE Surroundings
  <2>1. ASSUME NEW s \in Socket, Happens(s) PROVE edge' \subseteq Socket
    BY <2>1 DEF Happens, KernelOK
  <2>2. ASSUME NEW p \in Peer, PeerConnects(p) PROVE KernelOK'
    BY <2>1, <2>2, Names DEF PeerConnects, KernelOK
  <2>3. ASSUME NEW c \in Connections, PeerSends(c) PROVE KernelOK'
    <3>1. inbox' \in [Connections -> Nat]
      BY <2>3 DEF PeerSends, KernelOK
    <3> QED
      BY <2>1, <2>3, <3>1, Names DEF PeerSends, KernelOK
  <2>4. ASSUME NEW c \in Connections, PeerCloses(c) PROVE KernelOK'
    BY <2>1, <2>4, Names DEF PeerCloses, KernelOK
  <2>5. CASE ServerFails
    BY <2>1, <2>5, Names DEF ServerFails, KernelOK
  <2>6. CASE AppOpens
    BY <2>6, LeastFree DEF AppOpens, KernelOK
  <2>7. CASE AppCloses
    BY <2>7 DEF AppCloses, OpenOf, KernelOK
  <2> QED
    BY <1>14, <2>2, <2>3, <2>4, <2>5, <2>6, <2>7 DEF Surroundings
<1>15. CASE \E c \in Connections : Disconnect(c)
  BY <1>1, <1>15 DEF Disconnect
<1>16. CASE NextEvent \/ FindConnection \/ AcceptFails \/ Emplace \/ GetConnection
  BY <1>1, <1>16 DEF NextEvent, FindConnection, AcceptFails, Emplace, GetConnection
<1>17. CASE ReceiveNothing \/ LeaveLoop \/ Release \/ DisconnectServer \/ Stop \/ UNCHANGED lcVars
  BY <1>1, <1>17 DEF ReceiveNothing, LeaveLoop, Release, DisconnectServer, Stop, lcVars
<1> QED
  BY <1>3, <1>4, <1>5, <1>6, <1>7, <1>8, <1>9, <1>10, <1>11, <1>12, <1>13, <1>14, <1>15, <1>16, <1>17
     DEF Next, Listener, User

LEMMA Settings == [Next]_lcVars => UNCHANGED <<backend, attached>>
<1> SUFFICES ASSUME [Next]_lcVars PROVE UNCHANGED <<backend, attached>>
  OBVIOUS
<1>1. CASE TakeBatch \/ NextEvent \/ CloseServer \/ FindConnection \/ SafeDisconnect \/ Accept
  BY <1>1 DEF TakeBatch, NextEvent, CloseServer, FindConnection, SafeDisconnect, Accept
<1>2. CASE AcceptFails \/ SetUp \/ Emplace \/ EmplaceFails \/ Unwind \/ GetConnection
  BY <1>2 DEF AcceptFails, SetUp, Emplace, EmplaceFails, Unwind, GetConnection
<1>3. CASE ReceiveMessage \/ ReceiveNothing \/ LeaveLoop \/ ShutDown \/ Release
  BY <1>3 DEF ReceiveMessage, ReceiveNothing, LeaveLoop, ShutDown, Release
<1>4. CASE (\E c \in Connections : Disconnect(c)) \/ CloseTarget \/ DisconnectServer \/ Stop
  BY <1>4 DEF Disconnect, CloseTarget, DisconnectServer, Stop
<1>5. CASE DestroyServer \/ Surroundings \/ UNCHANGED lcVars
  BY <1>5 DEF DestroyServer, Surroundings, lcVars
<1> QED
  BY <1>1, <1>2, <1>3, <1>4, <1>5 DEF Next, Listener, User

LEMMA PollerKept == TypeInv /\ [Next]_lcVars => PollerOK'
<1> SUFFICES ASSUME TypeInv, [Next]_lcVars PROVE PollerOK'
  OBVIOUS
<1> USE DEF TypeInv
<1>1. UNCHANGED <<backend, attached>>
  BY Settings
<1>2. CASE watched' \subseteq watched /\ batch' \subseteq batch
  BY <1>1, <1>2 DEF PollerOK
<1>3. CASE TakeBatch
  <2>1. PICK taken \in SUBSET watched, answer \in Answers : batch' = {Report(f, answer) : f \in taken}
    BY <1>3, WaitReports DEF TakeBatch
  <2>2. batch' \subseteq Events
    BY <2>1, ReportTypes DEF PollerOK
  <2> QED
    BY <1>1, <1>3, <2>2 DEF TakeBatch, PollerOK
<1>4. CASE SetUp
  BY <1>1, <1>4 DEF SetUp, AddFd, PollerOK, ListenerOK
<1>5. CASE NextEvent \/ CloseServer \/ SafeDisconnect
  BY <1>2, <1>5 DEF NextEvent, CloseServer, SafeDisconnect, Unreported
<1>6. CASE EmplaceFails \/ Unwind \/ ShutDown \/ Release \/ CloseTarget
  BY <1>2, <1>6 DEF EmplaceFails, Unwind, ShutDown, Release, CloseTarget, Unreported, Forgotten
<1>7. CASE \E c \in Connections : Disconnect(c)
  BY <1>2, <1>7 DEF Disconnect, Removed, Unreported
<1>8. CASE FindConnection \/ Accept \/ AcceptFails \/ Emplace \/ GetConnection \/ ReceiveMessage
  BY <1>2, <1>8 DEF FindConnection, Accept, AcceptFails, Emplace, GetConnection, ReceiveMessage
<1>9. CASE ReceiveNothing \/ LeaveLoop \/ DisconnectServer \/ Stop \/ DestroyServer \/ Surroundings \/ UNCHANGED lcVars
  BY <1>2, <1>9 DEF ReceiveNothing, LeaveLoop, DisconnectServer, Stop, DestroyServer, Surroundings, lcVars
<1> QED
  BY <1>3, <1>4, <1>5, <1>6, <1>7, <1>8, <1>9 DEF Next, Listener, User

\* The connection that a number leads to.
LEMMA LookupTypes ==
    ASSUME TypeInv, NEW f \in Fd
    PROVE  /\ Lookup(f) \in Connections \cup {NoOne}
           /\ \/ Lookup(f) \in attached /\ object[Lookup(f)].fd = f
              \/ Lookup(f) = internal[f] /\ \A c \in attached : object[c].fd # f
  BY Names DEF Lookup, TypeInv, PollerOK, ObjectOK

LEMMA ObjectValues ==
    /\ Closed \in Objects /\ ~Closed.connected /\ Closed.fd = -1
    /\ \A f \in Fd : LET o == [connected |-> TRUE, fd |-> f] IN o \in Objects /\ o.connected /\ o.fd = f
  BY DEF Closed, Objects

LEMMA ObjectKept == TypeInv /\ [Next]_lcVars => ObjectOK'
<1> SUFFICES ASSUME TypeInv, [Next]_lcVars PROVE ObjectOK'
  OBVIOUS
<1> USE DEF TypeInv
<1>1. CASE UNCHANGED <<object, internal>>
  BY <1>1 DEF ObjectOK
<1>2. ASSUME NEW c \in Socket, object' \in {object, [object EXCEPT ![c] = Closed]}, UNCHANGED internal
      PROVE  ObjectOK'
  BY <1>2, ObjectValues DEF ObjectOK
<1>3. ASSUME NEW c PROVE Told(c) \in [Fd -> Peer \cup {NoOne}]
  BY DEF Told, ObjectOK
<1>4. CASE FindConnection
  <2>1. internal' \in [Fd -> Peer \cup {NoOne}]
    BY <1>4 DEF FindConnection, ObjectOK
  <2> QED
    BY <1>4, <2>1 DEF FindConnection, ObjectOK
<1>5. CASE SafeDisconnect
  <2>1. cn \in Socket
    BY <1>5, Names DEF SafeDisconnect, ListenerOK
  <2>2. [object EXCEPT ![cn] = object[cn]] = object
    BY <2>1 DEF ObjectOK
  <2> QED
    BY <1>2, <1>5, <2>1, <2>2 DEF SafeDisconnect
<1>6. CASE Emplace
  <2>1. accepted.peer \in Peer /\ accepted.fd \in Fd
    BY <1>6 DEF Emplace, ListenerOK
  <2>2. [object EXCEPT ![accepted.peer] = [connected |-> TRUE, fd |-> accepted.fd]] \in [Socket -> Objects]
    BY <2>1, ObjectValues DEF ObjectOK
  <2>3. [internal EXCEPT ![accepted.fd] = accepted.peer] \in [Fd -> Peer \cup {NoOne}]
    BY <2>1 DEF ObjectOK
  <2> QED
    BY <1>1, <1>6, <2>2, <2>3 DEF Emplace, ObjectOK
<1>7. CASE ShutDown
  <2>1. PICK p \in Peer : internal' = Told(p) /\ object' = [object EXCEPT ![p] = Closed]
    BY <1>7 DEF ShutDown
  <2>2. [object EXCEPT ![p] = Closed] \in [Socket -> Objects]
    BY ObjectValues DEF ObjectOK
  <2> QED
    BY <1>3, <2>1, <2>2 DEF ObjectOK
<1>8. CASE Release
  BY <1>8 DEF Release, ObjectOK
<1>9. CASE \E c \in Connections : Disconnect(c)
  BY <1>3, <1>9 DEF Disconnect, ObjectOK
<1>10. CASE CloseTarget
  BY <1>2, <1>10, Names DEF CloseTarget, UserOK
<1>11. CASE DestroyServer
  BY <1>2, <1>11, Names DEF DestroyServer
<1>12. CASE TakeBatch \/ NextEvent \/ CloseServer \/ Accept \/ AcceptFails \/ SetUp \/ EmplaceFails
  BY <1>1, <1>12 DEF TakeBatch, NextEvent, CloseServer, Accept, AcceptFails, SetUp, EmplaceFails
<1>13. CASE Unwind \/ GetConnection \/ ReceiveMessage \/ ReceiveNothing \/ LeaveLoop
  BY <1>1, <1>13 DEF Unwind, GetConnection, ReceiveMessage, ReceiveNothing, LeaveLoop
<1>14. CASE DisconnectServer \/ Stop \/ Surroundings \/ UNCHANGED lcVars
  BY <1>1, <1>14 DEF DisconnectServer, Stop, Surroundings, lcVars
<1> QED
  BY <1>4, <1>5, <1>6, <1>7, <1>8, <1>9, <1>10, <1>11, <1>12, <1>13, <1>14 DEF Next, Listener, User

LEMMA ListenerKept == TypeInv /\ [Next]_lcVars => ListenerOK'
<1> SUFFICES ASSUME TypeInv, [Next]_lcVars PROVE ListenerOK'
  OBVIOUS
<1> USE DEF TypeInv, ListenerOK, Points, Stopped, Handling, Goto, NoAccept
<1>1. CASE UNCHANGED listenerVars
  BY <1>1
<1>2. CASE Handled
  BY <1>2 DEF Handled
<1>3. CASE TakeBatch
  BY <1>1, <1>3 DEF TakeBatch
<1>4. CASE NextEvent
  BY <1>4 DEF NextEvent, MayReturn, PollerOK
<1>5. CASE FindConnection
  <2>1. cur \in Events /\ cur.fd \in Fd
    BY <1>5 DEF FindConnection, Events
  <2> QED
    BY <1>2, <1>5, <2>1, LookupTypes, Names DEF FindConnection
<1>6. CASE CloseServer \/ SafeDisconnect \/ AcceptFails \/ Unwind
  BY <1>2, <1>6 DEF CloseServer, SafeDisconnect, AcceptFails, Unwind
<1>7. CASE Accept
  <2>1. ASSUME NEW p \in backlog, FreeFds # {}, accepted' = [peer |-> p, fd |-> Min(FreeFds)],
               pc' = "setUp", UNCHANGED <<cur, cn>>
        PROVE  ListenerOK'
    <3>1. accepted' \in [peer : Peer, fd : Fd]
      BY <2>1, LeastFree DEF KernelOK
    <3>2. accepted' # [peer |-> NoOne, fd |-> 0]
      BY <2>1, <3>1, LeastFree, Numbers
    <3> QED
      BY <1>7, <2>1, <3>1, <3>2 DEF Accept
  <2> QED
    BY <1>2, <1>7, <2>1 DEF Accept
<1>8. CASE SetUp
  BY <1>2, <1>8 DEF SetUp
<1>9. CASE Emplace
  BY <1>9 DEF Emplace
<1>10. CASE EmplaceFails
  BY <1>2, <1>10 DEF EmplaceFails
<1>11. CASE GetConnection
  <2>1. cur \in Events /\ cur.fd \in Fd
    BY <1>11 DEF GetConnection, Events
  <2> QED
    BY <1>11, <2>1, LookupTypes DEF GetConnection
<1>12. CASE ReceiveMessage
  BY <1>12 DEF ReceiveMessage
<1>13. CASE ReceiveNothing
  <2>1. [cur EXCEPT !.close = FALSE] \in Events
    BY <1>13 DEF ReceiveNothing, Events
  <2> QED
    BY <1>2, <1>13, <2>1 DEF ReceiveNothing
<1>14. CASE LeaveLoop \/ ShutDown \/ Release
  BY <1>14 DEF LeaveLoop, ShutDown, Release, Waiting
<1>15. CASE (\E c \in Connections : Disconnect(c)) \/ CloseTarget \/ DisconnectServer \/ Stop
  BY <1>1, <1>15 DEF Disconnect, CloseTarget, DisconnectServer, Stop
<1>16. CASE DestroyServer \/ Surroundings \/ UNCHANGED lcVars
  BY <1>1, <1>16 DEF DestroyServer, Surroundings, lcVars
<1> QED
  BY <1>3, <1>4, <1>5, <1>6, <1>7, <1>8, <1>9, <1>10, <1>11, <1>12, <1>13, <1>14, <1>15, <1>16
     DEF Next, Listener, User

LEMMA UserKept == TypeInv /\ [Next]_lcVars => UserOK'
<1> SUFFICES ASSUME TypeInv, [Next]_lcVars PROVE UserOK'
  OBVIOUS
<1> USE DEF TypeInv, UserOK
<1>1. CASE UNCHANGED <<user, target, locked>>
  BY <1>1
<1>2. CASE \E c \in Connections : Disconnect(c)
  BY <1>2, Names DEF Disconnect
<1>3. CASE CloseTarget
  BY <1>3 DEF CloseTarget
<1>4. CASE DisconnectServer
  BY <1>4, Names DEF DisconnectServer
<1>5. CASE TakeBatch \/ NextEvent \/ CloseServer \/ FindConnection \/ SafeDisconnect \/ Accept
  BY <1>1, <1>5 DEF TakeBatch, NextEvent, CloseServer, FindConnection, SafeDisconnect, Accept
<1>6. CASE AcceptFails \/ SetUp \/ Emplace \/ EmplaceFails \/ Unwind \/ GetConnection
  BY <1>1, <1>6 DEF AcceptFails, SetUp, Emplace, EmplaceFails, Unwind, GetConnection
<1>7. CASE ReceiveMessage \/ ReceiveNothing \/ LeaveLoop \/ ShutDown \/ Release
  BY <1>1, <1>7 DEF ReceiveMessage, ReceiveNothing, LeaveLoop, ShutDown, Release
<1>8. CASE Stop \/ DestroyServer \/ Surroundings \/ UNCHANGED lcVars
  BY <1>1, <1>8 DEF Stop, DestroyServer, Surroundings, lcVars
<1> QED
  BY <1>2, <1>3, <1>4, <1>5, <1>6, <1>7, <1>8 DEF Next, Listener, User

LEMMA TypesKept == TypeInv /\ [Next]_lcVars => TypeInv'
  BY KernelKept, PollerKept, ObjectKept, ListenerKept, UserKept DEF TypeInv

\* Types, and of whom the mutex is that a thread waits for.
THEOREM LifecycleTypeCorrect == Spec => []LifecycleTypeOK
<1>1. TypeInv => LifecycleTypeOK
  BY TypeEnough
<1> QED
  BY InitTypes, TypesKept, <1>1, PTL DEF Spec
------------------------------------------------------------------------------
(* Who has which socket. *)

\* The socket being accepted, the connection that close_connection has taken
\* out, and the one another thread is about to close.
Held    == IF pc \in {"setUp", "emplace", "aborted"} THEN accepted ELSE NoAccept
Dropped == IF pc = "disconnect" THEN cn ELSE NoOne
Closing == IF user = "close" THEN target ELSE NoOne

Has(o, f) == o.connected /\ o.fd = f

\* A connected object has a descriptor, which is of its socket; the server's
\* may have been closed by the listener, and taken by the application.
ObjectsInv ==
    /\ \A s \in Socket : object[s].connected <=> object[s].fd \in Fd
    /\ \A c \in Connections : object[c].connected => table[object[c].fd] = c
    /\ object[Server].connected => table[object[Server].fd] \in {Server, App, Free}

\* An open socket is the one of its object, and somebody will close it.
KeptInv == \A f \in Fd :
    /\ table[f] = Server => Has(object[Server], f)
    /\ table[f] \in Client => /\ Has(object[table[f]], f)
                              /\ table[f] \in attached /\ internal[f] = NoOne
    /\ table[f] \in Peer =>
         \/ Held.peer = table[f] /\ Held.fd = f
         \/ /\ Has(object[table[f]], f)
            /\ \/ internal[f] = table[f] \/ Dropped = table[f]
               \/ attached = {} /\ Closing = table[f]

\* A peer before Emplace.
New(p) == ~object[p].connected /\ Closing # p /\ \A f \in Fd : internal[f] # p

NewInv ==
    /\ \A p \in fresh \cup backlog : New(p) /\ Held.peer # p
    /\ fresh \cap backlog = {}
    /\ Held # NoAccept => New(Held.peer) /\ table[Held.fd] = Held.peer

\* What the handler of a failed emplace closes once more is not open, or the
\* application's.
UnwindInv == pc = "unwind" => table[accepted.fd] \in {App, Free}

\* An element of the map that is connected has the number it stands under.
\* With no client attached all are, and no other thread is closing one.
MapInv == \A f \in Fd : internal[f] # NoOne =>
    /\ object[internal[f]].connected => object[internal[f]].fd = f
    /\ attached = {} => /\ object[internal[f]].connected
                        /\ internal[f] # Dropped /\ internal[f] # Closing

OwnInv == ObjectsInv /\ KeptInv /\ NewInv /\ UnwindInv /\ MapInv

\* The server's events go by the server's number.
AtServer == 
    /\ pc \in {"closeServer", "accept", "setUp", "emplace", "unwind"} => IsServer(cur.fd)
    /\ pc \in {"closeConnection", "disconnect", "read", "recv"} => ~IsServer(cur.fd)

(* What a step does to the sockets. *)
SameHands == UNCHANGED <<Held, Dropped, Closing>>

Rests == UNCHANGED <<table, object, internal, fresh, backlog>> /\ SameHands

PeerQueues(p) ==
    /\ p \in fresh /\ fresh' = fresh \ {p} /\ backlog' = backlog \cup {p}
    /\ UNCHANGED <<table, object, internal>> /\ SameHands

AppTakes(f) ==
    /\ f \in Fd /\ table[f] = Free /\ table' = [table EXCEPT ![f] = App]
    /\ UNCHANGED <<object, internal, fresh, backlog>> /\ SameHands

Takes(p, f) ==
    /\ pc = "accept" /\ p \in backlog /\ f \in Fd /\ table[f] = Free /\ f # object[Server].fd
    /\ table' = [table EXCEPT ![f] = p] /\ backlog' = backlog \ {p}
    /\ Held = NoAccept /\ Held' = [peer |-> p, fd |-> f]
    /\ UNCHANGED <<object, internal, fresh, Dropped, Closing>>

\* A number that is no connection's is closed.
Frees(f) ==
    /\ f \in Fd /\ table[f] \notin Connections /\ table' = [table EXCEPT ![f] = Free]
    /\ table[f] = Server => CloseServer \/ DestroyServer
    /\ \/ UNCHANGED object
       \/ object' = [object EXCEPT ![Server] = Closed] /\ f = object[Server].fd
    /\ UNCHANGED <<internal, fresh, backlog>> /\ SameHands

DropsHeld ==
    /\ Held # NoAccept /\ Held' = NoAccept
    /\ table' = [table EXCEPT ![Held.fd] = Free]
    /\ UNCHANGED <<object, internal, fresh, backlog, Dropped, Closing>>

Places ==
    /\ Held # NoAccept /\ Held' = NoAccept /\ Dropped = NoOne /\ internal[Held.fd] = NoOne
    /\ object' = [object EXCEPT ![Held.peer] = [connected |-> TRUE, fd |-> Held.fd]]
    /\ internal' = [internal EXCEPT ![Held.fd] = Held.peer]
    /\ UNCHANGED <<table, fresh, backlog, Dropped, Closing>>

\* A connection is taken out of the map, or is a client.
TakesOut(f) ==
    /\ f \in Fd /\ f = cur.fd /\ pc = "closeConnection" /\ Dropped = NoOne /\ Dropped' # NoOne
    /\ \/ /\ Dropped' \in attached /\ object[Dropped'].fd = f /\ UNCHANGED internal
       \/ /\ Dropped' = internal[f] /\ internal' = [internal EXCEPT ![f] = NoOne]
          /\ \A c \in attached : object[c].fd # f
    /\ UNCHANGED <<table, object, fresh, backlog, Held, Closing>>

\* A connection is closed, by who has it or has told it.
Shuts(c) ==
    /\ c \in Connections
    /\ IF object[c].connected
       THEN /\ table' = [table EXCEPT ![object[c].fd] = Free]
            /\ object' = [object EXCEPT ![c] = Closed]
       ELSE UNCHANGED <<table, object>>
    /\ \/ SafeDisconnect /\ c = Dropped /\ Dropped' = NoOne /\ UNCHANGED <<internal, Closing>>
       \/ CloseTarget /\ c = Closing /\ Closing' = NoOne /\ UNCHANGED <<internal, Dropped>>
       \/ pc = "shutDown" /\ internal' = Told(c) /\ UNCHANGED <<Dropped, Closing>>
    /\ UNCHANGED <<fresh, backlog, Held>>

Disconnects(c) ==
    /\ c \in Connections /\ Disconnect(c)
    /\ Closing = NoOne /\ Closing' = c /\ internal' = Told(c)
    /\ UNCHANGED <<table, object, fresh, backlog, Held, Dropped>>

\* The map is cleared.
Clears ==
    /\ pc = "shutDown"
    /\ \A f \in Fd : internal[f] # NoOne => ~object[internal[f]].connected
    /\ internal' = [f \in Fd |-> NoOne]
    /\ UNCHANGED <<table, object, fresh, backlog>> /\ SameHands
------------------------------------------------------------------------------
LEMMA AtServerInit == Init => AtServer
  BY DEF Init, AtServer

\* Only the destructor of the server changes the server's object.
LEMMA ServerNumber ==
    ASSUME TypeInv, [Next]_lcVars, ~DestroyServer
    PROVE  object'[Server] = object[Server]
<1>1. CASE TakeBatch \/ NextEvent \/ CloseServer \/ FindConnection \/ Accept \/ AcceptFails
  BY <1>1 DEF TakeBatch, NextEvent, CloseServer, FindConnection, Accept, AcceptFails
<1>2. CASE SetUp \/ EmplaceFails \/ Unwind \/ GetConnection \/ ReceiveMessage \/ ReceiveNothing
  BY <1>2 DEF SetUp, EmplaceFails, Unwind, GetConnection, ReceiveMessage, ReceiveNothing
<1>3. CASE LeaveLoop \/ Release \/ (\E c \in Connections : Disconnect(c)) \/ DisconnectServer
  BY <1>3 DEF LeaveLoop, Release, Disconnect, DisconnectServer
<1>4. CASE Stop \/ Surroundings \/ UNCHANGED lcVars
  BY <1>4 DEF Stop, Surroundings, lcVars
<1>5. CASE SafeDisconnect
  BY <1>5, Names DEF SafeDisconnect, TypeInv, ListenerOK, ObjectOK
<1>6. CASE Emplace
  <2>1. accepted.peer # Server
    BY <1>6, Names DEF Emplace, TypeInv, ListenerOK, NoAccept
  <2> QED
    BY <1>6, <2>1, Names DEF Emplace, TypeInv, ObjectOK
<1>7. CASE ShutDown
  BY <1>7, Names DEF ShutDown, TypeInv, ObjectOK
<1>8. CASE CloseTarget
  <2>1. target # Server
    BY <1>8, Names DEF CloseTarget, TypeInv, UserOK, Unlocked
  <2> QED
    BY <1>8, <2>1, Names DEF CloseTarget, TypeInv, ObjectOK
<1> QED
  BY <1>1, <1>2, <1>3, <1>4, <1>5, <1>6, <1>7, <1>8 DEF Next, Listener, User

LEMMA AtServerKept == TypeInv /\ AtServer /\ [Next]_lcVars => AtServer'
<1> SUFFICES ASSUME TypeInv, AtServer, [Next]_lcVars PROVE AtServer'
  OBVIOUS
<1> USE DEF AtServer, Goto
<1>1. CASE DestroyServer
  BY <1>1 DEF DestroyServer
<1>2. CASE ~DestroyServer
  <2>1. object'[Server] = object[Server]
    BY <1>2, ServerNumber
  <2>2. CASE TakeBatch \/ NextEvent \/ CloseServer \/ FindConnection \/ SafeDisconnect
    BY <2>1, <2>2 DEF TakeBatch, NextEvent, CloseServer, FindConnection, SafeDisconnect, Handled, IsServer, Waiting
  <2>3. CASE Accept \/ AcceptFails \/ SetUp \/ Emplace \/ EmplaceFails
    BY <2>1, <2>3 DEF Accept, AcceptFails, SetUp, Emplace, EmplaceFails, Handled, IsServer
  <2>4. CASE Unwind \/ GetConnection \/ ReceiveMessage
    BY <2>1, <2>4 DEF Unwind, GetConnection, ReceiveMessage, Handled, IsServer
  <2>5. CASE ReceiveNothing
    <3>1. cur'.fd = cur.fd \/ pc' = "next"
      BY <2>5 DEF ReceiveNothing, Handled, TypeInv, ListenerOK, Handling, Events
    <3> QED
      BY <2>1, <2>5, <3>1 DEF ReceiveNothing, Handled, IsServer
  <2>6. CASE LeaveLoop \/ ShutDown \/ Release
    BY <2>6 DEF LeaveLoop, ShutDown, Release
  <2>7. CASE (\E c \in Connections : Disconnect(c)) \/ CloseTarget \/ DisconnectServer
    BY <2>1, <2>7 DEF Disconnect, CloseTarget, DisconnectServer, IsServer
  <2>8. CASE Stop \/ Surroundings \/ UNCHANGED lcVars
    BY <2>1, <2>8 DEF Stop, Surroundings, lcVars, IsServer
  <2> QED
    BY <1>2, <2>2, <2>3, <2>4, <2>5, <2>6, <2>7, <2>8 DEF Next, Listener, User
<1> QED
  BY <1>1, <1>2

\* Init gives every socket that is open to its object.
LEMMA OwnInit == Init => OwnInv
<1> SUFFICES ASSUME Init PROVE OwnInv
  OBVIOUS
<1>1. Held = NoAccept /\ Dropped = NoOne /\ Closing = NoOne
  BY DEF Init, Held, Dropped, Closing
<1>2. ASSUME NEW s \in Socket, OpenOf(s) # {}
      PROVE  Has(object[s], Min(OpenOf(s))) /\ Min(OpenOf(s)) \in Fd /\ table[Min(OpenOf(s))] = s
  <2>1. OpenOf(s) \in SUBSET Fd
    BY DEF OpenOf
  <2>2. Min(OpenOf(s)) \in OpenOf(s)
    BY <1>2, <2>1, Least
  <2>3. object[s] = [connected |-> TRUE, fd |-> Min(OpenOf(s))]
    BY <1>2 DEF Init
  <2> QED
    BY <2>2, <2>3 DEF OpenOf, Has
<1>3. ASSUME NEW s \in Socket, OpenOf(s) = {}
      PROVE  ~object[s].connected /\ object[s].fd \notin Fd
  <2>1. object[s] = Closed
    BY <1>3 DEF Init
  <2> QED
    BY <2>1, Numbers DEF Closed
<1>4. ASSUME NEW s \in attached \cup {Server}, NEW f \in Fd, table[f] = s
      PROVE  Has(object[s], f)
  <2>1. s \in Socket /\ f \in OpenOf(s) /\ Cardinality(OpenOf(s)) = 1
    BY <1>4, Names DEF Init, OpenOf
  <2>2. Min(OpenOf(s)) = f
    <3> DEFINE S == OpenOf(s)
    <3>1. S \in SUBSET Fd /\ f \in S /\ Min(S) \in S
      BY <2>1, Least DEF OpenOf
    <3>2. IsFiniteSet(S) /\ Cardinality(S) = 1
      BY <2>1, <3>1, FS_Subset, PollerAssumption
    <3> HIDE DEF S
    <3>3. \E x : S = {x}
      BY <3>2, FS_Singleton
    <3> QED
      BY <3>1, <3>3 DEF S
  <2> QED
    BY <1>2, <2>1, <2>2
<1>5. \A f \in Fd : table[f] \in {Free, Server} \cup attached
  BY DEF Init
<1>6. ObjectsInv
  <2>1. \A s \in Socket : object[s].connected <=> object[s].fd \in Fd
    BY <1>2, <1>3 DEF Has
  <2>2. \A s \in Socket : object[s].connected => table[object[s].fd] = s
    BY <1>2, <1>3 DEF Has
  <2> QED
    BY <2>1, <2>2, Names DEF ObjectsInv
<1>7. \A f \in Fd : internal[f] = NoOne
  BY DEF Init
<1>8. KeptInv
  <2>1. ASSUME NEW f \in Fd, table[f] \in Client PROVE table[f] \in attached
    BY <1>5, <2>1, NamesAssumption
  <2>2. ASSUME NEW f \in Fd PROVE table[f] \notin Peer
    BY <1>5, Names DEF Init
  <2> QED
    BY <1>4, <1>7, <2>1, <2>2 DEF KeptInv
<1>9. NewInv
  <2>1. ASSUME NEW p \in Peer PROVE OpenOf(p) = {} /\ p \in Socket /\ NoOne # p
    BY <1>5, Names DEF Init, OpenOf
  <2> QED
    BY <1>1, <1>3, <1>7, <2>1, Names DEF Init, NewInv, New, NoAccept
<1>10. MapInv
  BY <1>7 DEF MapInv
<1> QED
  BY <1>6, <1>8, <1>9, <1>10 DEF OwnInv, UnwindInv, Init

\* The connected object of a connection has its descriptor.
LEMMA OwnNumber ==
    ASSUME ObjectsInv, NEW c \in Connections, object[c].connected
    PROVE  object[c].fd \in Fd /\ table[object[c].fd] = c
  BY Names DEF ObjectsInv

\* Each step of the specification is one of these.
LEMMA StepKinds ==
    ASSUME TypeInv, OwnInv, AtServer, [Next]_lcVars
    PROVE  \/ Rests \/ DropsHeld \/ Places \/ Clears
           \/ \E p \in Peer : PeerQueues(p) \/ \E f \in Fd : Takes(p, f)
           \/ \E f \in Fd : AppTakes(f) \/ Frees(f) \/ TakesOut(f)
           \/ \E c \in Connections : Shuts(c) \/ Disconnects(c)
<1> DEFINE Goal == \/ Rests \/ DropsHeld \/ Places \/ Clears
                   \/ \E p \in Peer : PeerQueues(p) \/ \E f \in Fd : Takes(p, f)
                   \/ \E f \in Fd : AppTakes(f) \/ Frees(f) \/ TakesOut(f)
                   \/ \E c \in Connections : Shuts(c) \/ Disconnects(c)
<1> SUFFICES Goal
  OBVIOUS
<1> USE DEF SameHands, Goto
<1>1. ASSUME NEW f \in Fd, NEW s, Close(f, s) PROVE table' = [table EXCEPT ![f] = Free]
  BY <1>1 DEF Close
<1>2. UNCHANGED userVars => Closing' = Closing
  BY DEF Closing
<1>3. UNCHANGED listenerVars => Held' = Held /\ Dropped' = Dropped
  BY DEF Held, Dropped
<1>4. pc \notin {"setUp", "emplace", "aborted"} <=> Held = NoAccept
  BY DEF TypeInv, ListenerOK, Held
<1>5. pc # "disconnect" => Dropped = NoOne
  BY DEF Dropped
<1>6. pc' \notin {"setUp", "emplace", "aborted"} => Held' = NoAccept
  BY DEF Held
<1>7. pc' # "disconnect" => Dropped' = NoOne
  BY DEF Dropped
<1>8. pc \in Handling => cur.fd \in Fd
  BY DEF TypeInv, ListenerOK, Events
<1>9. Held # NoAccept => Held = accepted /\ accepted.fd \in Fd /\ accepted.peer \in Peer
  BY <1>4 DEF TypeInv, ListenerOK, Held
<1>10. pc \in {"setUp", "emplace", "unwind", "aborted"} => accepted.fd \in Fd /\ accepted.peer \in Peer
  BY DEF TypeInv, ListenerOK
<1> USE DEF Handling
<1> HIDE DEF Goal
<1>11. CASE TakeBatch \/ NextEvent
  <2>1. Rests
    BY <1>2, <1>3, <1>4, <1>5, <1>6, <1>7, <1>11 DEF TakeBatch, NextEvent, Rests
  <2> QED
    BY <2>1 DEF Goal
<1>12. CASE CloseServer
  <2>1. cur.fd \in Fd /\ object[Server].fd = cur.fd
    BY <1>8, <1>12 DEF CloseServer, AtServer, IsServer
  <2>2. table[cur.fd] \notin Connections
    BY <2>1, Names DEF OwnInv, ObjectsInv
  <2>3. Frees(cur.fd)
    BY <1>1, <1>2, <1>4, <1>5, <1>6, <1>7, <1>12, <2>1, <2>2 DEF CloseServer, Handled, Frees
  <2> QED
    BY <2>1, <2>3 DEF Goal
<1>13. CASE FindConnection
  <2>1. cur.fd \in Fd
    BY <1>8, <1>13 DEF FindConnection
  <2>2. PICK found : found = Lookup(cur.fd)
    OBVIOUS
  <2>3. found \in Connections \cup {NoOne}
    BY <2>1, <2>2, LookupTypes
  <2>4. \/ found \in attached /\ object[found].fd = cur.fd
        \/ found = internal[cur.fd] /\ \A c \in attached : object[c].fd # cur.fd
    BY <2>1, <2>2, LookupTypes
  <2>5. CASE found = NoOne
    <3>1. Rests
      BY <1>2, <1>4, <1>5, <1>6, <1>7, <1>13, <2>2, <2>5, Names DEF FindConnection, Handled, Rests
    <3> QED
      BY <3>1 DEF Goal
  <2>6. CASE found # NoOne
    <3>1. Dropped = NoOne /\ Dropped' = found /\ Held' = Held /\ Closing' = Closing
      BY <1>2, <1>4, <1>5, <1>6, <1>13, <2>2, <2>6 DEF FindConnection, Dropped
    <3>2. found \in Peer => found \notin attached
      BY Names DEF TypeInv, PollerOK
    <3>3. internal[cur.fd] \in Peer \cup {NoOne}
      BY <2>1 DEF TypeInv, ObjectOK
    <3>4. TakesOut(cur.fd)
      BY <1>13, <2>1, <2>2, <2>4, <2>6, <3>1, <3>2, <3>3 DEF FindConnection, TakesOut
    <3> QED
      BY <2>1, <3>4 DEF Goal
  <2> QED
    BY <2>5, <2>6
<1>14. CASE SafeDisconnect
  <2>1. cn \in Connections /\ Dropped = cn
    BY <1>14 DEF SafeDisconnect, TypeInv, ListenerOK, Dropped
  <2>2. object[cn].connected => object[cn].fd \in Fd
    BY <2>1, OwnNumber DEF OwnInv
  <2>3. ~object[cn].connected => object' = object
    <3>1. [object EXCEPT ![cn] = object[cn]] = object
      BY <2>1, Names DEF TypeInv, ObjectOK
    <3> QED
      BY <1>14, <3>1 DEF SafeDisconnect
  <2>4. Dropped' = NoOne /\ Held' = Held /\ Closing' = Closing
    BY <1>2, <1>4, <1>6, <1>7, <1>14 DEF SafeDisconnect, Handled
  <2>5. Shuts(cn)
    BY <1>1, <1>14, <2>1, <2>2, <2>3, <2>4 DEF SafeDisconnect, Shuts
  <2> QED
    BY <2>1, <2>5 DEF Goal
<1>15. CASE Accept
  <2>1. CASE table' = table
    <3>1. pc' = "next"
      <4>1. FreeFds # {} => Min(FreeFds) \in Fd /\ table[Min(FreeFds)] = Free
        BY LeastFree
      <4>2. FreeFds # {} => \A p \in backlog : [table EXCEPT ![Min(FreeFds)] = p] # table
        BY <4>1, Names DEF TypeInv, KernelOK
      <4> QED
        BY <1>15, <2>1, <4>2 DEF Accept, Handled
    <3>2. Rests
      BY <1>2, <1>4, <1>5, <1>6, <1>7, <1>15, <2>1, <3>1 DEF Accept, Handled, Rests
    <3> QED
      BY <3>2 DEF Goal
  <2>2. CASE table' # table
    <3>1. PICK p \in backlog : /\ FreeFds # {} /\ accepted' = [peer |-> p, fd |-> Min(FreeFds)]
                               /\ table' = [table EXCEPT ![Min(FreeFds)] = p] /\ backlog' = backlog \ {p}
                               /\ pc' = "setUp"
      BY <1>15, <2>2 DEF Accept
    <3>2. Min(FreeFds) \in Fd /\ table[Min(FreeFds)] = Free
      BY <3>1, LeastFree
    <3>3. Held' = [peer |-> p, fd |-> Min(FreeFds)] /\ Held = NoAccept /\ Dropped' = Dropped /\ Closing' = Closing
      BY <1>2, <1>4, <1>5, <1>7, <1>15, <3>1 DEF Accept, Held
    <3>4. table[cur.fd] = Server /\ cur.fd = object[Server].fd
      BY <1>15, <2>2 DEF Accept, AtServer, IsServer
    <3>5. Takes(p, Min(FreeFds))
      BY <1>15, <3>1, <3>2, <3>3, <3>4, Names DEF Accept, Takes
    <3> QED
      BY <3>2, <3>5 DEF Goal, TypeInv, KernelOK
  <2> QED
    BY <2>1, <2>2
<1>16. CASE AcceptFails \/ GetConnection \/ ReceiveMessage \/ ReceiveNothing \/ LeaveLoop
  <2>1. Rests
    BY <1>2, <1>4, <1>5, <1>6, <1>7, <1>16
       DEF AcceptFails, GetConnection, ReceiveMessage, ReceiveNothing, LeaveLoop, Waiting, Handled, Rests
  <2> QED
    BY <2>1 DEF Goal
<1>17. CASE SetUp
  <2>1. CASE pc' = "emplace"
    <3>1. Held' = Held
      BY <1>17, <2>1 DEF SetUp, Handled, Held
    <3>2. Rests
      BY <1>2, <1>5, <1>7, <1>17, <2>1, <3>1 DEF SetUp, Handled, Rests
    <3> QED
      BY <3>2 DEF Goal
  <2>2. CASE pc' = "next"
    <3>1. DropsHeld
      BY <1>1, <1>2, <1>4, <1>5, <1>6, <1>7, <1>9, <1>17, <2>2 DEF SetUp, DropsHeld
    <3> QED
      BY <3>1 DEF Goal
  <2> QED
    BY <1>17, <2>1, <2>2 DEF SetUp, Handled
<1>18. CASE Emplace
  <2>1. CASE internal[accepted.fd] # NoOne
    <3>1. Held' = Held
      BY <1>18, <2>1 DEF Emplace, Held
    <3>2. Rests
      BY <1>2, <1>5, <1>7, <1>18, <2>1, <3>1 DEF Emplace, Rests
    <3> QED
      BY <3>2 DEF Goal
  <2>2. CASE internal[accepted.fd] = NoOne
    <3>1. Held = accepted /\ Held # NoAccept /\ Held' = NoAccept
      BY <1>4, <1>6, <1>9, <1>18, <2>2 DEF Emplace
    <3>2. Places
      BY <1>2, <1>5, <1>7, <1>18, <2>2, <3>1 DEF Emplace, Places
    <3> QED
      BY <3>2 DEF Goal
  <2> QED
    BY <2>1, <2>2
<1>19. CASE EmplaceFails
  <2>1. DropsHeld
    BY <1>1, <1>2, <1>4, <1>5, <1>6, <1>7, <1>9, <1>19 DEF EmplaceFails, Handled, DropsHeld
  <2> QED
    BY <2>1 DEF Goal
<1>20. CASE Unwind
  <2>1. accepted.fd \in Fd /\ table[accepted.fd] \notin Connections \cup {Server}
    BY <1>10, <1>20, Names DEF Unwind, OwnInv, UnwindInv
  <2>2. Frees(accepted.fd)
    BY <1>1, <1>2, <1>4, <1>5, <1>6, <1>7, <1>20, <2>1 DEF Unwind, Handled, Frees
  <2> QED
    BY <2>1, <2>2 DEF Goal
<1>21. CASE ShutDown
  <2>1. PICK p \in Peer : /\ object[p].connected /\ internal' = Told(p) /\ Close(object[p].fd, p)
                          /\ object' = [object EXCEPT ![p] = Closed]
    BY <1>21 DEF ShutDown
  <2>2. p \in Connections /\ object[p].fd \in Fd
    BY <2>1, Names, OwnNumber DEF OwnInv
  <2>3. Shuts(p)
    BY <1>1, <1>2, <1>4, <1>5, <1>6, <1>7, <1>21, <2>1, <2>2 DEF ShutDown, Shuts
  <2> QED
    BY <2>2, <2>3 DEF Goal
<1>22. CASE Release
  <2>1. Clears
    BY <1>2, <1>4, <1>5, <1>6, <1>7, <1>22 DEF Release, Clears
  <2> QED
    BY <2>1 DEF Goal
<1>23. ASSUME NEW c \in Connections, Disconnect(c) PROVE Goal
  <2>1. Closing = NoOne /\ Closing' = c
    BY <1>23 DEF Disconnect, Closing
  <2>2. Disconnects(c)
    BY <1>3, <1>23, <2>1 DEF Disconnect, Disconnects
  <2> QED
    BY <2>2 DEF Goal
<1>24. CASE CloseTarget
  <2>1. user = "close"
    BY <1>24 DEF CloseTarget, TypeInv, UserOK, Unlocked
  <2>2. Closing = target /\ target \in Connections /\ Closing' = NoOne
    BY <1>24, <2>1 DEF CloseTarget, TypeInv, UserOK, Closing
  <2>3. object[target].connected => object[target].fd \in Fd
    BY <2>2, OwnNumber DEF OwnInv
  <2>4. Shuts(target)
    BY <1>1, <1>3, <1>24, <2>2, <2>3 DEF CloseTarget, Shuts
  <2> QED
    BY <2>2, <2>4 DEF Goal
<1>25. CASE DisconnectServer
  <2>1. Closing' = Closing
    BY <1>25 DEF DisconnectServer, Closing
  <2>2. Rests
    BY <1>3, <1>25, <2>1 DEF DisconnectServer, Rests
  <2> QED
    BY <2>2 DEF Goal
<1>26. CASE Stop \/ UNCHANGED lcVars
  <2>1. Rests
    BY <1>2, <1>3, <1>26 DEF Stop, lcVars, Rests
  <2> QED
    BY <2>1 DEF Goal
<1>27. CASE DestroyServer
  <2>1. object[Server].fd \in Fd /\ table[object[Server].fd] \notin Connections
    BY <1>27, Names DEF DestroyServer, OwnInv, ObjectsInv
  <2>2. Frees(object[Server].fd)
    BY <1>1, <1>2, <1>3, <1>27, <2>1 DEF DestroyServer, Frees
  <2> QED
    BY <2>1, <2>2 DEF Goal
<1>28. CASE Surroundings
  <2>1. Held' = Held /\ Dropped' = Dropped /\ Closing' = Closing /\ UNCHANGED <<object, internal>>
    BY <1>2, <1>3, <1>28 DEF Surroundings
  <2>2. ASSUME NEW p \in Peer, PeerConnects(p) PROVE Goal
    <3>1. PeerQueues(p)
      BY <2>1, <2>2 DEF PeerConnects, PeerQueues
    <3> QED
      BY <3>1 DEF Goal
  <2>3. ASSUME NEW c \in Connections, PeerSends(c) \/ PeerCloses(c) PROVE Goal
    <3>1. Rests
      BY <2>1, <2>3 DEF PeerSends, PeerCloses, Rests
    <3> QED
      BY <3>1 DEF Goal
  <2>4. CASE ServerFails
    <3>1. Rests
      BY <2>1, <2>4 DEF ServerFails, Rests
    <3> QED
      BY <3>1 DEF Goal
  <2>5. CASE AppOpens
    <3>1. AppTakes(Min(FreeFds)) /\ Min(FreeFds) \in Fd
      BY <2>1, <2>5, LeastFree DEF AppOpens, AppTakes
    <3> QED
      BY <3>1 DEF Goal
  <2>6. CASE AppCloses
    <3>1. PICK f \in OpenOf(App) : table' = [table EXCEPT ![f] = Free]
      BY <2>6 DEF AppCloses
    <3>2. f \in Fd /\ table[f] = App /\ App \notin Connections /\ App # Server
      BY <3>1, Names DEF OpenOf
    <3>3. Frees(f)
      BY <2>1, <2>6, <3>1, <3>2 DEF AppCloses, Frees
    <3> QED
      BY <3>2, <3>3 DEF Goal
  <2> QED
    BY <1>28, <2>2, <2>3, <2>4, <2>5, <2>6 DEF Surroundings
<1> QED
  BY <1>11, <1>12, <1>13, <1>14, <1>15, <1>16, <1>17, <1>18, <1>19, <1>20, <1>21, <1>22, <1>23, <1>24,
     <1>25, <1>26, <1>27, <1>28 DEF Next, Listener, User

\* The types that the ownership of sockets needs.
LEMMA OwnTypes ==
    ASSUME TypeInv
    PROVE  /\ table \in [Fd -> Socket \cup {App, Free}]
           /\ object \in [Socket -> Objects] /\ internal \in [Fd -> Peer \cup {NoOne}]
           /\ fresh \subseteq Peer /\ backlog \subseteq Peer /\ attached \subseteq Client
           /\ Held.peer \in Peer \cup {NoOne}
           /\ Held # NoAccept => Held.peer \in Peer /\ Held.fd \in Fd
           /\ Held = NoAccept => Held.peer = NoOne
           /\ Dropped \in Connections \cup {NoOne} /\ Closing \in Connections \cup {NoOne}
  BY DEF TypeInv, KernelOK, PollerOK, ObjectOK, ListenerOK, UserOK, Held, Dropped, Closing, NoAccept

\* tell_disconnected takes a connection out of the map, when no client is attached.
LEMMA ToldMap ==
    ASSUME TypeInv, NEW c \in Connections
    PROVE  /\ attached # {} => Told(c) = internal
           /\ attached = {} => \A f \in Fd : Told(c)[f] = IF internal[f] = c THEN NoOne ELSE internal[f]
  BY DEF Told, TypeInv, ObjectOK

\* What TakesOut does to the map.
LEMMA TakesOutMap ==
    ASSUME TypeInv, NEW f \in Fd, TakesOut(f), NEW g \in Fd
    PROVE  \/ internal'[g] = internal[g]
           \/ g = f /\ internal'[g] = NoOne /\ Dropped' = internal[g]
<1>1. internal \in [Fd -> Peer \cup {NoOne}]
  BY OwnTypes
<1>2. CASE UNCHANGED internal
  BY <1>2
<1>3. CASE Dropped' = internal[f] /\ internal' = [internal EXCEPT ![f] = NoOne]
  BY <1>1, <1>3
<1> QED
  BY <1>2, <1>3 DEF TakesOut

\* What Shuts does: the descriptor of c is free, its object closed, and with no
\* client attached c is not in the map.
LEMMA ShutsEffect ==
    ASSUME TypeInv, ObjectsInv, MapInv, NEW c \in Connections, Shuts(c)
    PROVE  /\ \A g \in Fd : internal'[g] = internal[g] \/ (internal[g] = c /\ internal'[g] = NoOne)
           /\ attached = {} => \A g \in Fd : internal'[g] # c
           /\ \A g \in Fd : table'[g] = IF object[c].connected /\ g = object[c].fd THEN Free ELSE table[g]
           /\ \A s \in Socket : s # c => object'[s] = object[s]
           /\ ~object'[c].connected
<1>1. internal' = internal \/ internal' = Told(c)
  BY DEF Shuts
<1>2. \A g \in Fd : internal'[g] = internal[g] \/ (internal[g] = c /\ internal'[g] = NoOne)
  BY <1>1, ToldMap
<1>3. attached = {} => \A g \in Fd : internal'[g] # c
  <2>1. c # NoOne
    BY Names
  <2>2. CASE internal' = Told(c)
    BY <2>1, <2>2, ToldMap
  <2>3. CASE internal' = internal /\ c \in {Dropped, Closing}
    BY <2>1, <2>3 DEF MapInv
  <2> QED
    BY <2>2, <2>3 DEF Shuts
<1>4. CASE object[c].connected
  <2>1. object[c].fd \in Fd
    BY <1>4, OwnNumber
  <2>2. \A g \in Fd : table'[g] = IF g = object[c].fd THEN Free ELSE table[g]
    BY <1>4, <2>1, OwnTypes DEF Shuts
  <2>3. \A s \in Socket : object'[s] = IF s = c THEN Closed ELSE object[s]
    BY <1>4, OwnTypes DEF Shuts
  <2> QED
    BY <1>2, <1>3, <1>4, <2>2, <2>3, Names, ObjectValues
<1>5. CASE ~object[c].connected
  BY <1>2, <1>3, <1>5 DEF Shuts
<1> QED
  BY <1>4, <1>5

LEMMA ObjectsKept ==
    ASSUME TypeInv, OwnInv, AtServer, [Next]_lcVars
    PROVE  ObjectsInv'
<1> USE DEF OwnInv, ObjectsInv, SameHands
<1>1. CASE UNCHANGED <<table, object>>
  BY <1>1
<1>2. CASE DropsHeld
  <2>1. table[Held.fd] = Held.peer /\ ~object[Held.peer].connected /\ Held.peer \in Peer /\ Held.fd \in Fd
    BY <1>2, OwnTypes DEF DropsHeld, NewInv, New
  <2>2. \A f \in Fd : table'[f] = IF f = Held.fd THEN Free ELSE table[f]
    BY <1>2, OwnTypes DEF DropsHeld
  <2> QED
    BY <1>2, <2>1, <2>2, Names DEF DropsHeld
<1>3. CASE Places
  <2> DEFINE p == Held.peer
  <2>1. p \in Peer /\ Held.fd \in Fd /\ table[Held.fd] = p
    BY <1>3, OwnTypes DEF Places, NewInv
  <2>2. PICK o \in Objects : o = [connected |-> TRUE, fd |-> Held.fd] /\ o.connected /\ o.fd = Held.fd
    BY <2>1, ObjectValues
  <2>3. \A s \in Socket : object'[s] = IF s = p THEN o ELSE object[s]
    BY <1>3, <2>2, OwnTypes DEF Places
  <2>4. table' = table /\ p \in Connections /\ p # Server
    BY <1>3, <2>1, Names DEF Places
  <2> HIDE DEF p
  <2> QED
    BY <2>1, <2>2, <2>3, <2>4, Names
<1>4. ASSUME NEW p \in Peer, NEW f \in Fd, Takes(p, f) PROVE ObjectsInv'
  <2>1. \A g \in Fd : table'[g] = IF g = f THEN p ELSE table[g]
    BY <1>4, OwnTypes DEF Takes
  <2>2. table[f] = Free /\ object' = object
    BY <1>4 DEF Takes
  <2>3. \A c \in Connections : object[c].connected => object[c].fd # f
    BY <2>2, Names
  <2> QED
    BY <1>4, <2>1, <2>2, <2>3, Names DEF Takes
<1>5. ASSUME NEW f \in Fd, AppTakes(f) PROVE ObjectsInv'
  <2>1. \A g \in Fd : table'[g] = IF g = f THEN App ELSE table[g]
    BY <1>5, OwnTypes DEF AppTakes
  <2> QED
    BY <1>5, <2>1, Names DEF AppTakes
<1>6. ASSUME NEW f \in Fd, Frees(f) PROVE ObjectsInv'
  <2>1. \A g \in Fd : table'[g] = IF g = f THEN Free ELSE table[g]
    BY <1>6, OwnTypes DEF Frees
  <2>2. CASE object' = object
    BY <1>6, <2>1, <2>2, Names DEF Frees
  <2>3. CASE object' = [object EXCEPT ![Server] = Closed]
    <3>1. \A s \in Socket : object'[s] = IF s = Server THEN Closed ELSE object[s]
      BY <2>3, OwnTypes
    <3> QED
      BY <1>6, <2>1, <3>1, Names, Numbers, ObjectValues DEF Frees
  <2> QED
    BY <1>6, <2>2, <2>3 DEF Frees
<1>7. ASSUME NEW c \in Connections, Shuts(c) PROVE ObjectsInv'
  <2>1. CASE object[c].connected
    <3>1. \A s \in Socket : object'[s] = IF s = c THEN Closed ELSE object[s]
      BY <1>7, <2>1, OwnTypes DEF Shuts
    <3>2. object[c].fd \in Fd /\ table[object[c].fd] = c
      BY <2>1, OwnNumber
    <3>3. \A g \in Fd : table'[g] = IF g = object[c].fd THEN Free ELSE table[g]
      BY <1>7, <2>1, <3>2, OwnTypes DEF Shuts
    <3>4. \A s \in Socket : object'[s].connected <=> object'[s].fd \in Fd
      BY <3>1, Numbers, ObjectValues
    <3>5. ASSUME NEW d \in Connections, object'[d].connected PROVE table'[object'[d].fd] = d
      <4>1. d # c /\ object'[d] = object[d]
        BY <3>1, <3>5, Names, ObjectValues
      <4>2. object[d].fd \in Fd /\ table[object[d].fd] = d
        BY <3>5, <4>1, OwnNumber
      <4> QED
        BY <3>2, <3>3, <4>1, <4>2
    <3>6. object'[Server] = object[Server]
      BY <3>1, Names
    <3>7. object[Server].connected => object[Server].fd \in Fd /\ object[Server].fd # object[c].fd
      BY <3>2, Names
    <3> QED
      BY <3>3, <3>4, <3>5, <3>6, <3>7
  <2>2. CASE ~object[c].connected
    BY <1>1, <1>7, <2>2 DEF Shuts
  <2> QED
    BY <2>1, <2>2
<1>8. CASE Rests \/ Clears
  BY <1>1, <1>8 DEF Rests, Clears
<1>9. CASE \E p \in Peer : PeerQueues(p)
  BY <1>1, <1>9 DEF PeerQueues
<1>10. CASE (\E f \in Fd : TakesOut(f)) \/ (\E c \in Connections : Disconnects(c))
  BY <1>1, <1>10 DEF TakesOut, Disconnects
<1> QED
  BY <1>2, <1>3, <1>4, <1>5, <1>6, <1>7, <1>8, <1>9, <1>10, StepKinds

LEMMA OpenKept ==
    ASSUME TypeInv, OwnInv, AtServer, [Next]_lcVars
    PROVE  KeptInv'
<1> USE DEF OwnInv, KeptInv, SameHands, Has
<1>1. attached' = attached /\ NoAccept.peer = NoOne
  BY Settings DEF NoAccept
<1>2. CASE Rests \/ \E p \in Peer : PeerQueues(p)
  BY <1>1, <1>2 DEF Rests, PeerQueues
<1>3. CASE DropsHeld
  <2>1. \A f \in Fd : table'[f] = IF f = Held.fd THEN Free ELSE table[f]
    BY <1>3, OwnTypes DEF DropsHeld
  <2> QED
    BY <1>1, <1>3, <2>1, Names DEF DropsHeld
<1>4. CASE Places
  <2> DEFINE p == Held.peer
  <2>1. p \in Peer /\ Held.fd \in Fd /\ New(p) /\ Held' = NoAccept
    BY <1>4, OwnTypes DEF Places, NewInv
  <2>2. PICK o \in Objects : o = [connected |-> TRUE, fd |-> Held.fd] /\ o.connected /\ o.fd = Held.fd
    BY <2>1, ObjectValues
  <2>3. \A s \in Socket : object'[s] = IF s = p THEN o ELSE object[s]
    BY <1>4, <2>2, OwnTypes DEF Places
  <2>4. \A f \in Fd : internal'[f] = IF f = Held.fd THEN p ELSE internal[f]
    BY <1>4, OwnTypes DEF Places
  <2>5. table' = table /\ table[Held.fd] = p /\ Dropped' = Dropped /\ Closing' = Closing
    BY <1>4 DEF Places, NewInv
  <2>6. \A f \in Fd \ {Held.fd} : table[f] \in Socket => table[f] # p
    BY <2>1 DEF New
  <2> HIDE DEF p
  <2>7. p \in Socket /\ p \notin Client /\ p # Server
    BY <2>1, Names
  <2> SUFFICES ASSUME NEW f \in Fd PROVE
         /\ table'[f] = Server => Has(object[Server], f)'
         /\ table'[f] \in Client => Has(object[table[f]], f)' /\ table'[f] \in attached' /\ internal'[f] = NoOne
         /\ table'[f] \in Peer => \/ Held'.peer = table'[f] /\ Held'.fd = f
                                  \/ /\ Has(object[table[f]], f)'
                                     /\ \/ internal'[f] = table'[f] \/ Dropped' = table'[f]
                                        \/ attached' = {} /\ Closing' = table'[f]
    OBVIOUS
  <2>8. CASE f = Held.fd
    BY <2>2, <2>3, <2>4, <2>5, <2>7, <2>8
  <2>9. CASE f # Held.fd
    BY <1>1, <2>3, <2>4, <2>5, <2>6, <2>7, <2>9, Names
  <2> QED
    BY <2>8, <2>9
<1>5. CASE Clears
  BY <1>1, <1>5 DEF Clears
<1>6. ASSUME NEW p \in Peer, NEW f \in Fd, Takes(p, f) PROVE KeptInv'
  <2>1. \A g \in Fd : table'[g] = IF g = f THEN p ELSE table[g]
    BY <1>6, OwnTypes DEF Takes
  <2>2. Held'.peer = p /\ Held'.fd = f /\ Held.peer = NoOne
    BY <1>1, <1>6 DEF Takes
  <2> QED
    BY <1>1, <1>6, <2>1, <2>2, Names DEF Takes
<1>7. ASSUME NEW f \in Fd, AppTakes(f) PROVE KeptInv'
  <2>1. \A g \in Fd : table'[g] = IF g = f THEN App ELSE table[g]
    BY <1>7, OwnTypes DEF AppTakes
  <2> QED
    BY <1>1, <1>7, <2>1, Names DEF AppTakes
<1>8. ASSUME NEW f \in Fd, Frees(f) PROVE KeptInv'
  <2>1. \A g \in Fd : table'[g] = IF g = f THEN Free ELSE table[g]
    BY <1>8, OwnTypes DEF Frees
  <2>2. \A c \in Connections : object'[c] = object[c]
    BY <1>8, OwnTypes, Names DEF Frees
  <2>3. \A g \in Fd : table'[g] = Server => object'[Server] = object[Server]
    BY <1>8, <2>1, Names DEF Frees
  <2> QED
    BY <1>1, <1>8, <2>1, <2>2, <2>3, Names DEF Frees
<1>9. ASSUME NEW f \in Fd, TakesOut(f) PROVE KeptInv'
  <2>1. \A g \in Fd : \/ internal'[g] = internal[g]
                      \/ g = f /\ internal'[g] = NoOne /\ Dropped' = internal[g]
    BY <1>9, TakesOutMap
  <2>2. UNCHANGED <<table, object, Held, Closing>> /\ Dropped = NoOne
    BY <1>9 DEF TakesOut
  <2> QED
    BY <1>1, <2>1, <2>2, Names
<1>10. ASSUME NEW c \in Connections, Shuts(c) PROVE KeptInv'
  <2>1. \A g \in Fd : internal'[g] = internal[g] \/ (internal[g] = c /\ internal'[g] = NoOne)
    BY <1>10, ShutsEffect
  <2>2. \A g \in Fd : table'[g] = IF object[c].connected /\ g = object[c].fd THEN Free ELSE table[g]
    BY <1>10, ShutsEffect
  <2>3. \A s \in Socket : s # c => object'[s] = object[s]
    BY <1>10, ShutsEffect
  <2>4. \A g \in Fd : table[g] = c /\ Has(object[c], g) => table'[g] = Free
    BY <2>2
  <2>5. Held' = Held /\ (Dropped' = Dropped \/ Dropped = c) /\ (Closing' = Closing \/ Closing = c)
    BY <1>10 DEF Shuts
  <2> SUFFICES ASSUME NEW f \in Fd, table'[f] # Free PROVE
         /\ table'[f] = Server => Has(object[Server], f)'
         /\ table'[f] \in Client => Has(object[table[f]], f)' /\ table'[f] \in attached' /\ internal'[f] = NoOne
         /\ table'[f] \in Peer => \/ Held'.peer = table'[f] /\ Held'.fd = f
                                  \/ /\ Has(object[table[f]], f)'
                                     /\ \/ internal'[f] = table'[f] \/ Dropped' = table'[f]
                                        \/ attached' = {} /\ Closing' = table'[f]
    BY Names
  <2>6. table'[f] = table[f]
    BY <2>2
  <2>7. ASSUME Has(object[table[f]], f), table[f] \in Socket
        PROVE  table[f] # c /\ Has(object[table[f]], f)'
    BY <2>3, <2>4, <2>6, <2>7
  <2>8. CASE table[f] = Server
    BY <2>6, <2>7, <2>8, Names
  <2>9. CASE table[f] \in Client
    BY <1>1, <2>1, <2>6, <2>7, <2>9, Names
  <2>10. CASE table[f] \in Peer
    <3>1. CASE Held.peer = table[f] /\ Held.fd = f
      BY <2>5, <2>6, <2>10, <3>1, Names
    <3>2. CASE Has(object[table[f]], f)
      BY <1>1, <2>1, <2>5, <2>6, <2>7, <2>10, <3>2, Names
    <3> QED
      BY <2>10, <3>1, <3>2
  <2> QED
    BY <2>6, <2>8, <2>9, <2>10
<1>11. ASSUME NEW c \in Connections, Disconnects(c) PROVE KeptInv'
  <2>1. \A g \in Fd : \/ internal'[g] = internal[g]
                      \/ attached = {} /\ internal[g] = c /\ internal'[g] = NoOne
    BY <1>11, ToldMap DEF Disconnects
  <2> QED
    BY <1>1, <1>11, <2>1, Names DEF Disconnects
<1> QED
  BY <1>2, <1>3, <1>4, <1>5, <1>6, <1>7, <1>8, <1>9, <1>10, <1>11, StepKinds

LEMMA NewKept ==
    ASSUME TypeInv, OwnInv, AtServer, [Next]_lcVars
    PROVE  NewInv'
<1> USE DEF OwnInv, NewInv, New, SameHands
<1>1. fresh \subseteq Peer /\ backlog \subseteq Peer /\ NoAccept.peer = NoOne
  BY OwnTypes DEF NoAccept
<1>2. CASE Rests
  BY <1>2 DEF Rests
<1>3. CASE DropsHeld
  BY <1>1, <1>3, Names DEF DropsHeld
<1>4. CASE Places
  <2>1. \A s \in Socket : s # Held.peer => object'[s] = object[s]
    BY <1>4, OwnTypes DEF Places
  <2>2. \A f \in Fd : internal'[f] = internal[f] \/ internal'[f] = Held.peer
    BY <1>4, OwnTypes DEF Places
  <2> QED
    BY <1>1, <1>4, <2>1, <2>2, Names DEF Places
<1>5. CASE Clears
  BY <1>1, <1>5, OwnTypes, Names DEF Clears
<1>6. ASSUME NEW p \in Peer, PeerQueues(p) PROVE NewInv'
  BY <1>6 DEF PeerQueues
<1>7. ASSUME NEW p \in Peer, NEW f \in Fd, Takes(p, f) PROVE NewInv'
  <2>1. table'[f] = p /\ Held'.peer = p /\ Held'.fd = f
    BY <1>7, OwnTypes DEF Takes
  <2> QED
    BY <1>7, <2>1 DEF Takes
<1>8. ASSUME NEW f \in Fd, NEW x, table[f] \notin Connections, table' = [table EXCEPT ![f] = x],
             \A c \in Connections : object'[c] = object[c],
             UNCHANGED <<internal, fresh, backlog>>, SameHands
      PROVE  NewInv'
  <2>1. Held # NoAccept => Held.fd \in Fd /\ Held.fd # f /\ Held.peer \in Connections
    BY <1>8, OwnTypes, Names
  <2>2. \A g \in Fd : g # f => table'[g] = table[g]
    BY <1>8, OwnTypes
  <2> QED
    BY <1>1, <1>8, <2>1, <2>2, Names
<1>9. ASSUME NEW f \in Fd, AppTakes(f) PROVE NewInv'
  BY <1>8, <1>9, Names DEF AppTakes
<1>10. ASSUME NEW f \in Fd, Frees(f) PROVE NewInv'
  <2>1. \A c \in Connections : object'[c] = object[c]
    BY <1>10, OwnTypes, Names DEF Frees
  <2> QED
    BY <1>8, <1>10, <2>1 DEF Frees
<1>11. ASSUME NEW f \in Fd, TakesOut(f) PROVE NewInv'
  <2>1. \A g \in Fd : internal'[g] = internal[g] \/ internal'[g] = NoOne
    BY <1>11, OwnTypes DEF TakesOut
  <2>2. Held # NoAccept => Held.peer # NoOne
    BY OwnTypes, Names
  <2> QED
    BY <1>1, <1>11, <2>1, <2>2, Names DEF TakesOut
<1>12. ASSUME NEW c \in Connections, Shuts(c) PROVE NewInv'
  <2>1. \A g \in Fd : internal'[g] = internal[g] \/ internal'[g] = NoOne
    BY <1>12, ToldMap DEF Shuts
  <2>2. \A p \in Peer : ~object[p].connected => ~object'[p].connected
    BY <1>12, OwnTypes, ObjectValues, Names DEF Shuts
  <2>3. Held # NoAccept => table'[Held.fd] = table[Held.fd] /\ Held.peer # NoOne /\ Held.peer \in Peer
    BY <1>12, OwnTypes, OwnNumber, Names DEF Shuts
  <2>4. Closing' \in {Closing, NoOne} /\ Held' = Held /\ fresh' = fresh /\ backlog' = backlog
    BY <1>12 DEF Shuts
  <2> QED
    BY <1>1, <2>1, <2>2, <2>3, <2>4, Names
<1>13. ASSUME NEW c \in Connections, Disconnects(c) PROVE NewInv'
  <2>1. \A g \in Fd : internal'[g] = internal[g] \/ internal'[g] = NoOne
    BY <1>13, ToldMap DEF Disconnects
  <2>2. \A p \in Peer : ~object[p].connected => c # p
    BY <1>13, OwnTypes, Names DEF Disconnects, Disconnect, Handed
  <2>3. Held # NoAccept => Held.peer \in Peer
    BY OwnTypes
  <2> QED
    BY <1>1, <1>13, <2>1, <2>2, <2>3, Names DEF Disconnects
<1> QED
  BY <1>2, <1>3, <1>4, <1>5, <1>6, <1>7, <1>9, <1>10, <1>11, <1>12, <1>13, StepKinds

LEMMA MapKept ==
    ASSUME TypeInv, OwnInv, AtServer, [Next]_lcVars
    PROVE  MapInv'
<1> USE DEF OwnInv, MapInv, SameHands
<1>1. attached' = attached /\ \A f \in Fd : internal[f] # NoOne => internal[f] \in Connections
  BY Settings, OwnTypes, Names
<1>2. CASE Rests \/ \E p \in Peer : PeerQueues(p)
  BY <1>1, <1>2 DEF Rests, PeerQueues
<1>3. CASE DropsHeld \/ Clears
  BY <1>1, <1>3 DEF DropsHeld, Clears
<1>4. CASE Places
  <2> DEFINE p == Held.peer
  <2>1. p \in Peer /\ Held.fd \in Fd /\ New(p)
    BY <1>4, OwnTypes DEF Places, NewInv
  <2>2. PICK o \in Objects : o = [connected |-> TRUE, fd |-> Held.fd] /\ o.connected /\ o.fd = Held.fd
    BY <2>1, ObjectValues
  <2>3. \A s \in Socket : object'[s] = IF s = p THEN o ELSE object[s]
    BY <1>4, <2>2, OwnTypes DEF Places
  <2>4. \A f \in Fd : internal'[f] = IF f = Held.fd THEN p ELSE internal[f]
    BY <1>4, OwnTypes DEF Places
  <2>5. Dropped = NoOne /\ Dropped' = NoOne /\ Closing' = Closing /\ Closing # p /\ \A f \in Fd : internal[f] # p
    BY <1>4, <2>1 DEF Places, New
  <2> HIDE DEF p
  <2> SUFFICES ASSUME NEW f \in Fd, internal'[f] # NoOne PROVE
         /\ object'[internal'[f]].connected => object'[internal'[f]].fd = f
         /\ attached' = {} => /\ object'[internal'[f]].connected
                              /\ internal'[f] # Dropped' /\ internal'[f] # Closing'
    OBVIOUS
  <2>6. CASE f = Held.fd
    <3>1. internal'[f] = p /\ object'[p] = o /\ p # NoOne
      BY <2>1, <2>3, <2>4, <2>6, Names
    <3> QED
      BY <2>2, <2>5, <2>6, <3>1
  <2>7. CASE f # Held.fd
    <3>1. internal'[f] = internal[f] /\ internal[f] # p /\ internal[f] \in Connections
      BY <1>1, <2>4, <2>5, <2>7
    <3>2. object'[internal[f]] = object[internal[f]]
      BY <2>3, <3>1, Names
    <3> QED
      BY <1>1, <2>5, <3>1, <3>2, Names
  <2> QED
    BY <2>6, <2>7
<1>5. CASE (\A c \in Connections : object'[c] = object[c]) /\ UNCHANGED <<internal, Dropped, Closing>>
  BY <1>1, <1>5
<1>6. ASSUME NEW p \in Peer, NEW f \in Fd, Takes(p, f) PROVE MapInv'
  BY <1>5, <1>6 DEF Takes
<1>7. ASSUME NEW f \in Fd, AppTakes(f) PROVE MapInv'
  BY <1>5, <1>7 DEF AppTakes
<1>8. ASSUME NEW f \in Fd, Frees(f) PROVE MapInv'
  <2>1. \A c \in Connections : object'[c] = object[c]
    BY <1>8, OwnTypes, Names DEF Frees
  <2> QED
    BY <1>5, <1>8, <2>1 DEF Frees
<1>9. ASSUME NEW f \in Fd, TakesOut(f) PROVE MapInv'
  <2>1. UNCHANGED <<object, Closing>> /\ Dropped' # NoOne
    BY <1>9 DEF TakesOut
  <2>2. CASE Dropped' \in attached /\ UNCHANGED internal
    BY <1>1, <2>1, <2>2
  <2>3. CASE Dropped' = internal[f] /\ internal' = [internal EXCEPT ![f] = NoOne]
    <3>1. \A g \in Fd : internal'[g] = IF g = f THEN NoOne ELSE internal[g]
      BY <2>3, OwnTypes
    <3>2. attached = {} => \A g \in Fd : g # f => internal[g] # internal[f] \/ internal[g] = NoOne
      BY <1>1
    <3> QED
      BY <1>1, <2>1, <2>3, <3>1, <3>2
  <2> QED
    BY <1>9, <2>2, <2>3 DEF TakesOut
<1>10. ASSUME NEW c \in Connections, Shuts(c) PROVE MapInv'
  <2>1. \A g \in Fd : internal'[g] = internal[g] \/ internal'[g] = NoOne
    BY <1>10, ShutsEffect
  <2>2. attached = {} => \A g \in Fd : internal'[g] # c
    BY <1>10, ShutsEffect
  <2>3. (\A s \in Socket : s # c => object'[s] = object[s]) /\ ~object'[c].connected
    BY <1>10, ShutsEffect
  <2>4. Dropped' \in {Dropped, NoOne} /\ Closing' \in {Closing, NoOne}
    BY <1>10 DEF Shuts
  <2> QED
    BY <1>1, <2>1, <2>2, <2>3, <2>4, Names
<1>11. ASSUME NEW c \in Connections, Disconnects(c) PROVE MapInv'
  <2>1. \A g \in Fd : internal'[g] = internal[g] \/ internal'[g] = NoOne
    BY <1>11, ToldMap DEF Disconnects
  <2>2. attached = {} => \A g \in Fd : internal'[g] # c
    BY <1>11, ToldMap, Names DEF Disconnects
  <2> QED
    BY <1>1, <1>11, <2>1, <2>2 DEF Disconnects
<1> QED
  BY <1>2, <1>3, <1>4, <1>6, <1>7, <1>8, <1>9, <1>10, <1>11, StepKinds

LEMMA UnwindKept ==
    ASSUME TypeInv, OwnInv, AtServer, [Next]_lcVars
    PROVE  UnwindInv'
<1> SUFFICES ASSUME pc' = "unwind" PROVE table'[accepted'.fd] \in {App, Free}
  BY DEF UnwindInv
<1> USE DEF Goto
<1>1. CASE pc # "unwind"
  <2>1. EmplaceFails
    <3>1. TakeBatch \/ NextEvent \/ CloseServer \/ FindConnection \/ SafeDisconnect \/ Accept => pc' # "unwind"
      BY DEF TakeBatch, NextEvent, CloseServer, FindConnection, SafeDisconnect, Accept, Handled, Waiting
    <3>2. AcceptFails \/ SetUp \/ Emplace \/ Unwind \/ GetConnection => pc' # "unwind"
      BY DEF AcceptFails, SetUp, Emplace, Unwind, GetConnection, Handled
    <3>3. ReceiveMessage \/ ReceiveNothing \/ LeaveLoop \/ ShutDown \/ Release => pc' # "unwind"
      BY DEF ReceiveMessage, ReceiveNothing, LeaveLoop, ShutDown, Release, Handled
    <3>4. (\E c \in Connections : Disconnect(c)) \/ CloseTarget \/ DisconnectServer \/ Stop => pc' = pc
      BY DEF Disconnect, CloseTarget, DisconnectServer, Stop
    <3>5. DestroyServer \/ Surroundings \/ UNCHANGED lcVars => pc' = pc
      BY DEF DestroyServer, Surroundings, lcVars
    <3> QED
      BY <1>1, <3>1, <3>2, <3>3, <3>4, <3>5 DEF Next, Listener, User
  <2>2. accepted' = accepted /\ accepted.fd \in Fd
    BY <2>1 DEF EmplaceFails, Handled, TypeInv, ListenerOK
  <2> QED
    BY <2>1, <2>2 DEF EmplaceFails, Close, TypeInv, KernelOK
<1>2. CASE pc = "unwind"
  <2>1. accepted' = accepted
    <3>1. TakeBatch \/ NextEvent \/ CloseServer \/ FindConnection \/ SafeDisconnect \/ Accept => FALSE
      BY <1>2 DEF TakeBatch, NextEvent, CloseServer, FindConnection, SafeDisconnect, Accept, Waiting
    <3>2. AcceptFails \/ SetUp \/ Emplace \/ EmplaceFails \/ Unwind \/ GetConnection => FALSE
      BY <1>2 DEF AcceptFails, SetUp, Emplace, EmplaceFails, Unwind, GetConnection, Handled
    <3>3. ReceiveMessage \/ ReceiveNothing \/ LeaveLoop \/ ShutDown \/ Release => FALSE
      BY <1>2 DEF ReceiveMessage, ReceiveNothing, LeaveLoop, ShutDown, Release, Waiting
    <3>4. (\E c \in Connections : Disconnect(c)) \/ CloseTarget \/ DisconnectServer \/ Stop => accepted' = accepted
      BY DEF Disconnect, CloseTarget, DisconnectServer, Stop
    <3>5. DestroyServer \/ Surroundings \/ UNCHANGED lcVars => accepted' = accepted
      BY DEF DestroyServer, Surroundings, lcVars
    <3> QED
      BY <3>1, <3>2, <3>3, <3>4, <3>5 DEF Next, Listener, User
  <2>2. accepted.fd \in Fd /\ table[accepted.fd] \in {App, Free}
    BY <1>2 DEF TypeInv, ListenerOK, OwnInv, UnwindInv
  <2>3. Held = NoAccept /\ Held' = NoAccept
    BY <1>2 DEF Held
  <2>4. table'[accepted.fd] \in {table[accepted.fd], App, Free}
    <3> USE OwnTypes
    <3>1. CASE Rests \/ Clears \/ \E p \in Peer : PeerQueues(p)
      BY <3>1 DEF Rests, Clears, PeerQueues
    <3>2. ASSUME NEW f \in Fd, AppTakes(f) \/ Frees(f) \/ TakesOut(f)
          PROVE  table'[accepted.fd] \in {table[accepted.fd], App, Free}
      BY <2>2, <3>2 DEF AppTakes, Frees, TakesOut
    <3>3. ASSUME NEW c \in Connections, Shuts(c) \/ Disconnects(c)
          PROVE  table'[accepted.fd] \in {table[accepted.fd], App, Free}
      BY <2>2, <3>3, ShutsEffect DEF Disconnects, OwnInv
    <3>4. DropsHeld \/ Places \/ (\E p \in Peer : \E f \in Fd : Takes(p, f)) => FALSE
      <4>1. \A p \in Peer : \A f \in Fd : [peer |-> p, fd |-> f] # NoAccept
        BY Names DEF NoAccept
      <4> QED
        BY <2>3, <4>1 DEF DropsHeld, Places, Takes
    <3> QED
      BY <3>1, <3>2, <3>3, <3>4, StepKinds
  <2> QED
    BY <2>1, <2>2, <2>4
<1> QED
  BY <1>1, <1>2

LEMMA OwnKept == TypeInv /\ OwnInv /\ AtServer /\ [Next]_lcVars => OwnInv'
  BY ObjectsKept, OpenKept, NewKept, UnwindKept, MapKept DEF OwnInv
------------------------------------------------------------------------------
(* The batch. *)

\* A batch has one event for a descriptor, and no more for that of the event in
\* hand. select reports no hang-up. Nothing is left when the loop is over.
EventsInv ==
    /\ \A d, e \in batch : d.fd = e.fd => d = e
    /\ pc \in Handling => \A e \in batch : e.fd # cur.fd
    /\ \A e \in batch : e.close => backend # "select"
    /\ cur.close => backend # "select"
    /\ pc \in Over => batch = {} /\ ~running
    /\ pc = "done" => watched = {}

\* What all other steps than these do to the batch and the event in hand.
Narrows ==
    /\ batch' \subseteq batch /\ (running' => running)
    /\ pc' \in Handling => pc \in Handling /\ cur'.fd = cur.fd
    /\ cur'.close => cur' = cur
    /\ pc' \in Over => pc' = pc /\ watched' \subseteq watched

LEMMA EventKinds ==
    ASSUME TypeInv, [Next]_lcVars
    PROVE  TakeBatch \/ NextEvent \/ LeaveLoop \/ ShutDown \/ Release \/ Narrows
<1> USE DEF Narrows, Handling, Over, Goto, Unreported
<1>0. ~NoEvent.close
  BY DEF NoEvent
<1>1. CASE CloseServer \/ FindConnection \/ Accept \/ AcceptFails
  BY <1>0, <1>1 DEF CloseServer, FindConnection, Accept, AcceptFails, Handled
<1>2. CASE SetUp \/ Emplace \/ EmplaceFails \/ Unwind \/ GetConnection \/ ReceiveMessage
  BY <1>0, <1>2 DEF SetUp, Emplace, EmplaceFails, Unwind, GetConnection, ReceiveMessage, Handled
<1>3. CASE ReceiveNothing
  <2>1. pc \in Handling /\ cur \in Events
    BY <1>3 DEF ReceiveNothing, TypeInv, ListenerOK
  <2>2. [cur EXCEPT !.close = FALSE].fd = cur.fd /\ ~[cur EXCEPT !.close = FALSE].close
    BY <2>1 DEF Events
  <2> QED
    BY <1>0, <1>3, <2>1, <2>2 DEF ReceiveNothing, Handled
<1>4. CASE (\E c \in Connections : Disconnect(c)) \/ CloseTarget \/ DisconnectServer \/ Stop
  BY <1>4 DEF Disconnect, CloseTarget, DisconnectServer, Stop, Removed, Forgotten
<1>5. CASE DestroyServer \/ Surroundings \/ UNCHANGED lcVars
  BY <1>5 DEF DestroyServer, Surroundings, lcVars
<1>6. CASE SafeDisconnect
  <2>1. batch' \subseteq batch /\ running' = running /\ pc' = "next" /\ cur' = NoEvent
    BY <1>6 DEF SafeDisconnect, Handled
  <2> QED
    BY <1>0, <2>1
<1> QED
  BY <1>1, <1>2, <1>3, <1>4, <1>5, <1>6 DEF Next, Listener, User

LEMMA EventsInit == Init => EventsInv
  BY DEF Init, EventsInv, Handling, Over, NoEvent

LEMMA EventsKept == TypeInv /\ EventsInv /\ [Next]_lcVars => EventsInv'
<1> SUFFICES ASSUME TypeInv, EventsInv, [Next]_lcVars PROVE EventsInv'
  OBVIOUS
<1> USE DEF EventsInv, Handling, Over, Goto
<1>1. backend' = backend
  BY Settings
<1>2. CASE TakeBatch
  <2>1. PICK taken \in SUBSET watched, answer \in Answers : batch' = {Report(f, answer) : f \in taken}
    BY <1>2, WaitReports DEF TakeBatch, TypeInv
  <2>2. \A f \in taken : Report(f, answer).fd = f /\ (backend = "select" => ~Report(f, answer).close)
    BY ReportTypes DEF TypeInv, PollerOK
  <2>3. \A d, e \in batch' : d.fd = e.fd => d = e
    BY <2>1, <2>2
  <2>4. \A e \in batch' : e.close => backend # "select"
    BY <2>1, <2>2
  <2> QED
    BY <1>1, <1>2, <2>3, <2>4 DEF TakeBatch, Waiting
<1>3. CASE NextEvent
  <2>1. PICK e \in batch : batch' = batch \ {e} /\ cur' \in {e, NoEvent} /\ (pc' # "next" => cur' = e)
    BY <1>3 DEF NextEvent
  <2>2. pc' \notin Over /\ ~NoEvent.close
    BY <1>3 DEF NextEvent, NoEvent
  <2> QED
    BY <1>1, <2>1, <2>2
<1>4. CASE LeaveLoop \/ ShutDown
  <2>1. batch' = {} /\ ~running' /\ pc' \in {"shutDown", "loopLost"} /\ cur' = cur
    <3>1. CASE LeaveLoop
      BY <3>1 DEF LeaveLoop, Waiting
    <3>2. CASE ShutDown
      <4>1. batch' = batch /\ running' = running /\ cur' = cur /\ pc = "shutDown"
        BY <3>2 DEF ShutDown
      <4>2. pc' \in {"shutDown", "loopLost"}
        BY <3>2 DEF ShutDown
      <4> QED
        BY <4>1, <4>2
    <3> QED
      BY <1>4, <3>1, <3>2
  <2> QED
    BY <1>1, <2>1
<1>5. CASE Release
  BY <1>1, <1>5 DEF Release
<1>6. CASE Narrows
  BY <1>1, <1>6 DEF Narrows
<1> QED
  BY <1>2, <1>3, <1>4, <1>5, <1>6, EventKinds
------------------------------------------------------------------------------
(* Which numbers are closed. *)

\* While the listener watches the server's number, or has an event for it, it
\* is the server's socket.
ServerInv ==
    /\ \A f \in watched : Has(object[Server], f) => table[f] = Server
    /\ \A e \in batch : Has(object[Server], e.fd) => table[e.fd] = Server
    /\ pc = "closeServer" => table[cur.fd] = Server
    /\ object[Server].connected => serverClosed \/ table[object[Server].fd] = Server

MiscloseInv ==
    /\ {misclosed, retaken, serverClosed} \subseteq BOOLEAN
    /\ misclosed => retaken

SafetyInv == TypeInv /\ OwnInv /\ AtServer /\ EventsInv /\ ServerInv /\ MiscloseInv

\* Where events and watched numbers come from.
LEMMA BatchFrom ==
    ASSUME TypeInv, [Next]_lcVars
    PROVE  \/ batch' \subseteq batch
           \/ TakeBatch /\ \A e \in batch' : e.fd \in watched /\ e.about = table[e.fd]
<1>1. CASE TakeBatch
  <2>1. PICK taken \in SUBSET watched, answer \in Answers : batch' = {Report(f, answer) : f \in taken}
    BY <1>1, WaitReports DEF TakeBatch, TypeInv
  <2>2. \A f \in taken : Report(f, answer).fd = f /\ Report(f, answer).about = table[f]
    BY ReportTypes DEF TypeInv, PollerOK
  <2> QED
    BY <1>1, <2>1, <2>2
<1>2. CASE NextEvent \/ LeaveLoop
  BY <1>2 DEF NextEvent, LeaveLoop
<1>3. CASE ShutDown \/ Release
  BY <1>3 DEF ShutDown, Release
<1>4. CASE Narrows
  BY <1>4 DEF Narrows
<1> QED
  BY <1>1, <1>2, <1>3, <1>4, EventKinds

LEMMA WatchedFrom ==
    ASSUME TypeInv, [Next]_lcVars
    PROVE  \/ watched' \subseteq watched
           \/ SetUp /\ pc' = "emplace" /\ watched' = watched \cup {accepted.fd} /\ table' = table
<1>1. CASE SetUp
  BY <1>1 DEF SetUp, AddFd, Goto
<1>2. CASE TakeBatch \/ NextEvent \/ CloseServer \/ FindConnection \/ SafeDisconnect
  BY <1>2 DEF TakeBatch, NextEvent, CloseServer, FindConnection, SafeDisconnect
<1>3. CASE EmplaceFails \/ Unwind \/ ShutDown \/ Release \/ CloseTarget
  BY <1>3 DEF EmplaceFails, Unwind, ShutDown, Release, CloseTarget, Forgotten
<1>4. CASE \E c \in Connections : Disconnect(c)
  BY <1>4 DEF Disconnect, Removed
<1>5. CASE Accept \/ AcceptFails \/ Emplace \/ GetConnection \/ ReceiveMessage
  BY <1>5 DEF Accept, AcceptFails, Emplace, GetConnection, ReceiveMessage
<1>6. CASE ReceiveNothing \/ LeaveLoop \/ DisconnectServer \/ Stop \/ DestroyServer \/ Surroundings \/ UNCHANGED lcVars
  BY <1>6 DEF ReceiveNothing, LeaveLoop, DisconnectServer, Stop, DestroyServer, Surroundings, lcVars
<1> QED
  BY <1>1, <1>2, <1>3, <1>4, <1>5, <1>6 DEF Next, Listener, User

\* The server's socket is closed by the listener and by its destructor.
LEMMA ServerStays ==
    ASSUME TypeInv, OwnInv, AtServer, [Next]_lcVars, ~CloseServer, ~DestroyServer
    PROVE  /\ object'[Server] = object[Server]
           /\ \A f \in Fd : table[f] = Server => table'[f] = Server
<1>1. object'[Server] = object[Server]
  BY ServerNumber
<1>2. CASE UNCHANGED table
  BY <1>1, <1>2
<1>3. CASE DropsHeld
  BY <1>1, <1>3, OwnTypes, Names DEF DropsHeld, OwnInv, NewInv
<1>4. ASSUME NEW f \in Fd, AppTakes(f) \/ \E p \in Peer : Takes(p, f)
      PROVE  \A g \in Fd : table[g] = Server => table'[g] = Server
  BY <1>4, OwnTypes, Names DEF AppTakes, Takes
<1>5. ASSUME NEW f \in Fd, Frees(f)
      PROVE  \A g \in Fd : table[g] = Server => table'[g] = Server
  BY <1>5, OwnTypes DEF Frees
<1>6. ASSUME NEW c \in Connections, Shuts(c)
      PROVE  \A g \in Fd : table[g] = Server => table'[g] = Server
  BY <1>6, OwnNumber, ShutsEffect, Names DEF OwnInv
<1>7. CASE Rests \/ Places \/ Clears
  BY <1>2, <1>7 DEF Rests, Places, Clears
<1>8. CASE \E p \in Peer : PeerQueues(p)
  BY <1>2, <1>8 DEF PeerQueues
<1>9. CASE (\E f \in Fd : TakesOut(f)) \/ (\E c \in Connections : Disconnects(c))
  BY <1>2, <1>9 DEF TakesOut, Disconnects
<1> QED
  BY <1>1, <1>3, <1>4, <1>5, <1>6, <1>7, <1>8, <1>9, StepKinds

LEMMA ServerClosedKept == [Next]_lcVars => CloseServer \/ UNCHANGED serverClosed
<1> SUFFICES ASSUME [Next]_lcVars PROVE CloseServer \/ UNCHANGED serverClosed
  OBVIOUS
<1>1. CASE TakeBatch \/ NextEvent \/ FindConnection \/ SafeDisconnect \/ Accept \/ AcceptFails
  BY <1>1 DEF TakeBatch, NextEvent, FindConnection, SafeDisconnect, Accept, AcceptFails
<1>2. CASE SetUp \/ Emplace \/ EmplaceFails \/ Unwind \/ GetConnection \/ ReceiveMessage
  BY <1>2 DEF SetUp, Emplace, EmplaceFails, Unwind, GetConnection, ReceiveMessage
<1>3. CASE ReceiveNothing \/ LeaveLoop \/ ShutDown \/ Release \/ CloseTarget \/ DisconnectServer
  BY <1>3 DEF ReceiveNothing, LeaveLoop, ShutDown, Release, CloseTarget, DisconnectServer
<1>4. CASE (\E c \in Connections : Disconnect(c)) \/ Stop \/ DestroyServer \/ Surroundings \/ UNCHANGED lcVars
  BY <1>4 DEF Disconnect, Stop, DestroyServer, Surroundings, lcVars
<1> QED
  BY <1>1, <1>2, <1>3, <1>4 DEF Next, Listener, User

LEMMA ServerInit == Init => ServerInv /\ MiscloseInv
<1> SUFFICES ASSUME Init PROVE ServerInv /\ MiscloseInv
  OBVIOUS
<1>1. OpenOf(Server) # {}
  <2>1. Cardinality(OpenOf(Server)) = 1
    BY DEF Init
  <2> QED
    BY <2>1, FS_EmptySet
<1>2. Min(OpenOf(Server)) \in OpenOf(Server)
  <2>1. OpenOf(Server) \in SUBSET Fd
    BY DEF OpenOf
  <2> QED
    BY <1>1, <2>1, Least
<1>3. object[Server] = [connected |-> TRUE, fd |-> Min(OpenOf(Server))]
  BY <1>1, Names DEF Init
<1>4. object[Server].connected /\ table[object[Server].fd] = Server
  BY <1>2, <1>3 DEF OpenOf
<1> QED
  BY <1>4 DEF Init, ServerInv, MiscloseInv, Has

LEMMA ServerKept == SafetyInv /\ [Next]_lcVars => ServerInv'
<1> SUFFICES ASSUME SafetyInv, [Next]_lcVars PROVE ServerInv'
  OBVIOUS
<1> USE DEF SafetyInv, Has
<1>1. CASE CloseServer
  <2>1. /\ cur.fd = object[Server].fd /\ object' = object /\ pc' = "next" /\ serverClosed'
        /\ watched' = watched \ {cur.fd} /\ batch' \subseteq batch
    BY <1>1 DEF CloseServer, AtServer, IsServer, Handled, Goto, Unreported
  <2>2. \A e \in batch : e.fd # cur.fd
    BY <1>1 DEF CloseServer, EventsInv, Handling
  <2> QED
    BY <2>1, <2>2 DEF ServerInv
<1>2. CASE DestroyServer
  <2>1. ~object'[Server].connected /\ pc' = "done"
    BY <1>2, OwnTypes, Names, ObjectValues DEF DestroyServer
  <2> QED
    BY <2>1 DEF ServerInv
<1>3. CASE ~CloseServer /\ ~DestroyServer
  <2>1. object'[Server] = object[Server] /\ \A f \in Fd : table[f] = Server => table'[f] = Server
    BY <1>3, ServerStays
  <2>2. watched \subseteq Fd /\ batch \subseteq Events /\ \A e \in batch : e.fd \in Fd
    BY DEF TypeInv, PollerOK, Events
  <2>3. \A f \in watched' : Has(object'[Server], f) => table'[f] = Server
    <3>1. CASE watched' \subseteq watched
      BY <2>1, <2>2, <3>1 DEF ServerInv
    <3>2. CASE SetUp /\ watched' = watched \cup {accepted.fd}
      <4>1. Held = accepted /\ Held # NoAccept
        BY <3>2 DEF SetUp, Held, TypeInv, ListenerOK
      <4>2. accepted.fd \in Fd /\ table[accepted.fd] \in Peer
        BY <4>1, OwnTypes DEF OwnInv, NewInv
      <4>3. ~Has(object[Server], accepted.fd)
        BY <4>2, Names DEF OwnInv, ObjectsInv
      <4> QED
        BY <2>1, <2>2, <3>2, <4>3 DEF ServerInv
    <3> QED
      BY <3>1, <3>2, WatchedFrom
  <2>4. \A e \in batch' : Has(object'[Server], e.fd) => table'[e.fd] = Server
    BY <2>1, <2>2, BatchFrom DEF ServerInv
  <2>5. pc' = "closeServer" => table'[cur'.fd] = Server
    <3>1. CASE NextEvent
      <4>1. pc' = "closeServer" => cur' \in batch /\ IsServer(cur'.fd) /\ table' = table
        BY <3>1 DEF NextEvent, Goto
      <4>2. IsServer(cur'.fd) /\ cur'.fd \in Fd => Has(object[Server], cur'.fd)
        BY Names DEF IsServer, OwnInv, ObjectsInv
      <4> QED
        BY <2>2, <4>1, <4>2 DEF ServerInv
    <3>2. CASE ~NextEvent
      <4>1. pc' = "closeServer" => pc = "closeServer" /\ cur' = cur
        BY <1>3, <3>2 DEF Next, Listener, User, TakeBatch, CloseServer, FindConnection, SafeDisconnect,
           Accept, AcceptFails, SetUp, Emplace, EmplaceFails, Unwind, GetConnection, ReceiveMessage, ReceiveNothing,
           LeaveLoop, ShutDown, Release, Disconnect, CloseTarget, DisconnectServer, Stop, DestroyServer,
           Surroundings, lcVars, Handled, Goto, Waiting
      <4>2. pc = "closeServer" => cur.fd \in Fd
        BY DEF TypeInv, ListenerOK, Handling, Events
      <4> QED
        BY <2>1, <4>1, <4>2 DEF ServerInv
    <3> QED
      BY <3>1, <3>2
  <2>6. object[Server].connected => object[Server].fd \in Fd
    BY Names DEF OwnInv, ObjectsInv
  <2>7. object'[Server].connected => serverClosed' \/ table'[object'[Server].fd] = Server
    BY <1>3, <2>1, <2>6, ServerClosedKept DEF ServerInv
  <2> QED
    BY <2>3, <2>4, <2>5, <2>7 DEF ServerInv
<1> QED
  BY <1>1, <1>2, <1>3

\* Only CloseServer, Unwind and DestroyServer note what they close; the others
\* leave the three marks alone or close.
LEMMA OwnClosed ==
    ASSUME MiscloseInv, NEW f \in Fd, NEW s, Close(f, s), table[f] = s, UNCHANGED <<retaken, serverClosed>>
    PROVE  MiscloseInv'
<1>1. misclosed' = (misclosed \/ table[f] \notin {s, Free})
  BY DEF Close
<1>2. table[f] \in {s, Free} /\ misclosed \in BOOLEAN
  BY DEF MiscloseInv
<1>3. misclosed' = misclosed
  BY <1>1, <1>2
<1> QED
  BY <1>3 DEF MiscloseInv

\* A number is closed only as its own by code that has not closed it before.
LEMMA MiscloseKept == SafetyInv /\ [Next]_lcVars => MiscloseInv'
<1> SUFFICES ASSUME SafetyInv, [Next]_lcVars PROVE MiscloseInv'
  OBVIOUS
<1> USE DEF SafetyInv
<1>1. ASSUME NEW c \in Connections, object[c].connected, Close(object[c].fd, c),
             UNCHANGED <<retaken, serverClosed>>
      PROVE  MiscloseInv'
  <2>1. object[c].fd \in Fd /\ table[object[c].fd] = c
    BY <1>1, OwnNumber DEF OwnInv
  <2> QED
    BY <1>1, <2>1, OwnClosed
<1>2. CASE UNCHANGED <<misclosed, retaken, serverClosed>>
  BY <1>2 DEF MiscloseInv
<1>3. CASE CloseServer
  <2>1. cur.fd \in Fd /\ table[cur.fd] = Server
    BY <1>3 DEF CloseServer, ServerInv, TypeInv, ListenerOK, Handling, Events
  <2>2. Close(cur.fd, Server) /\ serverClosed' = TRUE /\ retaken' = retaken
    BY <1>3 DEF CloseServer
  <2>3. misclosed' = (misclosed \/ table[cur.fd] \notin {Server, Free})
    BY <2>1, <2>2 DEF Close
  <2>4. misclosed' = misclosed
    BY <2>1, <2>3 DEF MiscloseInv
  <2> QED
    BY <2>2, <2>4 DEF MiscloseInv
<1>4. CASE SafeDisconnect
  <2>1. cn \in Connections /\ UNCHANGED <<retaken, serverClosed>>
    BY <1>4 DEF SafeDisconnect, TypeInv, ListenerOK
  <2>2. (object[cn].connected /\ Close(object[cn].fd, cn)) \/ UNCHANGED misclosed
    BY <1>4 DEF SafeDisconnect
  <2> QED
    BY <1>1, <1>2, <2>1, <2>2
<1>5. CASE ShutDown
  <2>1. PICK p \in Peer : object[p].connected /\ Close(object[p].fd, p)
    BY <1>5 DEF ShutDown
  <2>2. UNCHANGED <<retaken, serverClosed>>
    BY <1>5 DEF ShutDown
  <2> QED
    BY <1>1, <2>1, <2>2, Names
<1>6. CASE CloseTarget
  <2>1. target \in Connections /\ UNCHANGED <<retaken, serverClosed>>
    BY <1>6 DEF CloseTarget, TypeInv, UserOK, Unlocked
  <2>2. (object[target].connected /\ Close(object[target].fd, target)) \/ UNCHANGED misclosed
    BY <1>6 DEF CloseTarget
  <2> QED
    BY <1>1, <1>2, <2>1, <2>2
<1>7. CASE SetUp \/ EmplaceFails
  <2>1. UNCHANGED misclosed \/ Close(accepted.fd, accepted.peer)
    BY <1>7 DEF SetUp, EmplaceFails
  <2>2. UNCHANGED <<retaken, serverClosed>>
    BY <1>7 DEF SetUp, EmplaceFails
  <2>3. Held = accepted /\ Held # NoAccept
    BY <1>7 DEF SetUp, EmplaceFails, Held, TypeInv, ListenerOK
  <2>4. accepted.fd \in Fd /\ table[accepted.fd] = accepted.peer
    BY <2>3, OwnTypes DEF OwnInv, NewInv
  <2> QED
    BY <1>2, <2>1, <2>2, <2>4, OwnClosed
<1>8. CASE Unwind
  <2>1. accepted.fd \in Fd
    BY <1>8 DEF Unwind, TypeInv, ListenerOK, NoAccept
  <2>2. misclosed' \in BOOLEAN
    BY <1>8, <2>1 DEF Unwind, Close
  <2> QED
    BY <1>8, <2>2 DEF Unwind, MiscloseInv
<1>9. CASE DestroyServer
  <2>1. object[Server].fd \in Fd /\ object[Server].connected
    BY <1>9, Names DEF DestroyServer, OwnInv, ObjectsInv
  <2>2. misclosed' = (misclosed \/ table[object[Server].fd] \notin {Server, Free})
    BY <1>9, <2>1 DEF DestroyServer, Close
  <2>3. retaken' = (retaken \/ serverClosed) /\ serverClosed' = serverClosed
    BY <1>9 DEF DestroyServer
  <2>4. serverClosed \/ table[object[Server].fd] = Server
    BY <2>1 DEF ServerInv
  <2>5. CASE serverClosed
    <3>1. retaken' = TRUE
      BY <2>3, <2>5
    <3> QED
      BY <2>2, <2>3, <3>1 DEF MiscloseInv
  <2>6. CASE ~serverClosed
    <3>1. retaken' = retaken /\ misclosed' = misclosed
      BY <2>2, <2>3, <2>4, <2>6 DEF MiscloseInv
    <3> QED
      BY <2>3, <3>1 DEF MiscloseInv
  <2> QED
    BY <2>5, <2>6
<1>10. CASE TakeBatch \/ NextEvent \/ FindConnection \/ Accept \/ AcceptFails \/ Emplace
  BY <1>2, <1>10 DEF TakeBatch, NextEvent, FindConnection, Accept, AcceptFails, Emplace
<1>11. CASE GetConnection \/ ReceiveMessage \/ ReceiveNothing \/ LeaveLoop \/ Release
  BY <1>2, <1>11 DEF GetConnection, ReceiveMessage, ReceiveNothing, LeaveLoop, Release
<1>12. CASE (\E c \in Connections : Disconnect(c)) \/ DisconnectServer \/ Stop \/ Surroundings
  BY <1>2, <1>12 DEF Disconnect, DisconnectServer, Stop, Surroundings
<1>13. CASE UNCHANGED lcVars
  BY <1>2, <1>13 DEF lcVars
<1> QED
  BY <1>3, <1>4, <1>5, <1>6, <1>7, <1>8, <1>9, <1>10, <1>11, <1>12, <1>13 DEF Next, Listener, User

LEMMA SafetyInit == Init => SafetyInv
  BY InitTypes, OwnInit, AtServerInit, EventsInit, ServerInit DEF SafetyInv

LEMMA SafetyKept == SafetyInv /\ [Next]_lcVars => SafetyInv'
  BY TypesKept, OwnKept, AtServerKept, EventsKept, ServerKept, MiscloseKept DEF SafetyInv

\* No accepted socket is lost by failing calls, closes of two threads and the
\* shutdown, and a number that stands for something else is closed only by code
\* that has closed its own before: a failed emplace, and a server that the
\* listener has closed.
THEOREM NumbersClosedOnce == Spec => []ClosedOnce
<1>1. SafetyInv => ClosedOnce
  <2> SUFFICES ASSUME SafetyInv PROVE ClosedOnce
    OBVIOUS
  <2>1. misclosed => retaken
    BY DEF SafetyInv, MiscloseInv
  <2>2. ASSUME NEW f \in Fd, table[f] \in Peer
        PROVE  \/ pc \in {"setUp", "emplace", "aborted"} /\ accepted = [peer |-> table[f], fd |-> f]
               \/ /\ object[table[f]] = [connected |-> TRUE, fd |-> f]
                  /\ internal[f] = table[f] \/ cn = table[f] \/ target = table[f]
    <3>1. table[f] \in Socket /\ table[f] # NoOne
      BY <2>2, Names
    <3>2. CASE Held.peer = table[f] /\ Held.fd = f
      <4>1. Held # NoAccept
        BY <3>1, <3>2 DEF NoAccept
      <4>2. Held = accepted /\ pc \in {"setUp", "emplace", "aborted"}
        BY <4>1 DEF Held
      <4> QED
        BY <3>2, <4>1, <4>2 DEF SafetyInv, TypeInv, ListenerOK
    <3>3. CASE /\ Has(object[table[f]], f)
               /\ \/ internal[f] = table[f] \/ Dropped = table[f]
                  \/ attached = {} /\ Closing = table[f]
      <4>1. object[table[f]] \in Objects
        BY <3>1 DEF SafetyInv, TypeInv, ObjectOK
      <4>2. object[table[f]] = [connected |-> TRUE, fd |-> f]
        BY <3>3, <4>1 DEF Has, Objects
      <4>3. internal[f] = table[f] \/ cn = table[f] \/ target = table[f]
        BY <3>1, <3>3 DEF Dropped, Closing
      <4> QED
        BY <4>2, <4>3
    <3> QED
      BY <2>2, <3>2, <3>3 DEF SafetyInv, OwnInv, KeptInv
  <2> QED
    BY <2>1, <2>2 DEF ClosedOnce, NoStray
<1> QED
  BY SafetyInit, SafetyKept, <1>1, PTL DEF Spec
------------------------------------------------------------------------------
(* What the listener takes for whom, and how it may stop. *)

\* The connection that the other thread closes and that the listener has been told of.
Announced == IF attached = {} \/ Closing \in attached THEN Closing ELSE NoOne

\* The connection taken out still has the number of the event, if any.
NumberInv == Dropped # NoOne /\ object[Dropped].connected => object[Dropped].fd = cur.fd

\* No event is about a peer that has not been accepted.
FreshInv == \A e \in batch : e.about \in Connections => e.about \notin fresh \cup backlog \cup {Held.peer}

\* A number is of the connection its event is about while no other thread
\* disconnects.  With WSAPoll it is until the listener is told, which takes the
\* event away, or the map has the connection, which then keeps its element.
BatchInv == \A e \in batch : e.about \in Connections =>
    /\ ~disturbed => table[e.fd] = e.about
    /\ backend = "wsapoll" => \/ table[e.fd] = e.about /\ Announced # e.about
                              \/ attached # {} /\ internal[e.fd] = e.about

\* select and WSAPoll do not wait for a connection the listener was told of.
UnwatchedInv ==
    backend # "epoll" /\ Announced # NoOne /\ object[Announced].connected /\ object[Announced].fd \in watched
        => Dropped = Announced

Reliable == backend = "wsapoll" \/ ~disturbed

\* A hang-up that can be relied on closes the connection it is about.
HangUpInv == cur.close /\ cur.about \in Connections /\ Reliable =>
    /\ pc = "closeConnection" => /\ table[cur.fd] \in Connections => table[cur.fd] = cur.about
                                 /\ internal[cur.fd] \in {NoOne, cur.about}
    /\ pc = "disconnect" => cn = cur.about

\* Data is read for the connection that has the number, which is not found only
\* when another thread closes it and there are no clients.
RecvInv == pc = "recv" /\ table[cur.fd] \in Connections =>
    /\ cn \in {table[cur.fd], NoOne}
    /\ cn = NoOne => disturbed /\ attached = {}

\* Where the listener takes up nothing any more.
Gone == Over \cup Stopped

\* The number that is not registered yet, and the one that is about to be taken
\* out of the poller.
Added  == IF pc = "setUp" THEN accepted.fd ELSE 0
InHand == IF pc = "disconnect" THEN cur.fd ELSE IF pc = "unwind" THEN accepted.fd ELSE 0

\* A number that another thread has closed and that the map and the poller keep,
\* because the list of clients is not empty.
Dead(f)  == table[f] \in {App, Free}
Stale(f) == backend # "epoll" /\ attached # {} /\ internal[f] # NoOne

\* The dead numbers that are waited for are in the map, or in hand.
DeadInv == pc \notin Gone => \A f \in watched : Dead(f) \/ f = Added =>
    Stale(f) \/ (backend # "epoll" /\ f = InHand)

\* So are those of events, while no other thread disconnects.
DeadEvents == pc \notin Gone /\ ~disturbed => \A e \in batch :
    Dead(e.fd) \/ e.fd = Held.fd => Stale(e.fd)

DeadRead == pc = "read" /\ ~disturbed /\ Dead(cur.fd) => Stale(cur.fd)

\* What is read from a dead number is read for a connection that is closed.
DeadRecv == pc = "recv" /\ Dead(cur.fd) =>
    /\ cn # NoOne => ~object[cn].connected
    /\ disturbed \/ (cn # NoOne /\ attached # {} /\ backend # "epoll")

\* What recv has found ended has nothing to read.
Ended(c) == c \in hup /\ inbox[c] = 0
EndInv ==
    /\ pc = "closeConnection" /\ ~cur.close /\ table[cur.fd] \in Connections => Ended(table[cur.fd])
    /\ pc = "disconnect" /\ ~cur.close /\ object[cn].connected => Ended(cn)
    /\ lost # "read"

StopInv ==
    /\ pc = "aborted" => attached # {}
    /\ pc = "readNull" => disturbed
    /\ pc = "loopLost" => attached = {}

MarksInv ==
    /\ disturbed \in BOOLEAN /\ (~disturbed => Closing = NoOne)
    /\ misdirected \in {"never", "disturbed", "closed", "stale"}
    /\ misdirected = "disturbed" => backend = "epoll"
    /\ misdirected = "stale" => attached # {} /\ backend # "epoll"

NumbersInv == NumberInv /\ FreshInv /\ BatchInv /\ UnwatchedInv /\ HangUpInv
ReadsInv   == RecvInv /\ DeadInv /\ DeadEvents /\ DeadRead /\ DeadRecv /\ EndInv
AboutInv   == NumbersInv /\ ReadsInv /\ StopInv /\ MarksInv

USE DEF NumbersInv, ReadsInv

LEMMA AboutInit == Init => AboutInv
<1> SUFFICES ASSUME Init PROVE AboutInv
  OBVIOUS
<1>1. NumberInv /\ FreshInv /\ BatchInv /\ UnwatchedInv /\ HangUpInv
  BY Names DEF Init, NumberInv, FreshInv, BatchInv, UnwatchedInv, HangUpInv, Dropped, Closing, Announced, NoEvent
<1>2. RecvInv /\ DeadRead /\ DeadRecv /\ EndInv /\ StopInv /\ MarksInv
  BY Names DEF Init, RecvInv, DeadRead, DeadRecv, EndInv, StopInv, MarksInv, Closing
<1>3. DeadEvents
  BY DEF Init, DeadEvents
<1>4. DeadInv
  <2>1. pc = "next" /\ watched = Fd \ FreeFds /\ \A f \in Fd : table[f] \in {Free, Server} \cup attached
    BY DEF Init
  <2>2. \A f \in watched : ~Dead(f) /\ f # Added
    BY <2>1, Numbers, Names DEF FreeFds, Dead, Added, Init
  <2> QED
    BY <2>2 DEF DeadInv
<1> QED
  BY <1>1, <1>2, <1>3, <1>4 DEF AboutInv

\* What the listener has left it does not take up again.
LEMMA GoneStays == [Next]_lcVars /\ pc \in Gone => pc' \in Gone
<1> SUFFICES ASSUME [Next]_lcVars, pc \in Gone PROVE pc' \in Gone
  OBVIOUS
<1> USE DEF Gone, Over, Stopped, Goto, Waiting
<1>1. CASE TakeBatch \/ NextEvent \/ CloseServer \/ FindConnection \/ SafeDisconnect
  BY <1>1 DEF TakeBatch, NextEvent, CloseServer, FindConnection, SafeDisconnect
<1>2. CASE Accept \/ AcceptFails \/ SetUp \/ Emplace
  BY <1>2 DEF Accept, AcceptFails, SetUp, Emplace
<1>3. CASE EmplaceFails \/ Unwind \/ GetConnection \/ ReceiveMessage \/ ReceiveNothing
  BY <1>3 DEF EmplaceFails, Unwind, GetConnection, ReceiveMessage, ReceiveNothing
<1>4. CASE LeaveLoop \/ Release \/ DestroyServer
  BY <1>4 DEF LeaveLoop, Release, DestroyServer
<1>5. CASE ShutDown
  BY <1>5 DEF ShutDown
<1>6. CASE (\E c \in Connections : Disconnect(c)) \/ CloseTarget \/ DisconnectServer \/ Stop
  BY <1>6 DEF Disconnect, CloseTarget, DisconnectServer, Stop
<1>7. CASE Surroundings \/ UNCHANGED lcVars
  BY <1>7 DEF Surroundings, lcVars
<1> QED
  BY <1>1, <1>2, <1>3, <1>4, <1>5, <1>6, <1>7 DEF Next, Listener, User

\* Where the listener's thread has come from.
LEMMA Arrives ==
    ASSUME [Next]_lcVars
    PROVE  /\ pc' = "disconnect" => FindConnection \/ (pc = "disconnect" /\ UNCHANGED <<cur, cn>>)
           /\ pc' = "closeConnection" => NextEvent \/ ReceiveNothing \/ (pc = "closeConnection" /\ UNCHANGED cur)
           /\ pc' = "recv" => GetConnection \/ (pc = "recv" /\ UNCHANGED <<cur, cn>>)
           /\ pc' = "aborted" => (Emplace /\ pc' # "accept") \/ pc = "aborted"
           /\ pc' = "readNull" => ReceiveMessage \/ pc = "readNull"
           /\ pc' = "loopLost" => (ShutDown /\ internal' # internal) \/ pc = "loopLost"
           /\ pc' = "read" => NextEvent \/ (pc = "read" /\ UNCHANGED cur)
           /\ pc' = "setUp" => Accept \/ (pc = "setUp" /\ UNCHANGED accepted)
           /\ pc = "disconnect" => SafeDisconnect \/ (pc' = pc /\ UNCHANGED cur)
           /\ pc = "unwind" => Unwind \/ (pc' = pc /\ UNCHANGED accepted)
           /\ SafeDisconnect \/ UNCHANGED lost
           /\ running' => running
<1> USE DEF Goto, Handled, Waiting
<1>1. CASE TakeBatch \/ NextEvent \/ CloseServer \/ FindConnection \/ SafeDisconnect
  BY <1>1 DEF TakeBatch, NextEvent, CloseServer, FindConnection, SafeDisconnect
<1>2. CASE Accept \/ AcceptFails \/ SetUp \/ Emplace
  BY <1>2 DEF Accept, AcceptFails, SetUp, Emplace
<1>3. CASE EmplaceFails \/ Unwind \/ GetConnection \/ ReceiveMessage \/ ReceiveNothing
  BY <1>3 DEF EmplaceFails, Unwind, GetConnection, ReceiveMessage, ReceiveNothing
<1>4. CASE LeaveLoop \/ Release \/ DestroyServer
  BY <1>4 DEF LeaveLoop, Release, DestroyServer
<1>7. CASE ShutDown
  <2>1. pc' = "shutDown" \/ (internal' # internal /\ pc' = "loopLost")
    BY <1>7 DEF ShutDown
  <2>2. running' = running /\ lost' = lost /\ pc = "shutDown"
    BY <1>7 DEF ShutDown
  <2> QED
    BY <1>7, <2>1, <2>2
<1>5. CASE (\E c \in Connections : Disconnect(c)) \/ CloseTarget \/ DisconnectServer \/ Stop
  BY <1>5 DEF Disconnect, CloseTarget, DisconnectServer, Stop
<1>6. CASE Surroundings \/ UNCHANGED lcVars
  BY <1>6 DEF Surroundings, lcVars
<1> QED
  BY <1>1, <1>2, <1>3, <1>4, <1>5, <1>6, <1>7 DEF Next, Listener, User

\* When the marks are set.
LEMMA Disturbs ==
    ASSUME [Next]_lcVars
    PROVE  /\ TakeBatch \/ (\E c \in Connections : Disconnect(c)) \/ UNCHANGED disturbed
           /\ SafeDisconnect \/ ReceiveMessage \/ UNCHANGED misdirected
<1>1. CASE TakeBatch \/ NextEvent \/ CloseServer \/ FindConnection \/ SafeDisconnect
  BY <1>1 DEF TakeBatch, NextEvent, CloseServer, FindConnection, SafeDisconnect
<1>2. CASE Accept \/ AcceptFails \/ SetUp \/ Emplace
  BY <1>2 DEF Accept, AcceptFails, SetUp, Emplace
<1>3. CASE EmplaceFails \/ Unwind \/ GetConnection \/ ReceiveMessage \/ ReceiveNothing
  BY <1>3 DEF EmplaceFails, Unwind, GetConnection, ReceiveMessage, ReceiveNothing
<1>4. CASE LeaveLoop \/ ShutDown \/ Release \/ DestroyServer
  BY <1>4 DEF LeaveLoop, ShutDown, Release, DestroyServer
<1>5. CASE (\E c \in Connections : Disconnect(c)) \/ CloseTarget \/ DisconnectServer \/ Stop
  BY <1>5 DEF Disconnect, CloseTarget, DisconnectServer, Stop
<1>6. CASE Surroundings \/ UNCHANGED lcVars
  BY <1>6 DEF Surroundings, lcVars
<1> QED
  BY <1>1, <1>2, <1>3, <1>4, <1>5, <1>6 DEF Next, Listener, User

\* What a step may do to a descriptor, an element of the map and an object.
LEMMA TableFrom ==
    ASSUME TypeInv, OwnInv, AtServer, [Next]_lcVars, NEW f \in Fd
    PROVE  table'[f] = table[f] \/ table'[f] \notin Socket \/ (pc = "accept" /\ table[f] = Free)
<1> USE OwnTypes, Names
<1>1. CASE UNCHANGED table
  BY <1>1
<1>2. CASE DropsHeld
  BY <1>2 DEF DropsHeld
<1>3. ASSUME NEW g \in Fd, AppTakes(g) \/ Frees(g) \/ \E p \in Peer : Takes(p, g)
      PROVE  table'[f] = table[f] \/ table'[f] \notin Socket \/ (pc = "accept" /\ table[f] = Free)
  BY <1>3 DEF AppTakes, Frees, Takes
<1>4. ASSUME NEW c \in Connections, Shuts(c) PROVE table'[f] = table[f] \/ table'[f] \notin Socket
  BY <1>4, ShutsEffect DEF OwnInv
<1>5. Rests \/ Places \/ Clears => UNCHANGED table
  BY DEF Rests, Places, Clears
<1>6. (\E p \in Peer : PeerQueues(p)) => UNCHANGED table
  BY DEF PeerQueues
<1>7. (\E g \in Fd : TakesOut(g)) \/ (\E c \in Connections : Disconnects(c)) => UNCHANGED table
  BY DEF TakesOut, Disconnects
<1> QED
  BY <1>1, <1>2, <1>3, <1>4, <1>5, <1>6, <1>7, StepKinds

LEMMA MapFrom ==
    ASSUME TypeInv, OwnInv, AtServer, [Next]_lcVars, NEW f \in Fd
    PROVE  internal'[f] \in {internal[f], NoOne} \/ (Held # NoAccept /\ f = Held.fd /\ internal[f] = NoOne)
<1>1. CASE UNCHANGED internal
  BY <1>1
<1>2. CASE Places
  BY <1>2, OwnTypes DEF Places
<1>3. CASE Clears
  BY <1>3 DEF Clears
<1>4. ASSUME NEW g \in Fd, TakesOut(g) PROVE internal'[f] \in {internal[f], NoOne}
  BY <1>4, TakesOutMap
<1>5. ASSUME NEW c \in Connections, Shuts(c) PROVE internal'[f] \in {internal[f], NoOne}
  BY <1>5, ShutsEffect DEF OwnInv
<1>6. ASSUME NEW c \in Connections, Disconnects(c) PROVE internal'[f] \in {internal[f], NoOne}
  BY <1>6, ToldMap DEF Disconnects
<1>7. Rests \/ DropsHeld => UNCHANGED internal
  BY DEF Rests, DropsHeld
<1>8. ASSUME NEW g \in Fd, AppTakes(g) \/ Frees(g) \/ \E p \in Peer : Takes(p, g)
      PROVE  UNCHANGED internal
  BY <1>8 DEF AppTakes, Frees, Takes
<1>9. (\E p \in Peer : PeerQueues(p)) => UNCHANGED internal
  BY DEF PeerQueues
<1> QED
  BY <1>1, <1>2, <1>3, <1>4, <1>5, <1>6, <1>7, <1>8, <1>9, StepKinds

LEMMA ObjectFrom ==
    ASSUME TypeInv, OwnInv, AtServer, [Next]_lcVars, NEW c \in Connections, object'[c].connected
    PROVE  object'[c] = object[c] \/ (Held # NoAccept /\ Held.peer = c)
<1> USE OwnTypes, Names, ObjectValues
<1>1. CASE UNCHANGED object
  BY <1>1
<1>2. CASE Places
  BY <1>2 DEF Places
<1>3. ASSUME NEW g \in Fd, Frees(g) PROVE object'[c] = object[c]
  BY <1>3 DEF Frees
<1>4. ASSUME NEW d \in Connections, Shuts(d) PROVE object'[c] = object[c]
  BY <1>4, ShutsEffect DEF OwnInv
<1>5. Rests \/ DropsHeld \/ Clears => UNCHANGED object
  BY DEF Rests, DropsHeld, Clears
<1>6. ASSUME NEW g \in Fd, AppTakes(g) \/ TakesOut(g) \/ \E p \in Peer : Takes(p, g)
      PROVE  UNCHANGED object
  BY <1>6 DEF AppTakes, TakesOut, Takes
<1>7. (\E p \in Peer : PeerQueues(p)) \/ (\E d \in Connections : Disconnects(d)) => UNCHANGED object
  BY DEF PeerQueues, Disconnects, Disconnect
<1> QED
  BY <1>1, <1>2, <1>3, <1>4, <1>5, <1>6, <1>7, StepKinds

\* What the listener finds by a number: the connection that has it, if any is found.
LEMMA Finds ==
    ASSUME TypeInv, OwnInv, NEW f \in Fd, table[f] \in Connections, Held = NoAccept, Dropped = NoOne
    PROVE  /\ Lookup(f) \in {table[f], NoOne}
           /\ Lookup(f) = NoOne => attached = {} /\ Closing = table[f]
<1>1. \/ Lookup(f) \in attached /\ object[Lookup(f)].fd = f
      \/ Lookup(f) = internal[f] /\ \A c \in attached : object[c].fd # f
  BY LookupTypes
<1>2. \A c \in attached : c \in Connections /\ c \in Socket
  BY OwnTypes, Names
<1>3. \A c \in attached : object[c].fd = f => table[f] = c
  BY <1>2 DEF OwnInv, ObjectsInv
<1>4. CASE Lookup(f) \in attached /\ object[Lookup(f)].fd = f
  BY <1>2, <1>3, <1>4, Names
<1>5. CASE Lookup(f) = internal[f] /\ \A c \in attached : object[c].fd # f
  <2>1. table[f] \notin Client
    BY <1>5 DEF OwnInv, KeptInv, Has
  <2>2. table[f] \in Peer /\ table[f] # NoOne /\ Held.peer # table[f]
    BY <2>1, Names, OwnTypes DEF Connections
  <2>3. internal[f] = table[f] \/ (attached = {} /\ Closing = table[f])
    BY <2>2 DEF OwnInv, KeptInv
  <2>4. internal[f] # NoOne => internal[f] = table[f]
    <3>1. ASSUME internal[f] # NoOne, attached = {} PROVE internal[f] = table[f]
      <4>1. internal[f] \in Connections /\ object[internal[f]].connected /\ object[internal[f]].fd = f
        BY <3>1, OwnTypes, Names DEF OwnInv, MapInv
      <4> QED
        BY <4>1 DEF OwnInv, ObjectsInv
    <3> QED
      BY <2>3, <3>1
  <2> QED
    BY <1>5, <2>2, <2>3, <2>4
<1> QED
  BY <1>1, <1>4, <1>5

LEMMA NumberKept == SafetyInv /\ AboutInv /\ [Next]_lcVars => NumberInv'
<1> SUFFICES ASSUME SafetyInv, AboutInv, [Next]_lcVars, Dropped' # NoOne, object'[Dropped'].connected
             PROVE  object'[Dropped'].fd = cur'.fd
  BY DEF NumberInv
<1> USE DEF SafetyInv
<1>1. pc' = "disconnect" /\ Dropped' = cn' /\ Dropped' \in Connections
  <2>1. TypeInv'
    BY TypesKept
  <2> QED
    BY <2>1 DEF Dropped, TypeInv, ListenerOK
<1>2. object'[cn'] = object[cn']
  <2>1. Held = NoAccept
    BY <1>1, Arrives DEF FindConnection, Held
  <2> QED
    BY <1>1, <2>1, ObjectFrom
<1>3. CASE FindConnection
  <2>1. cur.fd \in Fd
    BY <1>3 DEF FindConnection, TypeInv, ListenerOK, Handling, Events
  <2>2. cn' = Lookup(cur.fd) /\ cur' = cur
    BY <1>1, <1>3 DEF FindConnection, Handled, Goto
  <2>3. CASE cn' \in attached /\ object[cn'].fd = cur.fd
    BY <1>1, <1>2, <2>2, <2>3
  <2>4. CASE cn' = internal[cur.fd]
    BY <1>1, <1>2, <2>1, <2>2, <2>4, Names DEF OwnInv, MapInv
  <2> QED
    BY <2>1, <2>2, <2>3, <2>4, LookupTypes
<1>4. CASE pc = "disconnect" /\ UNCHANGED <<cur, cn>>
  BY <1>1, <1>2, <1>4 DEF AboutInv, NumberInv, Dropped
<1> QED
  BY <1>1, <1>3, <1>4, Arrives

LEMMA FreshKept == SafetyInv /\ AboutInv /\ [Next]_lcVars => FreshInv'
<1> SUFFICES ASSUME SafetyInv, AboutInv, [Next]_lcVars, NEW e \in batch', e.about \in Connections
             PROVE  e.about \notin fresh' \cup backlog' \cup {Held'.peer}
  BY DEF FreshInv
<1> USE DEF SafetyInv
<1>1. e.about # NoOne
  BY Names
<1>2. CASE e \in batch
  <2>1. e.about \notin fresh \cup backlog \cup {Held.peer}
    BY <1>2 DEF AboutInv, FreshInv
  <2>2. UNCHANGED <<fresh, backlog, Held>> => e.about \notin fresh' \cup backlog' \cup {Held'.peer}
    BY <2>1
  <2>3. Rests \/ Clears => UNCHANGED <<fresh, backlog, Held>>
    BY DEF Rests, Clears, SameHands
  <2>4. ASSUME NEW f \in Fd, AppTakes(f) \/ Frees(f) \/ TakesOut(f) PROVE UNCHANGED <<fresh, backlog, Held>>
    BY <2>4 DEF AppTakes, Frees, TakesOut, SameHands
  <2>5. ASSUME NEW c \in Connections, Shuts(c) \/ Disconnects(c) PROVE UNCHANGED <<fresh, backlog, Held>>
    BY <2>5 DEF Shuts, Disconnects
  <2>6. CASE DropsHeld \/ Places
    BY <1>1, <2>1, <2>6, OwnTypes DEF DropsHeld, Places, NoAccept
  <2>7. ASSUME NEW p \in Peer, PeerQueues(p) \/ \E f \in Fd : Takes(p, f)
        PROVE  e.about \notin fresh' \cup backlog' \cup {Held'.peer}
    BY <2>1, <2>7 DEF PeerQueues, Takes, SameHands
  <2> QED
    BY <2>2, <2>3, <2>4, <2>5, <2>6, <2>7, StepKinds
<1>3. CASE TakeBatch /\ e.fd \in watched /\ e.about = table[e.fd]
  <2>1. UNCHANGED <<fresh, backlog, Held>> /\ Held = NoAccept
    BY <1>3 DEF TakeBatch, Waiting, Held
  <2>2. e.fd \in Fd /\ Held.peer = NoOne
    BY <1>3, <2>1, OwnTypes DEF TypeInv, PollerOK
  <2>3. e.about \in Peer => object[e.about].connected
    BY <1>1, <1>3, <2>2 DEF OwnInv, KeptInv, Has
  <2> QED
    BY <1>1, <2>1, <2>2, <2>3, OwnTypes DEF OwnInv, NewInv, New
<1> QED
  BY <1>2, <1>3, BatchFrom

\* While an event is in the batch its connection keeps its number, but for the
\* close by another thread.
LEMMA EventNumber ==
    ASSUME SafetyInv, AboutInv, [Next]_lcVars, NEW e \in batch, e \in batch', e.about \in Connections,
           table[e.fd] = e.about, ~CloseTarget
    PROVE  table'[e.fd] = e.about
<1> USE DEF SafetyInv
<1>1. e.fd \in Fd /\ e.about # Held.peer /\ (pc \in Handling => e.fd # cur.fd) /\ pc # "shutDown"
  BY DEF TypeInv, PollerOK, Events, AboutInv, FreshInv, EventsInv, Over
<1> USE OwnTypes, Names
<1>2. CASE UNCHANGED table
  BY <1>2
<1>3. CASE DropsHeld
  <2>1. Held.fd # e.fd
    BY <1>1, <1>3 DEF DropsHeld, OwnInv, NewInv
  <2> QED
    BY <1>1, <1>3, <2>1 DEF DropsHeld
<1>4. ASSUME NEW g \in Fd, AppTakes(g) \/ Frees(g) \/ \E p \in Peer : Takes(p, g)
      PROVE  table'[e.fd] = e.about
  <2>1. g # e.fd
    BY <1>4 DEF AppTakes, Frees, Takes
  <2> QED
    BY <1>1, <1>4, <2>1 DEF AppTakes, Frees, Takes
<1>5. ASSUME NEW c \in Connections, Shuts(c) PROVE table'[e.fd] = e.about
  <2>1. c = Dropped
    BY <1>1, <1>5 DEF Shuts
  <2>2. object[c].connected => object[c].fd # e.fd
    BY <1>1, <2>1 DEF Dropped, AboutInv, NumberInv, Handling
  <2> QED
    BY <1>1, <1>5, <2>2, ShutsEffect DEF OwnInv
<1>6. Rests \/ Places \/ Clears => UNCHANGED table
  BY DEF Rests, Places, Clears
<1>7. (\E p \in Peer : PeerQueues(p)) => UNCHANGED table
  BY DEF PeerQueues
<1>8. (\E g \in Fd : TakesOut(g)) \/ (\E c \in Connections : Disconnects(c)) => UNCHANGED table
  BY DEF TakesOut, Disconnects
<1> QED
  BY <1>2, <1>3, <1>4, <1>5, <1>6, <1>7, <1>8, StepKinds

\* And its element of the map, when clients are attached.
LEMMA EventElement ==
    ASSUME SafetyInv, AboutInv, [Next]_lcVars, NEW e \in batch, e \in batch', e.about \in Connections,
           internal[e.fd] = e.about, attached # {}
    PROVE  internal'[e.fd] = e.about
<1> USE DEF SafetyInv
<1>1. e.fd \in Fd /\ (pc \in Handling => e.fd # cur.fd) /\ pc # "shutDown"
  BY DEF TypeInv, PollerOK, Events, EventsInv, Over
<1> USE OwnTypes, Names
<1>2. CASE UNCHANGED internal
  BY <1>2
<1>3. CASE Places
  <2>1. Held.fd # e.fd
    BY <1>3 DEF Places
  <2> QED
    BY <1>1, <1>3, <2>1 DEF Places
<1>4. CASE Clears
  BY <1>1, <1>4 DEF Clears
<1>5. ASSUME NEW f \in Fd, TakesOut(f) PROVE internal'[e.fd] = e.about
  <2>1. f # e.fd
    BY <1>1, <1>5 DEF TakesOut, Handling
  <2> QED
    BY <1>1, <1>5, <2>1, TakesOutMap
<1>6. ASSUME NEW c \in Connections, Shuts(c) \/ Disconnects(c) PROVE UNCHANGED internal
  BY <1>6, ToldMap DEF Shuts, Disconnects
<1>7. Rests \/ DropsHeld => UNCHANGED internal
  BY DEF Rests, DropsHeld
<1>8. ASSUME NEW g \in Fd, AppTakes(g) \/ Frees(g) \/ \E p \in Peer : Takes(p, g)
      PROVE  UNCHANGED internal
  BY <1>8 DEF AppTakes, Frees, Takes
<1>9. (\E p \in Peer : PeerQueues(p)) => UNCHANGED internal
  BY DEF PeerQueues
<1> QED
  BY <1>2, <1>3, <1>4, <1>5, <1>6, <1>7, <1>8, <1>9, StepKinds

\* What the other thread closes changes with its steps only.
LEMMA ClosingFrom ==
    ASSUME SafetyInv, [Next]_lcVars
    PROVE  \/ UNCHANGED <<Closing, Announced>>
           \/ CloseTarget /\ Closing' = NoOne /\ Announced' = NoOne /\ UNCHANGED <<internal, batch>>
           \/ \E c \in Connections : Disconnect(c) /\ Closing' = c /\ Announced' \in {c, NoOne}
<1> USE DEF SafetyInv
<1>1. attached' = attached
  BY Settings
<1>2. CASE UNCHANGED Closing
  BY <1>1, <1>2 DEF Announced
<1>3. CASE CloseTarget
  <2>1. Closing' = NoOne /\ UNCHANGED <<internal, batch>>
    BY <1>3 DEF CloseTarget, Closing
  <2> QED
    BY <1>1, <1>3, <2>1 DEF Announced
<1>4. ASSUME NEW c \in Connections, Disconnects(c)
      PROVE  Disconnect(c) /\ Closing' = c /\ Announced' \in {c, NoOne}
  BY <1>1, <1>4 DEF Disconnects, Announced
<1>5. Rests \/ Clears \/ DropsHeld \/ Places => UNCHANGED Closing
  BY DEF Rests, Clears, DropsHeld, Places, SameHands
<1>6. ASSUME NEW f \in Fd, AppTakes(f) \/ Frees(f) \/ TakesOut(f) \/ \E p \in Peer : Takes(p, f)
      PROVE  UNCHANGED Closing
  BY <1>6 DEF AppTakes, Frees, TakesOut, Takes, SameHands
<1>7. ASSUME NEW c \in Connections, Shuts(c) PROVE CloseTarget \/ UNCHANGED Closing
  BY <1>7 DEF Shuts
<1>8. (\E p \in Peer : PeerQueues(p)) => UNCHANGED Closing
  BY DEF PeerQueues, SameHands
<1> QED
  BY <1>2, <1>3, <1>4, <1>5, <1>6, <1>7, <1>8, StepKinds

\* Who has the connection of an event.
LEMMA EventOwner ==
    ASSUME SafetyInv, AboutInv, NEW e \in batch, e.about \in Connections, table[e.fd] = e.about
    PROVE  /\ Has(object[e.about], e.fd)
           /\ e.about \in Client => e.about \in attached
           /\ e.about \in Peer => internal[e.fd] = e.about \/ (attached = {} /\ Closing = e.about)
<1> USE DEF SafetyInv
<1>1. e.fd \in Fd /\ e.about # Held.peer /\ (pc \in Handling => e.fd # cur.fd) /\ e.about # NoOne
  BY Names DEF TypeInv, PollerOK, Events, AboutInv, FreshInv, EventsInv
<1>2. Has(object[e.about], e.fd)
  BY <1>1 DEF OwnInv, KeptInv, Connections
<1>3. Dropped # e.about
  BY <1>1, <1>2 DEF Dropped, Has, Handling, AboutInv, NumberInv
<1> QED
  BY <1>1, <1>2, <1>3 DEF OwnInv, KeptInv

LEMMA BatchKept == SafetyInv /\ AboutInv /\ [Next]_lcVars => BatchInv'
<1> SUFFICES ASSUME SafetyInv, AboutInv, [Next]_lcVars, NEW e \in batch', e.about \in Connections
             PROVE  /\ ~disturbed' => table'[e.fd] = e.about
                    /\ backend' = "wsapoll" => \/ table'[e.fd] = e.about /\ Announced' # e.about
                                               \/ attached' # {} /\ internal'[e.fd] = e.about
  BY DEF BatchInv
<1> USE DEF SafetyInv
<1>1. UNCHANGED <<backend, attached>> /\ e.about # NoOne
  BY Settings, Names
<1>2. CASE TakeBatch
  <2>1. e.fd \in watched /\ e.about = table[e.fd] /\ e.fd \in Fd
    BY <1>2, BatchFrom DEF TakeBatch, Waiting, TypeInv, PollerOK
  <2>2. UNCHANGED <<table, Closing, Announced>> /\ Held.peer = NoOne /\ Dropped = NoOne
    BY <1>1, <1>2 DEF TakeBatch, Waiting, Closing, Announced, Held, Dropped, NoAccept
  <2>3. Has(object[e.about], e.fd)
    BY <1>1, <2>1, <2>2 DEF OwnInv, KeptInv, Connections
  <2>4. backend = "wsapoll" => Announced # e.about
    BY <1>1, <2>1, <2>2, <2>3 DEF AboutInv, UnwatchedInv, Has
  <2> QED
    BY <1>1, <2>1, <2>2, <2>4
<1>3. CASE ~TakeBatch
  <2>1. e \in batch /\ e.fd \in Fd
    BY <1>3, BatchFrom DEF TypeInv, PollerOK, Events
  <2>2. /\ ~disturbed => table[e.fd] = e.about
        /\ backend = "wsapoll" => \/ table[e.fd] = e.about /\ Announced # e.about
                                  \/ attached # {} /\ internal[e.fd] = e.about
    BY <2>1 DEF AboutInv, BatchInv
  <2>3. ~disturbed' => table'[e.fd] = e.about
    <3>1. ~disturbed' => ~disturbed /\ Closing = NoOne
      BY <1>3, Disturbs DEF Disconnect, AboutInv, MarksInv
    <3>2. CloseTarget => Closing # NoOne
      BY Names DEF CloseTarget, Closing, TypeInv, UserOK, Unlocked
    <3> QED
      BY <2>1, <2>2, <3>1, <3>2, EventNumber
  <2>4. attached # {} /\ internal[e.fd] = e.about => internal'[e.fd] = e.about
    BY <2>1, EventElement
  <2>5. ASSUME backend = "wsapoll", table[e.fd] = e.about, Announced # e.about
        PROVE  \/ table'[e.fd] = e.about /\ Announced' # e.about
               \/ attached # {} /\ internal'[e.fd] = e.about
    <3>1. CASE CloseTarget
      <4>1. user = "close" /\ Closing = target /\ target \in Connections
        BY <3>1 DEF CloseTarget, Closing, TypeInv, UserOK, Unlocked
      <4>2. Announced' = NoOne /\ internal' = internal
        BY <1>1, <3>1 DEF CloseTarget, Announced, Closing
      <4>3. CASE e.about = target
        <5>1. attached # {} /\ e.about \notin attached
          BY <2>5, <4>1, <4>3 DEF Announced
        <5>2. internal[e.fd] = e.about
          BY <2>1, <2>5, <5>1, EventOwner DEF Connections
        <5> QED
          BY <4>2, <5>1, <5>2
      <4>4. CASE e.about # target
        <5>1. object[target].connected => object[target].fd \in Fd /\ object[target].fd # e.fd
          BY <2>5, <4>1, <4>4, OwnNumber DEF OwnInv
        <5>2. table'[e.fd] = table[e.fd]
          BY <2>1, <3>1, <5>1, OwnTypes DEF CloseTarget, Close
        <5> QED
          BY <1>1, <2>5, <4>2, <5>2
      <4> QED
        BY <4>3, <4>4
    <3>2. ASSUME NEW c \in Connections, Disconnect(c), Announced' \in {c, NoOne}
          PROVE  table'[e.fd] = e.about /\ Announced' # e.about
      <4>1. table' = table /\ Closing = NoOne /\ Closing' = c
        BY <3>2 DEF Disconnect, Closing
      <4>2. SUFFICES ASSUME e.about = c, Announced' = c PROVE FALSE
        BY <1>1, <2>5, <3>2, <4>1
      <4>3. attached = {} \/ c \in attached
        BY <1>1, <4>1, <4>2 DEF Announced
      <4>4. Has(object[c], e.fd) /\ (c \in attached \/ internal[e.fd] = c)
        BY <1>1, <2>1, <2>5, <4>1, <4>2, EventOwner DEF Connections
      <4>5. Tells(c)
        BY <2>1, <4>3, <4>4 DEF Tells
      <4> QED
        BY <2>5, <3>2, <4>4, <4>5 DEF Disconnect, Has, Unreported
    <3>3. CASE UNCHANGED Announced /\ ~CloseTarget
      BY <2>1, <2>5, <3>3, EventNumber
    <3> QED
      BY <3>1, <3>2, <3>3, ClosingFrom
  <2> QED
    BY <1>1, <2>2, <2>3, <2>4, <2>5
<1> QED
  BY <1>2, <1>3

LEMMA UnwatchedKept == SafetyInv /\ AboutInv /\ [Next]_lcVars => UnwatchedInv'
<1> SUFFICES ASSUME SafetyInv, AboutInv, [Next]_lcVars, backend' # "epoll", Announced' # NoOne,
                    object'[Announced'].connected, object'[Announced'].fd \in watched'
             PROVE  Dropped' = Announced'
  BY DEF UnwatchedInv
<1> USE DEF SafetyInv
<1>1. UNCHANGED <<backend, attached>> /\ watched \subseteq Fd
  BY Settings DEF TypeInv, PollerOK
<1>2. ASSUME UNCHANGED <<Closing, Announced>> PROVE Dropped' = Announced'
  <2>1. Announced = Closing /\ Closing \in Connections
    BY <1>2, OwnTypes DEF Announced
  <2>2. Held # NoAccept => Held.peer # Closing
    BY DEF OwnInv, NewInv, New
  <2>3. object'[Closing] = object[Closing] /\ object[Closing].connected /\ object[Closing].fd \in watched'
    BY <1>2, <2>1, <2>2, ObjectFrom
  <2>4. object[Closing].fd \in watched
    <3>1. ASSUME SetUp, watched' = watched \cup {accepted.fd}, object[Closing].fd = accepted.fd PROVE FALSE
      <4>1. Held = accepted /\ Held # NoAccept
        BY <3>1 DEF SetUp, Held, TypeInv, ListenerOK
      <4>2. table[accepted.fd] = Held.peer
        BY <4>1 DEF OwnInv, NewInv
      <4> QED
        BY <2>1, <2>2, <2>3, <3>1, <4>1, <4>2, OwnNumber DEF OwnInv
    <3> QED
      BY <2>3, <3>1, WatchedFrom
  <2>5. Dropped = Closing
    BY <1>1, <2>1, <2>3, <2>4, Names DEF AboutInv, UnwatchedInv
  <2>6. ~SafeDisconnect
    BY <2>1, <2>5, Names DEF SafeDisconnect, Dropped, Closing, Unlocked, TypeInv, UserOK
  <2>7. Dropped # NoOne /\ (Held # NoAccept => FALSE)
    BY <2>1, <2>5, Names DEF Dropped, Held
  <2>8. Dropped' = Dropped
    <3>1. Rests \/ Clears \/ DropsHeld \/ Places => UNCHANGED Dropped
      BY DEF Rests, Clears, DropsHeld, Places, SameHands
    <3>2. ASSUME NEW f \in Fd, AppTakes(f) \/ Frees(f) \/ TakesOut(f) \/ \E p \in Peer : Takes(p, f)
          PROVE  UNCHANGED Dropped
      BY <2>7, <3>2 DEF AppTakes, Frees, TakesOut, Takes, SameHands
    <3>3. ASSUME NEW c \in Connections, Shuts(c) \/ Disconnects(c) PROVE UNCHANGED Dropped
      BY <2>6, <3>3 DEF Shuts, Disconnects
    <3>4. (\E p \in Peer : PeerQueues(p)) => UNCHANGED Dropped
      BY DEF PeerQueues, SameHands
    <3> QED
      BY <3>1, <3>2, <3>3, <3>4, StepKinds
  <2> QED
    BY <1>2, <2>1, <2>5, <2>8
<1>3. ASSUME NEW c \in Connections, Disconnect(c), Closing' = c, Announced' = c PROVE Dropped' = Announced'
  <2>1. Closing = NoOne /\ object' = object /\ Dropped' = Dropped
    BY <1>3 DEF Disconnect, Closing, Dropped
  <2>2. attached = {} \/ c \in attached
    BY <1>1, <1>3, Names DEF Announced
  <2>3. object[c].connected /\ object[c].fd \in watched' /\ object[c].fd \in Fd /\ table[object[c].fd] = c
    BY <1>3, <2>1, OwnNumber DEF OwnInv
  <2>4. ~Tells(c)
    BY <1>1, <1>3, <2>3 DEF Disconnect, Removed
  <2>5. attached = {} /\ c \notin Client /\ internal[object[c].fd] # c
    BY <2>2, <2>3, <2>4 DEF Tells, OwnInv, KeptInv
  <2>6. Held.peer # c
    BY <2>3, Names DEF OwnInv, NewInv, New, NoAccept
  <2>7. Dropped = c
    BY <2>1, <2>3, <2>5, <2>6, Names DEF OwnInv, KeptInv, Connections
  <2> QED
    BY <1>3, <2>1, <2>7
<1> QED
  BY <1>2, <1>3, ClosingFrom

LEMMA HangUpKept == SafetyInv /\ AboutInv /\ [Next]_lcVars => HangUpInv'
<1> SUFFICES ASSUME SafetyInv, AboutInv, [Next]_lcVars, cur'.close, cur'.about \in Connections, Reliable'
             PROVE  /\ pc' = "closeConnection" =>
                         /\ table'[cur'.fd] \in Connections => table'[cur'.fd] = cur'.about
                         /\ internal'[cur'.fd] \in {NoOne, cur'.about}
                    /\ pc' = "disconnect" => cn' = cur'.about
  BY DEF HangUpInv
<1> USE DEF SafetyInv
<1>1. UNCHANGED <<backend, attached>> /\ cur'.about # NoOne
  BY Settings, Names
<1>2. pc # "next" => Reliable
  BY <1>1, Disturbs DEF Reliable, TakeBatch, Waiting, Disconnect, AboutInv, MarksInv
<1>3. CASE pc' = "closeConnection"
  <2>1. CASE NextEvent
    <3>1. cur' \in batch /\ UNCHANGED <<table, internal, disturbed>> /\ pc = "next"
      BY <1>3, <2>1 DEF NextEvent, Goto
    <3>2. PICK e \in batch : e = cur'
      BY <3>1
    <3>3. e.about \in Connections /\ e.fd \in Fd /\ Reliable /\ Held.peer = NoOne /\ Dropped = NoOne
      BY <1>1, <3>1, <3>2 DEF Reliable, Held, Dropped, NoAccept, TypeInv, PollerOK, Events
    <3>4. \/ table[e.fd] = e.about /\ (Closing = NoOne \/ Announced # e.about)
          \/ attached # {} /\ internal[e.fd] = e.about
      BY <3>3 DEF AboutInv, BatchInv, MarksInv, Reliable
    <3>5. CASE table[e.fd] = e.about /\ (Closing = NoOne \/ Announced # e.about)
      <4>1. e.about \in Peer => internal[e.fd] = e.about
        BY <1>1, <3>2, <3>3, <3>5, EventOwner DEF Announced
      <4>2. e.about \in Client => internal[e.fd] = NoOne
        BY <3>3, <3>5 DEF OwnInv, KeptInv
      <4> QED
        BY <1>3, <3>1, <3>2, <3>3, <3>5, <4>1, <4>2 DEF Connections
    <3>6. CASE attached # {} /\ internal[e.fd] = e.about
      <4>1. table[e.fd] \notin Client
        BY <1>1, <3>2, <3>3, <3>6 DEF OwnInv, KeptInv
      <4>2. table[e.fd] \in Peer => internal[e.fd] = table[e.fd]
        BY <3>3, <3>6, Names DEF OwnInv, KeptInv
      <4> QED
        BY <1>3, <3>1, <3>2, <3>6, <4>1, <4>2 DEF Connections
    <3> QED
      BY <3>4, <3>5, <3>6
  <2>2. CASE ReceiveNothing
    <3>1. cur \in Events /\ cur' = [cur EXCEPT !.close = FALSE]
      BY <1>3, <2>2 DEF ReceiveNothing, Handled, Goto, TypeInv, ListenerOK, Handling
    <3> QED
      BY <3>1 DEF Events
  <2>3. CASE pc = "closeConnection" /\ UNCHANGED cur
    <3>1. Reliable /\ cur.fd \in Fd /\ Held = NoAccept
      BY <1>2, <2>3 DEF TypeInv, ListenerOK, Handling, Events, Held
    <3>2. table[cur.fd] \in Connections => table[cur.fd] = cur.about
      BY <2>3, <3>1 DEF AboutInv, HangUpInv
    <3>3. internal[cur.fd] \in {NoOne, cur.about}
      BY <2>3, <3>1 DEF AboutInv, HangUpInv
    <3>4. table'[cur.fd] \in Connections => table'[cur.fd] = table[cur.fd]
      BY <2>3, <3>1, TableFrom, Names
    <3>5. internal'[cur.fd] \in {internal[cur.fd], NoOne}
      BY <2>3, <3>1, MapFrom
    <3> QED
      BY <1>3, <2>3, <3>2, <3>3, <3>4, <3>5
  <2> QED
    BY <1>3, <2>1, <2>2, <2>3, Arrives
<1>4. CASE pc' = "disconnect"
  <2>1. CASE FindConnection
    <3>1. cur.fd \in Fd /\ cn' = Lookup(cur.fd) /\ cn' # NoOne /\ cur' = cur /\ pc = "closeConnection"
      BY <1>4, <2>1 DEF FindConnection, Handled, Goto, TypeInv, ListenerOK, Handling, Events
    <3>2. /\ table[cur.fd] \in Connections => table[cur.fd] = cur.about
          /\ internal[cur.fd] \in {NoOne, cur.about}
      BY <1>2, <3>1 DEF AboutInv, HangUpInv
    <3>3. \A c \in attached : object[c].fd = cur.fd => table[cur.fd] = c
      BY <3>1, OwnTypes, Names DEF OwnInv, ObjectsInv
    <3>4. attached \subseteq Connections
      BY OwnTypes, Names
    <3> QED
      BY <1>4, <3>1, <3>2, <3>3, <3>4, LookupTypes
  <2>2. CASE pc = "disconnect" /\ UNCHANGED <<cur, cn>>
    BY <1>2, <1>4, <2>2 DEF AboutInv, HangUpInv
  <2> QED
    BY <1>4, <2>1, <2>2, Arrives
<1> QED
  BY <1>3, <1>4

\* Within a batch the mark stays.
LEMMA StaysDisturbed ==
    ASSUME [Next]_lcVars, disturbed, pc # "next"
    PROVE  disturbed'
<1>1. CASE TakeBatch
  BY <1>1 DEF TakeBatch, Waiting
<1>2. ASSUME NEW c \in Connections, Disconnect(c) PROVE disturbed' = TRUE
  BY <1>2 DEF Disconnect
<1>3. CASE UNCHANGED disturbed
  BY <1>3
<1> QED
  BY <1>1, <1>2, <1>3, Disturbs

LEMMA RecvKept == SafetyInv /\ AboutInv /\ [Next]_lcVars => RecvInv'
<1> SUFFICES ASSUME SafetyInv, AboutInv, [Next]_lcVars, pc' = "recv", table'[cur'.fd] \in Connections
             PROVE  /\ cn' \in {table'[cur'.fd], NoOne}
                    /\ cn' = NoOne => disturbed' /\ attached' = {}
  BY DEF RecvInv
<1> USE DEF SafetyInv
<1>1. attached' = attached /\ (disturbed /\ pc # "next" => disturbed')
  BY Settings, StaysDisturbed
<1>2. CASE GetConnection
  <2>1. UNCHANGED <<table, cur, disturbed>> /\ cn' = Lookup(cur.fd) /\ cur.fd \in Fd
    BY <1>2 DEF GetConnection, TypeInv, ListenerOK, Handling, Events
  <2>2. Held = NoAccept /\ Dropped = NoOne
    BY <1>2 DEF GetConnection, Held, Dropped
  <2>3. Closing = table[cur.fd] => disturbed
    BY <2>1, Names DEF AboutInv, MarksInv
  <2> QED
    BY <1>1, <2>1, <2>2, <2>3, Finds
<1>3. CASE pc = "recv" /\ UNCHANGED <<cur, cn>>
  <2>1. cur.fd \in Fd
    BY <1>3 DEF TypeInv, ListenerOK, Handling, Events
  <2>2. table'[cur.fd] = table[cur.fd]
    BY <1>3, <2>1, TableFrom, Names
  <2> QED
    BY <1>1, <1>3, <2>2 DEF AboutInv, RecvInv
<1> QED
  BY <1>2, <1>3, Arrives

\* A socket has one number.
LEMMA OneNumber ==
    ASSUME TypeInv, OwnInv, NEW f \in Fd, NEW g \in Fd, table[f] \in Socket, table[g] = table[f]
    PROVE  f = g
<1>1. CASE table[f] = Server \/ table[f] \in Client
  BY <1>1 DEF OwnInv, KeptInv, Has
<1>2. CASE table[f] \in Peer
  <2>1. Held.peer = table[f] => ~object[table[f]].connected
    BY <1>2, Names DEF OwnInv, NewInv, New, NoAccept
  <2> QED
    BY <1>2, <2>1 DEF OwnInv, KeptInv, Has
<1> QED
  BY <1>1, <1>2 DEF Socket, Connections

\* A number dies when the listener closes the one in hand or the one it accepts, or
\* the other thread closes its target.
LEMMA Deadens ==
    ASSUME SafetyInv, AboutInv, [Next]_lcVars, pc \notin Gone, NEW f \in Fd, table'[f] \in {App, Free}
    PROVE  \/ Dead(f)
           \/ (CloseServer \/ SafeDisconnect) /\ f = cur.fd
           \/ Held # NoAccept /\ f = Held.fd /\ Held' = NoAccept
           \/ CloseTarget /\ Closing # NoOne /\ table[f] = Closing
<1> DEFINE Goal == \/ Dead(f)
                   \/ (CloseServer \/ SafeDisconnect) /\ f = cur.fd
                   \/ Held # NoAccept /\ f = Held.fd /\ Held' = NoAccept
                   \/ CloseTarget /\ Closing # NoOne /\ table[f] = Closing
<1> SUFFICES Goal
  OBVIOUS
<1> USE DEF SafetyInv
<1>1. CASE UNCHANGED table
  BY <1>1 DEF Dead
<1>2. CASE DropsHeld
  BY <1>2, OwnTypes DEF DropsHeld, Dead
<1>3. ASSUME NEW g \in Fd, AppTakes(g) PROVE Goal
  BY <1>3, OwnTypes DEF AppTakes, Dead
<1>4. ASSUME NEW g \in Fd, Frees(g) PROVE Goal
  <2>1. CASE f # g
    BY <1>4, <2>1, OwnTypes DEF Frees, Dead
  <2>2. CASE f = g /\ table[f] # Server
    BY <1>4, <2>2, OwnTypes DEF Frees, Dead, Socket
  <2>3. CASE f = g /\ table[f] = Server
    <3>1. CASE CloseServer
      <4>1. cur.fd \in Fd
        BY <3>1 DEF CloseServer, TypeInv, ListenerOK, Handling, Events
      <4>2. table' = [table EXCEPT ![cur.fd] = Free]
        BY <3>1, <4>1 DEF CloseServer, Close
      <4>3. f # cur.fd => table'[f] = table[f]
        BY <4>1, <4>2, OwnTypes
      <4> QED
        BY <2>3, <3>1, <4>3, Names
    <3>2. ~DestroyServer
      BY DEF DestroyServer, Gone, Over
    <3> QED
      BY <1>4, <2>3, <3>1, <3>2 DEF Frees
  <2> QED
    BY <2>1, <2>2, <2>3
<1>5. ASSUME NEW p \in Peer, NEW g \in Fd, Takes(p, g) PROVE Goal
  BY <1>5, OwnTypes, Names DEF Takes, Dead
<1>6. ASSUME NEW c \in Connections, Shuts(c) PROVE Goal
  <2>1. table'[f] = IF object[c].connected /\ f = object[c].fd THEN Free ELSE table[f]
    BY <1>6, ShutsEffect DEF OwnInv
  <2>2. CASE ~(object[c].connected /\ f = object[c].fd)
    BY <2>1, <2>2 DEF Dead
  <2>3. CASE object[c].connected /\ f = object[c].fd
    <3>1. table[f] = c /\ c # NoOne
      BY <2>3, OwnNumber, Names DEF OwnInv
    <3>2. CASE SafeDisconnect /\ c = Dropped
      BY <2>3, <3>1, <3>2 DEF AboutInv, NumberInv
    <3>3. CASE CloseTarget /\ c = Closing
      BY <3>1, <3>3
    <3> QED
      BY <1>6, <3>2, <3>3 DEF Shuts, Gone, Over
  <2> QED
    BY <2>2, <2>3
<1>7. Rests \/ Places \/ Clears => UNCHANGED table
  BY DEF Rests, Places, Clears
<1>8. (\E p \in Peer : PeerQueues(p)) => UNCHANGED table
  BY DEF PeerQueues
<1>9. (\E g \in Fd : TakesOut(g)) \/ (\E c \in Connections : Disconnects(c)) => UNCHANGED table
  BY DEF TakesOut, Disconnects
<1> QED
  BY <1>1, <1>2, <1>3, <1>4, <1>5, <1>6, <1>7, <1>8, <1>9, StepKinds

\* An element of the map leaves it with clients only into the listener's hand.
LEMMA StaleKept ==
    ASSUME SafetyInv, [Next]_lcVars, pc \notin Gone, NEW f \in Fd, Stale(f)
    PROVE  \/ Stale(f)'
           \/ f = cur.fd /\ cur' = cur /\ pc = "closeConnection" /\ pc' = "disconnect"
<1> USE DEF SafetyInv
<1>1. UNCHANGED <<backend, attached>>
  BY Settings
<1>2. CASE internal'[f] # NoOne
  BY <1>1, <1>2 DEF Stale
<1>3. CASE Places
  <2>1. internal'[f] # NoOne
    BY <1>3, OwnTypes, Names DEF Places, Stale
  <2> QED
    BY <1>2, <2>1
<1>4. ASSUME NEW g \in Fd, TakesOut(g), internal'[f] = NoOne
      PROVE  f = cur.fd /\ cur' = cur /\ pc = "closeConnection" /\ pc' = "disconnect"
  <2>1. f = g /\ g = cur.fd /\ pc = "closeConnection" /\ Dropped' # NoOne
    BY <1>4, TakesOutMap DEF TakesOut, Stale
  <2>2. pc' = "disconnect"
    BY <2>1 DEF Dropped
  <2>3. FindConnection
    BY <2>1, <2>2, Arrives
  <2>4. cur' = cur
    BY <2>2, <2>3 DEF FindConnection, Handled, Goto
  <2> QED
    BY <2>1, <2>2, <2>4
<1>5. ASSUME NEW c \in Connections, Shuts(c) \/ Disconnects(c) PROVE internal'[f] # NoOne
  BY <1>5, ToldMap DEF Shuts, Disconnects, Stale
<1>6. ~Clears
  BY DEF Clears, Gone, Over
<1>7. Rests \/ DropsHeld => internal'[f] # NoOne
  BY DEF Rests, DropsHeld, Stale
<1>8. ASSUME NEW g \in Fd, AppTakes(g) \/ Frees(g) \/ \E p \in Peer : Takes(p, g) PROVE internal'[f] # NoOne
  BY <1>8 DEF AppTakes, Frees, Takes, Stale
<1>9. (\E p \in Peer : PeerQueues(p)) => internal'[f] # NoOne
  BY DEF PeerQueues, Stale
<1> QED
  BY <1>2, <1>3, <1>4, <1>5, <1>6, <1>7, <1>8, <1>9, StepKinds

LEMMA DeadKept == SafetyInv /\ AboutInv /\ [Next]_lcVars => DeadInv'
<1> SUFFICES ASSUME SafetyInv, AboutInv, [Next]_lcVars, pc' \notin Gone, NEW f \in watched',
                    table'[f] \in {App, Free} \/ f = Added'
             PROVE  Stale(f)' \/ (backend' # "epoll" /\ f = InHand')
  BY DEF DeadInv, Dead
<1> USE DEF SafetyInv
<1>1. UNCHANGED <<backend, attached>> /\ pc \notin Gone
  BY Settings, GoneStays
<1>2. f \in watched /\ f \in Fd
  <2>1. ASSUME SetUp, pc' = "emplace", watched' = watched \cup {accepted.fd}, table' = table, f \notin watched
        PROVE  FALSE
    <3>1. Held = accepted /\ Held # NoAccept /\ f = accepted.fd
      BY <2>1 DEF SetUp, Held, TypeInv, ListenerOK
    <3>2. table[f] \in Peer /\ f \in Fd
      BY <3>1, OwnTypes DEF OwnInv, NewInv
    <3>3. Added' = 0
      BY <2>1 DEF Added
    <3> QED
      BY <2>1, <3>2, <3>3, Numbers, Names
  <2> QED
    BY <2>1, WatchedFrom DEF TypeInv, PollerOK
<1>3. CASE Dead(f) \/ f = Added
  <2>1. Stale(f) \/ (backend # "epoll" /\ f = InHand)
    BY <1>1, <1>2, <1>3 DEF AboutInv, DeadInv
  <2>2. CASE Stale(f)
    <3>1. backend # "epoll"
      BY <2>2 DEF Stale
    <3> QED
      BY <1>1, <1>2, <2>2, <3>1, StaleKept DEF InHand
  <2>3. CASE backend # "epoll" /\ f = InHand
    <3>1. CASE pc = "disconnect"
      <4>1. f = cur.fd
        BY <2>3, <3>1 DEF InHand
      <4>2. ~SafeDisconnect
        BY <2>3, <4>1 DEF SafeDisconnect
      <4>3. InHand' = f
        BY <3>1, <4>1, <4>2, Arrives DEF InHand
      <4> QED
        BY <1>1, <2>3, <4>3
    <3>2. CASE pc = "unwind"
      <4>1. f = accepted.fd
        BY <2>3, <3>2 DEF InHand
      <4>2. ~Unwind
        BY <4>1 DEF Unwind
      <4>3. InHand' = f
        BY <3>2, <4>1, <4>2, Arrives DEF InHand
      <4> QED
        BY <1>1, <2>3, <4>3
    <3>3. pc \in {"disconnect", "unwind"}
      BY <1>2, <2>3, Numbers DEF InHand
    <3> QED
      BY <3>1, <3>2, <3>3
  <2> QED
    BY <2>1, <2>2, <2>3
<1>4. CASE ~Dead(f) /\ f # Added
  <2>1. table'[f] \in {App, Free}
    <3>1. SUFFICES ASSUME f = Added' PROVE FALSE
      OBVIOUS
    <3>2. pc' = "setUp" /\ f = accepted'.fd
      BY <1>2, <3>1, Numbers DEF Added
    <3>3. CASE pc = "setUp" /\ UNCHANGED accepted
      BY <1>4, <3>2, <3>3 DEF Added
    <3>4. CASE Accept
      <4>1. FreeFds # {} /\ f = Min(FreeFds)
        BY <3>2, <3>4 DEF Accept, Handled, Goto
      <4> QED
        BY <1>4, <4>1, LeastFree DEF Dead
    <3> QED
      BY <3>2, <3>3, <3>4, Arrives
  <2>2. CASE CloseServer /\ f = cur.fd
    BY <2>2 DEF CloseServer
  <2>3. CASE SafeDisconnect /\ f = cur.fd
    <3>1. cn \in Connections /\ Dropped = cn
      BY <2>3 DEF SafeDisconnect, TypeInv, ListenerOK, Dropped
    <3>2. object[cn].connected
      BY <1>4, <2>1, <2>3 DEF SafeDisconnect, Dead
    <3>3. object[cn].fd = cur.fd
      BY <3>1, <3>2, Names DEF AboutInv, NumberInv
    <3> QED
      BY <2>3, <3>3 DEF SafeDisconnect
  <2>4. CASE Held # NoAccept /\ f = Held.fd /\ Held' = NoAccept
    <3>1. pc = "emplace" /\ f = accepted.fd
      BY <1>1, <1>4, <2>4 DEF Held, Added, Gone, Stopped
    <3>2. table'[f] # table[f]
      BY <1>4, <2>1 DEF Dead
    <3>3. EmplaceFails
      <4>1. pc' \notin {"setUp", "emplace", "aborted"}
        <5>1. TypeInv'
          BY TypesKept
        <5> QED
          BY <2>4, <5>1 DEF Held, TypeInv, ListenerOK
      <4>2. UNCHANGED pc \/ Emplace \/ EmplaceFails \/ pc # "emplace"
        BY DEF Next, Listener, User, TakeBatch, NextEvent, CloseServer, FindConnection, SafeDisconnect,
           Accept, AcceptFails, SetUp, Unwind, GetConnection, ReceiveMessage, ReceiveNothing, LeaveLoop, ShutDown,
           Release, DestroyServer, Disconnect, CloseTarget, DisconnectServer, Stop, Surroundings, lcVars, Waiting
      <4>3. Emplace => UNCHANGED table
        BY DEF Emplace
      <4> QED
        BY <3>1, <3>2, <4>1, <4>2, <4>3
    <3>4. pc' = "unwind" /\ watched' = Forgotten(f) /\ accepted' = accepted
      BY <3>1, <3>3 DEF EmplaceFails, Goto
    <3>5. backend # "epoll"
      BY <3>4 DEF Forgotten
    <3> QED
      BY <1>1, <3>1, <3>4, <3>5 DEF InHand
  <2>5. CASE CloseTarget /\ Closing # NoOne /\ table[f] = Closing
    <3> DEFINE c == Closing
    <3>1. c \in Connections /\ c = target /\ UNCHANGED <<internal, pc, cur>>
      BY <2>5, OwnTypes DEF CloseTarget, Closing
    <3>2. Held.peer # c
      BY <3>1, Names DEF OwnInv, NewInv, New, NoAccept
    <3>3. Has(object[c], f)
      BY <1>2, <2>5, <3>1, <3>2 DEF OwnInv, KeptInv, Connections
    <3>4. backend # "epoll"
      <4>1. watched' = Forgotten(f)
        BY <2>5, <3>1, <3>3 DEF CloseTarget, Has
      <4> QED
        BY <4>1 DEF Forgotten
    <3>5. CASE Dropped = c
      <4>1. pc = "disconnect" /\ f = cur.fd
        BY <2>5, <3>3, <3>5 DEF Dropped, Has, AboutInv, NumberInv
      <4> QED
        BY <1>1, <3>1, <3>4, <4>1 DEF InHand
    <3>6. CASE Dropped # c
      <4>1. attached # {} /\ c \notin attached
        BY <1>2, <2>5, <3>3, <3>4, <3>6 DEF AboutInv, UnwatchedInv, Announced, Has
      <4>2. c \in Peer
        BY <1>2, <2>5, <3>1, <4>1 DEF OwnInv, KeptInv, Connections
      <4>3. internal[f] = c
        BY <1>2, <2>5, <3>2, <3>6, <4>1, <4>2 DEF OwnInv, KeptInv
      <4>4. internal'[f] # NoOne
        BY <2>5, <3>1, <4>3
      <4> QED
        BY <1>1, <3>4, <4>1, <4>4 DEF Stale
    <3> QED
      BY <3>5, <3>6
  <2> QED
    BY <1>1, <1>2, <1>4, <2>1, <2>2, <2>3, <2>4, <2>5, Deadens
<1> QED
  BY <1>3, <1>4

\* While the mark is not set no other thread closes a connection.
LEMMA Undisturbed ==
    ASSUME SafetyInv, AboutInv, [Next]_lcVars, ~disturbed', ~TakeBatch
    PROVE  ~disturbed /\ Closing = NoOne
  BY Disturbs DEF Disconnect, AboutInv, MarksInv

LEMMA DeadEventsKept == SafetyInv /\ AboutInv /\ [Next]_lcVars => DeadEvents'
<1> SUFFICES ASSUME SafetyInv, AboutInv, [Next]_lcVars, pc' \notin Gone, ~disturbed', NEW e \in batch',
                    table'[e.fd] \in {App, Free} \/ e.fd = Held'.fd
             PROVE  Stale(e.fd)'
  BY DEF DeadEvents, Dead
<1> USE DEF SafetyInv
<1>1. pc \notin Gone
  BY GoneStays
<1>2. CASE TakeBatch
  <2>1. e.fd \in watched /\ UNCHANGED <<table, backend, attached, internal>> /\ pc = "next" /\ pc' = "next"
    BY <1>2, BatchFrom DEF TakeBatch, Waiting
  <2>2. e.fd \in Fd
    BY <2>1 DEF TypeInv, PollerOK
  <2>3. Held'.fd = 0 /\ InHand = 0
    BY <2>1 DEF Held, InHand, NoAccept
  <2>4. Stale(e.fd)
    BY <1>1, <2>1, <2>2, <2>3, Numbers DEF AboutInv, DeadInv, Dead
  <2> QED
    BY <2>1, <2>4 DEF Stale
<1>3. CASE ~TakeBatch
  <2>1. e \in batch /\ e.fd \in Fd /\ (pc \in Handling => e.fd # cur.fd)
    BY <1>3, BatchFrom DEF TypeInv, PollerOK, Events, EventsInv
  <2>2. ~disturbed /\ Closing = NoOne
    BY <1>3, Undisturbed
  <2>3. CASE Dead(e.fd) \/ e.fd = Held.fd
    <3>1. Stale(e.fd)
      BY <1>1, <2>1, <2>2, <2>3 DEF AboutInv, DeadEvents
    <3> QED
      BY <1>1, <2>1, <3>1, StaleKept DEF Handling
  <2>4. CASE ~Dead(e.fd) /\ e.fd # Held.fd
    <3>1. ~(table'[e.fd] \in {App, Free})
      BY <1>1, <2>1, <2>2, <2>4, Deadens DEF CloseServer, SafeDisconnect, Handling
    <3>2. e.fd # Held'.fd
      <4>1. SUFFICES ASSUME e.fd = Held'.fd PROVE FALSE
        OBVIOUS
      <4>2. Held' # NoAccept /\ Held' # Held
        BY <2>1, <2>4, <4>1, Numbers DEF NoAccept
      <4>3. Rests \/ Clears \/ DropsHeld \/ Places => Held' \in {Held, NoAccept}
        BY DEF Rests, Clears, DropsHeld, Places, SameHands
      <4>4. ASSUME NEW g \in Fd, AppTakes(g) \/ Frees(g) \/ TakesOut(g) PROVE Held' = Held
        BY <4>4 DEF AppTakes, Frees, TakesOut, SameHands
      <4>5. ASSUME NEW c \in Connections, Shuts(c) \/ Disconnects(c) PROVE Held' = Held
        BY <4>5 DEF Shuts, Disconnects
      <4>6. ASSUME NEW p \in Peer, PeerQueues(p) PROVE Held' = Held
        BY <4>6 DEF PeerQueues, SameHands
      <4>7. ASSUME NEW p \in Peer, NEW g \in Fd, Takes(p, g) PROVE FALSE
        BY <2>4, <4>1, <4>7 DEF Takes, Dead
      <4> QED
        BY <4>2, <4>3, <4>4, <4>5, <4>6, <4>7, StepKinds
    <3> QED
      BY <3>1, <3>2
  <2> QED
    BY <2>3, <2>4
<1> QED
  BY <1>2, <1>3

LEMMA DeadReadKept == SafetyInv /\ AboutInv /\ [Next]_lcVars => DeadRead'
<1> SUFFICES ASSUME SafetyInv, AboutInv, [Next]_lcVars, pc' = "read", ~disturbed', table'[cur'.fd] \in {App, Free}
             PROVE  backend' # "epoll" /\ attached' # {} /\ internal'[cur'.fd] # NoOne
  BY DEF DeadRead, Dead, Stale
<1> USE DEF SafetyInv
<1>1. UNCHANGED <<backend, attached>> /\ ~TakeBatch
  BY Settings DEF TakeBatch, Waiting
<1>2. ~disturbed /\ Closing = NoOne
  BY <1>1, Undisturbed
<1>3. CASE NextEvent
  <2>1. cur' \in batch /\ UNCHANGED <<table, internal>> /\ pc = "next"
    BY <1>3 DEF NextEvent, Goto
  <2>2. Stale(cur'.fd)
    BY <1>2, <2>1 DEF AboutInv, DeadEvents, Dead, Gone, Over, Stopped
  <2> QED
    BY <1>1, <2>1, <2>2 DEF Stale
<1>4. CASE pc = "read" /\ UNCHANGED cur
  <2>1. cur.fd \in Fd /\ pc \notin Gone /\ Held = NoAccept
    BY <1>4 DEF TypeInv, ListenerOK, Handling, Events, Gone, Over, Stopped, Held
  <2>2. Dead(cur.fd)
    BY <1>2, <1>4, <2>1, Deadens DEF CloseServer, SafeDisconnect
  <2>3. Stale(cur.fd)
    BY <1>2, <1>4, <2>2 DEF AboutInv, DeadRead
  <2>4. Stale(cur.fd)'
    BY <1>4, <2>1, <2>3, StaleKept
  <2> QED
    BY <1>1, <1>4, <2>4 DEF Stale
<1> QED
  BY <1>3, <1>4, Arrives

LEMMA DeadRecvKept == SafetyInv /\ AboutInv /\ [Next]_lcVars => DeadRecv'
<1> SUFFICES ASSUME SafetyInv, AboutInv, [Next]_lcVars, pc' = "recv", table'[cur'.fd] \in {App, Free}
             PROVE  /\ cn' # NoOne => ~object'[cn'].connected
                    /\ disturbed' \/ (cn' # NoOne /\ attached' # {} /\ backend' # "epoll")
  BY DEF DeadRecv, Dead
<1> USE DEF SafetyInv
<1>1. UNCHANGED <<backend, attached>> /\ (disturbed /\ pc # "next" => disturbed')
  BY Settings, StaysDisturbed
<1>2. CASE GetConnection
  <2>1. UNCHANGED <<table, cur, object, disturbed, internal>> /\ cn' = Lookup(cur.fd) /\ cur.fd \in Fd /\ pc = "read"
    BY <1>2 DEF GetConnection, TypeInv, ListenerOK, Handling, Events
  <2>2. \/ cn' \in attached /\ object[cn'].fd = cur.fd
        \/ cn' = internal[cur.fd]
    BY <2>1, LookupTypes
  <2>3. ASSUME cn' \in attached, object[cn'].fd = cur.fd PROVE FALSE
    BY <2>1, <2>3, OwnTypes, Names DEF OwnInv, ObjectsInv
  <2>4. cn' = internal[cur.fd] /\ cn' \in Connections \cup {NoOne}
    BY <2>1, <2>2, <2>3, OwnTypes, Names
  <2>5. ASSUME cn' # NoOne, object[cn'].connected PROVE FALSE
    <3>1. object[cn'].fd = cur.fd
      BY <2>1, <2>4, <2>5 DEF OwnInv, MapInv
    <3> QED
      BY <2>1, <2>4, <2>5, <3>1, OwnNumber, Names DEF OwnInv
  <2>6. ~disturbed => Stale(cur.fd)
    BY <2>1 DEF AboutInv, DeadRead, Dead
  <2> QED
    BY <1>1, <2>1, <2>4, <2>5, <2>6 DEF Stale
<1>3. CASE pc = "recv" /\ UNCHANGED <<cur, cn>>
  <2>1. cur.fd \in Fd /\ pc \notin Gone /\ Held = NoAccept /\ cn \in Connections \cup {NoOne}
    BY <1>3 DEF TypeInv, ListenerOK, Handling, Events, Gone, Over, Stopped, Held
  <2>2. CASE Dead(cur.fd)
    <3>1. /\ cn # NoOne => ~object[cn].connected
          /\ disturbed \/ (cn # NoOne /\ attached # {} /\ backend # "epoll")
      BY <1>3, <2>2 DEF AboutInv, DeadRecv
    <3>2. cn # NoOne => ~object'[cn].connected
      BY <2>1, <3>1, ObjectFrom
    <3> QED
      BY <1>1, <1>3, <3>1, <3>2
  <2>3. CASE ~Dead(cur.fd)
    <3>1. CloseTarget /\ Closing # NoOne /\ table[cur.fd] = Closing
      BY <1>3, <2>1, <2>3, Deadens DEF CloseServer, SafeDisconnect
    <3>2. Closing = target /\ target \in Connections
      BY <3>1, OwnTypes DEF Closing
    <3>3. disturbed
      BY <3>1 DEF AboutInv, MarksInv
    <3>4. cn \in {target, NoOne}
      BY <1>3, <3>1, <3>2 DEF AboutInv, RecvInv
    <3>5. ~object'[target].connected
      BY <3>1, <3>2, OwnTypes, Names, ObjectValues DEF CloseTarget
    <3> QED
      BY <1>1, <1>3, <3>3, <3>4, <3>5
  <2> QED
    BY <2>2, <2>3
<1> QED
  BY <1>2, <1>3, Arrives

\* What has ended stays so while its socket is open.
LEMMA StaysEnded ==
    ASSUME SafetyInv, [Next]_lcVars, NEW c \in Connections, Ended(c), NEW f \in Fd, table[f] = c, table'[f] = c
    PROVE  c \in hup' /\ inbox'[c] = 0
<1> USE DEF SafetyInv, Ended
<1>1. CASE UNCHANGED <<inbox, hup>>
  BY <1>1
<1>2. ASSUME NEW g, NEW s, Close(g, s) PROVE c \in hup' /\ inbox'[c] = 0
  <2>1. CASE g \in Fd
    <3>1. g # f
      BY <1>2, <2>1, OwnTypes, Names DEF Close
    <3>2. table[g] # c
      BY <2>1, <3>1, OneNumber, Names
    <3> QED
      BY <1>2, <2>1, <3>2 DEF Close
  <2>2. CASE g \notin Fd
    BY <1>2, <2>2 DEF Close
  <2> QED
    BY <2>1, <2>2
<1>3. CASE CloseServer \/ SafeDisconnect \/ SetUp \/ EmplaceFails \/ Unwind
  BY <1>1, <1>2, <1>3 DEF CloseServer, SafeDisconnect, SetUp, EmplaceFails, Unwind
<1>4. CASE ShutDown \/ CloseTarget \/ DestroyServer
  BY <1>1, <1>2, <1>4 DEF ShutDown, CloseTarget, DestroyServer
<1>5. CASE ReceiveMessage
  <2>1. hup' = hup
    BY <1>5 DEF ReceiveMessage
  <2>2. table[cur.fd] = c => inbox'[c] = inbox[c]
    BY <1>5, Names DEF ReceiveMessage
  <2>3. table[cur.fd] # c => inbox'[c] = inbox[c]
    BY <1>5 DEF ReceiveMessage, TypeInv, KernelOK
  <2> QED
    BY <2>1, <2>2, <2>3
<1>6. CASE Surroundings
  <2>1. ASSUME NEW p \in Connections, PeerSends(p) PROVE c \in hup' /\ inbox'[c] = 0
    BY <2>1 DEF PeerSends, TypeInv, KernelOK
  <2>2. ASSUME NEW p \in Connections, PeerCloses(p) PROVE c \in hup' /\ inbox'[c] = 0
    BY <2>2 DEF PeerCloses
  <2>3. (\E p \in Peer : PeerConnects(p)) \/ ServerFails \/ AppOpens \/ AppCloses => UNCHANGED <<inbox, hup>>
    BY DEF PeerConnects, ServerFails, AppOpens, AppCloses
  <2> QED
    BY <1>1, <1>6, <2>1, <2>2, <2>3 DEF Surroundings
<1>7. CASE TakeBatch \/ NextEvent \/ FindConnection \/ Accept \/ AcceptFails \/ Emplace
  BY <1>1, <1>7 DEF TakeBatch, NextEvent, FindConnection, Accept, AcceptFails, Emplace
<1>8. CASE GetConnection \/ ReceiveNothing \/ LeaveLoop \/ Release
  BY <1>1, <1>8 DEF GetConnection, ReceiveNothing, LeaveLoop, Release
<1>9. CASE (\E d \in Connections : Disconnect(d)) \/ DisconnectServer \/ Stop \/ UNCHANGED lcVars
  BY <1>1, <1>9 DEF Disconnect, DisconnectServer, Stop, lcVars
<1> QED
  BY <1>3, <1>4, <1>5, <1>6, <1>7, <1>8, <1>9 DEF Next, Listener, User

LEMMA EndKept == SafetyInv /\ AboutInv /\ [Next]_lcVars => EndInv'
<1> SUFFICES ASSUME SafetyInv, AboutInv, [Next]_lcVars PROVE EndInv'
  OBVIOUS
<1> USE DEF SafetyInv
<1>1. ASSUME pc' = "closeConnection", ~cur'.close, table'[cur'.fd] \in Connections
      PROVE  LET c == table'[cur'.fd] IN c \in hup' /\ inbox'[c] = 0
  <2>1. CASE NextEvent
    BY <1>1, <2>1 DEF NextEvent, Goto
  <2>2. CASE ReceiveNothing
    <3>1. UNCHANGED <<table, hup, inbox>> /\ cur' = [cur EXCEPT !.close = FALSE] /\ cur \in Events
      BY <1>1, <2>2 DEF ReceiveNothing, Handled, Goto, TypeInv, ListenerOK, Handling
    <3>2. cur'.fd = cur.fd
      BY <3>1 DEF Events
    <3>3. table[cur.fd] \notin Connections \ hup /\ (table[cur.fd] \in Connections => inbox[table[cur.fd]] = 0)
      BY <1>1, <2>2 DEF ReceiveNothing, Handled, Goto
    <3> QED
      BY <1>1, <3>1, <3>2, <3>3
  <2>3. CASE pc = "closeConnection" /\ UNCHANGED cur
    <3>1. cur.fd \in Fd
      BY <2>3 DEF TypeInv, ListenerOK, Handling, Events
    <3>2. table'[cur.fd] = table[cur.fd]
      BY <1>1, <2>3, <3>1, TableFrom, Names
    <3>3. Ended(table[cur.fd])
      BY <1>1, <2>3, <3>2 DEF AboutInv, EndInv
    <3> QED
      BY <1>1, <2>3, <3>1, <3>2, <3>3, StaysEnded
  <2> QED
    BY <1>1, <2>1, <2>2, <2>3, Arrives
<1>2. ASSUME pc' = "disconnect", ~cur'.close, object'[cn'].connected
      PROVE  cn' \in hup' /\ inbox'[cn'] = 0
  <2>1. TypeInv' /\ OwnInv' /\ NumberInv'
    BY TypesKept, OwnKept, NumberKept
  <2>2. cn' \in Connections /\ cur'.fd \in Fd /\ Dropped' = cn'
    BY <1>2, <2>1 DEF TypeInv, ListenerOK, Handling, Events, Dropped
  <2>3. object'[cn'].fd = cur'.fd /\ table'[cur'.fd] = cn'
    BY <1>2, <2>1, <2>2, Names DEF NumberInv, OwnInv, ObjectsInv
  <2>4. CASE FindConnection
    <3>1. UNCHANGED <<table, hup, inbox, cur>> /\ pc = "closeConnection"
      BY <1>2, <2>4 DEF FindConnection, Handled, Goto
    <3> QED
      BY <1>2, <2>2, <2>3, <3>1 DEF AboutInv, EndInv, Ended
  <2>5. CASE pc = "disconnect" /\ UNCHANGED <<cur, cn>>
    <3>1. object[cn].connected
      BY <1>2, <2>2, <2>5, ObjectFrom DEF Held
    <3>2. Ended(cn)
      BY <1>2, <2>5, <3>1 DEF AboutInv, EndInv
    <3>3. object[cn].fd = cur.fd /\ table[cur.fd] = cn
      BY <2>2, <2>5, <3>1, Names DEF Dropped, AboutInv, NumberInv, OwnInv, ObjectsInv
    <3> QED
      BY <2>2, <2>3, <2>5, <3>2, <3>3, StaysEnded
  <2> QED
    BY <1>2, <2>4, <2>5, Arrives
<1>3. lost' # "read"
  <2>1. CASE UNCHANGED lost
    BY <2>1 DEF AboutInv, EndInv
  <2>2. CASE SafeDisconnect
    <3>1. ~cur.close /\ object[cn].connected => inbox[cn] = 0
      BY <2>2 DEF SafeDisconnect, AboutInv, EndInv, Ended
    <3>2. lost' \in {lost, "hangUp"}
      BY <2>2, <3>1 DEF SafeDisconnect
    <3> QED
      BY <3>2 DEF AboutInv, EndInv
  <2> QED
    BY <2>1, <2>2, Arrives
<1> QED
  BY <1>1, <1>2, <1>3 DEF EndInv, Ended

LEMMA StopKept == SafetyInv /\ AboutInv /\ [Next]_lcVars => StopInv'
<1> SUFFICES ASSUME SafetyInv, AboutInv, [Next]_lcVars PROVE StopInv'
  OBVIOUS
<1> USE DEF SafetyInv
<1>1. attached' = attached /\ (disturbed /\ pc # "next" => disturbed')
  BY Settings, StaysDisturbed
<1>2. pc' = "aborted" => attached # {}
  <2>1. ASSUME Emplace, pc' # "accept", attached = {} PROVE FALSE
    <3>1. internal[accepted.fd] # NoOne /\ Held = accepted /\ Held # NoAccept
      BY <2>1 DEF Emplace, Goto, Held, TypeInv, ListenerOK
    <3>2. accepted.fd \in Fd /\ table[accepted.fd] = accepted.peer /\ internal[accepted.fd] # accepted.peer
      BY <3>1, OwnTypes DEF OwnInv, NewInv, New
    <3>3. internal[accepted.fd] \in Connections
      BY <3>1, <3>2, OwnTypes, Names
    <3>4. object[internal[accepted.fd]].connected /\ object[internal[accepted.fd]].fd = accepted.fd
      BY <2>1, <3>1, <3>2 DEF OwnInv, MapInv
    <3> QED
      BY <3>2, <3>3, <3>4, OwnNumber DEF OwnInv
  <2> QED
    BY <2>1, Arrives DEF AboutInv, StopInv
<1>3. pc' = "readNull" => disturbed'
  <2>1. CASE ReceiveMessage /\ pc' = "readNull"
    <3>1. pc = "recv" /\ cn = NoOne /\ table[cur.fd] \in Connections \cup {App}
      BY <2>1 DEF ReceiveMessage, Goto
    <3> QED
      BY <1>1, <3>1 DEF AboutInv, RecvInv, DeadRecv, Dead
  <2>2. CASE pc = "readNull"
    BY <1>1, <2>2 DEF AboutInv, StopInv
  <2> QED
    BY <2>1, <2>2, Arrives
<1>4. pc' = "loopLost" => attached = {}
  <2>1. ASSUME ShutDown, internal' # internal PROVE attached = {}
    BY <2>1, ToldMap, Names DEF ShutDown
  <2> QED
    BY <2>1, Arrives DEF AboutInv, StopInv
<1> QED
  BY <1>1, <1>2, <1>3, <1>4 DEF StopInv

LEMMA MarksKept == SafetyInv /\ AboutInv /\ [Next]_lcVars => MarksInv'
<1> SUFFICES ASSUME SafetyInv, AboutInv, [Next]_lcVars PROVE MarksInv'
  OBVIOUS
<1> USE DEF SafetyInv
<1>1. disturbed' \in BOOLEAN /\ (~disturbed' => Closing' = NoOne)
  <2>1. CASE TakeBatch
    BY <2>1 DEF TakeBatch, Closing
  <2>2. CASE \E c \in Connections : Disconnect(c)
    BY <2>2 DEF Disconnect
  <2>3. CASE UNCHANGED disturbed /\ ~\E c \in Connections : Disconnect(c)
    BY <2>3, ClosingFrom DEF AboutInv, MarksInv
  <2> QED
    BY <2>1, <2>2, <2>3, Disturbs
<1>2. backend' = backend /\ backend \in {"epoll", "select", "wsapoll"}
  BY Settings, PollerAssumption DEF TypeInv, PollerOK
<1>3. \/ misdirected' = misdirected \/ (misdirected' = "disturbed" /\ backend = "epoll")
      \/ misdirected' = "closed" \/ (misdirected' = "stale" /\ attached # {} /\ backend # "epoll")
  <2>1. CASE SafeDisconnect
    <3>1. pc = "disconnect" /\ cur \in Events
      BY <2>1 DEF SafeDisconnect, TypeInv, ListenerOK, Handling
    <3>2. CASE cur.close /\ cur.about \in Connections \ {cn}
      <4>1. backend = "epoll" /\ disturbed
        BY <1>2, <3>1, <3>2 DEF AboutInv, HangUpInv, Reliable, EventsInv
      <4> QED
        BY <2>1, <3>2, <4>1 DEF SafeDisconnect
    <3>3. CASE ~(cur.close /\ cur.about \in Connections \ {cn})
      BY <2>1, <3>3 DEF SafeDisconnect
    <3> QED
      BY <3>2, <3>3
  <2>2. CASE ReceiveMessage
    <3>1. pc = "recv" /\ table[cur.fd] \in Connections \cup {App}
      BY <2>2 DEF ReceiveMessage
    <3>2. CASE table[cur.fd] \in Connections
      BY <2>2, <3>1, <3>2 DEF ReceiveMessage, AboutInv, RecvInv
    <3>3. CASE table[cur.fd] = App
      <4>1. /\ cn # NoOne => ~object[cn].connected
            /\ disturbed \/ (cn # NoOne /\ attached # {} /\ backend # "epoll")
        BY <3>1, <3>3 DEF AboutInv, DeadRecv, Dead
      <4> QED
        BY <2>2, <3>3, <4>1 DEF ReceiveMessage, Astray
    <3> QED
      BY <3>1, <3>2, <3>3
  <2> QED
    BY <2>1, <2>2, Disturbs
<1>4. attached' = attached
  BY Settings
<1> QED
  BY <1>1, <1>2, <1>3, <1>4 DEF AboutInv, MarksInv

LEMMA AboutKept == SafetyInv /\ AboutInv /\ [Next]_lcVars => AboutInv'
<1>1. SafetyInv /\ AboutInv /\ [Next]_lcVars => NumbersInv'
  BY NumberKept, FreshKept, BatchKept, UnwatchedKept, HangUpKept
<1>2. SafetyInv /\ AboutInv /\ [Next]_lcVars => ReadsInv'
  BY RecvKept, DeadKept, DeadEventsKept, DeadReadKept, DeadRecvKept, EndKept
<1> QED
  BY <1>1, <1>2, StopKept, MarksKept DEF AboutInv

\* The process stops at the assertion about the map only with clients attached, in
\* the loop of the shutdown only without, and for data read for nobody only when
\* another thread has disconnected since the batch was taken.
THEOREM StopsAreExplained == Spec => []StopsExplained
<1>1. SafetyInv /\ AboutInv => StopsExplained
  BY DEF SafetyInv, AboutInv, StopInv, OwnInv, MapInv, StopsExplained
<1> QED
  BY SafetyInit, SafetyKept, AboutInit, AboutKept, <1>1, PTL DEF Spec

\* Between the connections of the listener an event or data goes astray only when
\* another thread disconnects within the batch, and only with epoll.  What a socket
\* of the application's had to read goes to none that is open, and outside such a
\* batch only to one closed while clients are attached, with select or WSAPoll.
THEOREM AloneNoneMisdirected == Spec => []OnlyWhenDisturbed
<1>1. SafetyInv /\ AboutInv => OnlyWhenDisturbed
  BY DEF AboutInv, StopInv, MarksInv, OnlyWhenDisturbed
<1> QED
  BY SafetyInit, SafetyKept, AboutInit, AboutKept, <1>1, PTL DEF Spec

\* A connection that recv has found ended has been read to its end, for every
\* interleaving with the close by another thread: the listener closes a socket
\* with something to read for a reported hang-up only.
THEOREM ReadBeforeClosed == Spec => []ReadToTheEnd
<1>1. SafetyInv /\ AboutInv => ReadToTheEnd
  BY DEF AboutInv, EndInv, ReadToTheEnd
<1> QED
  BY SafetyInit, SafetyKept, AboutInit, AboutKept, <1>1, PTL DEF Spec
------------------------------------------------------------------------------
(* What the listener is told of. *)

\* The sockets with something to read, the numbers the listener has an event to
\* handle for, and the one that is not registered yet.
Due  == {s \in Socket : Readable(s)}
Seen == {f \in Fd : \/ \E e \in batch : e.fd = f /\ (e.read \/ e.close)
                    \/ pc \in Handling /\ cur.fd = f}

\* The listener waits for every open socket that is not being disconnected, and
\* epoll has not told in vain what is left to read, but for a server whose
\* backlog the listener has left.
NotedInv == pc \notin Gone => \A f \in Fd : table[f] \in Socket /\ table[f] # target /\ f # Added =>
    /\ f \in watched
    /\ backend = "epoll" /\ table[f] \in Due =>
         table[f] \in edge \/ (table[f] = Server /\ gaveUp) \/ f \in Seen

\* The connection taken out is the one at the number, if there is one still.
TakenInv == pc = "disconnect" => table[cur.fd] \in {cn, App, Free}

LEMMA NotedInit == Init => NotedInv /\ TakenInv
<1> SUFFICES ASSUME Init PROVE NotedInv
  BY DEF Init, TakenInv
<1>1. Due = {}
  BY Names DEF Init, Due, Readable, Socket
<1>2. ASSUME NEW f \in Fd, table[f] \in Socket PROVE f \in watched
  BY <1>2, Names DEF Init, FreeFds
<1> QED
  BY <1>1, <1>2 DEF NotedInv

\* Closing a number leaves the other sockets as they are.
LEMMA CloseOthers ==
    ASSUME TypeInv, OwnInv, NEW g \in Fd, NEW s, Close(g, s), UNCHANGED <<backlog, failing>>,
           NEW f \in Fd, table'[f] \in Socket
    PROVE  /\ f # g /\ table'[f] = table[f]
           /\ table[f] \in Due' => table[f] \in Due
           /\ table[f] \in edge => table[f] \in edge'
<1>1. f # g
  BY Names, OwnTypes DEF Close
<1>2. table'[f] = table[f]
  BY <1>1, OwnTypes DEF Close
<1>3. table[f] # table[g]
  BY <1>1, <1>2, OneNumber
<1>4. table[f] \in edge => table[f] \in edge'
  BY <1>3 DEF Close
<1>5. table[f] \in Due' => table[f] \in Due
  <2>1. table[f] \in Connections => inbox'[table[f]] = inbox[table[f]] /\ (table[f] \in hup' <=> table[f] \in hup)
    BY <1>3 DEF Close
  <2> QED
    BY <2>1 DEF Due, Readable
<1> QED
  BY <1>1, <1>2, <1>4, <1>5

\* Something happens to a socket: no other has more to read, and epoll notes it
\* when the listener waits for the socket.
LEMMA HappensTo ==
    ASSUME TypeInv, NEW s \in Socket, Happens(s), NEW f \in Fd, table[f] \in Socket, backend = "epoll"
    PROVE  /\ edge \subseteq edge'
           /\ f \in watched /\ table[f] = s => table[f] \in edge'
  BY DEF Happens, Watches

\* The server's events are about the server.
LEMMA ServersEvent ==
    ASSUME TypeInv, OwnInv, AtServer, pc \in {"accept", "setUp", "emplace", "unwind"}
    PROVE  /\ cur.fd \in Fd
           /\ table[cur.fd] \in Socket => table[cur.fd] = Server
<1>1. cur.fd \in Fd /\ object[Server].fd = cur.fd
  BY DEF TypeInv, ListenerOK, Handling, Events, AtServer, IsServer
<1> QED
  BY <1>1, Names DEF OwnInv, ObjectsInv

LEMMA TakenKept == SafetyInv /\ AboutInv /\ TakenInv /\ [Next]_lcVars => TakenInv'
<1> SUFFICES ASSUME SafetyInv, TakenInv, [Next]_lcVars, pc' = "disconnect"
             PROVE  table'[cur'.fd] \in {cn', App, Free}
  BY DEF TakenInv
<1> USE DEF SafetyInv
<1>1. CASE FindConnection
  <2>1. cur.fd \in Fd /\ cn' = Lookup(cur.fd) /\ cn' # NoOne /\ UNCHANGED <<cur, table>> /\ pc = "closeConnection"
    BY <1>1 DEF FindConnection, Handled, Goto, TypeInv, ListenerOK, Handling, Events
  <2>2. table[cur.fd] # Server
    BY <2>1 DEF AtServer, IsServer, OwnInv, KeptInv, Has
  <2>3. Held = NoAccept /\ Dropped = NoOne
    BY <2>1 DEF Held, Dropped
  <2>4. table[cur.fd] \in Connections => cn' = table[cur.fd]
    BY <2>1, <2>3, Finds
  <2> QED
    BY <2>1, <2>2, <2>4, OwnTypes DEF Socket
<1>2. CASE pc = "disconnect" /\ UNCHANGED <<cur, cn>>
  <2>1. cur.fd \in Fd /\ table'[cur.fd] \in Socket \cup {App, Free}
    BY <1>2, KernelKept DEF TypeInv, ListenerOK, Handling, Events, KernelOK
  <2> QED
    BY <1>2, <2>1, TableFrom DEF TakenInv
<1> QED
  BY <1>1, <1>2, Arrives

\* The listener keeps what it has to handle when it goes on with an event.
LEMMA SeenKept ==
    ASSUME UNCHANGED <<batch, cur>>, pc \in Handling => pc' \in Handling
    PROVE  Seen \subseteq Seen'
  BY DEF Seen

LEMMA NotedKept == SafetyInv /\ AboutInv /\ TakenInv /\ NotedInv /\ [Next]_lcVars => NotedInv'
<1> SUFFICES ASSUME SafetyInv, AboutInv, TakenInv, NotedInv, [Next]_lcVars, pc' \notin Gone,
                    NEW f \in Fd, table'[f] \in Socket, table'[f] # target', f # Added'
             PROVE  /\ f \in watched'
                    /\ backend' = "epoll" /\ table'[f] \in Due' =>
                         table'[f] \in edge' \/ (table'[f] = Server /\ gaveUp') \/ f \in Seen'
  BY DEF NotedInv
<1> DEFINE Goal == /\ f \in watched'
                   /\ backend' = "epoll" /\ table'[f] \in Due' =>
                         table'[f] \in edge' \/ (table'[f] = Server /\ gaveUp') \/ f \in Seen'
<1> SUFFICES Goal
  OBVIOUS
<1> HIDE DEF Goal
<1> USE DEF SafetyInv
<1>1. backend' = backend /\ pc \notin Gone
  BY Settings, GoneStays
<1>2. ASSUME table[f] \in Socket, table[f] # target, f # Added
      PROVE  /\ f \in watched
             /\ backend = "epoll" /\ table[f] \in Due =>
                  table[f] \in edge \/ (table[f] = Server /\ gaveUp) \/ f \in Seen
  BY <1>1, <1>2 DEF NotedInv
\* What leaves the sockets and the events alone, or takes something from a socket.
<1>3. ASSUME table'[f] = table[f], table[f] # target, f # Added,
             watched' = watched, edge' = edge, gaveUp' = gaveUp,
             Due' \subseteq Due, Seen \subseteq Seen'
      PROVE  Goal
  BY <1>1, <1>2, <1>3 DEF Goal
<1>4. UNCHANGED <<backlog, failing, inbox, hup>> => Due' = Due
  BY DEF Due, Readable
<1>5. UNCHANGED pc /\ UNCHANGED accepted => Added' = Added
  BY DEF Added
<1>6. pc # "setUp" => f # Added
  BY Numbers DEF Added
<1>7. CASE DisconnectServer \/ Stop \/ UNCHANGED lcVars
  <2>1. UNCHANGED <<table, watched, edge, gaveUp, backlog, failing, inbox, hup, batch, cur, pc, accepted>>
    BY <1>7 DEF DisconnectServer, Stop, lcVars
  <2>2. table[f] # target
    BY <1>7, <2>1, Names DEF DisconnectServer, Stop, lcVars, TypeInv, UserOK
  <2> QED
    BY <1>3, <1>4, <1>5, <2>1, <2>2, SeenKept
<1>8. CASE GetConnection \/ ReceiveMessage \/ Emplace
  <2>1. UNCHANGED <<table, watched, edge, gaveUp, batch, cur, target>> /\ pc # "setUp"
    BY <1>8 DEF GetConnection, ReceiveMessage, Emplace
  <2>2. pc' \in Handling
    BY <1>8 DEF GetConnection, ReceiveMessage, Emplace, Goto, Gone, Stopped, Handling
  <2>3. Due' \subseteq Due
    <3>1. CASE ReceiveMessage
      BY <3>1 DEF ReceiveMessage, Due, Readable, TypeInv, KernelOK
    <3>2. CASE GetConnection \/ Emplace
      BY <1>4, <3>2 DEF GetConnection, Emplace
    <3> QED
      BY <1>8, <3>1, <3>2
  <2> QED
    BY <1>3, <1>6, <2>1, <2>2, <2>3, SeenKept
\* What ends a handler.
<1>9. ASSUME Handled, Unreported(cur.fd) = batch' \/ batch' = batch, backend = "epoll", f \in Seen, f # cur.fd
      PROVE  f \in Seen'
  BY <1>9 DEF Seen, Unreported
<1>10. ASSUME NEW g \in Fd, NEW s, Close(g, s), UNCHANGED <<backlog, failing>>,
              table[f] # target, f # g => f # Added, f \in watched /\ f # g => f \in watched',
              gaveUp' = gaveUp \/ gaveUp' = TRUE,
              backend = "epoll" /\ f \in Seen /\ f # g => f \in Seen' \/ (table[f] = Server /\ gaveUp')
       PROVE  Goal
  <2>1. /\ f # g /\ table'[f] = table[f]
        /\ table[f] \in Due' => table[f] \in Due
        /\ table[f] \in edge => table[f] \in edge'
    BY <1>10, CloseOthers
  <2> QED
    BY <1>1, <1>2, <1>10, <2>1 DEF Goal
<1>11. CASE CloseServer
  <2>1. cur.fd \in Fd /\ target' = target /\ pc = "closeServer"
    BY <1>11 DEF CloseServer, TypeInv, ListenerOK, Handling, Events
  <2>2. f # cur.fd /\ table'[f] = table[f]
    BY <1>11, <2>1, CloseOthers DEF CloseServer
  <2> QED
    BY <1>6, <1>9, <1>10, <1>11, <2>1, <2>2 DEF CloseServer
<1>12. CASE SafeDisconnect
  <2>1. /\ cn \in Connections /\ cur.fd \in Fd /\ target' = target /\ pc = "disconnect"
        /\ Dropped = cn /\ Held = NoAccept
    BY <1>12 DEF SafeDisconnect, TypeInv, ListenerOK, Handling, Events, Dropped, Held
  <2>2. CASE object[cn].connected
    <3>1. object[cn].fd = cur.fd
      BY <2>1, <2>2, Names DEF AboutInv, NumberInv
    <3>2. Close(cur.fd, cn) /\ watched' = watched \ {cur.fd}
      BY <1>12, <2>2, <3>1 DEF SafeDisconnect
    <3>3. f # cur.fd /\ table'[f] = table[f]
      BY <1>12, <2>1, <3>2, CloseOthers DEF SafeDisconnect
    <3> QED
      BY <1>6, <1>9, <1>10, <1>12, <2>1, <3>2, <3>3 DEF SafeDisconnect
  <2>3. CASE ~object[cn].connected
    <3>1. UNCHANGED <<table, inbox, hup, edge, backlog, failing, gaveUp>>
      BY <1>12, <2>3 DEF SafeDisconnect
    <3>2. table[f] # cn
      BY <2>1, <2>3, <3>1, Names DEF OwnInv, KeptInv, NoAccept, Has, Connections
    <3>3. f # cur.fd /\ f # object[cn].fd
      BY <2>1, <2>3, <3>1, <3>2, Names DEF TakenInv, OwnInv, ObjectsInv
    <3>4. f \in watched => f \in watched'
      BY <1>12, <3>3 DEF SafeDisconnect
    <3>5. backend = "epoll" /\ f \in Seen => f \in Seen'
      BY <1>9, <1>12, <3>3 DEF SafeDisconnect
    <3> QED
      BY <1>1, <1>2, <1>4, <1>6, <2>1, <3>1, <3>4, <3>5 DEF Goal
  <2> QED
    BY <2>2, <2>3
\* The handler of a server's event that gives up.
<1>13. ASSUME pc \in {"accept", "setUp", "emplace", "unwind"}, Handled,
              Unreported(accepted.fd) = batch' \/ batch' = batch, gaveUp' = TRUE,
              backend = "epoll", f \in Seen, table[f] \in Socket
       PROVE  f \in Seen' \/ (table[f] = Server /\ gaveUp')
  <2>1. CASE f = cur.fd
    BY <1>13, <2>1, ServersEvent
  <2>2. CASE f # cur.fd
    BY <1>13, <2>2 DEF Seen, Unreported
  <2> QED
    BY <2>1, <2>2
<1>14. CASE SetUp
  <2>1. /\ accepted.fd \in Fd /\ Added = accepted.fd /\ target' = target /\ pc = "setUp"
        /\ UNCHANGED <<backlog, failing, batch>>
    BY <1>14 DEF SetUp, TypeInv, ListenerOK, Added, NoAccept
  <2>2. CASE pc' = "emplace"
    <3>1. AddFd(accepted.fd) /\ UNCHANGED <<table, inbox, hup, cur, gaveUp>>
      BY <1>14, <2>2 DEF SetUp, Handled, Goto
    <3>2. CASE f = accepted.fd
      <4>1. f \in watched'
        BY <3>1, <3>2 DEF AddFd
      <4>2. backend = "epoll" /\ table[f] \in Due => table[f] \in edge'
        BY <3>1, <3>2 DEF AddFd, Due
      <4> QED
        BY <1>1, <1>4, <2>1, <3>1, <4>1, <4>2 DEF Goal
    <3>3. CASE f # accepted.fd
      <4>1. (f \in watched => f \in watched') /\ edge \subseteq edge'
        BY <3>1 DEF AddFd
      <4>2. Seen \subseteq Seen'
        BY <2>1, <2>2, <3>1, SeenKept DEF Handling
      <4> QED
        BY <1>1, <1>2, <1>4, <2>1, <3>1, <3>3, <4>1, <4>2 DEF Goal
    <3> QED
      BY <3>2, <3>3
  <2>3. CASE pc' # "emplace"
    <3>1. Close(accepted.fd, accepted.peer) /\ Handled /\ gaveUp' = TRUE /\ watched' = watched
      BY <1>14, <2>3 DEF SetUp, Goto
    <3>2. f # accepted.fd /\ table'[f] = table[f]
      BY <2>1, <3>1, CloseOthers
    <3> QED
      BY <1>10, <1>13, <2>1, <3>1, <3>2
  <2> QED
    BY <2>2, <2>3
<1>15. CASE EmplaceFails \/ Unwind
  <2>1. /\ accepted.fd \in Fd /\ target' = target /\ pc \in {"emplace", "unwind"}
        /\ UNCHANGED <<backlog, failing>> /\ Close(accepted.fd, accepted.peer)
    BY <1>15 DEF EmplaceFails, Unwind, TypeInv, ListenerOK, NoAccept
  <2>2. f # accepted.fd /\ table'[f] = table[f]
    BY <2>1, CloseOthers
  <2>3. f \in watched => f \in watched'
    BY <1>15, <2>2 DEF EmplaceFails, Unwind, Forgotten
  <2>4. CASE Handled /\ gaveUp' = TRUE /\ batch' = Unreported(accepted.fd)
    BY <1>6, <1>10, <1>13, <2>1, <2>2, <2>3, <2>4
  <2>5. CASE pc' = "unwind" /\ UNCHANGED <<batch, cur, gaveUp>>
    <3>1. Seen \subseteq Seen'
      BY <2>5, SeenKept DEF Handling
    <3> QED
      BY <1>6, <1>10, <2>1, <2>2, <2>3, <2>5, <3>1
  <2> QED
    BY <1>15, <2>4, <2>5 DEF EmplaceFails, Unwind, Goto
<1>16. CASE AcceptFails
  <2>1. UNCHANGED <<table, target, watched, edge, batch, backlog, failing, inbox, hup>> /\ pc = "accept"
    BY <1>16 DEF AcceptFails
  <2>2. Handled /\ gaveUp' = TRUE
    BY <1>16 DEF AcceptFails
  <2> QED
    BY <1>1, <1>2, <1>4, <1>6, <1>13, <2>1, <2>2 DEF Goal
<1>17. CASE Accept
  <2>1. UNCHANGED <<target, watched, edge, batch, failing, inbox, hup>> /\ pc = "accept"
    BY <1>17 DEF Accept
  <2>2. Due' \subseteq Due
    BY <1>17, <2>1 DEF Accept, Due, Readable
  <2>3. CASE pc' = "setUp"
    <3>1. UNCHANGED <<cur, gaveUp>>
      BY <1>17, <2>3 DEF Accept, Handled, Goto
    <3>2. table'[f] = table[f]
      <4>1. PICK p \in backlog : accepted' = [peer |-> p, fd |-> Min(FreeFds)]
                                /\ table' = [table EXCEPT ![Min(FreeFds)] = p]
        BY <1>17, <2>3 DEF Accept, Handled, Goto
      <4>2. f # Min(FreeFds)
        BY <2>3, <4>1 DEF Added
      <4> QED
        BY <4>1, <4>2, OwnTypes
    <3>3. Seen \subseteq Seen'
      BY <2>1, <2>3, <3>1, SeenKept DEF Handling
    <3> QED
      BY <1>3, <1>6, <2>1, <2>2, <3>1, <3>2, <3>3
  <2>4. CASE pc' # "setUp"
    <3>1. /\ Handled /\ UNCHANGED <<table, backlog>>
          /\ gaveUp' = (table[cur.fd] # Server \/ backlog # {} \/ failing)
      BY <1>17, <2>4 DEF Accept, Goto
    <3>2. table[f] = Server /\ table[f] \in Due => gaveUp'
      BY <3>1, Names DEF Due, Readable
    <3>3. cur.fd \in Fd /\ (f = cur.fd => table[f] = Server)
      BY <2>1, <3>1, ServersEvent
    <3>4. backend = "epoll" /\ f \in Seen /\ f # cur.fd => f \in Seen'
      BY <1>9, <2>1, <3>1
    <3> QED
      BY <1>1, <1>2, <1>4, <1>6, <2>1, <3>1, <3>2, <3>3, <3>4 DEF Goal
  <2> QED
    BY <2>3, <2>4
<1>18. CASE ReceiveNothing
  <2>1. /\ UNCHANGED <<table, target, watched, edge, batch, gaveUp, backlog, failing, inbox, hup>>
        /\ pc = "recv" /\ cur.fd \in Fd /\ cur \in Events
    BY <1>18 DEF ReceiveNothing, TypeInv, ListenerOK, Handling, Events
  <2>2. CASE Handled /\ (backend = "wsapoll" \/ table[cur.fd] \in {App} \cup (Connections \ hup))
    <3>1. Handled
      BY <2>2
    <3>2. backend = "epoll" => table[cur.fd] \notin Due
      BY <1>18, <2>2, Names DEF ReceiveNothing, Due, Readable
    <3>3. backend = "epoll" /\ f \in Seen /\ f # cur.fd => f \in Seen'
      BY <1>9, <2>1, <3>1
    <3> QED
      BY <1>1, <1>2, <1>4, <1>6, <2>1, <3>2, <3>3 DEF Goal
  <2>3. CASE pc' = "closeConnection" /\ cur' = [cur EXCEPT !.close = FALSE]
    <3>1. pc' = "closeConnection" /\ cur'.fd = cur.fd
      BY <2>1, <2>3 DEF Events
    <3>2. Seen \subseteq Seen'
      BY <2>1, <3>1 DEF Seen, Handling
    <3> QED
      BY <1>3, <1>4, <1>6, <2>1, <3>2
  <2> QED
    BY <1>18, <2>2, <2>3 DEF ReceiveNothing, Goto
<1>19. CASE FindConnection
  <2>1. /\ UNCHANGED <<table, target, watched, edge, batch, gaveUp, backlog, failing, inbox, hup>>
        /\ pc = "closeConnection" /\ cur.fd \in Fd
    BY <1>19 DEF FindConnection, TypeInv, ListenerOK, Handling, Events
  <2>2. CASE Lookup(cur.fd) = NoOne
    <3>1. Handled
      BY <1>19, <2>2 DEF FindConnection
    <3>2. table[cur.fd] # Server
      BY <2>1 DEF AtServer, IsServer, OwnInv, KeptInv, Has
    <3>3. Held = NoAccept /\ Dropped = NoOne
      BY <2>1 DEF Held, Dropped
    <3>4. table[cur.fd] \in Connections => table[cur.fd] = target
      BY <2>1, <2>2, <3>3, Finds, Names DEF Closing
    <3>5. f # cur.fd
      BY <2>1, <3>2, <3>4 DEF Socket
    <3>6. backend = "epoll" /\ f \in Seen => f \in Seen'
      BY <1>9, <2>1, <3>1, <3>5
    <3> QED
      BY <1>1, <1>2, <1>4, <1>6, <2>1, <3>6 DEF Goal
  <2>3. CASE Lookup(cur.fd) # NoOne
    <3>1. pc' = "disconnect" /\ cur' = cur
      BY <1>19, <2>3 DEF FindConnection, Goto
    <3> QED
      BY <1>3, <1>4, <1>6, <2>1, <3>1, SeenKept DEF Handling
  <2> QED
    BY <2>2, <2>3
<1>20. CASE NextEvent
  <2>1. UNCHANGED <<table, target, watched, edge, gaveUp, backlog, failing, inbox, hup>> /\ pc = "next"
    BY <1>20 DEF NextEvent
  <2>2. PICK e \in batch : batch' = batch \ {e} /\ (e.read \/ e.close => cur' = e /\ pc' \in Handling)
    BY <1>20 DEF NextEvent, Goto, Handling
  <2>3. Seen \subseteq Seen'
    BY <2>1, <2>2 DEF Seen, Handling
  <2> QED
    BY <1>3, <1>4, <1>6, <2>1, <2>3
<1>21. CASE TakeBatch
  <2>1. /\ UNCHANGED <<table, target, watched, gaveUp, backlog, failing, inbox, hup, cur, pc>>
        /\ pc = "next" /\ batch = {} /\ Wait
    BY <1>21 DEF TakeBatch, Waiting
  <2>2. table[f] \in Socket /\ table[f] # target /\ f # Added
    BY <1>6, <2>1
  <2>3. CASE backend = "epoll" /\ table[f] \in Due /\ table[f] \in edge
    <3>1. PICK taken \in SUBSET watched, answer \in Answers :
            /\ batch' = {Report(g, answer) : g \in taken}
            /\ edge' = {s \in edge : Readable(s)} \ {table[g] : g \in taken}
      BY <2>1, <2>3 DEF Wait, WaitEpoll
    <3>2. CASE f \in taken
      <4>1. /\ Report(f, answer) \in batch' /\ Report(f, answer).fd = f
            /\ Report(f, answer).read \/ Report(f, answer).close
        BY <2>3, <3>1, <3>2, ReportTypes DEF Due, TypeInv
      <4> QED
        BY <1>1, <1>2, <2>1, <2>2, <4>1 DEF Goal, Seen
    <3>3. CASE f \notin taken
      <4>1. \A g \in taken : table[g] # table[f]
        BY <2>2, <3>1, <3>3, OneNumber DEF TypeInv, PollerOK
      <4>2. table[f] \in edge'
        BY <2>3, <3>1, <4>1 DEF Due
      <4> QED
        BY <1>1, <1>2, <2>1, <2>2, <4>2 DEF Goal
    <3> QED
      BY <3>2, <3>3
  <2>4. CASE ~(backend = "epoll" /\ table[f] \in Due /\ table[f] \in edge)
    <3>1. f \notin Seen
      BY <2>1 DEF Seen, Handling
    <3> QED
      BY <1>1, <1>2, <1>4, <2>1, <2>2, <2>4, <3>1 DEF Goal
  <2> QED
    BY <2>3, <2>4
<1>22. CASE LeaveLoop \/ ShutDown \/ Release \/ DestroyServer
  <2>1. pc' \in Gone
    BY <1>1, <1>22 DEF LeaveLoop, ShutDown, Release, DestroyServer, Gone, Over, Goto
  <2> QED
    BY <2>1
<1>23. ASSUME NEW c \in Connections, Disconnect(c) PROVE Goal
  <2>1. UNCHANGED <<table, edge, gaveUp, backlog, failing, inbox, hup, cur, pc, accepted>> /\ target = NoOne
    BY <1>23 DEF Disconnect, TypeInv, UserOK
  <2>2. table[f] \in Socket /\ table[f] # target /\ table[f] # c
    BY <1>23, <2>1, Names DEF Disconnect
  <2>3. f # object[c].fd
    BY <2>2, Names DEF OwnInv, ObjectsInv
  <2>4. f \in watched => f \in watched'
    BY <1>23, <2>3 DEF Disconnect, Removed
  <2>5. backend = "epoll" => batch' = batch
    BY <1>23 DEF Disconnect, Unreported
  <2>6. backend = "epoll" => Seen \subseteq Seen'
    BY <2>1, <2>5, SeenKept
  <2> QED
    BY <1>1, <1>2, <1>4, <1>5, <2>1, <2>2, <2>4, <2>6 DEF Goal
<1>24. CASE CloseTarget
  <2>1. /\ user = "close" /\ target \in Connections /\ Closing = target
        /\ UNCHANGED <<backlog, failing, batch, cur, pc, accepted, gaveUp>>
    BY <1>24 DEF CloseTarget, TypeInv, UserOK, Unlocked, Closing
  <2>2. Seen \subseteq Seen' /\ Added' = Added
    BY <1>5, <2>1, SeenKept
  <2>3. CASE object[target].connected
    <3>1. object[target].fd \in Fd /\ table[object[target].fd] = target
      BY <2>1, <2>3, OwnNumber DEF OwnInv
    <3>2. Close(object[target].fd, target) /\ watched' = Forgotten(object[target].fd)
      BY <1>24, <2>3 DEF CloseTarget
    <3>3. f # object[target].fd /\ table'[f] = table[f]
      BY <2>1, <3>1, <3>2, CloseOthers
    <3>4. table[f] # target
      BY <2>1, <3>1, <3>3, OneNumber
    <3>5. f \in watched => f \in watched'
      BY <3>2, <3>3 DEF Forgotten
    <3> QED
      BY <1>10, <2>1, <2>2, <3>1, <3>2, <3>4, <3>5
  <2>4. CASE ~object[target].connected
    <3>1. UNCHANGED <<table, inbox, hup, edge, watched>>
      BY <1>24, <2>4 DEF CloseTarget
    <3>2. Held.peer = target => FALSE
      BY <2>1, Names DEF OwnInv, NewInv, New, NoAccept
    <3>3. table[f] # target
      BY <2>1, <2>4, <3>2 DEF OwnInv, KeptInv, Has, Connections
    <3> QED
      BY <1>3, <1>4, <2>1, <2>2, <3>1, <3>3
  <2> QED
    BY <2>3, <2>4
<1>25. CASE Surroundings
  <2>1. UNCHANGED <<batch, cur, pc, accepted, gaveUp, target, watched>>
    BY <1>25 DEF Surroundings
  <2>2. Seen \subseteq Seen' /\ Added' = Added
    BY <1>5, <2>1, SeenKept
  <2>3. ASSUME NEW s \in Socket, Happens(s), table' = table, Due' \subseteq Due \cup {s} PROVE Goal
    <3>1. backend = "epoll" => /\ edge \subseteq edge'
                               /\ f \in watched /\ table[f] = s => table[f] \in edge'
      BY <2>3, HappensTo
    <3> QED
      BY <1>1, <1>2, <2>1, <2>2, <2>3, <3>1 DEF Goal
  <2>4. ASSUME NEW p \in Peer, PeerConnects(p) PROVE Goal
    <3>1. Due' \subseteq Due \cup {Server}
      BY <2>4 DEF PeerConnects, Due, Readable
    <3> QED
      BY <2>3, <2>4, <3>1, Names DEF PeerConnects
  <2>5. ASSUME NEW c \in Connections, PeerSends(c) PROVE Goal
    <3>1. Due' \subseteq Due \cup {c}
      BY <2>5 DEF PeerSends, Due, Readable, TypeInv, KernelOK
    <3> QED
      BY <2>3, <2>5, <3>1, Names DEF PeerSends
  <2>6. ASSUME NEW c \in Connections, PeerCloses(c) PROVE Goal
    <3>1. Due' \subseteq Due \cup {c}
      BY <2>6 DEF PeerCloses, Due, Readable
    <3> QED
      BY <2>3, <2>6, <3>1, Names DEF PeerCloses
  <2>7. CASE ServerFails
    <3>1. Due' \subseteq Due \cup {Server}
      BY <2>7 DEF ServerFails, Due, Readable
    <3> QED
      BY <2>3, <2>7, <3>1, Names DEF ServerFails
  <2>9. CASE AppCloses
    <3>1. PICK g \in OpenOf(App) : table' = [table EXCEPT ![g] = Free] /\ UNCHANGED <<backlog, inbox, hup, failing, edge>>
      BY <2>9 DEF AppCloses
    <3>2. table'[f] = table[f]
      BY <3>1, OwnTypes, Names DEF OpenOf
    <3> QED
      BY <1>3, <1>4, <2>1, <2>2, <3>1, <3>2
  <2>8. CASE AppOpens
    <3>1. table' = [table EXCEPT ![Min(FreeFds)] = App] /\ UNCHANGED <<backlog, inbox, hup, failing, edge>>
      BY <2>8 DEF AppOpens
    <3>2. table'[f] = table[f]
      BY <3>1, OwnTypes, Names
    <3> QED
      BY <1>3, <1>4, <2>1, <2>2, <3>1, <3>2
  <2> QED
    BY <1>25, <2>4, <2>5, <2>6, <2>7, <2>8, <2>9 DEF Surroundings
<1> QED
  BY <1>7, <1>8, <1>11, <1>12, <1>14, <1>15, <1>16, <1>17, <1>18, <1>19, <1>20, <1>21, <1>22, <1>23,
     <1>24, <1>25 DEF Next, Listener, User

\* The listener will be told of every open socket that has something to read:
\* it waits for each, and with epoll an event is still to come, but for what the
\* server had left when accept_connections gave up.
THEOREM NoneIsStranded == Spec => []NothingStranded
<1>1. SafetyInv /\ NotedInv => NothingStranded
  <2> SUFFICES ASSUME NotedInv, Waiting, NEW f \in Fd, table[f] \in Socket, Readable(table[f]), target # table[f]
               PROVE  f \in watched /\ (backend = "epoll" => table[f] \in edge \/ (table[f] = Server /\ gaveUp))
    BY DEF NothingStranded, OpenOf
  <2>1. pc = "next" /\ batch = {} /\ f # Added /\ table[f] \in Due
    BY Numbers DEF Waiting, Added, Due
  <2>2. f \notin Seen /\ pc \notin Gone
    BY <2>1 DEF Seen, Handling, Gone, Over, Stopped
  <2> QED
    BY <2>1, <2>2 DEF NotedInv
<1> QED
  BY SafetyInit, SafetyKept, AboutInit, AboutKept, NotedInit, NotedKept, TakenKept, <1>1, PTL DEF Spec
=============================================================================

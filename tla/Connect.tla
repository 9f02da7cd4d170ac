------------------------------- MODULE Connect -------------------------------
(***************************************************************************)
(* TCPClient::connect and TCPServer::connect on one object, next to the    *)
(* disconnect of other threads: the two look-ups of retrieve_addresses and *)
(* who frees the lists they return, the descriptors the loop over the      *)
(* addresses opens and closes, and m_connected and m_fd, which connect     *)
(* sets without m_mutex.                                                   *)
(***************************************************************************)
EXTENDS Integers, Sequences, FiniteSets, FiniteSetsExt

CONSTANTS
    Thread,        \* the threads that use the object
    Fd,            \* descriptor numbers; the kernel gives the lowest free one
    MaxAddresses,  \* bound: the addresses of a host
    MaxCalls       \* bound: the calls of connect and disconnect of a thread

CONSTANT NoThread

ASSUME ConnectAssumption == /\ Fd \subseteq Nat /\ IsFiniteSet(Fd)
                            /\ MaxAddresses \in Nat /\ MaxCalls \in Nat
                            /\ NoThread \notin Thread

VARIABLES
    kind,       \* "client" or "server"; with the next two, it never changes
    address,    \* SocketAddress: "empty", "port" or "named"
    timeout,    \* TCPClient: "block" (0 or -1), "wait" (> 0) or "bad" (< -1)
    connected,  \* m_connected
    fd,         \* m_fd, -1 when there is none
    mutex,      \* the holder of m_mutex
    open,       \* the descriptors that are open
    blocking,   \* those in blocking mode
    pc,         \* where each thread is
    call,       \* the locals of its connect
    calls,      \* history: the calls a thread has made
    outcome,    \* history: how its last connect ended
    replaced,   \* history: connects that found the object connected at their end
    abandoned,  \* history: sockets a throwing connect of a server left open
    raced       \* history: did a connect's end meet another thread in the object?

rigidVars  == <<kind, address, timeout>>
objectVars == <<connected, fd, mutex>>
kernelVars == <<open, blocking>>
historyVars == <<outcome, replaced, abandoned, raced>>
connectVars == <<rigidVars, objectVars, kernelVars, pc, call, calls, historyVars>>

\* addrs and the keepers name a list by the look-up that returned it, 0 is null.
NoCall == [found |-> <<>>, addrs |-> 0, keeper |-> 0, frees |-> <<0, 0>>,
           left |-> 0, fd |-> -1]

Free == Fd \ open
Set(t, at) == pc' = [pc EXCEPT ![t] = at]
Throw(t, what) == Set(t, "idle") /\ outcome' = [outcome EXCEPT ![t] = what]

\* The deleter of a keeper that owns list l.
Freed(frees, l) == IF l = 0 THEN frees ELSE [frees EXCEPT ![l] = @ + 1]
------------------------------------------------------------------------------
\* connect begins with is_client_valid or is_server_valid.
Valid == IF kind = "client" THEN address = "named" ELSE address # "empty"

Call(t) ==
    /\ pc[t] = "idle" /\ calls[t] < MaxCalls
    /\ calls' = [calls EXCEPT ![t] = @ + 1]
    /\ IF Valid THEN Set(t, "lookup") /\ UNCHANGED outcome
       ELSE Throw(t, "InvalidSocketAddress")
    /\ call' = [call EXCEPT ![t] = NoCall]
    /\ UNCHANGED <<rigidVars, objectVars, kernelVars, replaced, abandoned, raced>>

\* The errors that end retrieve_addresses.
Ends(answer) == answer \in {"memory", "unknown"}

\* Mutation: the keeper of connect is not swapped with that of the loop.
LookedUnkept(c, answer, n) ==
    LET try == Len(c.found) + 1
        addrs == IF answer = "found" THEN try ELSE c.addrs
    IN [c EXCEPT !.found = Append(@, answer), !.addrs = addrs, !.frees = Freed(@, addrs),
                 !.left = IF addrs = 0 \/ try = 1 \/ Ends(answer) THEN 0 ELSE n]

\* One round of retrieve_addresses.  getaddrinfo sets addrs only when it
\* succeeds; inloop_keeper takes what addrs names, is swapped with the keeper
\* of connect, and frees what it has then.  EAI_AGAIN goes to the next round,
\* the other errors leave with both keepers.  n is the length of the list.
Looked(c, answer, n) ==
    LET try == Len(c.found) + 1
        addrs == IF answer = "found" THEN try ELSE c.addrs
        kept == IF Ends(answer) THEN 0 ELSE addrs
    IN [c EXCEPT !.found = Append(@, answer), !.addrs = kept, !.keeper = kept,
                 !.frees = IF Ends(answer) THEN Freed(Freed(@, addrs), c.keeper)
                           ELSE Freed(@, c.keeper),
                 !.left = IF kept = 0 \/ try = 1 THEN 0 ELSE n]

Lookup(t) ==
    /\ pc[t] = "lookup"
    /\ \E answer \in {"found", "again", "memory", "unknown"}, n \in 1 .. MaxAddresses :
         /\ call' = [call EXCEPT ![t] = Looked(@, answer, n)]
         /\ IF Ends(answer) THEN Throw(t, IF answer = "memory" THEN "bad_alloc" ELSE "CantRetrieveHost")
            ELSE Set(t, IF call[t].found = <<>> THEN "lookup" ELSE "address") /\ UNCHANGED outcome
    /\ UNCHANGED <<rigidVars, objectVars, kernelVars, calls, replaced, abandoned, raced>>

\* The list that is walked has been freed: what is read is anything.
Dangling(t) == call[t].addrs # 0 /\ call[t].frees[call[t].addrs] > 0

\* The end of connect frees the list its keeper owns.
Over(c) == [NoCall EXCEPT !.found = c.found, !.frees = Freed(c.frees, c.keeper)]
Leave(t) == call' = [call EXCEPT ![t] = Over(@)]

\* What the walk over a freed list may also do: end the process.
Undefined(t) ==
    /\ pc[t] = "address" /\ Dangling(t)
    /\ pc' = [u \in Thread |-> "stopped"]
    /\ UNCHANGED <<rigidVars, objectVars, kernelVars, call, calls, historyVars>>

\* socket for the next address; without a descriptor, the address is passed.
Socket(t) ==
    /\ pc[t] = "address" /\ call[t].left > 0
    /\ \/ /\ Free # {}
          /\ call' = [call EXCEPT ![t].fd = Min(Free)]
          /\ open' = open \cup {Min(Free)} /\ blocking' = blocking \cup {Min(Free)}
          /\ Set(t, IF kind = "client" THEN "connect" ELSE "bind")
       \/ /\ call' = [call EXCEPT ![t].left = @ - 1]
          /\ UNCHANGED <<kernelVars, pc>>
    /\ UNCHANGED <<rigidVars, objectVars, calls, historyVars>>

\* No address is left.
Exhausted(t) ==
    /\ pc[t] = "address" /\ call[t].left = 0
    /\ Throw(t, IF kind = "server" THEN "BindFailed"
                ELSE IF timeout = "block" THEN "ConnectFailed" ELSE "TimedOut")
    /\ Leave(t)
    /\ UNCHANGED <<rigidVars, objectVars, kernelVars, calls, replaced, abandoned, raced>>

\* Mutation: the next address is passed as well.
NextAddressTwice(t) ==
    /\ open' = open \ {call[t].fd} /\ blocking' = blocking \ {call[t].fd}
    /\ call' = [call EXCEPT ![t].fd = -1, ![t].left = @ - 2]
    /\ Set(t, "address")

\* Mutation: the socket that did not do stays open.
NextAddressOpen(t) ==
    /\ call' = [call EXCEPT ![t].fd = -1, ![t].left = @ - 1]
    /\ Set(t, "address")
    /\ UNCHANGED kernelVars

\* The address did not do: its socket is closed, and the next one tried.
Passed(c) == [c EXCEPT !.fd = -1, !.left = @ - 1]
NextAddress(t) ==
    /\ open' = open \ {call[t].fd} /\ blocking' = blocking \ {call[t].fd}
    /\ call' = [call EXCEPT ![t] = Passed(@)]
    /\ Set(t, "address")

Found(t) == Set(t, "publish") /\ UNCHANGED call
NonBlocking(t) == blocking' = blocking \ {call[t].fd} /\ UNCHANGED open
------------------------------------------------------------------------------
\* TCPServer: bind.
Bind(t) ==
    /\ pc[t] = "bind"
    /\ \/ Set(t, "setup") /\ UNCHANGED <<kernelVars, call>>
       \/ NextAddress(t)
    /\ UNCHANGED <<rigidVars, objectVars, calls, historyVars>>

\* TCPServer: set_reuseaddr may fail and is only logged; when set_non_blocking
\* or listen fails, connect throws and nothing closes the socket.
Setup(t) ==
    /\ pc[t] = "setup"
    /\ \/ Found(t) /\ NonBlocking(t) /\ UNCHANGED <<outcome, abandoned>>
       \/ /\ \/ Throw(t, "CantSetNonblocking") /\ UNCHANGED kernelVars
             \/ Throw(t, "ListenFailed") /\ NonBlocking(t)
          /\ Leave(t)
          /\ abandoned' = abandoned + 1
    /\ UNCHANGED <<rigidVars, objectVars, calls, replaced, raced>>

\* Mutation: without a time limit, non-blocking mode is never set.
ConnectingKept(t) ==
    /\ pc[t] = "connect"
    /\ \/ Found(t) /\ UNCHANGED kernelVars
       \/ timeout # "block" /\ Set(t, "select") /\ UNCHANGED <<kernelVars, call>>
       \/ NextAddress(t)
    /\ UNCHANGED <<rigidVars, objectVars, calls, historyVars>>

\* TCPClient: blocking_connect and then set_non_blocking, whose failure is
\* ignored; or non_blocking_connect up to its select.
Connecting(t) ==
    /\ pc[t] = "connect"
    /\ IF timeout = "block"
       THEN \/ Found(t) /\ NonBlocking(t)
            \/ Found(t) /\ UNCHANGED kernelVars
            \/ NextAddress(t)
       ELSE \/ Found(t) /\ NonBlocking(t)
            \/ Set(t, "select") /\ NonBlocking(t) /\ UNCHANGED call
            \/ NextAddress(t)
    /\ UNCHANGED <<rigidVars, objectVars, calls, historyVars>>

\* TCPClient: select and getsockopt; with a negative time limit select fails.
Select(t) ==
    /\ pc[t] = "select"
    /\ \/ timeout = "wait" /\ Found(t) /\ UNCHANGED kernelVars
       \/ NextAddress(t)
    /\ UNCHANGED <<rigidVars, objectVars, calls, historyVars>>
------------------------------------------------------------------------------
\* A thread between the statements that change m_connected and m_fd.
Inside(t) == pc[t] \in {"test", "close", "clear", "cleared", "store"}
Alone(t)  == \A u \in Thread \ {t} : ~Inside(u)
AtRest    == \A t \in Thread : ~Inside(t) /\ pc[t] # "stopped"

\* The last two statements of connect: no test of m_connected, no m_mutex.
PublishConnected(t) ==
    /\ pc[t] = "publish"
    /\ connected' = TRUE
    /\ raced' = (raced \/ ~Alone(t))
    /\ Set(t, "store")
    /\ UNCHANGED <<rigidVars, fd, mutex, kernelVars, call, calls, outcome, replaced, abandoned>>

StoreFd(t) ==
    /\ pc[t] = "store"
    /\ replaced' = replaced + (IF fd = -1 THEN 0 ELSE 1)
    /\ fd' = call[t].fd
    /\ Throw(t, "connected")
    /\ Leave(t)
    /\ UNCHANGED <<rigidVars, connected, mutex, kernelVars, calls, abandoned, raced>>

\* Mutation: disconnect does not take m_mutex.
DisconnectUnlocked(t) ==
    /\ pc[t] = "idle" /\ calls[t] < MaxCalls
    /\ calls' = [calls EXCEPT ![t] = @ + 1]
    /\ raced' = (raced \/ \E u \in Thread : pc[u] = "store")
    /\ Set(t, "test")
    /\ UNCHANGED <<rigidVars, connected, fd, mutex, kernelVars, call, outcome, replaced, abandoned>>

\* disconnect: m_mutex, and unsafe_disconnect in its statements.
Disconnect(t) ==
    /\ pc[t] = "idle" /\ mutex = NoThread /\ calls[t] < MaxCalls
    /\ calls' = [calls EXCEPT ![t] = @ + 1]
    /\ mutex' = t
    /\ raced' = (raced \/ \E u \in Thread : pc[u] = "store")
    /\ Set(t, "test")
    /\ UNCHANGED <<rigidVars, connected, fd, kernelVars, call, outcome, replaced, abandoned>>

TestConnected(t) ==
    /\ pc[t] = "test"
    /\ IF connected THEN Set(t, "close") /\ UNCHANGED mutex
       ELSE Set(t, "idle") /\ mutex' = NoThread
    /\ UNCHANGED <<rigidVars, connected, fd, kernelVars, call, calls, historyVars>>

CloseFd(t) ==
    /\ pc[t] = "close"
    /\ open' = open \ {fd} /\ blocking' = blocking \ {fd}
    /\ Set(t, "clear")
    /\ UNCHANGED <<rigidVars, objectVars, call, calls, historyVars>>

ClearFd(t) ==
    /\ pc[t] = "clear"
    /\ fd' = -1
    /\ Set(t, "cleared")
    /\ UNCHANGED <<rigidVars, connected, mutex, kernelVars, call, calls, historyVars>>

ClearConnected(t) ==
    /\ pc[t] = "cleared"
    /\ connected' = FALSE
    /\ mutex' = NoThread
    /\ Set(t, "idle")
    /\ UNCHANGED <<rigidVars, fd, kernelVars, call, calls, historyVars>>
------------------------------------------------------------------------------
Init ==
    /\ kind \in {"client", "server"}
    /\ address \in {"empty", "port", "named"}
    /\ timeout \in (IF kind = "client" THEN {"block", "wait", "bad"} ELSE {"block"})
    /\ connected = FALSE /\ fd = -1 /\ mutex = NoThread
    /\ open = {} /\ blocking = {}
    /\ pc = [t \in Thread |-> "idle"]
    /\ call = [t \in Thread |-> NoCall]
    /\ calls = [t \in Thread |-> 0]
    /\ outcome = [t \in Thread |-> "none"]
    /\ replaced = 0 /\ abandoned = 0 /\ raced = FALSE

Next ==
    \E t \in Thread :
        \/ Call(t) \/ Lookup(t) \/ Undefined(t) \/ Socket(t) \/ Exhausted(t)
        \/ Bind(t) \/ Setup(t) \/ Connecting(t) \/ Select(t)
        \/ PublishConnected(t) \/ StoreFd(t)
        \/ Disconnect(t) \/ TestConnected(t) \/ CloseFd(t) \/ ClearFd(t) \/ ClearConnected(t)

Spec == Init /\ [][Next]_connectVars
------------------------------------------------------------------------------
Answers == {"found", "again", "memory", "unknown"}
Points == {"idle", "lookup", "address", "bind", "setup", "connect", "select", "publish", "store",
           "test", "close", "clear", "cleared", "stopped"}
Outcomes == {"none", "connected", "InvalidSocketAddress", "CantRetrieveHost", "bad_alloc", "BindFailed",
             "ConnectFailed", "TimedOut", "CantSetNonblocking", "ListenFailed"}

\* Types of the variables.
ConnectTypeOK ==
    /\ kind \in {"client", "server"} /\ address \in {"empty", "port", "named"}
    /\ timeout \in {"block", "wait", "bad"}
    /\ connected \in BOOLEAN /\ fd \in Fd \cup {-1} /\ mutex \in Thread \cup {NoThread}
    /\ open \subseteq Fd /\ blocking \subseteq open
    /\ pc \in [Thread -> Points]
    /\ call \in [Thread -> [found : Seq(Answers), addrs : 0 .. 2, keeper : 0 .. 2,
                            frees : Seq(0 .. 2), left : 0 .. MaxAddresses, fd : Fd \cup {-1}]]
    /\ calls \in [Thread -> 0 .. MaxCalls]
    /\ outcome \in [Thread -> Outcomes]
    /\ replaced \in Nat /\ abandoned \in Nat /\ raced \in BOOLEAN

\* The descriptors that neither the object nor a connect under way will close.
Held   == IF connected /\ (\A t \in Thread : pc[t] # "clear") THEN {fd} ELSE {}
Strays == open \ ({call[t].fd : t \in Thread} \cup Held)

\* connect loses a descriptor in two ways and no other, whatever fails and
\* however often the next address is tried: it ends on an object that was
\* connected, or it is a server's and throws after bind.
StraysCounted == ~raced /\ (\A t \in Thread : pc[t] # "stopped") => Cardinality(Strays) = replaced + abandoned

\* While no thread stands between the two assignments of connect or inside
\* disconnect, a connected object has an open descriptor.  The listener reads
\* it until recv would block, so that a blocking one would stop the listener:
\* only a client connected without a time limit may have one.
ConnectedUsable ==
    ~raced /\ connected /\ AtRest =>
        /\ fd \in open
        /\ fd \in blocking => kind = "client" /\ timeout = "block"

\* Also when connect and disconnect race, a disconnect closes what the object
\* held, and never the number of a socket another thread is connecting.
ClosesOwn ==
    \A t \in Thread : pc[t] = "close" /\ fd # -1 =>
        fd \in open /\ \A u \in Thread : call[u].fd # fd

\* The lists of retrieve_addresses are freed once each, but for the first one
\* when the second look-up fails: two keepers own it then, and after EAI_AGAIN
\* connect walks over it when it is freed.
ListsFreed ==
    \A t \in Thread :
        LET c == call[t] IN
        /\ pc[t] = "idle" => \A l \in DOMAIN c.found :
             c.frees[l] = IF c.found[l] # "found" THEN 0
                          ELSE IF l = 1 /\ c.found[Len(c.found)] # "found" THEN 2 ELSE 1
        /\ pc[t] \in {"address", "bind", "setup", "connect", "select", "publish", "store"} =>
             (Dangling(t) <=> c.found = <<"found", "again">>)

\* TCPClient.cpp and TCPServer.cpp say of resources_keeper "Will store
\* addresses to allow RAII": a list is freed at most once, and after its use.
AddressesOwned ==
    \A t \in Thread : (\A l \in {1, 2} : call[t].frees[l] <= 1) /\ (pc[t] = "address" => ~Dangling(t))
=============================================================================

------------------------------ MODULE Connection ------------------------------
(***************************************************************************)
(* A Connection that several threads use at once: the loop of send around  *)
(* ::send, disconnect, and the value a user keeps in the connection, all   *)
(* under m_mutex.  The loop counts in unsigned long, modulo M, so a result *)
(* of -1 is M - 1: larger than 0, and added to the count.                  *)
(***************************************************************************)
EXTENDS Integers, Sequences, FiniteSets

CONSTANTS
    Thread,       \* the threads that use the connection
    Size,         \* the length of the frame each thread sends
    M,            \* the modulus of unsigned long
    DataType,     \* the types of user data
    DataValue,    \* the values of user data
    MaxSends,     \* bound: the calls of send
    MaxFailures   \* bound: the calls of ::send that fail on an open socket

CONSTANTS NoThread, None, NoValue

ASSUME ConnectionAssumption ==
    /\ Size \in [Thread -> Nat \ {0}]
    /\ MaxSends \in Nat /\ MaxFailures \in Nat
    /\ M \in Nat /\ \A t \in Thread : M > 2 * (Size[t] + MaxFailures)
    /\ NoThread \notin Thread /\ None \notin DataType /\ NoValue \notin DataValue

VARIABLES
    connected,   \* m_connected; m_fd is an open socket while it is TRUE, -1 when not
    mutex,       \* the holder of m_mutex
    pc,          \* "idle" or "send", for each thread
    count,       \* send's count, for each thread
    tmp,         \* send's tmp_count
    data,        \* m_data_type and the union: the member last written and its value
    wire,        \* history: the bytes the kernel took, [frame, at]
    frames,      \* history: how many frames were packed
    frame,       \* history: the number of the frame that a thread sends
    put,         \* history: bytes that its send has put on the wire
    failed,      \* history: failures of ::send in its send, modulo M
    failures,    \* history: failures on an open socket
    ended,       \* history: how each frame's send ended
    got          \* history: what get_user_data returned last

sendVars == <<count, tmp, wire, frames, frame, put, failed, failures, ended>>
cnVars == <<connected, mutex, pc, data, got, sendVars>>

\* The values of an unsigned long.
Word == 0 .. M - 1

\* data_ptr + count: the address goes round like the count does.
Index(c) == IF 2 * c >= M THEN c - M ELSE c

\* data.size() - count, the length given to ::send.
Left(t) == (Size[t] - count[t]) % M

Looping(t) == pc[t] = "send" /\ count[t] # Size[t] /\ tmp[t] > 0
------------------------------------------------------------------------------
\* send locks m_mutex and packs the event.
Send(t) ==
    /\ pc[t] = "idle" /\ mutex = NoThread
    /\ frames < MaxSends
    /\ mutex' = t
    /\ pc' = [pc EXCEPT ![t] = "send"]
    /\ frames' = frames + 1
    /\ frame' = [frame EXCEPT ![t] = frames']
    /\ UNCHANGED <<connected, data, count, tmp, wire, put, failed, failures, ended, got>>

\* Mutation: the bytes sent are counted by one too few.
SendSomeShort(t) ==
    /\ Looping(t) /\ connected
    /\ \E k \in 1 .. Left(t) :
         /\ tmp' = [tmp EXCEPT ![t] = k]
         /\ count' = [count EXCEPT ![t] = IF k = Left(t) THEN Size[t] ELSE (@ + k - 1) % M]
         /\ wire' = wire \o [i \in 1 .. k |-> [frame |-> frame[t], at |-> Index(count[t]) + i - 1]]
         /\ put' = [put EXCEPT ![t] = @ + k]
    /\ UNCHANGED <<connected, mutex, pc, data, frames, frame, failed, failures, ended, got>>

\* ::send takes k of the bytes that are left.
SendSome(t) ==
    /\ Looping(t) /\ connected
    /\ \E k \in 1 .. Left(t) :
         /\ tmp' = [tmp EXCEPT ![t] = k]
         /\ count' = [count EXCEPT ![t] = (@ + k) % M]
         /\ wire' = wire \o [i \in 1 .. k |-> [frame |-> frame[t], at |-> Index(count[t]) + i - 1]]
         /\ put' = [put EXCEPT ![t] = @ + k]
    /\ UNCHANGED <<connected, mutex, pc, data, frames, frame, failed, failures, ended, got>>

OpenFails == IF connected THEN failures < MaxFailures /\ failures' = failures + 1
             ELSE UNCHANGED failures

\* ::send returns -1: the socket is full or broken, or the descriptor is -1.
SendFails(t) ==
    /\ Looping(t) /\ OpenFails
    /\ tmp' = [tmp EXCEPT ![t] = M - 1]
    /\ count' = [count EXCEPT ![t] = (@ + M - 1) % M]
    /\ failed' = [failed EXCEPT ![t] = (@ + 1) % M]
    /\ UNCHANGED <<connected, mutex, pc, data, wire, frames, frame, put, ended, got>>

\* ::send returns 0, which ends the loop.
SendNothing(t) ==
    /\ Looping(t) /\ connected /\ OpenFails
    /\ tmp' = [tmp EXCEPT ![t] = 0]
    /\ UNCHANGED <<connected, mutex, pc, data, count, wire, frames, frame, put, failed, ended, got>>

\* The test behind the loop: return, or throw; the lock_guard unlocks m_mutex.
SendEnds(t) ==
    /\ pc[t] = "send" /\ ~Looping(t)
    /\ ended' = Append(ended, [by |-> t, frame |-> frame[t], failed |-> failed[t],
                               how |-> IF count[t] = Size[t] THEN "sent"
                                       ELSE IF tmp[t] = 0 THEN "EmptySend" ELSE "SendFailed"])
    /\ mutex' = NoThread
    /\ pc' = [pc EXCEPT ![t] = "idle"]
    /\ count' = [count EXCEPT ![t] = 0] /\ tmp' = [tmp EXCEPT ![t] = 1]
    /\ put' = [put EXCEPT ![t] = 0] /\ failed' = [failed EXCEPT ![t] = 0]
    /\ UNCHANGED <<connected, data, wire, frames, frame, failures, got>>

\* Mutation: disconnect does not take m_mutex.
DisconnectUnlocked(t) ==
    /\ pc[t] = "idle"
    /\ connected' = FALSE
    /\ UNCHANGED <<mutex, pc, data, got, sendVars>>

\* disconnect of a connection without a listener: the section runs under
\* m_mutex, and nothing in it waits.
Disconnect(t) ==
    /\ pc[t] = "idle" /\ mutex = NoThread
    /\ connected' = FALSE
    /\ UNCHANGED <<mutex, pc, data, got, sendVars>>
------------------------------------------------------------------------------
\* set_user_data, for each type: another type must be released first.
SetUserData(t, type, v) ==
    /\ pc[t] = "idle" /\ mutex = NoThread
    /\ data' = IF data.type \in {None, type} THEN [type |-> type, member |-> type, value |-> v]
               ELSE data
    /\ UNCHANGED <<connected, mutex, pc, got, sendVars>>

\* get_user_data<T>: the member of the type, or an exception.
GetUserData(t, type) ==
    /\ pc[t] = "idle" /\ mutex = NoThread
    /\ got' = IF data.type = type
              THEN [how |-> "value", asked |-> type, member |-> data.member, value |-> data.value]
              ELSE [how |-> "throws", asked |-> type, member |-> None, value |-> NoValue]
    /\ UNCHANGED <<connected, mutex, pc, data, sendVars>>

\* Mutation: the union is cleared and the type kept.
ReleaseKeepsType(t) ==
    /\ pc[t] = "idle" /\ mutex = NoThread
    /\ data' = [data EXCEPT !.member = None, !.value = NoValue]
    /\ UNCHANGED <<connected, mutex, pc, got, sendVars>>

\* release_user_data: the union is cleared by its double.
ReleaseUserData(t) ==
    /\ pc[t] = "idle" /\ mutex = NoThread
    /\ data' = [type |-> None, member |-> None, value |-> NoValue]
    /\ UNCHANGED <<connected, mutex, pc, got, sendVars>>
------------------------------------------------------------------------------
Init ==
    /\ connected = TRUE /\ mutex = NoThread
    /\ pc = [t \in Thread |-> "idle"]
    /\ count = [t \in Thread |-> 0] /\ tmp = [t \in Thread |-> 1]
    /\ data = [type |-> None, member |-> None, value |-> NoValue]
    /\ wire = <<>> /\ frames = 0 /\ failures = 0
    /\ frame = [t \in Thread |-> 0] /\ put = [t \in Thread |-> 0]
    /\ failed = [t \in Thread |-> 0]
    /\ ended = <<>>
    /\ got = [how |-> "throws", asked |-> None, member |-> None, value |-> NoValue]

Next ==
    \E t \in Thread :
        \/ Send(t) \/ SendSome(t) \/ SendFails(t) \/ SendNothing(t) \/ SendEnds(t)
        \/ Disconnect(t)
        \/ \E type \in DataType : \E v \in DataValue : SetUserData(t, type, v)
        \/ \E type \in DataType : GetUserData(t, type)
        \/ ReleaseUserData(t)

Spec == Init /\ [][Next]_cnVars
------------------------------------------------------------------------------
Outcome == {"sent", "EmptySend", "SendFailed"}

\* Types of the variables; the member of the union that holds a value is the
\* one m_data_type names, so that get_user_data reads what was stored.
ConnectionTypeOK ==
    /\ connected \in BOOLEAN
    /\ mutex \in Thread \cup {NoThread}
    /\ pc \in [Thread -> {"idle", "send"}]
    /\ count \in [Thread -> Word] /\ tmp \in [Thread -> Word]
    /\ data \in [type : DataType \cup {None}, member : DataType \cup {None},
                 value : DataValue \cup {NoValue}]
    /\ data.member = data.type /\ (got.how = "value" => got.member = got.asked)
    /\ wire \in Seq([frame : Nat, at : Int])
    /\ frames \in Nat /\ failures \in Nat
    /\ frame \in [Thread -> Nat] /\ put \in [Thread -> Nat] /\ failed \in [Thread -> Word]
    /\ ended \in Seq([by : Thread, frame : Nat, failed : Word, how : Outcome])
    /\ got \in [how : {"value", "throws"}, asked : DataType \cup {None}, member : DataType \cup {None},
                value : DataValue \cup {NoValue}]

\* Where the bytes of the n-th frame are on a wire.
PlacesOf(n, w) == {p \in DOMAIN w : w[p].frame = n}

Accounted(e) ==
    IF e.how = "sent" THEN (Cardinality(PlacesOf(e.frame, wire)) - e.failed - Size[e.by]) % M = 0
    ELSE e.how = "EmptySend" /\ failures > 0

\* The law of the loop of Connection::send: the count is what was put on the
\* wire less the calls of ::send that failed, modulo 2^64.  So a send returns
\* only when every failure was made up by a byte sent again, or, on a
\* connection that is closed, when the failures alone have brought the count
\* to the size: M - Size calls of ::send under m_mutex.  Failures are never
\* told; the one exception is that of a call that took nothing.
CountLaw ==
    /\ \A t \in Thread : pc[t] = "send" => (put[t] - failed[t] - count[t]) % M = 0
    /\ \A n \in DOMAIN ended : Accounted(ended[n])

\* The bytes of the n-th frame up to the one at last are on a wire, in order
\* once all that is sent again is taken out: each has a place behind which the
\* frame never goes back to it.
Reached(n, last, w) ==
    \A i \in 0 .. last : \E p \in PlacesOf(n, w) :
        w[p].at = i /\ \A q \in PlacesOf(n, w) : q > p => w[q].at > i

LeftWhole(e) == PlacesOf(e.frame, wire) # {} /\ e.how = "sent" => Reached(e.frame, Size[e.by] - 1, wire)

\* Frames do not mix on the wire, however the threads' calls of send and
\* disconnect meet.  A frame of which a byte has left and whose send returned
\* has left to its last byte and in order: neither a failure of ::send nor a
\* disconnect takes a byte out, a failure makes one go twice.
FramesWhole ==
    /\ \A i, j \in DOMAIN wire : i < j => wire[i].frame <= wire[j].frame
    /\ \A n \in DOMAIN ended : LeftWhole(ended[n])

\* One thread at a time is inside send, for the frame it packed last, and the
\* sends that have ended sent frames packed before.
SendersAlone ==
    /\ \A t \in Thread : (pc[t] = "send") <=> (mutex = t)
    /\ \A t \in Thread : pc[t] = "send" => frame[t] = frames
    /\ \A t \in Thread : pc[t] = "idle" =>
         count[t] = 0 /\ tmp[t] = 1 /\ put[t] = 0 /\ failed[t] = 0
    /\ \A p \in DOMAIN wire : wire[p].frame <= frames
    /\ \A n \in DOMAIN ended :
         /\ ended[n].frame <= frames
         /\ mutex # NoThread => ended[n].frame < frames

\* CountLaw before it is reduced modulo M.  The connection does not change
\* while a thread sends.  When it is open the failures are few and the count is
\* below the size; when it is closed nothing is put on the wire, and the count
\* goes down from M.
Progress(t) ==
    IF connected
    THEN /\ failed[t] <= failures /\ put[t] <= failed[t] + Size[t]
         /\ count[t] = put[t] - failed[t] + (IF put[t] < failed[t] THEN M ELSE 0)
         /\ Reached(frame[t], put[t] - failed[t] - 1, wire)
    ELSE put[t] = 0 /\ failed[t] + count[t] \in {0, M}

Sending(t) ==
    /\ put[t] = Cardinality(PlacesOf(frame[t], wire))
    /\ tmp[t] = 0 => failures > 0
    /\ Progress(t)

\* What every step keeps, and CountLaw and FramesWhole follow from.
ConnectionInv ==
    /\ SendersAlone /\ failures <= MaxFailures
    /\ \A t \in Thread : pc[t] = "send" => Sending(t)
    /\ \A n \in DOMAIN ended : Accounted(ended[n])
    /\ FramesWhole

\* Connection.hpp says of send "It can throw exceptions (std::exception or
\* NetworkException) if failed": a send that returns has sent its frame.
FailureThrows ==
    \A n \in DOMAIN ended : ended[n].how = "sent" => PlacesOf(ended[n].frame, wire) # {}
=============================================================================

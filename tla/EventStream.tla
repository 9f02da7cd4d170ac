----------------------------- MODULE EventStream -----------------------------
(***************************************************************************)
(* One connection from the peer's send to the listener's events: the peer  *)
(* packs events into frames (Event::pack) and TCP carries their bytes in   *)
(* order; EventListener::read_connection receives a chunk, puts it into    *)
(* the connection's RingBuf and picks events until pick_event fails.       *)
(***************************************************************************)
EXTENDS RingBuf

CONSTANTS
    Frames,    \* the frames the peer may send
    Chunk,     \* the size of read_connection's buf
    MaxFrames  \* bound: the frames the peer sends

\* A frame begins with its length, as Pack builds it for up to 65535 bytes.
ASSUME StreamAssumption ==
    /\ Frames \subseteq Seq(Byte)
    /\ \A f \in Frames : Len(f) >= 3 /\ Len(f) = 256 * f[1] + f[2]
    /\ Chunk \in 1 .. MaxPut
    /\ MaxFrames \in Nat

VARIABLES
    pc,         \* "recv" or "pick", where read_connection is
    wire,       \* bytes sent and not received
    sent,       \* history: all the bytes sent
    ends,       \* history: where in them each frame ends
    consumed,   \* history: how often pick_event moved m_start
    delivered,  \* history: the events picked, each with the number of its frame
    missed,     \* history: the bytes that put refused
    torn        \* history: did pick_event read a length across the last cell?

streamVars == <<ringVars, pc, wire, sent, ends, consumed, delivered, missed, torn>>
------------------------------------------------------------------------------
\* Event::pack: the length, cut to an UInt16, the name, '\0' and the packet.
Pack(name, data) ==
    LET length == (Len(data) + Len(name) + 3) % 65536
    IN  <<length \div 256, length % 256>> \o name \o <<0>> \o data

\* Connection::send of a frame.
Send(f) ==
    /\ Len(ends) < MaxFrames
    /\ wire' = wire \o f
    /\ sent' = sent \o f
    /\ ends' = Append(ends, Len(sent) + Len(f))
    /\ UNCHANGED <<ringVars, pc, consumed, delivered, missed, torn>>

\* recv returns k bytes; what put returns is ignored.
Recv(k) ==
    /\ pc = "recv"
    /\ k \in 1 .. Chunk /\ k <= Len(wire)
    /\ wire' = SubSeq(wire, k + 1, Len(wire))
    /\ Put(SubSeq(wire, 1, k))
    /\ missed' = missed + (IF result' THEN 0 ELSE k)
    /\ pc' = "pick"
    /\ UNCHANGED <<sent, ends, consumed, delivered, torn>>

\* Mutation: one event is picked for each chunk.
PickOnce ==
    /\ pc = "pick"
    /\ PickEvent
    /\ consumed' = consumed + (IF m_start' = m_start THEN 0 ELSE 1)
    /\ delivered' = IF result' THEN Append(delivered, [number |-> consumed + 1, event |-> event'])
                    ELSE delivered
    /\ torn' = (torn \/ (Length >= 2 /\ m_start = Size))
    /\ pc' = "recv"
    /\ UNCHANGED <<wire, sent, ends, missed>>

\* Mutation: the event pushed is the one picked before.
PickStale ==
    /\ pc = "pick"
    /\ PickEvent
    /\ consumed' = consumed + (IF m_start' = m_start THEN 0 ELSE 1)
    /\ delivered' = IF result' THEN Append(delivered, [number |-> consumed + 1, event |-> event])
                    ELSE delivered
    /\ torn' = (torn \/ (Length >= 2 /\ m_start = Size))
    /\ pc' = IF result' THEN "pick" ELSE "recv"
    /\ UNCHANGED <<wire, sent, ends, missed>>

\* while (pick_event(e)): every event picked is pushed; see EventDispatch.
Pick ==
    /\ pc = "pick"
    /\ PickEvent
    /\ consumed' = consumed + (IF m_start' = m_start THEN 0 ELSE 1)
    /\ delivered' = IF result' THEN Append(delivered, [number |-> consumed + 1, event |-> event'])
                    ELSE delivered
    /\ torn' = (torn \/ (Length >= 2 /\ m_start = Size))
    /\ pc' = IF result' THEN "pick" ELSE "recv"
    /\ UNCHANGED <<wire, sent, ends, missed>>

Init ==
    /\ m_dt = [c \in Cell |-> 0]
    /\ m_start = 0 /\ m_end = 0
    /\ event = NoEvent
    /\ call = "none"
    /\ given = <<>>
    /\ result = FALSE
    /\ pc = "recv"
    /\ wire = <<>> /\ sent = <<>> /\ ends = <<>> /\ delivered = <<>>
    /\ consumed = 0 /\ missed = 0
    /\ torn = FALSE

Next ==
    \/ \E f \in Frames : Send(f)
    \/ \E k \in 1 .. Chunk : Recv(k)
    \/ Pick

Spec == Init /\ [][Next]_streamVars
------------------------------------------------------------------------------
\* The reference: what the peer meant by a frame.
Decode(f) ==
    LET body == SubSeq(f, 3, Len(f))
    IN  [name   |-> SubSeq(body, 1, Terminator(body) - 1),
         packet |-> SubSeq(body, Terminator(body) + 1, Len(body))]

\* What Event::pack makes of a name without a '\0' and of a valid packet.
WellFormed(f) == Terminator(SubSeq(f, 3, Len(f))) # 0 /\ Decode(f).packet \in Packets

\* Frame i among the bytes sent.
Begin(i) == IF i = 1 THEN 0 ELSE ends[i - 1]
Frame(i) == SubSeq(sent, Begin(i) + 1, ends[i])

\* The name and the packet of frame i pass the last cell, if every byte before
\* it was put.
Straddles(i) == LET c == ROUND(Begin(i)) IN c + 2 <= Size /\ c + (ends[i] - Begin(i)) - 1 > Size

\* pick_event read no byte behind the array up to now.
Inside == ~ torn /\ \A i \in 1 .. Len(ends) : i <= consumed + 1 => ~ Straddles(i)

\* As long as put refused nothing and no length was read across the last cell,
\* m_start stands at the beginning of a frame: the bytes in the buffer and on the
\* wire are those of the frames sent and not consumed. An event whose name or
\* packet passes the last cell is spoilt, but not those behind it.
FramingKept ==
    ~ torn /\ missed = 0 => Content \o wire = SubSeq(sent, Begin(consumed + 1) + 1, Len(sent))

\* An event that does not pass the last cell is delivered as it was sent, and
\* events are delivered in the order they were sent.
EventsIntact ==
    ~ torn /\ missed = 0 =>
        /\ \A i \in DOMAIN delivered : LET n == delivered[i].number IN
               ~ Straddles(n) => delivered[i].event = Decode(Frame(n))
        /\ \A i, j \in DOMAIN delivered : i < j => delivered[i].number < delivered[j].number

\* When read_connection waits for more bytes, no whole frame waits in the buffer:
\* the frames that pick_event logs as "Dropped" do not stay in front of it. It
\* holds of the frames Event::pack builds and fails of an invalid packet. And a
\* buffer that holds the longest frame and a chunk less a byte refuses no chunk,
\* although nobody looks at what put returns: what is left of one frame is always
\* shorter than the longest.
NoneLeftBehind ==
    Inside =>
        /\ missed = 0 /\ pc = "recv" /\ consumed < Len(ends)
               => Length < Len(Frame(consumed + 1))
        /\ (\A f \in Frames : Len(f) + Chunk <= Size + 1) => missed = 0
------------------------------------------------------------------------------
(* What the documentation says and the code does not do *)

\* mainpage.hpp: messages can't be lost and are received in the order they were
\* sent. Here, as far as an event was delivered.
MessagesArrive ==
    \A i \in DOMAIN delivered : delivered[i].event = Decode(Frame(i))
=============================================================================

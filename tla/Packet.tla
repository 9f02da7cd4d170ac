-------------------------------- MODULE Packet --------------------------------
(***************************************************************************)
(* One packet on its way from << to >>: the program writes items into it   *)
(* and sends it, or the packet of a peer is there instead. The receiver    *)
(* asks is_valid before anybody reads; a PacketReader then reads without a *)
(* test of its own, as far as the types agree. The two hosts may differ in *)
(* the order in which they keep the bytes of a number.                     *)
(***************************************************************************)
EXTENDS PacketFormat

CONSTANTS
    Byte,      \* the bytes of the packets a peer sends
    Items,     \* what the program writes: an item is a sequence of tokens
    Wants,     \* what the program reads: a sequence of types and object lengths
    Hosts,     \* the pairs of byte orders a run looks at
    MaxItems,  \* bound: the tokens in a packet before the last write
    MaxSize    \* bound: the length of a packet from a peer

\* Every item is whole: an object has the fields it announces.
ASSUME PacketAssumption == /\ Byte \subseteq Octet
                           /\ Hosts \subseteq [{"writer", "reader"} -> Host]
                           /\ {MaxItems, MaxSize} \subseteq Nat
                           /\ \A item \in Items : /\ item \in Seq({t \in Token : Writable(t)})
                                                  /\ LeftOf(0, item) = 0
                           /\ Wants \subseteq Seq([types : SUBSET Type, length : Nat])

VARIABLES
    host,     \* the byte orders of the writer and of the reader, never changed
    phase,    \* "write", "sent", "read" or "dropped"
    m_data,   \* Packet::m_data
    m_idx,    \* PacketReader::m_idx
    raised,   \* the exception of the last call, or that it put out CORRUPTED
    own,      \* history: was it written by the program?
    written,  \* history: the tokens written
    spoilt,   \* history: did a write throw half-way?
    got,      \* history: the tokens read
    outside   \* history: did the reader read behind m_data?

vars == <<host, phase, m_data, m_idx, raised, own, written, spoilt, got, outside>>

size == Len(m_data)
------------------------------------------------------------------------------
(* operator<<, write_as_object *)

\* An object is its header and then its fields: what was written before one of
\* them throws remains.
Write(item) ==
    LET fails == SelectInSeq(item, Throws)
        done  == IF fails = 0 THEN item ELSE SubSeq(item, 1, fails - 1)
    IN  /\ phase = "write"
        /\ Len(written) < MaxItems
        /\ m_data' = m_data \o Bytes(host.writer, done)
        /\ written' = written \o done
        /\ raised' = IF fails = 0 THEN <<>> ELSE Thrown(item[fails])
        /\ spoilt' = (spoilt \/ fails > 1)
        /\ UNCHANGED <<host, phase, m_idx, own, got, outside>>
------------------------------------------------------------------------------
(* Between the writer and the reader *)

\* The packet leaves the program; or a packet of a peer arrives instead.
Send ==
    /\ phase = "write"
    /\ phase' = "sent"
    /\ UNCHANGED <<host, m_data, m_idx, raised, own, written, spoilt, got, outside>>

Arrive(d) ==
    /\ phase = "write" /\ m_data = <<>>
    /\ phase' = "sent"
    /\ m_data' = d
    /\ own' = FALSE
    /\ UNCHANGED <<host, m_idx, raised, written, spoilt, got, outside>>

\* pick_event of the receiver.
Validate ==
    /\ phase = "sent"
    /\ \E e \in Scan(host.reader, m_data)[0] :
           phase' = IF Accepts(m_data, e) THEN "read" ELSE "dropped"
    /\ raised' = <<>>
    /\ UNCHANGED <<host, m_data, m_idx, own, written, spoilt, got, outside>>
------------------------------------------------------------------------------
(* operator>>, read_as_object *)

\* Mutation: the position is moved once more behind a string.
AdvanceFar(r, k) ==
    [r EXCEPT !.idx = IF k.token.type = String THEN k.next + 1 ELSE k.next,
              !.got = Append(@, k.token)]

Advance(r, k) == [r EXCEPT !.idx = k.next, !.got = Append(@, k.token)]

\* exception_by_type names the type that is there.
ExceptionByType(t) == IF t \in Type THEN <<"Expected", t>> ELSE <<"Unknown">>

\* read_object_header.
ReadHeader(want, r) ==
    LET token == TokenAt(host.reader, m_data, r.idx) IN
    IF NextType(m_data, r.idx) # Object THEN [r EXCEPT !.raised = <<"Expected", Object>>]
    ELSE IF token = {} THEN [r EXCEPT !.outside = TRUE]
    ELSE LET k == CHOOSE k \in token : TRUE IN
         CASE k.token.value = <<0>>           -> [r EXCEPT !.raised = <<"EmptyObject">>]
           [] k.token.value = <<want.length>> -> Advance(r, k)
           [] OTHER                           -> [r EXCEPT !.raised = <<"WrongSizedObject">>]

\* One operator>> of a number, string or array, which does nothing at the end of
\* the packet, or of the header of an object.
ReadOne(want, r) ==
    LET token == TokenAt(host.reader, m_data, r.idx) IN
    IF r.raised # <<>> \/ r.outside THEN r
    ELSE IF Object \in want.types THEN ReadHeader(want, r)
    ELSE IF ~ More(m_data, r.idx) THEN r
    ELSE IF NextType(m_data, r.idx) \notin want.types
         THEN [r EXCEPT !.raised = ExceptionByType(NextType(m_data, r.idx))]
    ELSE IF token = {} THEN [r EXCEPT !.outside = TRUE]
    ELSE Advance(r, CHOOSE k \in token : TRUE)

\* read_from_packet: one behind the other.
ReadAll(wants) ==
    LET r[k \in 0 .. Len(wants)] ==
            IF k = 0 THEN [idx |-> m_idx, got |-> got, raised |-> <<>>, outside |-> FALSE]
            ELSE ReadOne(wants[k], r[k - 1])
    IN  r[Len(wants)]

\* An object is read with a copy of the reader, which replaces it at the end.
Read(wants) ==
    LET r == ReadAll(wants)
        done == r.raised = <<>> /\ ~ r.outside
    IN  /\ phase = "read" /\ ~ outside
        /\ raised' = r.raised
        /\ outside' = r.outside
        /\ m_idx' = IF done THEN r.idx ELSE m_idx
        /\ got' = IF done THEN r.got ELSE got
        /\ UNCHANGED <<host, phase, m_data, own, written, spoilt>>

\* The packet is put out with a reader of its own, on the host where it is.
Show ==
    LET h   == IF phase = "write" THEN host.writer ELSE host.reader
        end == ShownAll(h, m_data)[0]
    IN  /\ phase \in {"write", "read"} /\ ~ outside
        /\ raised' = IF end = Bad THEN <<"CORRUPTED">> ELSE <<>>
        /\ outside' = (end = Outside)
        /\ UNCHANGED <<host, phase, m_data, m_idx, own, written, spoilt, got>>
------------------------------------------------------------------------------
Init ==
    /\ host \in Hosts
    /\ phase = "write"
    /\ m_data = <<>> /\ m_idx = 0
    /\ raised = <<>>
    /\ own = TRUE
    /\ written = <<>> /\ got = <<>>
    /\ spoilt = FALSE /\ outside = FALSE

Next ==
    \/ \E item \in Items : Write(item)
    \/ \E d \in SeqOf(Byte, MaxSize) : Arrive(d)
    \/ Send
    \/ Validate
    \/ \E wants \in Wants : Read(wants)
    \/ Show

Spec == Init /\ [][Next]_vars
------------------------------------------------------------------------------
PacketTypeOK ==
    /\ host \in Hosts
    /\ phase \in {"write", "sent", "read", "dropped"}
    /\ m_data \in Seq(Octet)
    /\ m_idx \in 0 .. size
    /\ raised \in {<<>>, <<"WrongArray">>, <<"EmptyObject">>, <<"WrongSizedObject">>, <<"Unknown">>,
                   <<"CORRUPTED">>} \cup ({"Expected"} \X Type)
    /\ {own, spoilt, outside} \subseteq BOOLEAN
    /\ written \in Seq(Token) /\ got \in Seq(Token)

\* is_valid accepts the packets that are a sequence of whole items and no others,
\* whatever lies behind the bytes where it looks for the type of a field.
ValidityExact == phase \in {"read", "dropped"} => (phase = "read" <=> WellFormed(m_data))

\* As long as no write stopped inside an object, the packet is valid at every
\* moment and the receiver does not drop it, also after a write that threw.
WrittenValid == own /\ ~ spoilt => WellFormed(m_data) /\ phase # "dropped"

\* What is read is what was written, in the order it was written, through every
\* read that failed and whatever the byte orders of the two hosts; a reader at the
\* end has read everything.
ReadBack ==
    own /\ ~ spoilt =>
        /\ IsPrefix(got, written)
        /\ phase = "read" /\ m_idx = size => got = written

\* Without a test of its own the reader stays inside any packet that is_valid has
\* accepted, and the output never calls one CORRUPTED; it does call a packet so in
\* which a write stopped inside an object, and stays inside that one too.
ReaderInside == ~ outside /\ (raised = <<"CORRUPTED">> => phase \in {"write", "sent"} /\ spoilt)
=============================================================================

------------------------------- MODULE RingBuf -------------------------------
(***************************************************************************)
(* RingBuf, the buffer a Connection keeps between recv and the events:     *)
(* Size + 1 cells, one of them never used, and two positions. put copies a *)
(* string, pick_event takes one framed event from the front:               *)
(*                                                                         *)
(*     length : UInt16, big endian | name | '\0' | packet                  *)
(*                                                                         *)
(* pick_event rounds the position of the first byte of the name but not    *)
(* the positions that follow, nor the position of the second byte of the   *)
(* length: an event that passes the last cell is read from whatever lies   *)
(* behind the array. Those bytes are any of Garbage.                       *)
(***************************************************************************)
EXTENDS Integers, Sequences, SequencesExt

CONSTANTS
    Size,     \* m_size
    Byte,     \* the bytes peers send
    Garbage,  \* the bytes that may lie behind the array
    Packets,  \* the byte strings that Packet::is_valid accepts
    MaxPut    \* bound: the longest string given to put

ASSUME RingAssumption == /\ Size \in Nat \ {0}
                         /\ Byte \subseteq 0 .. 255
                         /\ Garbage \subseteq Byte
                         /\ Garbage # {}
                         /\ 0 \in Byte
                         /\ MaxPut \in Nat

VARIABLES
    m_dt,     \* [Cell -> Byte]
    m_start,  \* the first cell in use
    m_end,    \* the cell behind the last one in use
    event,    \* the Event that pick_event fills in
    call,     \* history: the last call made
    given,    \* history: the string that call was made with, <<>> but for put
    result    \* what the last call of put or pick_event returned

ring == <<m_dt, m_start, m_end>>
ringVars == <<ring, event, call, given, result>>

Cell == 0 .. Size
NoEvent == [name |-> <<>>, packet |-> <<>>]

\* Mutation: the position behind the last cell is kept.
ROUNDLate(pos) == IF pos <= Size + 1 THEN pos ELSE pos - (Size + 1)

ROUND(pos) == pos % (Size + 1)

\* length()
Length == IF m_start <= m_end THEN m_end - m_start ELSE (Size + 1 - m_start) + m_end

\* The bytes in use, oldest first.
Content == [i \in 1 .. Length |-> m_dt[ROUND(m_start + i - 1)]]
------------------------------------------------------------------------------
(* put and reset *)

Fits(s) == Length + Len(s) <= Size

\* How far a cell lies behind m_end, going round.
Ahead(c) == ROUND(c + (Size + 1) - m_end)

\* Mutation: what fits of the string is stored, the rest is dropped.
PutPart(s) ==
    /\ call' = "put"
    /\ given' = s
    /\ IF Length < Size
       THEN /\ m_dt' = [c \in Cell |-> IF Ahead(c) < Len(s) /\ Length + Ahead(c) < Size
                                      THEN s[Ahead(c) + 1] ELSE m_dt[c]]
            /\ m_end' = ROUND(m_end + (IF Fits(s) THEN Len(s) ELSE Size - Length))
            /\ result' = TRUE
       ELSE /\ result' = FALSE
            /\ UNCHANGED <<m_dt, m_end>>
    /\ UNCHANGED <<m_start, event>>

Put(s) ==
    /\ call' = "put"
    /\ given' = s
    /\ IF Fits(s)
       THEN /\ m_dt' = [c \in Cell |-> IF Ahead(c) < Len(s) THEN s[Ahead(c) + 1] ELSE m_dt[c]]
            /\ m_end' = ROUND(m_end + Len(s))
            /\ result' = TRUE
       ELSE /\ result' = FALSE
            /\ UNCHANGED <<m_dt, m_end>>
    /\ UNCHANGED <<m_start, event>>

Reset ==
    /\ call' = "reset"
    /\ given' = <<>>
    /\ m_start' = m_end
    /\ UNCHANGED <<m_dt, m_end, event, result>>
------------------------------------------------------------------------------
(* pick_event *)

\* AT(pos), which may lie behind the array.
AT(pos) == IF pos \in Cell THEN {m_dt[pos]} ELSE Garbage

\* packet_length, at least a length and a '\0'.
PacketLength(hi, lo) ==
    LET n == 256 * hi + lo IN IF n < 3 THEN 3 ELSE n

FirstByte == ROUND(m_start + 2)

\* The n bytes behind the length, as the code reads them.
Body(n) ==
    LET in == IF FirstByte + n - 1 <= Size THEN n ELSE Size + 1 - FirstByte
    IN  { [i \in 1 .. in |-> m_dt[FirstByte + i - 1]] \o g : g \in [1 .. n - in -> Garbage] }

\* Where the name ends in a body, 0 if it does not.
Terminator(b) == SelectInSeq(b, LAMBDA x : x = 0)

Fail == result' = FALSE /\ UNCHANGED <<ring, event>>

\* Fewer bytes than the length field, or than the length it announces.
Incomplete ==
    /\ \/ Length < 2
       \/ /\ Length >= 2
          /\ \E lo \in AT(m_start + 1) : Length < PacketLength(m_dt[m_start], lo)
    /\ Fail

\* Mutation: m_start is left on the last byte of the event.
CompleteShort(n, b) ==
    IF Terminator(b) = 0
    THEN /\ m_start' = ROUND(m_start + n)
         /\ result' = FALSE
         /\ UNCHANGED <<m_dt, m_end, event>>
    ELSE LET packet == SubSeq(b, Terminator(b) + 1, Len(b)) IN
         IF packet \in Packets
         THEN /\ m_start' = ROUND(FirstByte + (n - 2) - 1)
              /\ event' = [name |-> SubSeq(b, 1, Terminator(b) - 1), packet |-> packet]
              /\ result' = TRUE
              /\ UNCHANGED <<m_dt, m_end>>
         ELSE Fail

\* An event of n bytes with body b: a name that does not end is dropped without
\* a success; a packet that is not valid stays where it is.
Complete(n, b) ==
    IF Terminator(b) = 0
    THEN /\ m_start' = ROUND(m_start + n)
         /\ result' = FALSE
         /\ UNCHANGED <<m_dt, m_end, event>>
    ELSE LET packet == SubSeq(b, Terminator(b) + 1, Len(b)) IN
         IF packet \in Packets
         THEN /\ m_start' = ROUND(FirstByte + (n - 2))
              /\ event' = [name |-> SubSeq(b, 1, Terminator(b) - 1), packet |-> packet]
              /\ result' = TRUE
              /\ UNCHANGED <<m_dt, m_end>>
         ELSE Fail

PickEvent ==
    /\ call' = "pick_event"
    /\ given' = <<>>
    /\ \/ Incomplete
       \/ /\ Length >= 2
          /\ \E lo \in AT(m_start + 1) :
                 LET n == PacketLength(m_dt[m_start], lo) IN
                 /\ n <= Length
                 /\ \E b \in Body(n - 2) : Complete(n, b)
------------------------------------------------------------------------------
\* The array is not initialised by the constructor.
RingInit ==
    /\ m_dt \in [Cell -> Byte]
    /\ m_start = 0
    /\ m_end = 0
    /\ event = NoEvent
    /\ call = "none"
    /\ given = <<>>
    /\ result = FALSE

RingNext ==
    \/ \E s \in SeqOf(Byte, MaxPut) : Put(s)
    \/ PickEvent
    \/ Reset

RingSpec == RingInit /\ [][RingNext]_ringVars
------------------------------------------------------------------------------
\* The positions stay inside the array and the content within m_size bytes.
RingTypeOK ==
    /\ m_dt \in [Cell -> Byte]
    /\ m_start \in Cell
    /\ m_end \in Cell
    /\ event \in [name : Seq(Byte \ {0}), packet : Seq(Byte)]
    /\ call \in {"none", "put", "pick_event", "reset"}
    /\ given \in Seq(Byte)
    /\ result \in BOOLEAN

Bytes == INSTANCE ByteQueue WITH Capacity <- Size, Longest <- MaxPut, bytes <- Content

\* Whatever is put and picked, the buffer is a first-in first-out queue of at
\* most m_size bytes: put appends the string it was given, all of it and in order,
\* and says so, if and only if it fits; nothing is lost, reordered or overwritten
\* when the positions go round, and pick_event takes bytes from the front only.
FirstInFirstOut == Bytes!Spec
=============================================================================

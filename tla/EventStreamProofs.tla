-------------------------- MODULE EventStreamProofs --------------------------
(***************************************************************************)
(* Theorems about the buffer of a connection, for every size and every     *)
(* alphabet. RingBuf: it keeps its type, and implements the queue of bytes *)
(* of ByteQueue. EventStream: it keeps the boundaries of the frames,       *)
(* delivers them intact, and leaves none behind.                           *)
(***************************************************************************)
EXTENDS EventStream, SequenceTheorems, WellFoundedInduction, TLAPS
------------------------------------------------------------------------------
(* RingBuf *)

LEMMA RoundValue ==
    \A p \in 0 .. 2 * Size + 1 :
        /\ ROUND(p) = IF p <= Size THEN p ELSE p - (Size + 1)
        /\ ROUND(p) \in Cell
<1> SUFFICES ASSUME NEW p \in 0 .. 2 * Size + 1
             PROVE  /\ ROUND(p) = IF p <= Size THEN p ELSE p - (Size + 1)
                    /\ ROUND(p) \in Cell
  OBVIOUS
<1>1. Size \in Nat \ {0}
  BY RingAssumption
<1>2. CASE p <= Size
  BY <1>1, <1>2 DEF ROUND, Cell
<1>3. CASE p > Size
  BY <1>1, <1>3 DEF ROUND, Cell
<1>4. QED
  BY <1>1, <1>2, <1>3

LEMMA RoundSum ==
    ASSUME NEW i \in Cell, NEW k \in 0 .. Size
    PROVE  /\ ROUND(i + k) = IF i + k <= Size THEN i + k ELSE i + k - (Size + 1)
           /\ ROUND(i + k) \in Cell
<1> DEFINE p == i + k
<1>1. p \in 0 .. 2 * Size + 1
  BY RingAssumption DEF Cell
<1> HIDE DEF p
<1>2. ROUND(p) = (IF p <= Size THEN p ELSE p - (Size + 1)) /\ ROUND(p) \in Cell
  BY <1>1, RoundValue
<1>3. i \in Int /\ k \in Int /\ Size \in Int
  BY RingAssumption DEF Cell
<1>4. QED
  BY <1>2, <1>3 DEF p

\* Going round twice is going round once.
LEMMA RoundTwice ==
    ASSUME NEW i \in Cell, NEW k \in 0 .. Size, NEW l \in 0 .. Size - k
    PROVE  ROUND(ROUND(i + k) + l) = ROUND(i + (k + l))
<1>1. k + l \in 0 .. Size /\ l \in 0 .. Size
  BY RingAssumption
<1> DEFINE j == ROUND(i + k)
           n == k + l
<1>2. j = (IF i + k <= Size THEN i + k ELSE i + k - (Size + 1)) /\ j \in Cell
  BY RoundSum
<1>3. n \in 0 .. Size /\ n = k + l
  BY <1>1
<1> HIDE DEF j, n
<1>4. ROUND(i + n) = IF i + n <= Size THEN i + n ELSE i + n - (Size + 1)
  BY <1>3, RoundSum
<1>5. ROUND(j + l) = IF j + l <= Size THEN j + l ELSE j + l - (Size + 1)
  BY <1>1, <1>2, RoundSum
<1>6. ROUND(j + l) = ROUND(i + n)
  BY <1>1, <1>2, <1>3, <1>4, <1>5, RingAssumption DEF Cell
<1>7. QED
  BY <1>6 DEF j, n

LEMMA RoundType == \A p \in Nat : ROUND(p) \in Cell
  BY RingAssumption DEF ROUND, Cell

LEMMA TerminatorType ==
    ASSUME NEW b \in Seq(Byte)
    PROVE  /\ Terminator(b) \in 0 .. Len(b)
           /\ \A i \in 1 .. Terminator(b) - 1 : b[i] # 0
           /\ Terminator(b) = 0 => \A i \in 1 .. Len(b) : b[i] # 0
           /\ Terminator(b) # 0 => b[Terminator(b)] = 0
<1> DEFINE I == {i \in 1 .. Len(b) : b[i] = 0}
<1>1. CASE I = {}
  <2>1. Terminator(b) = 0
    BY <1>1 DEF Terminator, SelectInSeq
  <2>2. QED
    BY <1>1, <2>1
<1>2. CASE I # {}
  <2> DEFINE R == OpToRel(<, Nat)
  <2>1. \A i, j \in Nat : i < j => <<i, j>> \in R
    <3> SUFFICES ASSUME NEW i \in Nat, NEW j \in Nat, i < j
                 PROVE  <<i, j>> \in R
      OBVIOUS
    <3> DEFINE ss == <<i, j>>
    <3>1. ss \in Nat \X Nat
      OBVIOUS
    <3>2. ss[1] < ss[2]
      OBVIOUS
    <3> HIDE DEF ss
    <3>3. ss \in {tt \in Nat \X Nat : tt[1] < tt[2]}
      BY <3>1, <3>2
    <3>4. QED
      BY <3>3 DEF OpToRel, ss
  <2>2. PICK m \in I : \A i \in I : m <= i
    <3>0. I \subseteq Nat
      OBVIOUS
    <3>1. IsWellFoundedOn(R, Nat)
      BY NatLessThanWellFounded
    <3> HIDE DEF R, I
    <3>2. PICK m \in I : \A i \in I : ~ (<<i, m>> \in R)
      BY <1>2, <3>0, <3>1, WFMin
    <3>3. ASSUME NEW i \in I
          PROVE  m <= i
      <4>1. i \in Nat /\ m \in Nat /\ ~ (<<i, m>> \in R)
        BY <3>0, <3>2
      <4>2. ~ (i < m)
        BY <2>1, <4>1
      <4>3. QED
        BY <4>1, <4>2
    <3>4. QED
      BY <3>3
  <2>3. Min(I) \in I /\ \A i \in I : Min(I) <= i
    BY <2>2 DEF Min
  <2>4. Terminator(b) = Min(I)
    BY <1>2 DEF Terminator, SelectInSeq
  <2> DEFINE t == Min(I)
  <2>5. t \in I /\ \A i \in I : t <= i
    BY <2>3
  <2> HIDE DEF t
  <2>6. t \in 1 .. Len(b) /\ b[t] = 0 /\ \A i \in 1 .. t - 1 : b[i] # 0
    BY <2>5
  <2>7. QED
    BY <2>4, <2>6 DEF t
<1>3. QED
  BY <1>1, <1>2
------------------------------------------------------------------------------
(* Types *)

LEMMA FunctionIsSeq ==
    ASSUME NEW S, NEW n \in Nat, NEW f \in [1 .. n -> S]
    PROVE  f \in Seq(S) /\ Len(f) = n
<1>1. f \in Seq(S)
  BY SeqDef
<1>2. DOMAIN f = 1 .. Len(f) /\ Len(f) \in Nat
  BY <1>1, LenProperties
<1>3. QED
  BY <1>1, <1>2

LEMMA StringType ==
    ASSUME NEW s \in SeqOf(Byte, MaxPut)
    PROVE  s \in Seq(Byte)
<1>1. PICK n \in 0 .. MaxPut : s \in [1 .. n -> Byte]
  BY DEF SeqOf
<1>2. n \in Nat
  BY RingAssumption
<1>3. QED
  BY <1>1, <1>2, FunctionIsSeq

LEMMA PutType ==
    ASSUME RingTypeOK, NEW s \in Seq(Byte), Put(s)
    PROVE  RingTypeOK'
<1>1. Len(s) \in Nat /\ \A i \in 1 .. Len(s) : s[i] \in Byte
  BY LenProperties, ElementOfSeq
<1>2. CASE Fits(s)
  <2>1. /\ m_dt' = [c \in Cell |-> IF Ahead(c) < Len(s) THEN s[Ahead(c) + 1] ELSE m_dt[c]]
        /\ m_end' = ROUND(m_end + Len(s))
        /\ call' = "put" /\ given' = s /\ result' = TRUE
        /\ UNCHANGED <<m_start, event>>
    BY <1>2 DEF Put
  <2>2. \A c \in Cell : Ahead(c) \in Nat
    <3> SUFFICES ASSUME NEW c \in Cell PROVE Ahead(c) \in Nat
      OBVIOUS
    <3>1. c + (Size + 1) - m_end \in Nat
      BY RingAssumption DEF Cell, RingTypeOK
    <3>2. QED
      BY <3>1, RoundType DEF Ahead, Cell
  <2>3. \A c \in Cell : Ahead(c) < Len(s) => s[Ahead(c) + 1] \in Byte
    BY <1>1, <2>2
  <2>4. m_dt' \in [Cell -> Byte]
    BY <2>1, <2>3 DEF RingTypeOK
  <2>5. m_end' \in Cell
    <3>1. m_end + Len(s) \in Nat
      BY <1>1 DEF RingTypeOK, Cell
    <3>2. QED
      BY <2>1, <3>1, RoundType
  <2>6. QED
    BY <2>1, <2>4, <2>5 DEF RingTypeOK
<1>3. CASE ~ Fits(s)
  BY <1>3 DEF Put, RingTypeOK
<1>4. QED
  BY <1>2, <1>3

LEMMA FirstByteType == RingTypeOK => FirstByte \in Cell
<1> SUFFICES ASSUME RingTypeOK PROVE FirstByte \in Cell
  OBVIOUS
<1>1. m_start + 2 \in Nat
  BY DEF RingTypeOK, Cell
<1>2. QED
  BY <1>1, RoundType DEF FirstByte

LEMMA BodyType ==
    ASSUME RingTypeOK, NEW n \in Nat, NEW b \in Body(n)
    PROVE  b \in Seq(Byte) /\ Len(b) = n
<1> DEFINE in == IF FirstByte + n - 1 <= Size THEN n ELSE Size + 1 - FirstByte
<1> DEFINE cells == [i \in 1 .. in |-> m_dt[FirstByte + i - 1]]
<1>1. FirstByte \in Cell
  BY FirstByteType
<1>2. /\ in \in Nat
      /\ n - in \in Nat
      /\ \A i \in 1 .. in : FirstByte + i - 1 \in Cell
  BY <1>1, RingAssumption DEF Cell
<1>3. PICK g \in [1 .. n - in -> Garbage] : b = cells \o g
  BY DEF Body
<1> HIDE DEF in
<1>4. cells \in [1 .. in -> Byte]
  BY <1>2 DEF RingTypeOK
<1>5. g \in [1 .. n - in -> Byte]
  BY RingAssumption
<1> HIDE DEF cells
<1>6. cells \in Seq(Byte) /\ Len(cells) = in /\ g \in Seq(Byte) /\ Len(g) = n - in
  BY <1>2, <1>4, <1>5, FunctionIsSeq
<1>7. b \in Seq(Byte) /\ Len(b) = in + (n - in)
  BY <1>3, <1>6, ConcatProperties
<1>8. QED
  BY <1>2, <1>7

LEMMA LengthType == RingTypeOK => Length \in 0 .. Size
  BY RingAssumption DEF RingTypeOK, Length, Cell

\* What pick_event does, for a reader that does not care about the event: fail
\* and change nothing, or take n bytes from the front.
LEMMA PickMoves ==
    ASSUME RingTypeOK, PickEvent
    PROVE  /\ RingTypeOK'
           /\ UNCHANGED <<m_dt, m_end>>
           /\ call' = "pick_event" /\ given' = <<>> /\ result' \in BOOLEAN
           /\ \/ UNCHANGED m_start /\ result' = FALSE
              \/ \E n \in 3 .. Length : m_start' = ROUND(m_start + n)
<1>0. call' = "pick_event" /\ given' = <<>> /\ given' \in Seq(Byte)
  BY EmptySeq DEF PickEvent
<1>1. CASE Incomplete
  BY <1>0, <1>1 DEF Incomplete, Fail, ring, RingTypeOK
<1>2. CASE ~ Incomplete
  <2>1. PICK lo \in AT(m_start + 1) :
            /\ Length >= 2
            /\ PacketLength(m_dt[m_start], lo) <= Length
            /\ \E b \in Body(PacketLength(m_dt[m_start], lo) - 2) :
                   Complete(PacketLength(m_dt[m_start], lo), b)
    BY <1>2 DEF PickEvent
  <2> DEFINE n == PacketLength(m_dt[m_start], lo)
  <2>2. lo \in Byte /\ m_dt[m_start] \in Byte
    BY RingAssumption DEF AT, RingTypeOK
  <2>3. n \in 3 .. Length
    <3>1. lo \in 0 .. 255 /\ m_dt[m_start] \in 0 .. 255
      BY <2>2, RingAssumption
    <3>2. Length \in Nat
      BY LengthType, RingAssumption
    <3>3. n \in Nat /\ n >= 3
      BY <3>1 DEF PacketLength
    <3>4. QED
      BY <2>1, <3>2, <3>3
  <2>4. PICK b \in Body(n - 2) : Complete(n, b)
    BY <2>1
  <2> HIDE DEF n
  <2>5. n \in 3 .. Size
    BY <2>3, LengthType, RingAssumption
  <2>6. b \in Seq(Byte) /\ Len(b) = n - 2
    BY <2>5, BodyType
  <2>7. m_start \in Cell
    BY DEF RingTypeOK
  <2>8. /\ ROUND(m_start + n) \in Cell
        /\ ROUND(FirstByte + (n - 2)) = ROUND(m_start + n)
    <3>1. n \in 0 .. Size /\ 2 \in 0 .. Size /\ n - 2 \in 0 .. Size - 2 /\ 2 + (n - 2) = n
      BY <2>5, RingAssumption
    <3>2. ROUND(m_start + n) \in Cell
      BY <2>7, <3>1, RoundSum
    <3>3. ROUND(ROUND(m_start + 2) + (n - 2)) = ROUND(m_start + (2 + (n - 2)))
      BY <2>7, <3>1, RoundTwice
    <3>4. QED
      BY <3>1, <3>2, <3>3 DEF FirstByte
  <2>9. CASE Terminator(b) = 0
    BY <1>0, <2>3, <2>4, <2>8, <2>9 DEF Complete, RingTypeOK
  <2>10. CASE Terminator(b) # 0
    <3> DEFINE packet == SubSeq(b, Terminator(b) + 1, Len(b))
               name == SubSeq(b, 1, Terminator(b) - 1)
    <3>1. CASE packet \notin Packets
      BY <1>0, <2>4, <2>10, <3>1 DEF Complete, Fail, ring, RingTypeOK
    <3>2. CASE packet \in Packets
      <4>1. /\ m_start' = ROUND(FirstByte + (n - 2))
            /\ event' = [name |-> name, packet |-> packet]
            /\ result' = TRUE
            /\ UNCHANGED <<m_dt, m_end>>
        BY <2>4, <2>10, <3>2 DEF Complete
      <4>2. /\ Terminator(b) \in 1 .. Len(b)
            /\ \A i \in 1 .. Terminator(b) - 1 : b[i] # 0
        BY <2>6, <2>10, TerminatorType
      <4>3. Len(b) \in Nat /\ \A i \in 1 .. Len(b) : b[i] \in Byte
        BY <2>6, LenProperties, ElementOfSeq
      <4>4. name \in Seq(Byte \ {0})
        <5>1. \A i \in 1 .. Terminator(b) - 1 : b[i] \in Byte \ {0}
          BY <4>2, <4>3
        <5>2. Terminator(b) - 1 \in Int
          BY <4>2, <4>3
        <5>3. QED
          BY <5>1, <5>2, SubSeqProperties
      <4>5. packet \in Seq(Byte)
        <5>1. Terminator(b) + 1 \in Int /\ Len(b) \in Int
          BY <4>2, <4>3
        <5>2. \A i \in Terminator(b) + 1 .. Len(b) : b[i] \in Byte
          BY <4>2, <4>3
        <5>3. QED
          BY <5>1, <5>2, SubSeqProperties
      <4> HIDE DEF name, packet
      <4>6. event' \in [name : Seq(Byte \ {0}), packet : Seq(Byte)]
        BY <4>1, <4>4, <4>5
      <4>7. QED
        BY <1>0, <2>3, <2>7, <2>8, <4>1, <4>6 DEF RingTypeOK
    <3>3. QED
      BY <3>1, <3>2
  <2>11. QED
    BY <2>9, <2>10
<1>3. QED
  BY <1>1, <1>2

LEMMA RingInitType == RingInit => RingTypeOK
<1> SUFFICES ASSUME RingInit PROVE RingTypeOK
  OBVIOUS
<1>1. NoEvent \in [name : Seq(Byte \ {0}), packet : Seq(Byte)]
  BY EmptySeq DEF NoEvent
<1>2. 0 \in Cell
  BY RingAssumption DEF Cell
<1>3. QED
  BY <1>1, <1>2, EmptySeq DEF RingInit, RingTypeOK

LEMMA RingTypeStep == RingTypeOK /\ [RingNext]_ringVars => RingTypeOK'
<1> SUFFICES ASSUME RingTypeOK, [RingNext]_ringVars PROVE RingTypeOK'
  OBVIOUS
<1>1. ASSUME NEW s \in SeqOf(Byte, MaxPut), Put(s) PROVE RingTypeOK'
  BY <1>1, StringType, PutType
<1>2. CASE PickEvent
  BY <1>2, PickMoves
<1>3. CASE Reset
  BY <1>3, EmptySeq DEF Reset, RingTypeOK
<1>4. CASE UNCHANGED ringVars
  BY <1>4 DEF ringVars, ring, RingTypeOK
<1>5. QED
  BY <1>1, <1>2, <1>3, <1>4 DEF RingNext

\* The positions of a RingBuf of any size stay inside its array, and the events
\* it builds have no zero in their names.
THEOREM RingTypeCorrect == RingSpec => []RingTypeOK
<1>1. RingInit => RingTypeOK
  BY RingInitType
<1>2. RingTypeOK /\ [RingNext]_ringVars => RingTypeOK'
  BY RingTypeStep
<1>3. QED
  BY <1>1, <1>2, PTL DEF RingSpec
------------------------------------------------------------------------------
(* The queue of bytes *)

\* n cells from start, going round, and how far end lies behind start.
Stretch(dt, start, n) == [i \in 1 .. n |-> dt[ROUND(start + i - 1)]]
Gap(start, end) == IF start <= end THEN end - start ELSE (Size + 1 - start) + end

LEMMA ContentStretch ==
    /\ Content = Stretch(m_dt, m_start, Gap(m_start, m_end))
    /\ Content' = Stretch(m_dt', m_start', Gap(m_start', m_end'))
  BY DEF Content, Length, Stretch, Gap

LEMMA GapIsDistance ==
    ASSUME NEW start \in Cell, NEW k \in 0 .. Size
    PROVE  Gap(start, ROUND(start + k)) = k
<1> DEFINE end == ROUND(start + k)
<1>1. end = (IF start + k <= Size THEN start + k ELSE start + k - (Size + 1)) /\ end \in Cell
  BY RoundSum
<1> HIDE DEF end
<1>2. Gap(start, end) = k
  BY <1>1, RingAssumption DEF Gap, Cell
<1>3. QED
  BY <1>2 DEF end

LEMMA EndIsAhead ==
    ASSUME NEW start \in Cell, NEW end \in Cell
    PROVE  /\ Gap(start, end) \in 0 .. Size
           /\ end = ROUND(start + Gap(start, end))
<1> DEFINE n == Gap(start, end)
<1>1. n \in 0 .. Size /\ n = IF start <= end THEN end - start ELSE (Size + 1 - start) + end
  BY RingAssumption DEF Gap, Cell
<1> HIDE DEF n
<1>2. ROUND(start + n) = IF start + n <= Size THEN start + n ELSE start + n - (Size + 1)
  BY <1>1, RoundSum
<1>3. end = ROUND(start + n)
  BY <1>1, <1>2, RingAssumption DEF Cell
<1>4. QED
  BY <1>1, <1>3 DEF n

LEMMA StretchType ==
    ASSUME NEW dt \in [Cell -> Byte], NEW start \in Cell, NEW n \in 0 .. Size
    PROVE  /\ Stretch(dt, start, n) \in Seq(Byte)
           /\ Len(Stretch(dt, start, n)) = n
           /\ \A i \in 1 .. n : Stretch(dt, start, n)[i] = dt[ROUND(start + (i - 1))]
<1>1. ASSUME NEW i \in 1 .. n
      PROVE  ROUND(start + i - 1) = ROUND(start + (i - 1)) /\ ROUND(start + (i - 1)) \in Cell
  <2>1. i - 1 \in 0 .. Size /\ start + i - 1 = start + (i - 1)
    BY RingAssumption DEF Cell
  <2>2. ROUND(start + (i - 1)) \in Cell
    BY <2>1, RoundSum
  <2>3. QED
    BY <2>1, <2>2
<1>2. Stretch(dt, start, n) \in [1 .. n -> Byte]
  BY <1>1 DEF Stretch
<1>3. n \in Nat
  BY RingAssumption
<1>4. QED
  BY <1>1, <1>2, <1>3, FunctionIsSeq DEF Stretch

\* Dropping n cells at the front drops the first n bytes.
LEMMA StretchDrop ==
    ASSUME NEW dt \in [Cell -> Byte], NEW start \in Cell, NEW n \in 0 .. Size, NEW k \in 0 .. n
    PROVE  Stretch(dt, ROUND(start + k), n - k) = SubSeq(Stretch(dt, start, n), k + 1, n)
<1> DEFINE all == Stretch(dt, start, n)
           rest == Stretch(dt, ROUND(start + k), n - k)
<1>1. k \in 0 .. Size /\ n - k \in 0 .. Size /\ n \in Nat
  BY RingAssumption
<1>2. ROUND(start + k) \in Cell
  BY <1>1, RoundSum
<1>3. /\ all \in Seq(Byte) /\ Len(all) = n
      /\ \A i \in 1 .. n : all[i] = dt[ROUND(start + (i - 1))]
  BY StretchType
<1>4. /\ rest \in Seq(Byte) /\ Len(rest) = n - k
      /\ \A i \in 1 .. n - k : rest[i] = dt[ROUND(ROUND(start + k) + (i - 1))]
  BY <1>1, <1>2, StretchType
<1> HIDE DEF all, rest
<1>5. ASSUME NEW i \in 1 .. n - k PROVE rest[i] = all[k + i]
  <2>1. i - 1 \in 0 .. Size - k /\ k + i \in 1 .. n /\ (k + i) - 1 = k + (i - 1)
    BY <1>1, RingAssumption
  <2>2. ROUND(ROUND(start + k) + (i - 1)) = ROUND(start + (k + (i - 1)))
    BY <1>1, <2>1, RoundTwice
  <2>3. QED
    BY <1>3, <1>4, <2>1, <2>2
<1> DEFINE tail == SubSeq(all, k + 1, n)
<1>6. /\ tail \in Seq(Byte) /\ Len(tail) = n - k
      /\ \A i \in 1 .. n - k : tail[i] = all[k + i]
  <2> DEFINE m == k + 1
  <2>1. m = k + 1 /\ m \in Int /\ n \in Int
    BY <1>1
  <2> HIDE DEF m
  <2>2. \A i \in m .. n : all[i] \in Byte
    BY <1>1, <1>3, <2>1, ElementOfSeq
  <2>3. /\ SubSeq(all, m, n) \in Seq(Byte)
        /\ Len(SubSeq(all, m, n)) = IF m <= n THEN n - m + 1 ELSE 0
        /\ \A i \in 1 .. n - m + 1 : SubSeq(all, m, n)[i] = all[m + i - 1]
    BY <2>1, <2>2, SubSeqProperties
  <2>4. tail = SubSeq(all, m, n)
    BY <2>1
  <2> HIDE DEF tail
  <2>5. (IF m <= n THEN n - m + 1 ELSE 0) = n - k /\ n - m + 1 = n - k
    BY <1>1, <2>1
  <2>6. \A i \in 1 .. n - k : m + i - 1 = k + i
    BY <1>1, <2>1
  <2>7. QED
    BY <2>3, <2>4, <2>5, <2>6
<1> HIDE DEF tail
<1>7. rest = tail
  BY <1>4, <1>5, <1>6, SeqEqual
<1>8. QED
  BY <1>7 DEF rest, tail, all

\* The distance behind the end, of a cell of the content and of one behind it.
LEMMA Distance ==
    ASSUME NEW start \in Cell, NEW n \in 0 .. Size, NEW j \in 0 .. Size,
           NEW c \in Cell, NEW end \in Cell, NEW a \in Int,
           c = IF start + j <= Size THEN start + j ELSE start + j - (Size + 1),
           end = IF start + n <= Size THEN start + n ELSE start + n - (Size + 1),
           a = IF c + (Size + 1) - end <= Size THEN c + (Size + 1) - end
               ELSE c + (Size + 1) - end - (Size + 1)
    PROVE  a = IF j < n THEN Size + 1 - (n - j) ELSE j - n
<1>1. Size \in Nat /\ start \in 0 .. Size /\ c \in 0 .. Size /\ end \in 0 .. Size
  BY RingAssumption DEF Cell
<1>2. CASE start + j <= Size
  <2>1. CASE start + n <= Size
    BY <1>1, <1>2, <2>1
  <2>2. CASE start + n > Size
    BY <1>1, <1>2, <2>2
  <2>3. QED
    BY <1>1, <2>1, <2>2
<1>3. CASE start + j > Size
  <2>1. CASE start + n <= Size
    BY <1>1, <1>3, <2>1
  <2>2. CASE start + n > Size
    BY <1>1, <1>3, <2>2
  <2>3. QED
    BY <1>1, <2>1, <2>2
<1>4. QED
  BY <1>1, <1>2, <1>3

\* How far a cell lies behind another, going round.
LEMMA RoundBack ==
    ASSUME NEW c \in Cell, NEW e \in Cell
    PROVE  ROUND(c + (Size + 1) - e) = IF c + (Size + 1) - e <= Size THEN c + (Size + 1) - e
                                       ELSE c + (Size + 1) - e - (Size + 1)
<1> DEFINE x == c + (Size + 1) - e
<1>1. x \in 0 .. 2 * Size + 1
  BY RingAssumption DEF Cell
<1> HIDE DEF x
<1>2. ROUND(x) = IF x <= Size THEN x ELSE x - (Size + 1)
  BY <1>1, RoundValue
<1>3. c \in Int /\ e \in Int /\ Size \in Int
  BY RingAssumption DEF Cell
<1> QED
  BY <1>2, <1>3 DEF x

\* Writing a string behind the end, where it fits, appends it.
LEMMA StretchAppend ==
    ASSUME NEW dt \in [Cell -> Byte], NEW start \in Cell, NEW n \in 0 .. Size,
           NEW s \in Seq(Byte), n + Len(s) <= Size,
           NEW dt2 \in [Cell -> Byte],
           \A c \in Cell :
               LET a == ROUND(c + (Size + 1) - ROUND(start + n)) IN
               dt2[c] = IF a < Len(s) THEN s[a + 1] ELSE dt[c]
    PROVE  Stretch(dt2, start, n + Len(s)) = Stretch(dt, start, n) \o s
<1> DEFINE k == Len(s)
           end == ROUND(start + n)
           ahead(c) == ROUND(c + (Size + 1) - end)
           all == Stretch(dt2, start, n + k)
           old == Stretch(dt, start, n)
<1>1. k \in Nat /\ n + k \in 0 .. Size /\ n \in Nat
  BY LenProperties, RingAssumption
<1>2. end = (IF start + n <= Size THEN start + n ELSE start + n - (Size + 1)) /\ end \in Cell
  BY RoundSum
<1>3. \A c \in Cell : dt2[c] = IF ahead(c) < k THEN s[ahead(c) + 1] ELSE dt[c]
  OBVIOUS
<1>4. \A c \in Cell : ahead(c) = IF c + (Size + 1) - end <= Size THEN c + (Size + 1) - end
                                 ELSE c + (Size + 1) - end - (Size + 1)
  BY <1>2, RoundBack
<1> HIDE DEF k, end, ahead
<1>5. /\ all \in Seq(Byte) /\ Len(all) = n + k
      /\ \A i \in 1 .. n + k : all[i] = dt2[ROUND(start + (i - 1))]
  BY <1>1, StretchType
<1>6. /\ old \in Seq(Byte) /\ Len(old) = n
      /\ \A i \in 1 .. n : old[i] = dt[ROUND(start + (i - 1))]
  BY StretchType
<1> HIDE DEF all, old
<1>7. ASSUME NEW i \in 1 .. n + k
      PROVE  all[i] = IF i <= n THEN old[i] ELSE s[i - n]
  <2> DEFINE j == i - 1
             c == ROUND(start + j)
  <2>1. j \in 0 .. Size /\ j = i - 1 /\ j < n + k
    BY <1>1, RingAssumption
  <2> HIDE DEF j
  <2>2. c = (IF start + j <= Size THEN start + j ELSE start + j - (Size + 1)) /\ c \in Cell
    BY <2>1, RoundSum
  <2>3. all[i] = dt2[c] /\ (i <= n => old[i] = dt[c])
    BY <1>1, <1>5, <1>6, <2>1
  <2> HIDE DEF c
  <2>4. ahead(c) = IF c + (Size + 1) - end <= Size THEN c + (Size + 1) - end
                   ELSE c + (Size + 1) - end - (Size + 1)
    BY <1>4, <2>2
  <2>5. dt2[c] = IF ahead(c) < k THEN s[ahead(c) + 1] ELSE dt[c]
    BY <1>3, <2>2
  <2> DEFINE a == ahead(c)
  <2>6. a = IF j < n THEN Size + 1 - (n - j) ELSE j - n
    <3>1. a \in Int
      <4>1. c \in Int /\ end \in Int /\ Size \in Int
        BY <1>2, <2>2, RingAssumption DEF Cell
      <4> QED
        BY <2>4, <4>1
    <3>2. a = ahead(c)
      OBVIOUS
    <3> HIDE DEF a
    <3>3. QED
      BY <1>2, <2>1, <2>2, <2>4, <3>1, <3>2, Distance
  <2>7. a = ahead(c)
    OBVIOUS
  <2> HIDE DEF a
  <2>8. CASE i <= n
    <3>1. ~ (a < k)
      BY <1>1, <2>1, <2>6, <2>8, RingAssumption
    <3>2. QED
      BY <2>3, <2>5, <2>7, <2>8, <3>1
  <2>9. CASE i > n
    <3>1. a < k /\ a + 1 = i - n /\ ~ (i <= n)
      BY <1>1, <2>1, <2>6, <2>9
    <3>2. QED
      BY <2>3, <2>5, <2>7, <3>1
  <2>10. QED
    BY <1>1, <2>8, <2>9
<1>8. /\ old \o s \in Seq(Byte) /\ Len(old \o s) = n + k
      /\ \A i \in 1 .. n + k : (old \o s)[i] = IF i <= n THEN old[i] ELSE s[i - n]
  BY <1>1, <1>6, ConcatProperties DEF k
<1>9. all = old \o s
  BY <1>5, <1>7, <1>8, SeqEqual
<1>10. QED
  BY <1>9 DEF all, old, k

LEMMA ContentType ==
    ASSUME RingTypeOK
    PROVE  /\ Length \in 0 .. Size
           /\ Content \in Seq(Byte)
           /\ Len(Content) = Length
           /\ m_end = ROUND(m_start + Length)
<1>1. m_start \in Cell /\ m_end \in Cell /\ m_dt \in [Cell -> Byte]
  BY DEF RingTypeOK
<1>2. Length = Gap(m_start, m_end)
  BY DEF Length, Gap
<1>3. Length \in 0 .. Size /\ m_end = ROUND(m_start + Length)
  BY <1>1, <1>2, EndIsAhead
<1>4. QED
  BY <1>1, <1>2, <1>3, ContentStretch, StretchType

bytesVars == <<Content, call, given, result>>

\* What put writes is appended, or it changes nothing.
LEMMA PutContent ==
    ASSUME RingTypeOK, NEW s \in Seq(Byte), Put(s)
    PROVE  /\ Fits(s) => Content' = Content \o s /\ result' = TRUE
           /\ ~ Fits(s) => UNCHANGED Content /\ result' = FALSE
           /\ Fits(s) <=> Len(Content) + Len(s) <= Size
<1> DEFINE n == Length
           k == Len(s)
<1>1. m_start \in Cell /\ m_dt \in [Cell -> Byte] /\ m_dt' \in [Cell -> Byte]
  BY PutType DEF RingTypeOK
<1>2. /\ n \in 0 .. Size /\ Len(Content) = n /\ Content \in Seq(Byte)
      /\ m_end = ROUND(m_start + n) /\ n = Gap(m_start, m_end)
  BY ContentType DEF Length, Gap
<1>3. k \in Nat
  BY LenProperties
<1>4. Fits(s) <=> n + k <= Size
  BY DEF Fits
<1> HIDE DEF n
<1>5. ASSUME Fits(s) PROVE Content' = Content \o s
  <2>1. /\ m_dt' = [c \in Cell |-> IF Ahead(c) < Len(s) THEN s[Ahead(c) + 1] ELSE m_dt[c]]
        /\ m_end' = ROUND(m_end + k)
        /\ m_start' = m_start
    BY <1>5 DEF Put
  <2>2. k \in 0 .. Size - n /\ n + k \in 0 .. Size
    BY <1>2, <1>3, <1>4, <1>5, RingAssumption
  <2>3. m_end' = ROUND(m_start + (n + k))
    BY <1>1, <1>2, <2>1, <2>2, RoundTwice
  <2>4. Gap(m_start', m_end') = n + k
    BY <1>1, <2>1, <2>2, <2>3, GapIsDistance
  <2>5. \A c \in Cell :
            LET a == ROUND(c + (Size + 1) - ROUND(m_start + n)) IN
            m_dt'[c] = IF a < Len(s) THEN s[a + 1] ELSE m_dt[c]
    BY <1>2, <2>1 DEF Ahead
  <2>6. Stretch(m_dt', m_start, n + k) = Stretch(m_dt, m_start, n) \o s
    <3>1. n \in 0 .. Size /\ n + Len(s) <= Size
      BY <1>2, <1>4, <1>5
    <3>2. QED
      BY <1>1, <2>5, <3>1, StretchAppend
  <2>7. QED
    BY <1>2, <2>1, <2>4, <2>6, ContentStretch
<1>6. ASSUME ~ Fits(s) PROVE UNCHANGED Content
  BY <1>6 DEF Put, Content, Length
<1>7. (Fits(s) => result' = TRUE) /\ (~ Fits(s) => result' = FALSE)
  BY DEF Put
<1>8. QED
  BY <1>2, <1>4, <1>5, <1>6, <1>7

LEMMA PutAppends ==
    ASSUME RingTypeOK, NEW s \in SeqOf(Byte, MaxPut), Put(s)
    PROVE  [Bytes!Next]_bytesVars
<1>1. PICK k \in 0 .. MaxPut : s \in [1 .. k -> Byte]
  BY DEF SeqOf
<1>2. k \in Nat /\ s \in Seq(Byte) /\ Len(s) = k
  <2>1. k \in Nat
    BY RingAssumption
  <2>2. QED
    BY <1>1, <2>1, FunctionIsSeq
<1>3. /\ Fits(s) => Content' = Content \o s
      /\ ~ Fits(s) => UNCHANGED Content
      /\ Fits(s) <=> Len(Content) + k <= Size
      /\ call' = "put"
  BY <1>2, PutContent DEF Put
<1>4. Len(Content) \in Nat
  BY ContentType, RingAssumption
<1>5. Bytes!Put(s)
  <2>1. call' = "put" /\ given' = s
    BY DEF Put
  <2>2. CASE Fits(s)
    <3>1. result' = TRUE /\ Len(Content) + Len(s) <= Size /\ Content' = Content \o s
      BY <1>2, <1>3, <2>2, PutContent
    <3>2. QED
      BY <2>1, <3>1 DEF Bytes!Put
  <2>3. CASE ~ Fits(s)
    <3>1. result' = FALSE /\ UNCHANGED Content
      BY <1>2, <1>3, <2>3, PutContent
    <3>2. Len(Content) + Len(s) > Size
      BY <1>2, <1>3, <1>4, <2>3, RingAssumption
    <3>3. QED
      BY <2>1, <3>1, <3>2 DEF Bytes!Put
  <2>4. QED
    BY <2>2, <2>3
<1>6. QED
  BY <1>1, <1>5 DEF Bytes!Next

\* What pick_event takes is the front of the content.
LEMMA PickContent ==
    ASSUME RingTypeOK, UNCHANGED <<m_dt, m_end>>,
           NEW k \in 3 .. Length, m_start' = ROUND(m_start + k)
    PROVE  Content' = SubSeq(Content, k + 1, Len(Content))
<1> DEFINE n == Length
<1>1. /\ n \in 0 .. Size /\ Len(Content) = n
      /\ m_end = ROUND(m_start + n) /\ n = Gap(m_start, m_end)
      /\ m_start \in Cell /\ m_dt \in [Cell -> Byte] /\ k \in 3 .. n
  BY ContentType DEF Length, Gap, RingTypeOK
<1> HIDE DEF n
<1>2. k \in 0 .. Size /\ k \in 0 .. n /\ n - k \in 0 .. Size - k /\ n - k \in 0 .. Size
      /\ k + (n - k) = n
  BY <1>1, RingAssumption
<1>3. ROUND(m_start + k) \in Cell
  BY <1>1, <1>2, RoundSum
<1>4. ROUND(ROUND(m_start + k) + (n - k)) = ROUND(m_start + n)
  BY <1>1, <1>2, RoundTwice
<1>5. Gap(m_start', m_end') = n - k
  <2>1. Gap(ROUND(m_start + k), ROUND(ROUND(m_start + k) + (n - k))) = n - k
    BY <1>2, <1>3, GapIsDistance
  <2>2. QED
    BY <1>1, <1>4, <2>1
<1>6. Content' = Stretch(m_dt, ROUND(m_start + k), n - k)
  BY <1>5, ContentStretch
<1>7. Content = Stretch(m_dt, m_start, n)
  BY <1>1, ContentStretch
<1>8. Stretch(m_dt, ROUND(m_start + k), n - k) = SubSeq(Stretch(m_dt, m_start, n), k + 1, n)
  BY <1>1, <1>2, StretchDrop
<1>9. QED
  BY <1>1, <1>6, <1>7, <1>8

LEMMA PickRemoves ==
    ASSUME RingTypeOK, PickEvent
    PROVE  [Bytes!Next]_bytesVars
<1>1. /\ UNCHANGED <<m_dt, m_end>>
      /\ call' = "pick_event" /\ given' = <<>> /\ result' \in BOOLEAN
      /\ \/ UNCHANGED m_start /\ result' = FALSE
         \/ \E k \in 3 .. Length : m_start' = ROUND(m_start + k)
  BY PickMoves
<1>2. CASE UNCHANGED m_start /\ result' = FALSE
  <2>1. UNCHANGED Content
    BY <1>1, <1>2 DEF Content, Length
  <2>2. Bytes!Fail
    BY <1>1, <1>2, <2>1 DEF Bytes!Fail
  <2>3. QED
    BY <2>2 DEF Bytes!Next
<1>3. ASSUME NEW k \in 3 .. Length, m_start' = ROUND(m_start + k)
      PROVE  [Bytes!Next]_bytesVars
  <2>1. Length \in 0 .. Size /\ Len(Content) = Length
    BY ContentType
  <2>2. k \in 3 .. Size /\ k <= Len(Content)
    BY <2>1, RingAssumption
  <2>3. Content' = SubSeq(Content, k + 1, Len(Content))
    BY <1>1, <1>3, PickContent
  <2>4. Bytes!Remove(k)
    BY <1>1, <2>2, <2>3 DEF Bytes!Remove
  <2>5. QED
    BY <2>2, <2>4 DEF Bytes!Next
<1>4. QED
  BY <1>1, <1>2, <1>3

LEMMA ResetClears ==
    ASSUME RingTypeOK, Reset
    PROVE  [Bytes!Next]_bytesVars
<1>1. m_start' = m_end' /\ m_end' \in Int
  BY DEF Reset, RingTypeOK, Cell
<1>2. Gap(m_start', m_end') = 0
  <2>1. \A p \in Int : Gap(p, p) = 0
    BY DEF Gap
  <2>2. QED
    BY <1>1, <2>1
<1>3. Content' = Stretch(m_dt', m_start', 0)
  BY <1>2, ContentStretch
<1>4. Content' = <<>>
  BY <1>3 DEF Stretch
<1>5. QED
  BY <1>4 DEF Reset, Bytes!Next, Bytes!Clear

\* A RingBuf of any size and over any bytes is a bounded first-in first-out
\* queue: put appends the string it was given, whole, if and only if it fits, and
\* returns whether it did; pick_event takes bytes from the front or none, however
\* often the positions go round.
THEOREM RingImplementsByteQueue == RingSpec => FirstInFirstOut
<1>1. RingInit => Bytes!Init
  <2> SUFFICES ASSUME RingInit PROVE Content = <<>>
    BY DEF RingInit, Bytes!Init
  <2>1. Length = 0
    BY DEF RingInit, Length
  <2>2. QED
    BY <2>1 DEF Content
<1>2. RingTypeOK /\ [RingNext]_ringVars => [Bytes!Next]_bytesVars
  <2> SUFFICES ASSUME RingTypeOK, [RingNext]_ringVars PROVE [Bytes!Next]_bytesVars
    OBVIOUS
  <2>1. ASSUME NEW s \in SeqOf(Byte, MaxPut), Put(s) PROVE [Bytes!Next]_bytesVars
    BY <2>1, PutAppends
  <2>2. CASE PickEvent
    BY <2>2, PickRemoves
  <2>3. CASE Reset
    BY <2>3, ResetClears
  <2>4. CASE UNCHANGED ringVars
    BY <2>4 DEF ringVars, ring, bytesVars, Content, Length
  <2>5. QED
    BY <2>1, <2>2, <2>3, <2>4 DEF RingNext
<1>3. QED
  BY <1>1, <1>2, RingTypeCorrect, PTL DEF RingSpec, FirstInFirstOut, Bytes!Spec, bytesVars
------------------------------------------------------------------------------
(* EventStream *)

\* A multiple of K below K is 0.
LEMMA SmallMultiple ==
    ASSUME NEW K \in Nat \ {0}, NEW d \in Int, d * K < K, d * K > -K
    PROVE  d = 0
<1>1. d >= 1 => d * K >= K
  OBVIOUS
<1>2. d <= -1 => d * K <= -K
  OBVIOUS
<1> QED
  BY <1>1, <1>2

LEMMA DivMod ==
    ASSUME NEW K \in Nat \ {0}, NEW b \in Nat
    PROVE  /\ b \div K \in Int /\ b % K \in 0 .. K - 1
           /\ b = (b \div K) * K + (b % K)
<1>1. b \div K \in Int
  OBVIOUS
<1>2. b % K \in 0 .. K - 1
  OBVIOUS
<1>3. b = (b \div K) * K + (b % K)
  OBVIOUS
<1> QED
  BY <1>1, <1>2, <1>3

LEMMA ModUnique ==
    ASSUME NEW K \in Nat \ {0}, NEW q \in Int, NEW r \in 0 .. K - 1, NEW b \in Nat,
           b = q * K + r
    PROVE  b % K = r
<1>1. /\ b \div K \in Int /\ b % K \in 0 .. K - 1
      /\ b = (b \div K) * K + (b % K)
  BY DivMod
<1> DEFINE p == b \div K
           s == b % K
<1>2. p \in Int /\ s \in 0 .. K - 1 /\ b = p * K + s
  BY <1>1
<1> HIDE DEF p, s
<1>3. (p - q) * K = p * K - q * K
  BY <1>2
<1>4. (p - q) * K = r - s
  BY <1>2, <1>3
<1>5. p - q = 0
  BY <1>2, <1>4, SmallMultiple
<1>6. s = r
  BY <1>2, <1>5
<1> QED
  BY <1>6 DEF s

\* A sum modulo K, from the remainder of one of its terms.
LEMMA ModShift ==
    ASSUME NEW K \in Nat \ {0}, NEW b \in Nat, NEW n \in 0 .. K - 1
    PROVE  /\ b % K \in 0 .. K - 1
           /\ (b + n) % K = IF (b % K) + n < K THEN (b % K) + n ELSE (b % K) + n - K
<1> DEFINE q == b \div K
           r == b % K
           w == q * K
<1>1. q \in Int /\ r \in 0 .. K - 1 /\ b = w + r
  BY DivMod
<1> HIDE DEF r
<1>2. w \in Int /\ w = q * K /\ (q + 1) * K = w + K /\ q + 1 \in Int
  BY <1>1
<1> HIDE DEF q, w
<1>3. b + n \in Nat
  OBVIOUS
<1>4. CASE r + n < K
  <2>1. b + n = w + (r + n) /\ r + n \in 0 .. K - 1
    BY <1>1, <1>2, <1>4
  <2>2. b + n = q * K + (r + n)
    BY <1>2, <2>1
  <2>3. (b + n) % K = r + n
    <3> DEFINE x == b + n
               y == r + n
    <3>1. x \in Nat /\ y \in 0 .. K - 1 /\ q \in Int /\ x = q * K + y
      BY <1>1, <1>3, <2>1, <2>2
    <3> HIDE DEF x, y
    <3>2. x % K = y
      BY <3>1, ModUnique
    <3> QED
      BY <3>2 DEF x, y
  <2> QED
    BY <1>1, <1>4, <2>3 DEF r
<1>5. CASE ~ (r + n < K)
  <2>1. b + n = (w + K) + (r + n - K) /\ r + n - K \in 0 .. K - 1
    BY <1>1, <1>2, <1>5
  <2>2. b + n = (q + 1) * K + (r + n - K)
    BY <1>2, <2>1
  <2>3. (b + n) % K = r + n - K
    <3> DEFINE x == b + n
               y == r + n - K
               k == q + 1
    <3>1. x \in Nat /\ y \in 0 .. K - 1 /\ k \in Int /\ x = k * K + y
      BY <1>2, <1>3, <2>1, <2>2
    <3> HIDE DEF x, y, k
    <3>2. x % K = y
      BY <3>1, ModUnique
    <3> QED
      BY <3>2 DEF x, y
  <2> QED
    BY <1>1, <1>5, <2>3 DEF r
<1> QED
  BY <1>4, <1>5

\* Going round step by step or at once.
LEMMA RoundShift ==
    ASSUME NEW b \in Nat, NEW n \in 0 .. Size
    PROVE  ROUND(ROUND(b) + n) = ROUND(b + n)
<1> DEFINE K == Size + 1
<1>1. K \in Nat \ {0} /\ n \in 0 .. K - 1 /\ Size \in Nat /\ K = Size + 1
  BY RingAssumption
<1>2. ROUND(b) = b % K /\ ROUND(b + n) = (b + n) % K
  BY DEF ROUND
<1> HIDE DEF K
<1>3. /\ b % K \in 0 .. K - 1
      /\ (b + n) % K = IF (b % K) + n < K THEN (b % K) + n ELSE (b % K) + n - K
  BY <1>1, ModShift
<1>4. ROUND(b) \in Cell
  BY RoundType
<1>5. ROUND(ROUND(b) + n) = IF ROUND(b) + n <= Size THEN ROUND(b) + n ELSE ROUND(b) + n - (Size + 1)
  BY <1>4, RoundSum
<1> DEFINE r == ROUND(b)
<1>6. r \in 0 .. K - 1 /\ ROUND(b + n) = IF r + n < K THEN r + n ELSE r + n - K
  BY <1>2, <1>3
<1> HIDE DEF r
<1>7. (r + n < K) <=> (r + n <= Size)
  BY <1>1, <1>6
<1> QED
  BY <1>1, <1>5, <1>6, <1>7 DEF r
------------------------------------------------------------------------------
(* Types *)

EventType == [name : Seq(Byte \ {0}), packet : Seq(Byte)]
PickedType == [number : Nat, event : EventType]

StreamTypeOK ==
    /\ RingTypeOK
    /\ pc \in {"recv", "pick"}
    /\ wire \in Seq(Byte) /\ sent \in Seq(Byte) /\ ends \in Seq(Nat)
    /\ consumed \in Nat /\ missed \in Nat /\ torn \in BOOLEAN
    /\ delivered \in Seq(PickedType)

\* A part of a string of bytes is one.
LEMMA PartType ==
    ASSUME NEW w \in Seq(Byte), NEW i \in Nat \ {0}, NEW j \in 0 .. Len(w)
    PROVE  /\ SubSeq(w, i, j) \in Seq(Byte)
           /\ Len(SubSeq(w, i, j)) = IF i <= j THEN j - i + 1 ELSE 0
           /\ \A k \in 1 .. j - i + 1 : SubSeq(w, i, j)[k] = w[i + k - 1]
<1>1. \A k \in i .. j : w[k] \in Byte
  BY LenProperties, ElementOfSeq
<1>2. i \in Int /\ j \in Int
  BY LenProperties
<1>3. SubSeq(w, i, j) \in Seq(Byte)
  BY <1>1, <1>2, SubSeqProperties
<1>4. Len(SubSeq(w, i, j)) = IF i <= j THEN j - i + 1 ELSE 0
  BY <1>1, <1>2, SubSeqProperties
<1>5. \A k \in 1 .. j - i + 1 : SubSeq(w, i, j)[k] = w[i + k - 1]
  <2>1. \A k \in 1 .. j - i + 1 : SubSeq(w, i, j)[k] = w[k + i - 1]
    BY <1>1, <1>2, SubSeqProperties
  <2> QED
    BY <1>2, <2>1
<1> QED
  BY <1>3, <1>4, <1>5

LEMMA RestType ==
    ASSUME NEW w \in Seq(Byte), NEW b \in 0 .. Len(w), NEW e \in b .. Len(w)
    PROVE  /\ SubSeq(w, b + 1, e) \in Seq(Byte)
           /\ Len(SubSeq(w, b + 1, e)) = e - b
           /\ \A i \in 1 .. e - b : SubSeq(w, b + 1, e)[i] = w[b + i]
<1> DEFINE part == SubSeq(w, b + 1, e)
<1>1. Len(w) \in Nat /\ b \in Nat /\ e \in Nat /\ b <= e
  BY LenProperties
<1>2. b + 1 \in Nat \ {0} /\ e \in 0 .. Len(w)
  BY <1>1
<1>3. part \in Seq(Byte)
  BY <1>2, PartType
<1>4. Len(part) = IF b + 1 <= e THEN e - (b + 1) + 1 ELSE 0
  BY <1>2, PartType
<1>5. \A i \in 1 .. e - (b + 1) + 1 : part[i] = w[b + 1 + i - 1]
  BY <1>2, PartType
<1> HIDE DEF part
<1>6. Len(part) = e - b
  BY <1>1, <1>4
<1>7. ASSUME NEW i \in 1 .. e - b PROVE part[i] = w[b + i]
  <2>1. i \in 1 .. e - (b + 1) + 1 /\ b + 1 + i - 1 = b + i
    BY <1>1
  <2>2. part[i] = w[b + 1 + i - 1]
    BY <1>5, <2>1
  <2> QED
    BY <2>1, <2>2
<1> QED
  BY <1>3, <1>6, <1>7 DEF part

LEMMA FrameType ==
    ASSUME NEW f \in Frames
    PROVE  /\ f \in Seq(Byte) /\ Len(f) \in Nat /\ Len(f) >= 3
           /\ Len(f) = 256 * f[1] + f[2]
  BY StreamAssumption, LenProperties

\* What recv returns.
LEMMA ChunkType ==
    ASSUME StreamTypeOK, NEW k \in 1 .. Chunk, Recv(k)
    PROVE  /\ k \in 1 .. Len(wire) /\ k \in Nat /\ Len(wire) \in Nat
           /\ SubSeq(wire, 1, k) \in Seq(Byte) /\ Len(SubSeq(wire, 1, k)) = k
           /\ wire' = SubSeq(wire, k + 1, Len(wire))
           /\ wire' \in Seq(Byte)
           /\ Put(SubSeq(wire, 1, k))
<1>1. wire \in Seq(Byte) /\ k \in 1 .. Len(wire)
  <2>1. k <= Len(wire) /\ wire \in Seq(Byte) /\ Chunk \in Nat
    BY StreamAssumption, RingAssumption DEF Recv, StreamTypeOK
  <2>2. Len(wire) \in Nat
    BY <2>1, LenProperties
  <2> QED
    BY <2>1, <2>2
<1>2. Len(wire) \in Nat
  BY <1>1, LenProperties
<1>3. SubSeq(wire, 1, k) \in Seq(Byte) /\ Len(SubSeq(wire, 1, k)) = k
  <2>1. 1 \in Nat \ {0} /\ k \in 0 .. Len(wire) /\ k - 1 + 1 = k /\ 1 <= k
    BY <1>1, <1>2
  <2> QED
    BY <1>1, <2>1, PartType
<1>4. wire' = SubSeq(wire, k + 1, Len(wire)) /\ Put(SubSeq(wire, 1, k))
  BY DEF Recv
<1>5. SubSeq(wire, k + 1, Len(wire)) \in Seq(Byte)
  <2>1. k + 1 \in Nat \ {0} /\ Len(wire) \in 0 .. Len(wire)
    BY <1>1, <1>2
  <2> QED
    BY <1>1, <2>1, PartType
<1> QED
  BY <1>1, <1>2, <1>3, <1>4, <1>5

LEMMA SendType == ASSUME StreamTypeOK, NEW f \in Frames, Send(f) PROVE StreamTypeOK'
<1>1. wire' \in Seq(Byte) /\ sent' \in Seq(Byte)
  BY FrameType, ConcatProperties DEF StreamTypeOK, Send
<1>2. ends' \in Seq(Nat)
  <2>1. Len(sent) + Len(f) \in Nat
    BY FrameType, LenProperties DEF StreamTypeOK
  <2> QED
    BY <2>1, AppendProperties DEF StreamTypeOK, Send
<1>3. UNCHANGED <<ringVars, pc, consumed, delivered, missed, torn>>
  BY DEF Send
<1>4. RingTypeOK'
  BY <1>3 DEF StreamTypeOK, RingTypeOK, ringVars, ring
<1> QED
  BY <1>1, <1>2, <1>3, <1>4 DEF StreamTypeOK

LEMMA RecvType == ASSUME StreamTypeOK, NEW k \in 1 .. Chunk, Recv(k) PROVE StreamTypeOK'
<1>1. RingTypeOK'
  BY ChunkType, PutType DEF StreamTypeOK
<1>2. missed' \in Nat
  BY ChunkType DEF StreamTypeOK, Recv
<1>3. wire' \in Seq(Byte) /\ pc' = "pick" /\ UNCHANGED <<sent, ends, consumed, delivered, torn>>
  BY ChunkType DEF Recv
<1> QED
  BY <1>1, <1>2, <1>3 DEF StreamTypeOK

LEMMA PickType == ASSUME StreamTypeOK, Pick PROVE StreamTypeOK'
<1>1. RingTypeOK'
  BY PickMoves DEF StreamTypeOK, Pick
<1>2. consumed' \in Nat
  BY DEF StreamTypeOK, Pick
<1>3. torn' \in BOOLEAN
  <2>1. torn' = (torn \/ (Length >= 2 /\ m_start = Size))
    BY DEF Pick
  <2> QED
    BY <2>1
<1>4. delivered' \in Seq(PickedType)
  <2>1. delivered \in Seq(PickedType) /\ event' \in EventType
    BY <1>1 DEF StreamTypeOK, RingTypeOK, EventType
  <2>2. [number |-> consumed + 1, event |-> event'] \in PickedType
    BY <2>1 DEF PickedType, StreamTypeOK
  <2>3. \/ delivered' = delivered
        \/ delivered' = Append(delivered, [number |-> consumed + 1, event |-> event'])
    BY DEF Pick
  <2> QED
    BY <2>1, <2>2, <2>3, AppendProperties
<1>5. pc' \in {"recv", "pick"} /\ UNCHANGED <<wire, sent, ends, missed>>
  BY DEF Pick
<1> QED
  BY <1>1, <1>2, <1>3, <1>4, <1>5 DEF StreamTypeOK

LEMMA StreamTypeInit == Init => StreamTypeOK
<1> SUFFICES ASSUME Init PROVE StreamTypeOK
  OBVIOUS
<1>1. RingTypeOK
  <2>1. /\ m_dt \in [Cell -> Byte] /\ m_start \in Cell /\ m_end \in Cell
        /\ given \in Seq(Byte)
    BY EmptySeq, RingAssumption DEF Init, Cell
  <2>2. event \in EventType
    BY EmptySeq DEF Init, NoEvent, EventType
  <2> QED
    BY <2>1, <2>2 DEF RingTypeOK, Init, EventType
<1>2. wire \in Seq(Byte) /\ sent \in Seq(Byte) /\ ends \in Seq(Nat) /\ delivered \in Seq(PickedType)
  BY EmptySeq DEF Init
<1> QED
  BY <1>1, <1>2 DEF Init, StreamTypeOK

LEMMA StreamTypeStep == StreamTypeOK /\ [Next]_streamVars => StreamTypeOK'
<1>1. CASE UNCHANGED streamVars
  BY <1>1 DEF streamVars, ringVars, ring, StreamTypeOK, RingTypeOK
<1> QED
  BY <1>1, SendType, RecvType, PickType DEF Next
------------------------------------------------------------------------------
(* The frames in what was sent *)

\* The bytes sent are the frames, one behind the other.
EndsInv ==
    /\ Begin(Len(ends) + 1) = Len(sent)
    /\ \A i \in 1 .. Len(ends) :
         /\ Begin(i) \in Nat /\ ends[i] \in Nat
         /\ Begin(i) + 3 <= ends[i] /\ ends[i] <= Len(sent)
         /\ Frame(i) \in Frames

\* A frame behind a string of bytes, and what was there before.
LEMMA BehindString ==
    ASSUME NEW s \in Seq(Byte), NEW f \in Seq(Byte), Len(f) >= 3
    PROVE  /\ s \o f \in Seq(Byte) /\ Len(s \o f) = Len(s) + Len(f)
           /\ SubSeq(s \o f, Len(s) + 1, Len(s) + Len(f)) = f
           /\ \A b \in 0 .. Len(s) : SubSeq(s \o f, b + 1, Len(s) + Len(f)) = SubSeq(s, b + 1, Len(s)) \o f
           /\ \A b, e \in Nat : b < e /\ e <= Len(s) => SubSeq(s \o f, b + 1, e) = SubSeq(s, b + 1, e)
<1>1. /\ s \o f \in Seq(Byte) /\ Len(s \o f) = Len(s) + Len(f)
      /\ Len(s) \in Nat /\ Len(f) \in Nat
  BY ConcatProperties, LenProperties
<1>2. SubSeq(s \o f, Len(s) + 1, Len(s) + Len(f)) = f
  <2>1. /\ Len(s) + 1 \in Len(s) + 1 .. Len(s) + Len(f)
        /\ Len(s) + Len(f) \in Len(s) + 1 .. Len(s) + Len(f)
        /\ Len(s) + 1 - Len(s) = 1 /\ Len(s) + Len(f) - Len(s) = Len(f)
    BY <1>1
  <2>2. SubSeq(s \o f, Len(s) + 1, Len(s) + Len(f))
            = SubSeq(f, Len(s) + 1 - Len(s), Len(s) + Len(f) - Len(s))
    BY <2>1, SubSeqOfConcat2
  <2>3. SubSeq(f, 1, Len(f)) = f
    BY SubSeqFull
  <2> QED
    BY <2>1, <2>2, <2>3
<1>3. ASSUME NEW b \in Nat, NEW e \in Nat, b < e, e <= Len(s)
      PROVE  SubSeq(s \o f, b + 1, e) = SubSeq(s, b + 1, e)
  <2>1. b + 1 \in 1 .. Len(s) /\ e \in 1 .. Len(s)
    BY <1>1, <1>3
  <2> QED
    BY <2>1, SubSeqOfConcat1
<1>4. ASSUME NEW b \in 0 .. Len(s)
      PROVE  SubSeq(s \o f, b + 1, Len(s) + Len(f)) = SubSeq(s, b + 1, Len(s)) \o f
  <2>1. /\ b + 1 \in 1 .. Len(s \o f) + 1 /\ Len(s) \in (b + 1) - 1 .. Len(s \o f)
        /\ Len(s) + Len(f) \in Len(s) .. Len(s \o f)
    BY <1>1
  <2>2. SubSeq(s \o f, b + 1, Len(s)) \o SubSeq(s \o f, Len(s) + 1, Len(s) + Len(f))
            = SubSeq(s \o f, b + 1, Len(s) + Len(f))
    BY <1>1, <2>1, ConcatAdjacentSubSeq
  <2>3. SubSeq(s \o f, b + 1, Len(s)) = SubSeq(s, b + 1, Len(s))
    <3>1. CASE b < Len(s)
      BY <1>1, <1>3, <3>1
    <3>2. CASE b = Len(s)
      <4>1. Len(s) < b + 1 /\ b + 1 \in Int /\ Len(s) \in Int
        BY <1>1, <3>2
      <4> QED
        BY <4>1, SubSeqEmpty
    <3> QED
      BY <1>1, <3>1, <3>2
  <2> QED
    BY <1>2, <2>2, <2>3
<1> QED
  BY <1>1, <1>2, <1>3, <1>4

\* A new frame goes behind the others and leaves them where they were.
LEMMA SendKeeps ==
    ASSUME StreamTypeOK, EndsInv, NEW f \in Frames, Send(f)
    PROVE  /\ Len(ends) \in Nat /\ Len(ends') = Len(ends) + 1
           /\ ends'[Len(ends) + 1] = Len(sent') /\ Len(sent') = Len(sent) + Len(f)
           /\ \A i \in 1 .. Len(ends) : ends'[i] = ends[i] /\ Frame(i)' = Frame(i)
           /\ \A i \in 1 .. Len(ends) + 1 : Begin(i)' = Begin(i)
           /\ \A i : i = Len(ends) + 1 => Frame(i)' = f
<1>1. /\ Len(sent) \in Nat /\ Len(ends) \in Nat /\ f \in Seq(Byte) /\ Len(f) \in Nat /\ Len(f) >= 3
      /\ sent \in Seq(Byte) /\ ends \in Seq(Nat)
  BY FrameType, LenProperties DEF StreamTypeOK
<1>2. /\ sent' = sent \o f /\ ends' = Append(ends, Len(sent) + Len(f))
  BY DEF Send
<1>3. Len(sent') = Len(sent) + Len(f)
  BY <1>1, <1>2, BehindString
<1>4. /\ Len(ends') = Len(ends) + 1
      /\ \A i \in 1 .. Len(ends) : ends'[i] = ends[i]
      /\ ends'[Len(ends) + 1] = Len(sent) + Len(f)
  <2>1. Len(sent) + Len(f) \in Nat
    BY <1>1
  <2> QED
    BY <1>1, <1>2, <2>1, AppendProperties
<1>5. ASSUME NEW i \in 1 .. Len(ends) + 1 PROVE Begin(i)' = Begin(i)
  <2>1. i # 1 => i - 1 \in 1 .. Len(ends)
    BY <1>1
  <2> QED
    BY <1>4, <2>1 DEF Begin
<1>6. ASSUME NEW i \in 1 .. Len(ends) PROVE Frame(i)' = Frame(i)
  <2>1. Begin(i)' = Begin(i) /\ ends'[i] = ends[i]
    BY <1>1, <1>4, <1>5
  <2>2. Begin(i) \in Nat /\ ends[i] \in Nat /\ Begin(i) < ends[i] /\ ends[i] <= Len(sent)
    BY DEF EndsInv
  <2>3. \A b, e \in Nat : b < e /\ e <= Len(sent)
                             => SubSeq(sent \o f, b + 1, e) = SubSeq(sent, b + 1, e)
    BY <1>1, BehindString
  <2>4. SubSeq(sent \o f, Begin(i) + 1, ends[i]) = SubSeq(sent, Begin(i) + 1, ends[i])
    BY <2>2, <2>3
  <2> QED
    BY <1>2, <2>1, <2>4 DEF Frame
<1>7. ASSUME NEW i, i = Len(ends) + 1 PROVE Frame(i)' = f
  <2>1. Begin(i)' = Len(sent)
    BY <1>1, <1>5, <1>7 DEF EndsInv
  <2>2. ends'[i] = Len(sent) + Len(f)
    BY <1>4, <1>7
  <2>3. SubSeq(sent \o f, Len(sent) + 1, Len(sent) + Len(f)) = f
    BY <1>1, BehindString
  <2> QED
    BY <1>2, <2>1, <2>2, <2>3 DEF Frame
<1> QED
  BY <1>1, <1>3, <1>4, <1>5, <1>6, <1>7

LEMMA EndsStep == StreamTypeOK /\ EndsInv /\ [Next]_streamVars => EndsInv'
<1> SUFFICES ASSUME StreamTypeOK, EndsInv, [Next]_streamVars PROVE EndsInv'
  OBVIOUS
<1>1. ASSUME NEW f \in Frames, Send(f) PROVE EndsInv'
  <2>1. /\ Len(ends) \in Nat /\ Len(ends') = Len(ends) + 1
        /\ ends'[Len(ends) + 1] = Len(sent') /\ Len(sent') = Len(sent) + Len(f)
        /\ \A i \in 1 .. Len(ends) : ends'[i] = ends[i] /\ Frame(i)' = Frame(i)
        /\ \A i \in 1 .. Len(ends) + 1 : Begin(i)' = Begin(i)
        /\ \A i : i = Len(ends) + 1 => Frame(i)' = f
    BY <1>1, SendKeeps
  <2>2. Len(sent) \in Nat /\ Len(f) \in Nat /\ Len(f) >= 3
    BY FrameType, LenProperties DEF StreamTypeOK
  <2>3. Begin(Len(ends) + 1)' = Len(sent')
    <3>1. Len(ends') + 1 # 1 /\ Len(ends') + 1 - 1 = Len(ends) + 1
      BY <2>1
    <3> QED
      BY <2>1, <3>1 DEF Begin
  <2>4. ASSUME NEW i \in 1 .. Len(ends')
        PROVE  /\ Begin(i)' \in Nat /\ ends'[i] \in Nat
               /\ Begin(i)' + 3 <= ends'[i] /\ ends'[i] <= Len(sent')
               /\ Frame(i)' \in Frames
    <3>1. CASE i \in 1 .. Len(ends)
      <4>1. /\ Begin(i) \in Nat /\ ends[i] \in Nat
            /\ Begin(i) + 3 <= ends[i] /\ ends[i] <= Len(sent)
            /\ Frame(i) \in Frames
        BY <3>1 DEF EndsInv
      <4>2. Begin(i)' = Begin(i) /\ ends'[i] = ends[i] /\ Frame(i)' = Frame(i)
        BY <2>1, <3>1
      <4> QED
        BY <2>1, <2>2, <4>1, <4>2
    <3>2. CASE i = Len(ends) + 1
      <4>1. Begin(i)' = Len(sent)
        BY <2>1, <3>2 DEF EndsInv
      <4> QED
        BY <2>1, <2>2, <3>2, <4>1
    <3> QED
      BY <2>1, <3>1, <3>2
  <2> QED
    BY <2>3, <2>4 DEF EndsInv
<1>2. CASE UNCHANGED <<sent, ends>>
  BY <1>2 DEF EndsInv, Begin, Frame
<1> QED
  BY <1>1, <1>2 DEF Next, Recv, Pick, streamVars

LEMMA EndsInit == Init => EndsInv
<1> SUFFICES ASSUME Init PROVE EndsInv
  OBVIOUS
<1>1. ends = <<>> /\ Len(ends) = 0 /\ sent = <<>> /\ Len(sent) = 0
  BY DEF Init
<1> QED
  BY <1>1 DEF EndsInv, Begin
------------------------------------------------------------------------------
(* Where the buffer stands in what was sent *)

Kept == ~ torn /\ missed = 0
Start == Begin(consumed + 1)
Coming == Frame(consumed + 1)

\* m_start is at the beginning of the next frame, and what follows in the buffer
\* and on the wire are the bytes from there on.
StartInv == Kept =>
    /\ consumed <= Len(ends)
    /\ m_start = ROUND(Start)
    /\ Content \o wire = SubSeq(sent, Start + 1, Len(sent))

LEMMA StartKeepsFrames == StartInv => FramingKept
BY DEF StartInv, FramingKept, Kept, Start

\* The front of a string taken off.
LEMMA DropFront ==
    ASSUME NEW c \in Seq(Byte), NEW w \in Seq(Byte), NEW s \in Seq(Byte),
           NEW b \in 0 .. Len(s), NEW n \in 0 .. Len(c),
           c \o w = SubSeq(s, b + 1, Len(s))
    PROVE  SubSeq(c, n + 1, Len(c)) \o w = SubSeq(s, b + n + 1, Len(s))
<1> DEFINE rest == SubSeq(c, n + 1, Len(c))
           left == rest \o w
           right == SubSeq(s, b + n + 1, Len(s))
           both == c \o w
<1>1. Len(c) \in Nat /\ Len(w) \in Nat /\ Len(s) \in Nat /\ b \in Nat /\ n \in Nat
  BY LenProperties
<1>2. /\ both \in Seq(Byte) /\ Len(both) = Len(c) + Len(w)
      /\ \A i \in 1 .. Len(c) + Len(w) : both[i] = IF i <= Len(c) THEN c[i] ELSE w[i - Len(c)]
  BY ConcatProperties
<1>3. /\ Len(both) = Len(s) - b
      /\ \A i \in 1 .. Len(s) - b : both[i] = s[b + i]
  BY <1>1, RestType
<1>4. /\ rest \in Seq(Byte) /\ Len(rest) = Len(c) - n
      /\ \A i \in 1 .. Len(c) - n : rest[i] = c[n + i]
  BY <1>1, RestType
<1> HIDE DEF rest
<1>5. /\ left \in Seq(Byte) /\ Len(left) = Len(rest) + Len(w)
      /\ \A i \in 1 .. Len(rest) + Len(w) :
            left[i] = IF i <= Len(rest) THEN rest[i] ELSE w[i - Len(rest)]
  BY <1>4, ConcatProperties
<1>6. /\ right \in Seq(Byte) /\ Len(right) = Len(s) - (b + n)
      /\ \A i \in 1 .. Len(s) - (b + n) : right[i] = s[(b + n) + i]
  <2>1. b + n \in 0 .. Len(s)
    BY <1>1, <1>2, <1>3
  <2> QED
    BY <1>1, <2>1, RestType
<1> HIDE DEF left, right, both
<1>7. Len(left) = Len(right) /\ Len(left) = Len(c) - n + Len(w) /\ Len(left) \in Nat
  <2>1. Len(left) = Len(c) - n + Len(w)
    BY <1>4, <1>5
  <2>2. Len(c) + Len(w) = Len(s) - b
    BY <1>2, <1>3
  <2>3. Len(right) = Len(s) - (b + n)
    BY <1>6
  <2> QED
    BY <1>1, <2>1, <2>2, <2>3
<1>8. ASSUME NEW i \in 1 .. Len(left) PROVE left[i] = right[i]
  <2>1. i \in Nat /\ n + i \in 1 .. Len(c) + Len(w) /\ i \in 1 .. Len(s) - (b + n)
        /\ n + i \in 1 .. Len(s) - b /\ b + (n + i) = (b + n) + i
    <3>0. Len(c) + Len(w) = Len(s) - b
      BY <1>2, <1>3
    <3>1. /\ i \in Nat /\ i >= 1 /\ i <= Len(c) - n + Len(w)
          /\ Len(c) + Len(w) = Len(s) - b /\ Len(c) - n + Len(w) = Len(s) - (b + n)
      BY <1>1, <1>7, <3>0
    <3>2. n + i \in 1 .. Len(c) + Len(w)
      BY <1>1, <3>1
    <3>3. i \in 1 .. Len(s) - (b + n)
      BY <1>1, <3>1
    <3>4. b + (n + i) = (b + n) + i
      BY <1>1, <3>1
    <3> QED
      BY <3>1, <3>2, <3>3, <3>4
  <2>2. both[n + i] = s[(b + n) + i] /\ right[i] = s[(b + n) + i]
    BY <1>3, <1>6, <2>1
  <2>3. CASE i <= Len(c) - n
    <3>1. n + i <= Len(c) /\ i \in 1 .. Len(c) - n
      BY <1>1, <2>1, <2>3
    <3>2. left[i] = rest[i] /\ rest[i] = c[n + i] /\ both[n + i] = c[n + i]
      BY <1>2, <1>4, <1>5, <1>7, <2>1, <2>3, <3>1
    <3> QED
      BY <2>2, <3>2
  <2>4. CASE ~ (i <= Len(c) - n)
    <3>1. ~ (n + i <= Len(c)) /\ i - Len(rest) = (n + i) - Len(c)
      BY <1>1, <1>4, <2>1, <2>4
    <3>2. left[i] = w[i - Len(rest)] /\ both[n + i] = w[(n + i) - Len(c)]
      BY <1>2, <1>4, <1>5, <1>7, <2>1, <2>4, <3>1
    <3> QED
      BY <2>2, <3>1, <3>2
  <2> QED
    BY <2>3, <2>4
<1> QED
  BY <1>5, <1>6, <1>7, <1>8, SeqEqual DEF left, right, rest

\* The buffer holds the beginning of what is left, and of the next frame.
LEMMA Here ==
    ASSUME StreamTypeOK, EndsInv, StartInv, Kept
    PROVE  /\ Len(sent) \in Nat /\ Len(wire) \in Nat /\ Len(ends) \in Nat
           /\ Start \in 0 .. Len(sent)
           /\ Length \in 0 .. Size /\ Length \in Nat /\ Content \in Seq(Byte) /\ Len(Content) = Length
           /\ Start + Length + Len(wire) = Len(sent)
           /\ \A i \in 1 .. Length : Content[i] = sent[Start + i]
           /\ consumed = Len(ends) => Length = 0 /\ Len(wire) = 0
<1>1. Len(sent) \in Nat /\ Len(wire) \in Nat /\ Len(ends) \in Nat /\ consumed \in Nat
      /\ wire \in Seq(Byte) /\ sent \in Seq(Byte)
  BY LenProperties DEF StreamTypeOK
<1>2. /\ Length \in 0 .. Size /\ Length \in Nat /\ Content \in Seq(Byte) /\ Len(Content) = Length
  BY ContentType, RingAssumption DEF StreamTypeOK
<1>3. consumed <= Len(ends) /\ Content \o wire = SubSeq(sent, Start + 1, Len(sent))
  BY DEF StartInv
<1>4. Start \in 0 .. Len(sent) /\ (consumed = Len(ends) => Start = Len(sent))
  <2>1. CASE consumed = Len(ends)
    BY <1>1, <2>1 DEF EndsInv, Start
  <2>2. CASE consumed # Len(ends)
    <3>1. consumed + 1 \in 1 .. Len(ends)
      BY <1>1, <1>3, <2>2
    <3>2. /\ Begin(consumed + 1) \in Nat /\ ends[consumed + 1] \in Nat
          /\ Begin(consumed + 1) + 3 <= ends[consumed + 1] /\ ends[consumed + 1] <= Len(sent)
      BY <3>1 DEF EndsInv
    <3> QED
      BY <1>1, <2>2, <3>2 DEF Start
  <2> QED
    BY <2>1, <2>2
<1> HIDE DEF Start
<1> DEFINE both == Content \o wire
<1>5. /\ Len(both) = Length + Len(wire)
      /\ \A i \in 1 .. Length + Len(wire) :
            both[i] = IF i <= Length THEN Content[i] ELSE wire[i - Length]
  BY <1>1, <1>2, ConcatProperties
<1>6. /\ Len(both) = Len(sent) - Start
      /\ \A i \in 1 .. Len(sent) - Start : both[i] = sent[Start + i]
  BY <1>1, <1>3, <1>4, RestType
<1> HIDE DEF both
<1>7. Start + Length + Len(wire) = Len(sent)
  <2>1. Length + Len(wire) = Len(sent) - Start
    BY <1>5, <1>6
  <2>2. Length \in Nat /\ Len(wire) \in Nat /\ Len(sent) \in Nat /\ Start \in Nat
    BY <1>1, <1>2, <1>4
  <2> QED
    BY <2>1, <2>2
<1>8. ASSUME NEW i \in 1 .. Length PROVE Content[i] = sent[Start + i]
  <2>1. i \in 1 .. Length + Len(wire) /\ i \in 1 .. Len(sent) - Start /\ i <= Length
    BY <1>1, <1>2, <1>4, <1>7
  <2> QED
    BY <1>5, <1>6, <2>1
<1>9. consumed = Len(ends) => Length = 0 /\ Len(wire) = 0
  BY <1>1, <1>2, <1>4, <1>7
<1> QED
  BY <1>1, <1>2, <1>4, <1>7, <1>8, <1>9

LEMMA HereComing ==
    ASSUME StreamTypeOK, EndsInv, StartInv, Kept, consumed < Len(ends)
    PROVE  /\ consumed + 1 \in 1 .. Len(ends)
           /\ Coming \in Frames /\ Coming \in Seq(Byte)
           /\ Len(Coming) \in Nat /\ Len(Coming) >= 3
           /\ ends[consumed + 1] = Start + Len(Coming)
           /\ \A i \in 1 .. Len(Coming) : i <= Length => Coming[i] = Content[i]
<1>1. Len(sent) \in Nat /\ Len(ends) \in Nat /\ consumed \in Nat /\ sent \in Seq(Byte)
  BY LenProperties DEF StreamTypeOK
<1>2. consumed + 1 \in 1 .. Len(ends)
  BY <1>1
<1>3. /\ Start \in Nat /\ ends[consumed + 1] \in Nat
      /\ Start + 3 <= ends[consumed + 1] /\ ends[consumed + 1] <= Len(sent)
      /\ Coming \in Frames
  BY <1>2 DEF EndsInv, Start, Coming
<1>4. Coming = SubSeq(sent, Start + 1, ends[consumed + 1])
  BY DEF Coming, Frame, Start
<1>5. Coming \in Seq(Byte) /\ Len(Coming) \in Nat /\ Len(Coming) >= 3
  BY <1>3, FrameType
<1> DEFINE e == ends[consumed + 1]
<1>6. /\ Len(Coming) = e - Start
      /\ \A i \in 1 .. e - Start : Coming[i] = sent[Start + i]
  <2>1. Start \in 0 .. Len(sent) /\ e \in Start .. Len(sent)
    BY <1>1, <1>3
  <2> QED
    BY <1>1, <1>4, <2>1, RestType
<1>7. ASSUME NEW i \in 1 .. Len(Coming), i <= Length PROVE Coming[i] = Content[i]
  <2>1. Length \in Nat /\ \A k \in 1 .. Length : Content[k] = sent[Start + k]
    BY Here
  <2>2. i \in 1 .. Length /\ i \in 1 .. e - Start
    BY <1>5, <1>6, <1>7, <2>1
  <2> QED
    BY <1>6, <2>1, <2>2
<1> QED
  BY <1>2, <1>3, <1>5, <1>6, <1>7
------------------------------------------------------------------------------
(* What the steps do there *)

LEMMA Regroup == \A c, w, f \in Seq(Byte) : (c \o w) \o f = c \o (w \o f)
BY ConcatAssociative

LEMMA StartInit == Init => StartInv
<1> SUFFICES ASSUME Init PROVE StartInv
  OBVIOUS
<1>1. m_start = 0 /\ m_end = 0 /\ wire = <<>> /\ sent = <<>> /\ ends = <<>> /\ consumed = 0
  BY DEF Init
<1>2. Start = 0 /\ Len(ends) = 0 /\ Len(sent) = 0
  BY <1>1 DEF Start, Begin
<1>3. ROUND(0) = 0
  BY RoundValue, RingAssumption
<1>4. Content = <<>>
  BY <1>1 DEF Content, Length
<1>5. Content \o wire = <<>> /\ SubSeq(sent, 1, 0) = <<>>
  BY <1>1, <1>4, EmptySeq, ConcatEmptySeq, SubSeqEmpty
<1> QED
  BY <1>1, <1>2, <1>3, <1>5 DEF StartInv

\* A frame is sent behind what is there.
LEMMA StartSend ==
    ASSUME StreamTypeOK, EndsInv, StartInv, NEW f \in Frames, Send(f), Kept
    PROVE  /\ UNCHANGED <<Start, Content, Length, m_start, event, pc, consumed, delivered, missed, torn>>
           /\ consumed < Len(ends) => Coming' = Coming
           /\ Len(ends') = Len(ends) + 1
           /\ StartInv'
<1>1. UNCHANGED <<m_dt, m_start, m_end, event, pc, consumed, delivered, missed, torn>>
      /\ wire' = wire \o f /\ sent' = sent \o f
  BY DEF Send, ringVars, ring
<1>2. UNCHANGED <<Content, Length>>
  BY <1>1 DEF Content, Length
<1>3. /\ Len(ends) \in Nat /\ Len(ends') = Len(ends) + 1
      /\ \A i \in 1 .. Len(ends) : Frame(i)' = Frame(i)
      /\ \A i \in 1 .. Len(ends) + 1 : Begin(i)' = Begin(i)
      /\ Len(sent') = Len(sent) + Len(f)
  BY SendKeeps
<1>4. consumed \in Nat /\ consumed <= Len(ends) /\ consumed + 1 \in 1 .. Len(ends) + 1
  BY <1>3 DEF StreamTypeOK, StartInv
<1>5. ends' = Append(ends, Len(sent) + Len(f)) /\ Len(sent) + Len(f) \in Nat /\ ends \in Seq(Nat)
  BY FrameType, LenProperties DEF Send, StreamTypeOK
<1>6. Start' = Start
  <2>1. \A i : i = consumed + 1 => Begin(i)' = Begin(i)
    BY <1>3, <1>4
  <2>2. \A i : i = consumed + 1 => Start = Begin(i) /\ Start' = Begin(i)'
    BY <1>1 DEF Start, Begin
  <2> QED
    BY <2>1, <2>2
<1>7. consumed < Len(ends) => Coming' = Coming
  <2>1. ASSUME consumed < Len(ends), NEW i, i = consumed + 1 PROVE Frame(i)' = Frame(i)
    BY <1>3, <1>4, <2>1
  <2>2. \A i : i = consumed + 1 => Coming = Frame(i) /\ Coming' = Frame(i)'
    BY <1>1 DEF Coming, Frame, Begin
  <2> QED
    BY <2>1, <2>2
<1>8. Content' \o wire' = SubSeq(sent', Start' + 1, Len(sent'))
  <2>1. /\ Content \in Seq(Byte) /\ wire \in Seq(Byte) /\ sent \in Seq(Byte)
        /\ f \in Seq(Byte) /\ Len(f) >= 3 /\ Start \in 0 .. Len(sent)
    BY Here, FrameType DEF StreamTypeOK
  <2>2. Content \o (wire \o f) = (Content \o wire) \o f
    BY <2>1, Regroup
  <2>3. SubSeq(sent \o f, Start + 1, Len(sent) + Len(f)) = SubSeq(sent, Start + 1, Len(sent)) \o f
    BY <2>1, BehindString
  <2> QED
    BY <1>1, <1>2, <1>3, <1>6, <2>2, <2>3 DEF StartInv
<1>9. StartInv'
  <2>1. m_start' = ROUND(Start') /\ consumed' <= Len(ends')
    BY <1>1, <1>3, <1>4, <1>6 DEF StartInv
  <2> QED
    BY <1>8, <2>1 DEF StartInv
<1> QED
  BY <1>1, <1>2, <1>3, <1>6, <1>7, <1>9

\* A chunk goes from the wire into the buffer.
LEMMA StartRecv ==
    ASSUME StreamTypeOK, EndsInv, StartInv, NEW k \in 1 .. Chunk, Recv(k), Kept
    PROVE  /\ missed' = 0 <=> Length + k <= Size
           /\ Kept' => Start' = Start /\ m_start' = m_start /\ StartInv'
<1> DEFINE chunk == SubSeq(wire, 1, k)
           left == SubSeq(wire, k + 1, Len(wire))
<1>1. /\ k \in 1 .. Len(wire) /\ Len(wire) \in Nat /\ wire \in Seq(Byte)
      /\ chunk \in Seq(Byte) /\ Len(chunk) = k
      /\ wire' = left /\ left \in Seq(Byte)
      /\ Put(chunk)
  BY ChunkType DEF StreamTypeOK
<1>2. chunk \o left = wire
  <2>1. 1 \in 1 .. Len(wire) + 1 /\ k \in 1 - 1 .. Len(wire) /\ Len(wire) \in k .. Len(wire)
    BY <1>1
  <2>2. chunk \o left = SubSeq(wire, 1, Len(wire))
    BY <1>1, <2>1, ConcatAdjacentSubSeq
  <2> QED
    BY <1>1, <2>2, SubSeqFull
<1>3. UNCHANGED <<sent, ends, consumed, torn>> /\ missed' = missed + (IF result' THEN 0 ELSE k)
  BY DEF Recv
<1> HIDE DEF chunk, left
<1>4. /\ Fits(chunk) => Content' = Content \o chunk /\ result' = TRUE
      /\ ~ Fits(chunk) => result' = FALSE
      /\ Fits(chunk) <=> Length + k <= Size
  BY <1>1, PutContent, Here DEF StreamTypeOK
<1>5. missed = 0 /\ ~ torn
  BY DEF Kept
<1>6. missed' = 0 <=> Fits(chunk)
  BY <1>1, <1>3, <1>4, <1>5
<1>7. UNCHANGED <<m_start, Start>>
  BY <1>1, <1>3 DEF Put, Start, Begin
<1>8. ASSUME Kept' PROVE StartInv'
  <2>1. Content' = Content \o chunk
    BY <1>4, <1>6, <1>8 DEF Kept
  <2>2. Content' \o wire' = Content \o wire
    <3>1. Content \in Seq(Byte)
      BY Here
    <3>2. (Content \o chunk) \o left = Content \o (chunk \o left)
      BY <1>1, <3>1, Regroup
    <3> QED
      BY <1>1, <1>2, <2>1, <3>2
  <2> QED
    BY <1>3, <1>7, <2>2 DEF StartInv
<1> QED
  BY <1>4, <1>6, <1>7, <1>8
------------------------------------------------------------------------------
(* What pick_event does there *)

\* A body as an event.
Split(b) == [name   |-> SubSeq(b, 1, Terminator(b) - 1),
             packet |-> SubSeq(b, Terminator(b) + 1, Len(b))]

\* The next frame leaves the buffer; b is what was read of it.
Takes(b) ==
    /\ b \in Body(Len(Coming) - 2)
    /\ m_start' = ROUND(m_start + Len(Coming))
    /\ consumed' = consumed + 1
    /\ \/ /\ Terminator(b) = 0
          /\ UNCHANGED delivered
       \/ /\ pc' = "pick"
          /\ delivered' = Append(delivered, [number |-> consumed + 1, event |-> Split(b)])

\* The next frame stays, or there is none.
Stays ==
    /\ UNCHANGED <<m_start, consumed, delivered>>
    /\ consumed < Len(ends) =>
           \/ Length < Len(Coming)
           \/ /\ Len(Coming) <= Length
              /\ \E b \in Body(Len(Coming) - 2) : Terminator(b) # 0 /\ Split(b).packet \notin Packets

\* A body of the length that the code computes.
LEMMA CompleteKinds ==
    ASSUME StreamTypeOK, NEW n \in 3 .. Length, NEW b, Complete(n, b)
    PROVE  \/ /\ UNCHANGED m_start /\ result' = FALSE
              /\ Terminator(b) # 0 /\ Split(b).packet \notin Packets
           \/ /\ m_start' = ROUND(m_start + n) /\ m_start' # m_start
              /\ \/ Terminator(b) = 0 /\ result' = FALSE
                 \/ result' = TRUE /\ event' = Split(b)
<1>1. m_start \in Cell /\ n \in 3 .. Size
  BY LengthType, RingAssumption DEF StreamTypeOK, RingTypeOK
<1>2. n \in 0 .. Size /\ 2 \in 0 .. Size /\ n - 2 \in 0 .. Size - 2 /\ 2 + (n - 2) = n
  BY <1>1, RingAssumption
<1>3. ROUND(FirstByte + (n - 2)) = ROUND(m_start + n)
  <2>1. ROUND(ROUND(m_start + 2) + (n - 2)) = ROUND(m_start + (2 + (n - 2)))
    BY <1>1, <1>2, RoundTwice
  <2> QED
    BY <1>2, <2>1 DEF FirstByte
<1>4. ROUND(m_start + n) # m_start
  <2>1. ROUND(m_start + n) = IF m_start + n <= Size THEN m_start + n ELSE m_start + n - (Size + 1)
    BY <1>1, <1>2, RoundSum
  <2> QED
    BY <1>1, <2>1, RingAssumption DEF Cell
<1>5. CASE Terminator(b) = 0
  BY <1>4, <1>5 DEF Complete
<1>6. CASE Terminator(b) # 0 /\ SubSeq(b, Terminator(b) + 1, Len(b)) \in Packets
  BY <1>3, <1>4, <1>6 DEF Complete, Split
<1>7. CASE Terminator(b) # 0 /\ SubSeq(b, Terminator(b) + 1, Len(b)) \notin Packets
  BY <1>7 DEF Complete, Split, Fail, ring
<1> QED
  BY <1>5, <1>6, <1>7

\* The length that pick_event reads is that of the next frame.
LEMMA LengthRead ==
    ASSUME StreamTypeOK, EndsInv, StartInv, Kept, Length >= 2, m_start # Size
    PROVE  /\ consumed < Len(ends)
           /\ \A lo \in AT(m_start + 1) : PacketLength(m_dt[m_start], lo) = Len(Coming)
<1>1. /\ Length \in 0 .. Size /\ Length \in Nat /\ Len(ends) \in Nat /\ consumed \in Nat
      /\ m_start \in Cell
  BY Here DEF StreamTypeOK, RingTypeOK
<1>2. consumed < Len(ends)
  <2>1. consumed <= Len(ends)
    BY DEF StartInv
  <2>2. consumed = Len(ends) => Length = 0
    BY Here
  <2> QED
    BY <1>1, <2>1, <2>2
<1>3. /\ Coming \in Frames /\ Coming \in Seq(Byte) /\ Len(Coming) >= 3
      /\ \A i \in 1 .. Len(Coming) : i <= Length => Coming[i] = Content[i]
  BY <1>2, HereComing
<1>4. 1 \in 1 .. Len(Coming) /\ 2 \in 1 .. Len(Coming) /\ Len(Coming) \in Nat
  BY <1>2, HereComing
<1>5. Coming[1] = Content[1] /\ Coming[2] = Content[2]
  BY <1>1, <1>3, <1>4
<1>6. Content[1] = m_dt[m_start] /\ Content[2] = m_dt[m_start + 1]
  <2>1. m_start + 1 \in Cell /\ m_start \in 0 .. Size
    BY <1>1, RingAssumption DEF Cell
  <2>2. ROUND(m_start) = m_start /\ ROUND(m_start + 1) = m_start + 1
    <3>1. m_start \in 0 .. 2 * Size + 1 /\ m_start + 1 \in 0 .. 2 * Size + 1
      BY <2>1, RingAssumption DEF Cell
    <3>2. ROUND(m_start) = m_start
      BY <2>1, <3>1, RoundValue
    <3>3. \A p : p = m_start + 1 => p \in 0 .. 2 * Size + 1 /\ p <= Size /\ ROUND(p) = p
      BY <2>1, <3>1, RoundValue DEF Cell
    <3> QED
      BY <3>2, <3>3
  <2>3. 1 \in 1 .. Length /\ 2 \in 1 .. Length
    BY <1>1
  <2>4. m_start + 1 - 1 = m_start /\ m_start + 2 - 1 = m_start + 1
    BY <2>1
  <2> QED
    BY <2>2, <2>3, <2>4 DEF Content
<1>7. m_start + 1 \in Cell
  BY <1>1, RingAssumption DEF Cell
<1>8. Len(Coming) = 256 * m_dt[m_start] + m_dt[m_start + 1]
  BY <1>3, <1>5, <1>6, FrameType
<1>9. ASSUME NEW lo \in AT(m_start + 1) PROVE PacketLength(m_dt[m_start], lo) = Len(Coming)
  <2>1. lo = m_dt[m_start + 1]
    BY <1>7 DEF AT
  <2>2. ~ (Len(Coming) < 3)
    BY <1>3, <1>4
  <2> QED
    BY <1>8, <2>1, <2>2 DEF PacketLength
<1> QED
  BY <1>2, <1>9

LEMMA PickKinds ==
    ASSUME StreamTypeOK, EndsInv, StartInv, Kept, Pick, ~ torn'
    PROVE  /\ UNCHANGED <<m_dt, m_end, wire, sent, ends, missed>>
           /\ \/ Stays
              \/ /\ consumed < Len(ends) /\ Len(Coming) <= Length
                 /\ \E b : Takes(b)
<1>1. /\ UNCHANGED <<wire, sent, ends, missed>> /\ PickEvent
      /\ consumed' = consumed + (IF m_start' = m_start THEN 0 ELSE 1)
      /\ delivered' = IF result' THEN Append(delivered, [number |-> consumed + 1, event |-> event'])
                      ELSE delivered
      /\ pc' = IF result' THEN "pick" ELSE "recv"
  BY DEF Pick
<1>2. UNCHANGED <<m_dt, m_end>>
  BY <1>1, PickMoves DEF StreamTypeOK
<1>3. Length >= 2 => m_start # Size
  BY DEF Pick
<1>4. Length \in Nat /\ consumed \in Nat /\ consumed + 0 = consumed
  BY Here DEF StreamTypeOK
<1>5. Incomplete => UNCHANGED m_start /\ result' = FALSE
  BY DEF Incomplete, Fail, ring
<1>6. UNCHANGED m_start /\ result' = FALSE => UNCHANGED <<m_start, consumed, delivered>>
  BY <1>1, <1>4
<1>7. CASE ~ (Length >= 2)
  <2>1. Incomplete
    BY <1>1, <1>7 DEF PickEvent
  <2>2. consumed < Len(ends) => Length < Len(Coming)
    <3>1. consumed < Len(ends) => Len(Coming) \in Nat /\ Len(Coming) >= 3
      BY HereComing
    <3> QED
      BY <1>4, <1>7, <3>1
  <2>3. Stays
    BY <1>5, <1>6, <2>1, <2>2 DEF Stays
  <2> QED
    BY <1>1, <1>2, <2>3
<1>8. CASE Length >= 2
  <2>1. /\ consumed < Len(ends)
        /\ \A lo \in AT(m_start + 1) : PacketLength(m_dt[m_start], lo) = Len(Coming)
    BY <1>3, <1>8, LengthRead
  <2>2. Len(Coming) \in Nat /\ Len(Coming) >= 3
    BY <2>1, HereComing
  <2>3. CASE Incomplete
    <3>1. Length < Len(Coming)
      BY <1>4, <1>8, <2>1, <2>3 DEF Incomplete
    <3>2. Stays
      BY <1>5, <1>6, <2>3, <3>1 DEF Stays
    <3> QED
      BY <1>1, <1>2, <3>2
  <2>4. CASE ~ Incomplete
    <3> DEFINE n == Len(Coming)
    <3>1. PICK b \in Body(n - 2) : n <= Length /\ Complete(n, b)
      BY <1>1, <2>1, <2>4 DEF PickEvent
    <3>2. n \in 3 .. Length /\ n <= Length
      BY <1>4, <2>2, <3>1
    <3> HIDE DEF n
    <3>3. CASE UNCHANGED m_start /\ result' = FALSE
               /\ Terminator(b) # 0 /\ Split(b).packet \notin Packets
      <4>1. Stays
        BY <1>6, <3>1, <3>3 DEF Stays, n
      <4> QED
        BY <1>1, <1>2, <4>1
    <3>4. CASE /\ m_start' = ROUND(m_start + n) /\ m_start' # m_start
               /\ \/ Terminator(b) = 0 /\ result' = FALSE
                  \/ result' = TRUE /\ event' = Split(b)
      <4>1. consumed' = consumed + 1
        BY <1>1, <3>4
      <4>2. Takes(b)
        BY <1>1, <3>1, <3>4, <4>1 DEF Takes, n
      <4> QED
        BY <1>1, <1>2, <2>1, <3>2, <4>2 DEF n
    <3> QED
      BY <3>1, <3>2, <3>3, <3>4, CompleteKinds
  <2> QED
    BY <2>3, <2>4
<1> QED
  BY <1>7, <1>8

\* A frame that does not pass the last cell is read as it was sent.
LEMMA BodyWhole ==
    ASSUME StreamTypeOK, EndsInv, StartInv, Kept,
           consumed < Len(ends), ~ Straddles(consumed + 1), Len(Coming) <= Length,
           NEW b \in Body(Len(Coming) - 2)
    PROVE  b = SubSeq(Coming, 3, Len(Coming))
<1> DEFINE n == Len(Coming)
           in == n - 2
           cells == [i \in 1 .. in |-> m_dt[FirstByte + i - 1]]
<1>1. /\ Coming \in Seq(Byte) /\ n \in Nat /\ n >= 3
      /\ ends[consumed + 1] = Start + n /\ consumed + 1 \in 1 .. Len(ends)
      /\ \A i \in 1 .. n : i <= Length => Coming[i] = Content[i]
  BY HereComing
<1>2. /\ Length \in 0 .. Size /\ Length \in Nat /\ Start \in Nat
      /\ m_start = ROUND(Start) /\ m_start \in Cell /\ m_dt \in [Cell -> Byte]
  <2>1. Length \in 0 .. Size /\ Length \in Nat /\ Start \in 0 .. Len(sent) /\ Len(sent) \in Nat
    BY Here
  <2>2. m_start = ROUND(Start)
    BY DEF StartInv
  <2> QED
    BY <2>1, <2>2 DEF StreamTypeOK, RingTypeOK
<1>3. /\ n \in 3 .. Size /\ in \in Nat /\ in \in 1 .. Size - 2 /\ n <= Length /\ in = n - 2
      /\ Size \in Nat
  BY <1>1, <1>2, RingAssumption
<1>4. ~ (m_start + 2 <= Size /\ m_start + n - 1 > Size)
  <2>1. ends[consumed + 1] - Begin(consumed + 1) = n
    BY <1>1, <1>2 DEF Start
  <2>2. ROUND(Begin(consumed + 1)) = m_start
    BY <1>2 DEF Start
  <2> QED
    BY <2>1, <2>2 DEF Straddles
<1>5. FirstByte = (IF m_start + 2 <= Size THEN m_start + 2 ELSE m_start + 2 - (Size + 1))
      /\ FirstByte \in Cell
  <2>1. 2 \in 0 .. Size
    BY <1>3
  <2> QED
    BY <1>2, <2>1, RoundSum DEF FirstByte
<1>7. b \in Seq(Byte) /\ Len(b) = in
  BY <1>3, BodyType DEF StreamTypeOK
<1> HIDE DEF n, in
<1>6. FirstByte + in - 1 <= Size
  <2>1. m_start \in Nat /\ m_start <= Size /\ n \in Nat /\ n <= Size /\ n >= 3 /\ in = n - 2 /\ Size \in Nat
    BY <1>2, <1>3 DEF Cell
  <2>2. CASE m_start + 2 <= Size
    <3>1. FirstByte = m_start + 2 /\ m_start + n - 1 <= Size
      BY <1>4, <1>5, <2>1, <2>2
    <3> QED
      BY <2>1, <3>1
  <2>3. CASE ~ (m_start + 2 <= Size)
    <3>1. FirstByte = m_start + 2 - (Size + 1)
      BY <1>5, <2>3
    <3> QED
      BY <2>1, <3>1
  <2> QED
    BY <2>2, <2>3
<1>12. \A j \in 1 .. in : FirstByte + j - 1 \in Cell /\ FirstByte + (j - 1) = FirstByte + j - 1
  <2> DEFINE a == FirstByte
  <2>1. a \in 0 .. Size /\ a + in - 1 <= Size /\ in \in Nat /\ Size \in Nat
    BY <1>3, <1>5, <1>6 DEF Cell
  <2> HIDE DEF a
  <2>2. \A j \in 1 .. in : a + j - 1 \in 0 .. Size /\ a + (j - 1) = a + j - 1
    BY <2>1
  <2> QED
    BY <2>2 DEF a, Cell
<1>8. ASSUME NEW i \in 1 .. in PROVE b[i] = m_dt[FirstByte + i - 1]
  <2>1. PICK g \in [1 .. in - in -> Garbage] : b = cells \o g
    BY <1>6 DEF Body, n, in
  <2>2. cells \in [1 .. in -> Byte]
    BY <1>2, <1>12
  <2>3. cells[i] = m_dt[FirstByte + i - 1]
    OBVIOUS
  <2> HIDE DEF cells
  <2>4. cells \in Seq(Byte) /\ Len(cells) = in
    BY <1>3, <2>2, FunctionIsSeq
  <2>5. g \in Seq(Byte)
    <3>1. in - in = 0 /\ 0 \in Nat
      BY <1>3
    <3>2. g \in [1 .. 0 -> Byte]
      BY <2>1, <3>1, RingAssumption
    <3> QED
      BY <3>1, <3>2, FunctionIsSeq
  <2>6. Len(g) \in Nat
    BY <2>5, LenProperties
  <2>7. \A j \in 1 .. Len(cells) + Len(g) :
            (cells \o g)[j] = IF j <= Len(cells) THEN cells[j] ELSE g[j - Len(cells)]
    BY <2>4, <2>5, ConcatProperties
  <2>8. i \in 1 .. Len(cells) + Len(g) /\ i <= Len(cells)
    BY <1>3, <2>4, <2>6
  <2>9. (cells \o g)[i] = cells[i]
    BY <2>7, <2>8
  <2> QED
    BY <2>1, <2>3, <2>9
<1>9. ASSUME NEW i \in 1 .. in PROVE Coming[2 + i] = m_dt[FirstByte + i - 1]
  <2>1. /\ i - 1 \in 0 .. Size - 2 /\ 2 \in 0 .. Size /\ 2 + (i - 1) = i + 1
        /\ i + 1 = 2 + i - 1 /\ i \in Nat
    BY <1>3
  <2>2. ROUND(ROUND(m_start + 2) + (i - 1)) = ROUND(m_start + (2 + (i - 1)))
    BY <1>2, <2>1, RoundTwice
  <2>3. FirstByte + (i - 1) = FirstByte + i - 1 /\ FirstByte + (i - 1) \in 0 .. Size
    BY <1>12 DEF Cell
  <2>4. ROUND(FirstByte + (i - 1)) = FirstByte + i - 1
    <3>1. \A p \in 0 .. Size : ROUND(p) = p
      BY RoundValue, RingAssumption
    <3> QED
      BY <2>3, <3>1
  <2>5. m_start + (2 + (i - 1)) = m_start + (2 + i) - 1
    BY <1>2, <2>1, RingAssumption DEF Cell
  <2>6. 2 + i \in 1 .. Length /\ 2 + i \in 1 .. n
    BY <1>2, <1>3, <2>1
  <2>7. Content[2 + i] = m_dt[ROUND(m_start + (2 + i) - 1)]
    BY <2>6 DEF Content
  <2>8. Coming[2 + i] = Content[2 + i]
    BY <1>1, <1>2, <2>6
  <2> QED
    BY <2>2, <2>4, <2>5, <2>7, <2>8 DEF FirstByte
<1> DEFINE tail == SubSeq(Coming, 3, n)
<1>10. /\ tail \in Seq(Byte) /\ Len(tail) = in
       /\ \A i \in 1 .. in : tail[i] = Coming[2 + i]
  <2>1. 2 \in 0 .. n /\ n \in 2 .. n /\ 2 + 1 = 3
    BY <1>3
  <2> QED
    BY <1>1, <1>3, <2>1, RestType DEF n
<1> HIDE DEF tail
<1>11. b = tail
  BY <1>7, <1>8, <1>9, <1>10, SeqEqual
<1> QED
  BY <1>11 DEF tail, n

LEMMA StartValue == Start = IF consumed + 1 = 1 THEN 0 ELSE ends[(consumed + 1) - 1]
<1>1. \A i : Begin(i) = IF i = 1 THEN 0 ELSE ends[i - 1]
  BY DEF Begin
<1> QED
  BY <1>1 DEF Start

\* The next frame is gone, and m_start is behind it.
LEMMA StartTakes ==
    ASSUME StreamTypeOK, EndsInv, StartInv, Kept, consumed < Len(ends), Len(Coming) <= Length,
           NEW b, Takes(b), UNCHANGED <<m_dt, m_end, wire, sent, ends>>
    PROVE  StartInv'
<1> DEFINE n == Len(Coming)
<1>1. /\ n \in Nat /\ n >= 3 /\ ends[consumed + 1] = Start + n
      /\ consumed + 1 \in 1 .. Len(ends)
  BY HereComing
<1>2. /\ Length \in 0 .. Size /\ Length \in Nat /\ Start \in 0 .. Len(sent) /\ Len(sent) \in Nat
      /\ Content \in Seq(Byte) /\ Len(Content) = Length /\ Len(ends) \in Nat /\ consumed \in Nat
      /\ wire \in Seq(Byte) /\ sent \in Seq(Byte)
  BY Here DEF StreamTypeOK
<1>3. m_start' = ROUND(m_start + n) /\ consumed' = consumed + 1
  BY DEF Takes
<1>4. n \in 3 .. Length /\ n \in 0 .. Size /\ n \in 0 .. Len(Content)
  BY <1>1, <1>2, RingAssumption
<1>5. m_start = ROUND(Start) /\ Content \o wire = SubSeq(sent, Start + 1, Len(sent))
  BY DEF StartInv
<1>6. Start' = Start + n
  <2>1. consumed' + 1 # 1 /\ consumed' + 1 - 1 = consumed + 1
    BY <1>2, <1>3
  <2>2. (Start = IF consumed + 1 = 1 THEN 0 ELSE ends[(consumed + 1) - 1])'
    BY StartValue, PTL
  <2>3. Start' = ends'[(consumed' + 1) - 1]
    BY <2>1, <2>2
  <2>4. ends' = ends
    OBVIOUS
  <2>5. Start' = ends[consumed + 1]
    <3>1. \A i : i = (consumed' + 1) - 1 => i = consumed + 1
      BY <1>2, <1>3, <2>1
    <3>2. \A i : i = (consumed' + 1) - 1 => Start' = ends[i]
      BY <2>3, <2>4
    <3> QED
      BY <3>1, <3>2
  <2> QED
    BY <1>1, <2>5
<1>7. m_start' = ROUND(Start')
  <2>1. Start \in Nat
    BY <1>2
  <2>2. ROUND(ROUND(Start) + n) = ROUND(Start + n)
    BY <1>4, <2>1, RoundShift
  <2> QED
    BY <1>3, <1>5, <1>6, <2>2
<1>8. Content' = SubSeq(Content, n + 1, Len(Content))
  BY <1>3, <1>4, PickContent DEF StreamTypeOK
<1>9. SubSeq(Content, n + 1, Len(Content)) \o wire = SubSeq(sent, Start + n + 1, Len(sent))
  <2> DEFINE c == Content
             w == wire
             s == sent
             a == Start
  <2>1. c \in Seq(Byte) /\ w \in Seq(Byte) /\ s \in Seq(Byte) /\ a \in 0 .. Len(s) /\ n \in 0 .. Len(c)
        /\ c \o w = SubSeq(s, a + 1, Len(s))
    BY <1>2, <1>4, <1>5
  <2> HIDE DEF c, w, s, a, n
  <2>2. SubSeq(c, n + 1, Len(c)) \o w = SubSeq(s, a + n + 1, Len(s))
    BY <2>1, DropFront
  <2> QED
    BY <2>2 DEF c, w, s, a
<1> HIDE DEF n
<1>10. consumed' <= Len(ends')
  BY <1>1, <1>2, <1>3
<1>11. Content' \o wire' = SubSeq(sent', Start' + 1, Len(sent'))
  BY <1>6, <1>8, <1>9
<1> QED
  BY <1>7, <1>10, <1>11 DEF StartInv

\* What once went wrong stays so.
LEMMA KeptBefore == StreamTypeOK /\ [Next]_streamVars /\ Kept' => Kept
<1> SUFFICES ASSUME StreamTypeOK, [Next]_streamVars, Kept' PROVE Kept
  OBVIOUS
<1>1. ~ torn' /\ missed' = 0 /\ missed \in Nat /\ torn \in BOOLEAN
  BY DEF Kept, StreamTypeOK
<1>2. ASSUME NEW f \in Frames, Send(f) PROVE Kept
  BY <1>1, <1>2 DEF Send, Kept
<1>3. ASSUME NEW k \in 1 .. Chunk, Recv(k) PROVE Kept
  <2>1. k \in Nat
    BY <1>3, ChunkType
  <2>2. missed' = missed + (IF result' THEN 0 ELSE k) /\ torn' = torn
    BY <1>3 DEF Recv
  <2> QED
    BY <1>1, <2>1, <2>2 DEF Kept
<1>4. CASE Pick
  BY <1>1, <1>4 DEF Pick, Kept
<1>5. CASE UNCHANGED streamVars
  BY <1>1, <1>5 DEF streamVars, Kept
<1> QED
  BY <1>2, <1>3, <1>4, <1>5 DEF Next

LEMMA StartStep == StreamTypeOK /\ EndsInv /\ StartInv /\ [Next]_streamVars => StartInv'
<1> SUFFICES ASSUME StreamTypeOK, EndsInv, StartInv, [Next]_streamVars, Kept' PROVE StartInv'
  BY DEF StartInv
<1>1. Kept
  BY KeptBefore
<1>2. ASSUME NEW f \in Frames, Send(f) PROVE StartInv'
  BY <1>1, <1>2, StartSend
<1>3. ASSUME NEW k \in 1 .. Chunk, Recv(k) PROVE StartInv'
  BY <1>1, <1>3, StartRecv
<1>4. CASE Pick
  <2>1. ~ torn'
    BY DEF Kept
  <2>2. /\ UNCHANGED <<m_dt, m_end, wire, sent, ends, missed>>
        /\ \/ Stays
           \/ /\ consumed < Len(ends) /\ Len(Coming) <= Length
              /\ \E b : Takes(b)
    BY <1>1, <1>4, <2>1, PickKinds
  <2>3. CASE Stays
    <3>1. UNCHANGED <<m_dt, m_end, m_start, wire, sent, ends, consumed>>
      BY <2>2, <2>3 DEF Stays
    <3> QED
      BY <1>1, <3>1 DEF StartInv, Start, Begin, Content, Length, Kept
  <2>4. ASSUME NEW b, Takes(b), consumed < Len(ends), Len(Coming) <= Length PROVE StartInv'
    BY <1>1, <2>2, <2>4, StartTakes
  <2> QED
    BY <2>2, <2>3, <2>4
<1>5. CASE UNCHANGED streamVars
  BY <1>1, <1>5 DEF streamVars, ringVars, ring, StartInv, Start, Begin, Content, Length, Kept
<1> QED
  BY <1>2, <1>3, <1>4, <1>5 DEF Next

\* As long as put refused nothing and no length was read across the last cell,
\* the buffer and the wire hold the frames sent and not consumed, whatever the
\* frames, the size of the buffer, the chunks, and the order of sends, recvs and
\* picks: pick_event never loses the boundary between two events.
THEOREM FramesKept == Spec => []FramingKept
<1>1. Init => StreamTypeOK /\ EndsInv /\ StartInv
  BY StreamTypeInit, EndsInit, StartInit
<1>2. StreamTypeOK /\ EndsInv /\ StartInv /\ [Next]_streamVars => (StreamTypeOK /\ EndsInv /\ StartInv)'
  BY StreamTypeStep, EndsStep, StartStep
<1> QED
  BY <1>1, <1>2, StartKeepsFrames, PTL DEF Spec
------------------------------------------------------------------------------
(* What is delivered *)

LEMMA DecodeIsSplit == \A f : Decode(f) = Split(SubSeq(f, 3, Len(f)))
BY DEF Decode, Split

\* A frame stays where it is, and so does whether it passes the last cell.
LEMMA SpansKept ==
    ASSUME StreamTypeOK, EndsInv, [Next]_streamVars
    PROVE  /\ Len(ends) \in Nat /\ Len(ends') \in Nat /\ Len(ends) <= Len(ends')
           /\ \A i \in 1 .. Len(ends) : Frame(i)' = Frame(i) /\ (Straddles(i)' <=> Straddles(i))
<1>1. Len(ends) \in Nat
  BY LenProperties DEF StreamTypeOK
<1>2. ASSUME NEW f \in Frames, Send(f)
      PROVE  /\ Len(ends') \in Nat /\ Len(ends) <= Len(ends')
             /\ \A i \in 1 .. Len(ends) : Frame(i)' = Frame(i) /\ (Straddles(i)' <=> Straddles(i))
  <2>1. /\ Len(ends') = Len(ends) + 1
        /\ \A i \in 1 .. Len(ends) : ends'[i] = ends[i] /\ Frame(i)' = Frame(i)
        /\ \A i \in 1 .. Len(ends) + 1 : Begin(i)' = Begin(i)
    BY <1>2, SendKeeps
  <2>2. ASSUME NEW i \in 1 .. Len(ends) PROVE Straddles(i)' <=> Straddles(i)
    <3>1. Begin(i)' = Begin(i) /\ ends'[i] = ends[i]
      BY <1>1, <2>1
    <3> QED
      BY <3>1 DEF Straddles
  <2> QED
    BY <1>1, <2>1, <2>2
<1>3. CASE UNCHANGED <<sent, ends>>
  BY <1>1, <1>3 DEF Frame, Straddles, Begin
<1> QED
  BY <1>1, <1>2, <1>3 DEF Next, Recv, Pick, streamVars

\* The frames delivered are among those consumed, each once and in their order,
\* and intact unless they pass the last cell.
DeliverInv == Kept =>
    /\ \A i \in 1 .. Len(delivered) : delivered[i].number \in 1 .. consumed
    /\ \A i \in 1 .. Len(delivered), n \in 1 .. consumed :
           delivered[i].number = n /\ ~ Straddles(n) => delivered[i].event = Decode(Frame(n))
    /\ \A i, j \in 1 .. Len(delivered) : i < j => delivered[i].number < delivered[j].number

LEMMA DeliverKept ==
    ASSUME StreamTypeOK, EndsInv, StartInv, DeliverInv, [Next]_streamVars, Kept,
           UNCHANGED <<delivered, consumed>>
    PROVE  DeliverInv'
<1>1. \A i \in 1 .. Len(ends) : Frame(i)' = Frame(i) /\ (Straddles(i)' <=> Straddles(i))
  BY SpansKept
<1>2. consumed <= Len(ends) /\ consumed \in Nat /\ Len(ends) \in Nat
  BY SpansKept DEF StartInv, StreamTypeOK
<1>3. \A n \in 1 .. consumed : Frame(n)' = Frame(n) /\ (Straddles(n)' <=> Straddles(n))
  BY <1>1, <1>2
<1> QED
  BY <1>3 DEF DeliverInv

LEMMA DeliverTakes ==
    ASSUME StreamTypeOK, EndsInv, StartInv, DeliverInv, [Next]_streamVars, Kept,
           consumed < Len(ends), Len(Coming) <= Length, NEW b, Takes(b)
    PROVE  DeliverInv'
<1>1. \A i \in 1 .. Len(ends) : Frame(i)' = Frame(i) /\ (Straddles(i)' <=> Straddles(i))
  BY SpansKept
<1>2. consumed \in Nat /\ Len(ends) \in Nat /\ consumed' = consumed + 1
      /\ delivered \in Seq(PickedType) /\ Len(delivered) \in Nat
  BY SpansKept, LenProperties DEF StreamTypeOK, Takes
<1>3. \A n \in 1 .. consumed' : Frame(n)' = Frame(n) /\ (Straddles(n)' <=> Straddles(n))
  BY <1>1, <1>2
<1>4. /\ \A i \in 1 .. Len(delivered) : delivered[i].number \in 1 .. consumed
      /\ \A i \in 1 .. Len(delivered), n \in 1 .. consumed :
             delivered[i].number = n /\ ~ Straddles(n) => delivered[i].event = Decode(Frame(n))
      /\ \A i, j \in 1 .. Len(delivered) : i < j => delivered[i].number < delivered[j].number
  BY DEF DeliverInv
<1>5. \A i \in 1 .. Len(delivered), n \in 1 .. consumed' :
          delivered[i].number = n /\ ~ Straddles(n) => delivered[i].event = Decode(Frame(n))
  <2> SUFFICES ASSUME NEW i \in 1 .. Len(delivered), NEW n \in 1 .. consumed',
                      delivered[i].number = n, ~ Straddles(n)
               PROVE  delivered[i].event = Decode(Frame(n))
    OBVIOUS
  <2>1. n \in 1 .. consumed
    BY <1>4
  <2> QED
    BY <1>4, <2>1
<1>6. CASE UNCHANGED delivered
  <2>1. \A i \in 1 .. Len(delivered) : delivered[i].number \in 1 .. consumed'
    BY <1>2, <1>4
  <2> QED
    BY <1>3, <1>4, <1>5, <1>6, <2>1 DEF DeliverInv
<1>7. CASE delivered' = Append(delivered, [number |-> consumed + 1, event |-> Split(b)])
  <2> DEFINE l == Len(delivered)
             e == [number |-> consumed + 1, event |-> Split(b)]
  <2>1. /\ Len(delivered') = l + 1
        /\ \A i \in 1 .. l : delivered'[i] = delivered[i]
        /\ delivered'[l + 1] = e
    BY <1>7, AppendProperties
  <2>2. e.number = consumed + 1 /\ e.event = Split(b)
    OBVIOUS
  <2> HIDE DEF e
  <2>3. ~ Straddles(consumed + 1) => Split(b) = Decode(Coming)
    <3>1. ASSUME ~ Straddles(consumed + 1) PROVE b = SubSeq(Coming, 3, Len(Coming))
      BY <3>1, BodyWhole DEF Takes
    <3> QED
      BY <3>1, DecodeIsSplit
  <2>4. \A n : n = consumed + 1 => Frame(n) = Coming /\ (Straddles(n) <=> Straddles(consumed + 1))
    BY DEF Coming
  <2>5. ASSUME NEW i \in 1 .. l + 1 PROVE delivered'[i].number \in 1 .. consumed'
    <3>1. CASE i \in 1 .. l
      BY <1>2, <1>4, <2>1, <3>1
    <3>2. CASE i = l + 1
      BY <1>2, <2>1, <2>2, <3>2
    <3> QED
      BY <1>2, <3>1, <3>2
  <2>6. ASSUME NEW i \in 1 .. l + 1, NEW n \in 1 .. consumed',
               delivered'[i].number = n, ~ Straddles(n)
        PROVE  delivered'[i].event = Decode(Frame(n))
    <3>1. CASE i \in 1 .. l
      BY <1>5, <2>1, <2>6, <3>1
    <3>2. CASE i = l + 1
      <4>1. n = consumed + 1
        BY <2>1, <2>2, <2>6, <3>2
      <4>2. Frame(n) = Coming /\ ~ Straddles(consumed + 1)
        BY <2>4, <2>6, <4>1
      <4> QED
        BY <2>1, <2>2, <2>3, <3>2, <4>2
    <3> QED
      BY <1>2, <3>1, <3>2
  <2>7. ASSUME NEW i \in 1 .. l + 1, NEW j \in 1 .. l + 1, i < j
        PROVE  delivered'[i].number < delivered'[j].number
    <3>1. i \in 1 .. l /\ delivered'[i] = delivered[i] /\ delivered[i].number \in 1 .. consumed
      BY <1>2, <1>4, <2>1, <2>7
    <3>2. CASE j \in 1 .. l
      BY <1>4, <2>1, <2>7, <3>1, <3>2
    <3>3. CASE j = l + 1
      BY <1>2, <2>1, <2>2, <3>1, <3>3
    <3> QED
      BY <1>2, <3>2, <3>3
  <2> HIDE DEF l
  <2> QED
    BY <1>3, <2>1, <2>5, <2>6, <2>7 DEF DeliverInv
<1> QED
  BY <1>6, <1>7 DEF Takes

LEMMA DeliverInit == Init => DeliverInv
<1> SUFFICES ASSUME Init PROVE DeliverInv
  OBVIOUS
<1>1. Len(delivered) = 0
  BY DEF Init
<1> QED
  BY <1>1 DEF DeliverInv

LEMMA DeliverStep ==
    StreamTypeOK /\ EndsInv /\ StartInv /\ DeliverInv /\ [Next]_streamVars => DeliverInv'
<1> SUFFICES ASSUME StreamTypeOK, EndsInv, StartInv, DeliverInv, [Next]_streamVars, Kept'
             PROVE  DeliverInv'
  BY DEF DeliverInv
<1>1. Kept
  BY KeptBefore
<1>2. CASE UNCHANGED <<delivered, consumed>>
  BY <1>1, <1>2, DeliverKept
<1>3. CASE Pick
  <2>1. ~ torn'
    BY DEF Kept
  <2>2. \/ Stays
        \/ /\ consumed < Len(ends) /\ Len(Coming) <= Length
           /\ \E b : Takes(b)
    BY <1>1, <1>3, <2>1, PickKinds
  <2>3. CASE Stays
    BY <1>2, <2>3 DEF Stays
  <2>4. ASSUME NEW b, Takes(b), consumed < Len(ends), Len(Coming) <= Length PROVE DeliverInv'
    BY <1>1, <2>4, DeliverTakes
  <2> QED
    BY <2>2, <2>3, <2>4
<1> QED
  BY <1>2, <1>3 DEF Next, Send, Recv, streamVars

LEMMA DeliverKeepsIntact == StreamTypeOK /\ DeliverInv => EventsIntact
<1> SUFFICES ASSUME StreamTypeOK, DeliverInv, ~ torn, missed = 0
             PROVE  /\ \A i \in DOMAIN delivered : LET n == delivered[i].number IN
                           ~ Straddles(n) => delivered[i].event = Decode(Frame(n))
                    /\ \A i, j \in DOMAIN delivered : i < j => delivered[i].number < delivered[j].number
  BY DEF EventsIntact
<1>1. DOMAIN delivered = 1 .. Len(delivered)
  BY LenProperties DEF StreamTypeOK
<1>2. /\ \A i \in 1 .. Len(delivered) : delivered[i].number \in 1 .. consumed
      /\ \A i \in 1 .. Len(delivered), n \in 1 .. consumed :
             delivered[i].number = n /\ ~ Straddles(n) => delivered[i].event = Decode(Frame(n))
      /\ \A i, j \in 1 .. Len(delivered) : i < j => delivered[i].number < delivered[j].number
  BY DEF DeliverInv, Kept
<1>3. ASSUME NEW i \in 1 .. Len(delivered), ~ Straddles(delivered[i].number)
      PROVE  delivered[i].event = Decode(Frame(delivered[i].number))
  <2> DEFINE n == delivered[i].number
  <2>1. n \in 1 .. consumed /\ delivered[i].number = n /\ ~ Straddles(n)
    BY <1>2, <1>3
  <2> HIDE DEF n
  <2>2. delivered[i].event = Decode(Frame(n))
    BY <1>2, <2>1
  <2> QED
    BY <2>2 DEF n
<1> QED
  BY <1>1, <1>2, <1>3

\* As long as put refused nothing and no length was read across the last cell,
\* every event delivered is a frame of its own, in the order of the frames, and the
\* one the peer sent unless its name or its packet pass the last cell; whatever the
\* size of the buffer, the frames, and the interleaving of sends, recvs and picks.
THEOREM EventsDelivered == Spec => []EventsIntact
<1>1. Init => StreamTypeOK /\ EndsInv /\ StartInv /\ DeliverInv
  BY StreamTypeInit, EndsInit, StartInit, DeliverInit
<1>2. StreamTypeOK /\ EndsInv /\ StartInv /\ DeliverInv /\ [Next]_streamVars
          => (StreamTypeOK /\ EndsInv /\ StartInv /\ DeliverInv)'
  BY StreamTypeStep, EndsStep, StartStep, DeliverStep
<1> QED
  BY <1>1, <1>2, DeliverKeepsIntact, PTL DEF Spec
------------------------------------------------------------------------------
(* What waits *)

Waits == missed = 0 /\ pc = "recv" /\ consumed < Len(ends) => Length < Len(Coming)

\* There is room for the longest frame and a chunk less a byte.
Room == \A f \in Frames : Len(f) + Chunk <= Size + 1

LeftInv == Inside => Waits /\ (Room => missed = 0)

LEMMA LeftIsNone == LeftInv => NoneLeftBehind
BY DEF LeftInv, Waits, Room, NoneLeftBehind, Coming

LEMMA LeftInit == Init => LeftInv
<1> SUFFICES ASSUME Init PROVE LeftInv
  OBVIOUS
<1>1. missed = 0 /\ consumed = 0 /\ Len(ends) = 0
  BY DEF Init
<1> QED
  BY <1>1 DEF LeftInv, Waits

\* A frame read across the last cell remains one that was consumed, or the next.
LEMMA InsideBefore ==
    ASSUME StreamTypeOK, EndsInv, [Next]_streamVars, Inside'
    PROVE  Inside
<1>1. /\ Len(ends) \in Nat /\ Len(ends') \in Nat /\ Len(ends) <= Len(ends')
      /\ \A i \in 1 .. Len(ends) : Straddles(i)' <=> Straddles(i)
  BY SpansKept
<1>2. ~ torn' /\ \A i \in 1 .. Len(ends') : i <= consumed' + 1 => ~ Straddles(i)'
  BY DEF Inside
<1>3. ~ torn
  BY <1>2 DEF Next, Send, Recv, Pick, streamVars
<1>4. consumed \in Nat /\ consumed' \in Nat /\ consumed <= consumed'
  <2>1. consumed \in Nat
    BY DEF StreamTypeOK
  <2>2. consumed' = consumed \/ consumed' = consumed + 1
    <3>1. CASE Pick
      <4>1. consumed' = consumed + (IF m_start' = m_start THEN 0 ELSE 1)
        BY <3>1 DEF Pick
      <4> QED
        BY <2>1, <4>1
    <3> QED
      BY <3>1 DEF Next, Send, Recv, streamVars
  <2> QED
    BY <2>1, <2>2
<1>5. ASSUME NEW i \in 1 .. Len(ends), i <= consumed + 1 PROVE ~ Straddles(i)
  <2>1. i \in 1 .. Len(ends')
    BY <1>1
  <2>2. i <= consumed' + 1
    <3> DEFINE c == consumed
               d == consumed'
    <3>1. i \in Nat /\ c \in Nat /\ d \in Nat /\ c <= d /\ i <= c + 1
      BY <1>1, <1>4, <1>5
    <3> HIDE DEF c, d
    <3>2. i <= d + 1
      BY <3>1
    <3> QED
      BY <3>2 DEF d
  <2> QED
    BY <1>1, <1>2, <2>1, <2>2
<1> QED
  BY <1>3, <1>5 DEF Inside

\* A frame sent to an empty buffer is longer than what is there.
LEMMA LeftSend ==
    ASSUME StreamTypeOK, EndsInv, StartInv, LeftInv, NEW f \in Frames, Send(f), Inside
    PROVE  Waits' /\ (Room => missed' = 0)
<1>1. Waits /\ (Room => missed = 0) /\ missed' = missed /\ torn' = torn /\ ~ torn
  BY DEF LeftInv, Send, Inside
<1>2. ASSUME missed' = 0, pc' = "recv", consumed' < Len(ends') PROVE Length' < Len(Coming')
  <2>1. Kept
    BY <1>1, <1>2 DEF Kept
  <2>2. /\ UNCHANGED <<Length, pc, consumed, missed>>
        /\ consumed < Len(ends) => Coming' = Coming
    BY <2>1, StartSend
  <2>3. /\ Len(ends) \in Nat /\ Length \in Nat /\ consumed \in Nat /\ consumed <= Len(ends)
        /\ consumed = Len(ends) => Length = 0
    <3>1. /\ Len(ends) \in Nat /\ Length \in Nat
          /\ consumed = Len(ends) => Length = 0
      BY <2>1, Here
    <3>2. consumed \in Nat /\ consumed <= Len(ends)
      BY <2>1 DEF StreamTypeOK, StartInv
    <3> QED
      BY <3>1, <3>2
  <2>4. CASE consumed < Len(ends)
    BY <1>1, <1>2, <2>2, <2>4 DEF Waits
  <2>5. CASE consumed = Len(ends)
    <3>1. \A i : i = Len(ends) + 1 => Frame(i)' = f
      BY SendKeeps
    <3>2. \A i : i = consumed + 1 => Coming' = Frame(i)'
      BY <2>2 DEF Coming, Frame, Begin
    <3>3. Coming' = f
      BY <2>5, <3>1, <3>2
    <3>4. Len(f) \in Nat /\ Len(f) >= 3
      BY FrameType
    <3> QED
      BY <2>2, <2>3, <2>5, <3>3, <3>4
  <2> QED
    BY <2>3, <2>4, <2>5
<1> QED
  BY <1>1, <1>2 DEF Waits

\* What is left of one frame, and a chunk, fit.
LEMMA LeftRecv ==
    ASSUME StreamTypeOK, EndsInv, StartInv, LeftInv, NEW k \in 1 .. Chunk, Recv(k), Inside
    PROVE  Waits' /\ (Room => missed' = 0)
<1>1. Waits /\ (Room => missed = 0) /\ ~ torn
  BY DEF LeftInv, Inside
<1>2. Waits'
  BY DEF Waits, Recv
<1>3. ASSUME Room PROVE missed' = 0
  <2>1. Kept
    BY <1>1, <1>3 DEF Kept
  <2>2. /\ Len(ends) \in Nat /\ Length \in Nat /\ consumed \in Nat /\ consumed <= Len(ends)
        /\ consumed = Len(ends) => Length = 0 /\ Len(wire) = 0
    <3>1. /\ Len(ends) \in Nat /\ Length \in Nat
          /\ consumed = Len(ends) => Length = 0 /\ Len(wire) = 0
      BY <2>1, Here
    <3>2. consumed \in Nat /\ consumed <= Len(ends)
      BY <2>1 DEF StreamTypeOK, StartInv
    <3> QED
      BY <3>1, <3>2
  <2>3. k \in 1 .. Len(wire) /\ k \in Nat /\ Len(wire) \in Nat
    BY ChunkType
  <2>4. consumed < Len(ends)
    BY <2>2, <2>3
  <2>5. Length < Len(Coming)
    BY <1>1, <1>3, <2>4 DEF Waits, Recv
  <2>6. Coming \in Frames /\ Len(Coming) \in Nat
    BY <2>1, <2>4, HereComing
  <2>7. Len(Coming) + Chunk <= Size + 1
    BY <1>3, <2>6 DEF Room
  <2>8. Chunk \in Nat /\ Size \in Nat /\ k <= Chunk
    BY StreamAssumption, RingAssumption
  <2>9. Length + k <= Size
    BY <2>2, <2>3, <2>5, <2>6, <2>7, <2>8
  <2> QED
    BY <2>1, <2>9, StartRecv
<1> QED
  BY <1>2, <1>3

\* pick_event fails only at the beginning of a frame that is not whole.
LEMMA LeftPick ==
    ASSUME \A f \in Frames : WellFormed(f),
           StreamTypeOK, EndsInv, StartInv, LeftInv, Pick, Inside, ~ torn'
    PROVE  Waits' /\ (Room => missed' = 0)
<1>1. (Room => missed = 0) /\ missed' = missed /\ ~ torn
  BY DEF LeftInv, Inside, Pick
<1>2. ASSUME missed' = 0, pc' = "recv", consumed' < Len(ends') PROVE Length' < Len(Coming')
  <2>1. Kept
    BY <1>1, <1>2 DEF Kept
  <2>2. /\ UNCHANGED <<m_dt, m_end, wire, sent, ends, missed>>
        /\ \/ Stays
           \/ /\ consumed < Len(ends) /\ Len(Coming) <= Length
              /\ \E b : Takes(b)
    BY <2>1, PickKinds
  <2>3. ASSUME consumed < Len(ends), Len(Coming) <= Length,
               NEW b \in Body(Len(Coming) - 2)
        PROVE  Terminator(b) # 0 /\ Split(b).packet \in Packets
    <3>1. consumed + 1 \in 1 .. Len(ends) /\ Coming \in Frames
      BY <2>1, <2>3, HereComing
    <3>2. consumed + 1 <= consumed + 1
      BY DEF StreamTypeOK
    <3>3. ~ Straddles(consumed + 1)
      BY <3>1, <3>2 DEF Inside
    <3>4. b = SubSeq(Coming, 3, Len(Coming))
      BY <2>1, <2>3, <3>3, BodyWhole
    <3>5. Decode(Coming) = Split(b)
      BY <3>4, DecodeIsSplit
    <3>6. WellFormed(Coming)
      BY <3>1
    <3> QED
      BY <3>4, <3>5, <3>6 DEF WellFormed
  <2>4. CASE Stays
    <3>1. consumed < Len(ends)
      BY <1>2, <2>2, <2>4 DEF Stays
    <3>2. Length < Len(Coming)
      BY <2>3, <2>4, <3>1 DEF Stays
    <3>3. UNCHANGED <<Length, Coming>>
      BY <2>2, <2>4 DEF Stays, Length, Coming, Frame, Begin
    <3> QED
      BY <3>2, <3>3
  <2>5. ASSUME NEW b, Takes(b), consumed < Len(ends), Len(Coming) <= Length
        PROVE  FALSE
    <3>1. Terminator(b) # 0
      BY <2>3, <2>5 DEF Takes
    <3> QED
      BY <1>2, <2>5, <3>1 DEF Takes
  <2> QED
    BY <2>2, <2>4, <2>5
<1> QED
  BY <1>1, <1>2 DEF Waits

\* Frames that Event::pack makes of valid packets never wait: when read_connection
\* goes back to recv, the buffer holds less than the next frame; and a buffer with
\* room for the longest frame and a chunk less a byte never refuses one. As long as
\* no frame passes the last cell, for every size, chunk and set of such frames.
THEOREM NoneWaits ==
    ASSUME \A f \in Frames : WellFormed(f)
    PROVE  Spec => []NoneLeftBehind
<1>1. Init => StreamTypeOK /\ EndsInv /\ StartInv /\ LeftInv
  BY StreamTypeInit, EndsInit, StartInit, LeftInit
<1>2. StreamTypeOK /\ EndsInv /\ StartInv /\ LeftInv /\ [Next]_streamVars => LeftInv'
  <2> SUFFICES ASSUME StreamTypeOK, EndsInv, StartInv, LeftInv, [Next]_streamVars, Inside'
               PROVE  Waits' /\ (Room => missed' = 0)
    BY DEF LeftInv, Room
  <2>1. Inside /\ ~ torn'
    BY InsideBefore DEF Inside
  <2>2. ASSUME NEW f \in Frames, Send(f) PROVE Waits' /\ (Room => missed' = 0)
    BY <2>1, <2>2, LeftSend
  <2>3. ASSUME NEW k \in 1 .. Chunk, Recv(k) PROVE Waits' /\ (Room => missed' = 0)
    BY <2>1, <2>3, LeftRecv
  <2>4. CASE Pick
    BY <2>1, <2>4, LeftPick
  <2>5. CASE UNCHANGED streamVars
    <3>1. UNCHANGED <<missed, pc, consumed, ends, Length, Coming>>
      BY <2>5 DEF streamVars, ringVars, ring, Length, Coming, Frame, Begin
    <3> QED
      BY <2>1, <3>1 DEF LeftInv, Waits
  <2> QED
    BY <2>2, <2>3, <2>4, <2>5 DEF Next
<1>3. StreamTypeOK /\ EndsInv /\ StartInv /\ [Next]_streamVars => (StreamTypeOK /\ EndsInv /\ StartInv)'
  BY StreamTypeStep, EndsStep, StartStep
<1> QED
  BY <1>1, <1>2, <1>3, LeftIsNone, PTL DEF Spec
------------------------------------------------------------------------------
(* What Event::pack builds *)

LEMMA Behind ==
    ASSUME NEW s \in Seq(Byte), NEW f \in Seq(Byte)
    PROVE  SubSeq(s \o f, Len(s) + 1, Len(s) + Len(f)) = f
<1> DEFINE all == s \o f
           tail == SubSeq(all, Len(s) + 1, Len(s) + Len(f))
<1>1. /\ all \in Seq(Byte) /\ Len(all) = Len(s) + Len(f)
      /\ Len(s) \in Nat /\ Len(f) \in Nat
      /\ \A i \in 1 .. Len(s) + Len(f) : all[i] = IF i <= Len(s) THEN s[i] ELSE f[i - Len(s)]
  BY ConcatProperties, LenProperties
<1> HIDE DEF all
<1>2. Len(s) \in 0 .. Len(all) /\ Len(s) + Len(f) \in Len(s) .. Len(all)
  BY <1>1
<1>3. /\ tail \in Seq(Byte) /\ Len(tail) = Len(s) + Len(f) - Len(s)
      /\ \A i \in 1 .. Len(s) + Len(f) - Len(s) : tail[i] = all[Len(s) + i]
  BY <1>1, <1>2, RestType
<1> HIDE DEF tail
<1>4. Len(s) + Len(f) - Len(s) = Len(f)
  BY <1>1
<1>5. ASSUME NEW i \in 1 .. Len(f) PROVE tail[i] = f[i]
  <2>1. Len(s) + i \in 1 .. Len(s) + Len(f) /\ ~ (Len(s) + i <= Len(s)) /\ Len(s) + i - Len(s) = i
    BY <1>1
  <2>2. all[Len(s) + i] = f[i]
    BY <1>1, <2>1
  <2> QED
    BY <1>3, <1>4, <2>2
<1>6. tail = f
  BY <1>3, <1>4, <1>5, SeqEqual
<1> QED
  BY <1>6 DEF tail, all

\* A name, its '\0' and a packet, taken apart.
LEMMA SplitPacked ==
    ASSUME NEW name \in Seq(Byte \ {0}), NEW data \in Seq(Byte)
    PROVE  /\ (name \o <<0>>) \o data \in Seq(Byte)
           /\ Len((name \o <<0>>) \o data) = Len(name) + 1 + Len(data)
           /\ Terminator((name \o <<0>>) \o data) = Len(name) + 1
           /\ Split((name \o <<0>>) \o data).packet = data
<1> DEFINE l == Len(name)
           front == name \o <<0>>
           b == front \o data
           t == Terminator(b)
<1>1. /\ name \in Seq(Byte) /\ l \in Nat /\ Len(data) \in Nat
      /\ \A i \in 1 .. l : name[i] # 0
  BY LenProperties, ElementOfSeq
<1>2. <<0>> \in Seq(Byte) /\ Len(<<0>>) = 1 /\ <<0>>[1] = 0
  BY RingAssumption
<1>3. /\ front \in Seq(Byte) /\ Len(front) = l + 1
      /\ \A i \in 1 .. l : front[i] = name[i]
      /\ front[l + 1] = 0
  <2>1. /\ front \in Seq(Byte) /\ Len(front) = l + Len(<<0>>)
        /\ \A i \in 1 .. l + Len(<<0>>) : front[i] = IF i <= l THEN name[i] ELSE <<0>>[i - l]
    BY <1>1, <1>2, ConcatProperties
  <2> HIDE DEF front, l
  <2>2. \A i \in 1 .. l : front[i] = name[i]
    BY <1>1, <1>2, <2>1
  <2>3. l + 1 \in 1 .. l + 1 /\ ~ (l + 1 <= l) /\ l + 1 - l = 1
    BY <1>1
  <2>4. front[l + 1] = <<0>>[1]
    <3> DEFINE i == l + 1
    <3>1. i \in 1 .. l + Len(<<0>>) /\ ~ (i <= l) /\ i - l = 1
      BY <1>1, <1>2
    <3> HIDE DEF i
    <3>2. front[i] = <<0>>[i - l]
      BY <2>1, <3>1
    <3> QED
      BY <3>1, <3>2 DEF i
  <2> QED
    BY <1>2, <2>1, <2>2, <2>4
<1> HIDE DEF front, l
<1>4. /\ b \in Seq(Byte) /\ Len(b) = l + 1 + Len(data)
      /\ \A i \in 1 .. l + 1 + Len(data) :
            b[i] = IF i <= l + 1 THEN front[i] ELSE data[i - (l + 1)]
  <2>1. /\ b \in Seq(Byte) /\ Len(b) = Len(front) + Len(data)
        /\ \A i \in 1 .. Len(front) + Len(data) :
              b[i] = IF i <= Len(front) THEN front[i] ELSE data[i - Len(front)]
    BY <1>3, ConcatProperties
  <2> QED
    BY <1>3, <2>1
<1>5. SubSeq(b, l + 1 + 1, l + 1 + Len(data)) = data
  BY <1>3, Behind
<1> HIDE DEF b
<1>6. (\A i \in 1 .. l : b[i] # 0) /\ b[l + 1] = 0 /\ l + 1 \in 1 .. Len(b)
  BY <1>1, <1>3, <1>4
<1>7. /\ t \in 0 .. Len(b)
      /\ \A i \in 1 .. t - 1 : b[i] # 0
      /\ t = 0 => \A i \in 1 .. Len(b) : b[i] # 0
      /\ t # 0 => b[t] = 0
  BY <1>4, TerminatorType
<1> HIDE DEF t
<1>8. t = l + 1
  <2>1. t # 0 /\ t \in Nat
    BY <1>6, <1>7
  <2>2. ~ (t < l + 1)
    BY <1>1, <1>6, <1>7, <2>1
  <2>3. ~ (l + 1 < t)
    BY <1>1, <1>6, <1>7, <2>1
  <2> QED
    BY <1>1, <2>1, <2>2, <2>3
<1>9. Split(b).packet = data
  <2>1. Split(b).packet = SubSeq(b, Terminator(b) + 1, Len(b))
    BY DEF Split
  <2> QED
    BY <1>4, <1>5, <1>8, <2>1 DEF t
<1> QED
  BY <1>4, <1>8, <1>9 DEF t, b, l, front

\* The two bytes of a length.
LEMMA LengthBytes ==
    ASSUME NEW m \in Nat, m < 65536
    PROVE  /\ m % 65536 = m
           /\ m \div 256 \in 0 .. 255 /\ m % 256 \in 0 .. 255
           /\ m = 256 * (m \div 256) + (m % 256)
<1>1. m % 65536 = m
  BY SMT
<1>2. m \div 256 \in 0 .. 255
  BY SMT
<1>3. m % 256 \in 0 .. 255
  BY SMT
<1>4. m = 256 * (m \div 256) + (m % 256)
  BY SMT
<1> QED
  BY <1>1, <1>2, <1>3, <1>4, SMT

\* A length, a name, its '\0' and a packet.
Packed(head, name, data) == ((head \o name) \o <<0>>) \o data

LEMMA FrameOf ==
    ASSUME NEW name \in Seq(Byte \ {0}), NEW data \in Seq(Byte), data \in Packets,
           NEW head \in Seq(Byte), Len(head) = 2,
           256 * head[1] + head[2] = Len(data) + Len(name) + 3
    PROVE  /\ Packed(head, name, data) \in Seq(Byte)
           /\ \A f : f = Packed(head, name, data)
                  => Len(f) >= 3 /\ Len(f) = 256 * f[1] + f[2] /\ WellFormed(f)
<1> SUFFICES ASSUME NEW f, f = Packed(head, name, data)
             PROVE  /\ f \in Seq(Byte) /\ Len(f) >= 3 /\ Len(f) = 256 * f[1] + f[2]
                    /\ WellFormed(f)
  OBVIOUS
<1> DEFINE b == (name \o <<0>>) \o data
<1>1. Len(name) \in Nat /\ Len(data) \in Nat /\ name \in Seq(Byte)
  BY LenProperties
<1>2. /\ b \in Seq(Byte) /\ Len(b) = Len(name) + 1 + Len(data)
      /\ Terminator(b) # 0 /\ Split(b).packet = data
  <2>1. Len(name) + 1 # 0
    BY <1>1
  <2> QED
    BY <2>1, SplitPacked
<1>3. f = head \o b
  <2>1. <<0>> \in Seq(Byte)
    BY RingAssumption
  <2>2. (head \o name) \o <<0>> = head \o (name \o <<0>>)
    BY <1>1, <2>1, Regroup
  <2>3. name \o <<0>> \in Seq(Byte)
    BY <1>1, <2>1, ConcatProperties
  <2>4. (head \o (name \o <<0>>)) \o data = head \o ((name \o <<0>>) \o data)
    BY <2>3, Regroup
  <2> QED
    BY <2>2, <2>4 DEF Packed
<1> HIDE DEF b
<1>4. /\ f \in Seq(Byte) /\ Len(f) = 2 + Len(b)
      /\ f[1] = head[1] /\ f[2] = head[2]
  <2> DEFINE g == head \o b
  <2>1. /\ g \in Seq(Byte) /\ Len(g) = Len(head) + Len(b) /\ Len(b) \in Nat
        /\ \A i \in 1 .. Len(head) + Len(b) : g[i] = IF i <= Len(head) THEN head[i] ELSE b[i - Len(head)]
    <3>1. b \in Seq(Byte)
      BY <1>2
    <3>2. Len(b) \in Nat
      BY <3>1, LenProperties
    <3> QED
      BY <3>1, <3>2, ConcatProperties
  <2>2. f = g
    BY <1>3
  <2> HIDE DEF g
  <2>3. 1 \in 1 .. Len(head) + Len(b) /\ 2 \in 1 .. Len(head) + Len(b) /\ 1 <= Len(head) /\ 2 <= Len(head)
    BY <2>1
  <2> QED
    BY <2>1, <2>2, <2>3
<1>5. Len(f) >= 3 /\ Len(f) = 256 * f[1] + f[2]
  BY <1>1, <1>2, <1>4
<1>6. SubSeq(f, 3, Len(f)) = b
  <2>1. SubSeq(head \o b, Len(head) + 1, Len(head) + Len(b)) = b
    BY <1>2, Behind
  <2>2. Len(head) + 1 = 3 /\ Len(head) + Len(b) = Len(f)
    BY <1>4
  <2> QED
    BY <1>3, <2>1, <2>2
<1>7. WellFormed(f)
  BY <1>2, <1>6, DecodeIsSplit DEF WellFormed
<1> QED
  BY <1>4, <1>5, <1>7

LEMMA PackIs ==
    ASSUME NEW name, NEW data, NEW m, m = (Len(data) + Len(name) + 3) % 65536
    PROVE  Pack(name, data) = Packed(<<m \div 256, m % 256>>, name, data)
BY SMT DEF Pack, Packed

\* A packed event of m < 65536 bytes, whose name has no '\0' and whose packet is
\* valid, is what StreamAssumption and NoneWaits ask of a frame; the alphabet has
\* to have the bytes of its length.
THEOREM PackBuildsFrames ==
    ASSUME NEW name \in Seq(Byte \ {0}), NEW data \in Seq(Byte), data \in Packets,
           NEW m \in Nat, m = Len(data) + Len(name) + 3, m < 65536,
           m \div 256 \in Byte, m % 256 \in Byte,
           NEW f, f = Pack(name, data)
    PROVE  /\ f \in Seq(Byte) /\ Len(f) >= 3 /\ Len(f) = 256 * f[1] + f[2]
           /\ WellFormed(f)
<1> DEFINE head == <<m \div 256, m % 256>>
<1>1. m % 65536 = m
  BY LengthBytes, SMT
<1>2. m = 256 * (m \div 256) + (m % 256)
  BY LengthBytes, SMT
<1>3. head \in Seq(Byte) /\ Len(head) = 2
  BY SMT
<1>4. 256 * head[1] + head[2] = Len(data) + Len(name) + 3
  BY <1>2, SMT
<1>5. f = Packed(head, name, data)
  <2>1. m = (Len(data) + Len(name) + 3) % 65536
    BY <1>1, SMT
  <2> QED
    BY <2>1, PackIs, SMT
<1> HIDE DEF head
<1>6. /\ Packed(head, name, data) \in Seq(Byte)
      /\ \A g : g = Packed(head, name, data)
             => Len(g) >= 3 /\ Len(g) = 256 * g[1] + g[2] /\ WellFormed(g)
  BY <1>3, <1>4, FrameOf, SMT
<1> QED
  BY <1>5, <1>6, SMT
=============================================================================

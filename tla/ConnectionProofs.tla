--------------------------- MODULE ConnectionProofs ---------------------------
(***************************************************************************)
(* Proofs about Connection: its types, the law of the loop of send and     *)
(* that frames stay whole, for any number of threads, any lengths of the   *)
(* frames and any modulus above the lengths and the failures.              *)
(***************************************************************************)
EXTENDS Connection, SequenceTheorems, FiniteSetTheorems, TLAPS

Byte  == [frame : Nat, at : Int]
Ended == [by : Thread, frame : Nat, failed : Word, how : Outcome]

\* The constants in the form the steps use.
LEMMA Sizes ==
    /\ M \in Nat /\ MaxSends \in Nat /\ MaxFailures \in Nat
    /\ \A t \in Thread : /\ Size[t] \in Nat /\ Size[t] > 0
                        /\ M > 2 * Size[t] + 2 * MaxFailures
                        /\ M > 1
<1>1. SUFFICES ASSUME NEW t \in Thread
               PROVE  /\ Size[t] \in Nat /\ Size[t] > 0
                      /\ M > 2 * Size[t] + 2 * MaxFailures
                      /\ M > 1
  BY ConnectionAssumption
<1>2. Size[t] \in Nat /\ Size[t] > 0 /\ MaxFailures \in Nat /\ M \in Nat
      /\ M > 2 * (Size[t] + MaxFailures)
  BY ConnectionAssumption
<1> QED
  BY <1>2

\* The numbers of a thread.
LEMMA Numbers ==
    ASSUME ConnectionTypeOK, NEW t \in Thread
    PROVE  /\ count[t] \in Nat /\ count[t] < M /\ tmp[t] \in Nat /\ tmp[t] < M
           /\ failed[t] \in Nat /\ failed[t] < M /\ put[t] \in Nat /\ frame[t] \in Nat
           /\ Size[t] \in Nat /\ Size[t] > 0 /\ M \in Nat /\ M > 1
           /\ frames \in Nat /\ failures \in Nat /\ MaxFailures \in Nat
           /\ M > 2 * Size[t] + 2 * MaxFailures
<1>1. /\ count[t] \in Word /\ tmp[t] \in Word /\ failed[t] \in Word
      /\ put[t] \in Nat /\ frame[t] \in Nat /\ frames \in Nat /\ failures \in Nat
  BY DEF ConnectionTypeOK
<1> QED
  BY <1>1, Sizes DEF Word

LEMMA Words == \A t \in Thread : 0 \in Word /\ 1 \in Word /\ M - 1 \in Word
BY Sizes DEF Word

\* A number that is at most one turn away from 0 .. M - 1.
LEMMA ModValue ==
    ASSUME NEW m \in Nat, m > 0, NEW a \in Int, -m <= a, a < 2 * m
    PROVE  a % m = IF a < 0 THEN a + m ELSE IF a < m THEN a ELSE a - m
OBVIOUS

\* The bytes one call of ::send takes.
Chunk(t, k) == [i \in 1 .. k |-> [frame |-> frame[t], at |-> Index(count[t]) + i - 1]]

LEMMA ChunkType ==
    ASSUME ConnectionTypeOK, NEW t \in Thread, NEW k \in Nat
    PROVE  /\ Chunk(t, k) \in Seq(Byte)
           /\ Len(Chunk(t, k)) = k
           /\ Index(count[t]) \in Int
           /\ \A i \in 1 .. k : Chunk(t, k)[i] = [frame |-> frame[t], at |-> Index(count[t]) + i - 1]
<1>1. count[t] \in Int /\ frame[t] \in Nat
  BY Numbers
<1>2. Index(count[t]) \in Int
  BY <1>1, Numbers DEF Index
<1>3. \A i \in 1 .. k : [frame |-> frame[t], at |-> Index(count[t]) + i - 1] \in Byte
  BY <1>1, <1>2 DEF Byte
<1>4. Chunk(t, k) \in [1 .. k -> Byte]
  BY <1>3 DEF Chunk
<1> QED
  BY <1>2, <1>4, SeqDef DEF Chunk

\* What is left of a frame is a number below M.
LEMMA LeftType ==
    ASSUME ConnectionTypeOK, NEW t \in Thread
    PROVE  Left(t) = (IF count[t] <= Size[t] THEN Size[t] - count[t] ELSE Size[t] - count[t] + M)
           /\ Left(t) \in Word
<1>1. count[t] \in 0 .. M - 1 /\ Size[t] \in Nat /\ Size[t] < M /\ M \in Nat
  BY Numbers
<1> DEFINE a == Size[t] - count[t]
<1>2. a \in Int /\ -M <= a /\ a < M /\ (a < 0 <=> ~ count[t] <= Size[t])
  BY <1>1
<1> HIDE DEF a
<1>3. a % M = IF a < 0 THEN a + M ELSE IF a < M THEN a ELSE a - M
  BY <1>1, <1>2, ModValue
<1>4. Left(t) = a % M
  BY DEF Left, a
<1> QED
  BY <1>1, <1>2, <1>3, <1>4 DEF a, Word

\* What SendSome writes into count.
LEMMA CountUp ==
    ASSUME ConnectionTypeOK, NEW t \in Thread, NEW k \in 1 .. Left(t)
    PROVE  /\ k \in 1 .. M - 1
           /\ (count[t] + k) % M = (IF count[t] + k < M THEN count[t] + k ELSE count[t] + k - M)
           /\ (count[t] + k) % M \in Word
<1>1. count[t] \in 0 .. M - 1 /\ M \in Nat /\ k \in 1 .. M - 1
  BY Numbers, LeftType DEF Word
<1> DEFINE a == count[t] + k
<1>2. a \in Int /\ 0 <= a /\ a < 2 * M
  BY <1>1
<1> HIDE DEF a
<1>3. a % M = IF a < 0 THEN a + M ELSE IF a < M THEN a ELSE a - M
  BY <1>1, <1>2, ModValue
<1> QED
  BY <1>1, <1>2, <1>3 DEF a, Word

\* What SendFails writes into count and failed.
LEMMA CountDown ==
    ASSUME ConnectionTypeOK, NEW t \in Thread
    PROVE  /\ (count[t] + M - 1) % M = (IF count[t] = 0 THEN M - 1 ELSE count[t] - 1)
           /\ (failed[t] + 1) % M = (IF failed[t] = M - 1 THEN 0 ELSE failed[t] + 1)
           /\ (count[t] + M - 1) % M \in Word /\ (failed[t] + 1) % M \in Word
           /\ M - 1 \in Word
<1>1. count[t] \in 0 .. M - 1 /\ failed[t] \in 0 .. M - 1 /\ M \in Nat /\ M > 1
  BY Numbers
<1> DEFINE a == count[t] + M - 1
           b == failed[t] + 1
<1>2. a \in Int /\ 0 <= a /\ a < 2 * M /\ b \in Int /\ 0 <= b /\ b < 2 * M
  BY <1>1
<1> HIDE DEF a, b
<1>3. /\ a % M = IF a < 0 THEN a + M ELSE IF a < M THEN a ELSE a - M
      /\ b % M = IF b < 0 THEN b + M ELSE IF b < M THEN b ELSE b - M
  BY <1>1, <1>2, ModValue
<1> QED
  BY <1>1, <1>2, <1>3, Words DEF a, b, Word
------------------------------------------------------------------------------
(* Types *)

\* Initially every variable has its type.
LEMMA InitType == Init => ConnectionTypeOK
BY Words DEF Init, ConnectionTypeOK, Outcome

\* Every action keeps the types.
LEMMA TypeStep == ConnectionTypeOK /\ [Next]_cnVars => ConnectionTypeOK'
<1> SUFFICES ASSUME ConnectionTypeOK, [Next]_cnVars PROVE ConnectionTypeOK'
  OBVIOUS
<1>1. ASSUME NEW t \in Thread, Send(t) PROVE ConnectionTypeOK'
  BY <1>1 DEF Send, ConnectionTypeOK
<1>2. ASSUME NEW t \in Thread, SendSome(t) PROVE ConnectionTypeOK'
  <2>1. PICK k \in 1 .. Left(t) :
          /\ tmp' = [tmp EXCEPT ![t] = k]
          /\ count' = [count EXCEPT ![t] = (@ + k) % M]
          /\ wire' = wire \o Chunk(t, k)
          /\ put' = [put EXCEPT ![t] = @ + k]
    BY <1>2, Zenon DEF SendSome, Chunk
  <2>2. k \in Word /\ k \in Nat /\ (count[t] + k) % M \in Word
    BY CountUp DEF Word
  <2>3. Chunk(t, k) \in Seq(Byte)
    BY <2>2, ChunkType
  <2>4. wire' \in Seq(Byte)
    <3>1. wire \in Seq(Byte)
      BY DEF ConnectionTypeOK, Byte
    <3> QED
      BY <2>1, <2>3, <3>1, ConcatProperties
  <2>5. count' \in [Thread -> Word] /\ tmp' \in [Thread -> Word] /\ put' \in [Thread -> Nat]
    BY <2>1, <2>2 DEF ConnectionTypeOK
  <2> QED
    BY <1>2, <2>4, <2>5 DEF SendSome, ConnectionTypeOK, Byte
<1>3. ASSUME NEW t \in Thread, SendFails(t) PROVE ConnectionTypeOK'
  <2>1. (count[t] + M - 1) % M \in Word /\ (failed[t] + 1) % M \in Word /\ M - 1 \in Word
    BY CountDown
  <2>2. count' \in [Thread -> Word] /\ tmp' \in [Thread -> Word] /\ failed' \in [Thread -> Word]
    BY <1>3, <2>1 DEF SendFails, ConnectionTypeOK
  <2>3. failures' \in Nat
    BY <1>3 DEF SendFails, OpenFails, ConnectionTypeOK
  <2> QED
    BY <1>3, <2>2, <2>3 DEF SendFails, ConnectionTypeOK
<1>4. ASSUME NEW t \in Thread, SendNothing(t) PROVE ConnectionTypeOK'
  <2>1. failures' \in Nat
    BY <1>4 DEF SendNothing, OpenFails, ConnectionTypeOK
  <2>2. tmp' \in [Thread -> Word]
    BY <1>4, Words DEF SendNothing, ConnectionTypeOK
  <2> QED
    BY <1>4, <2>1, <2>2 DEF SendNothing, ConnectionTypeOK
<1>5. ASSUME NEW t \in Thread, SendEnds(t) PROVE ConnectionTypeOK'
  <2> DEFINE e == [by |-> t, frame |-> frame[t], failed |-> failed[t],
                   how |-> IF count[t] = Size[t] THEN "sent"
                           ELSE IF tmp[t] = 0 THEN "EmptySend" ELSE "SendFailed"]
  <2>1. e \in Ended
    BY DEF ConnectionTypeOK, Ended, Outcome
  <2>2. ended' \in Seq(Ended)
    BY <1>5, <2>1, AppendProperties DEF SendEnds, ConnectionTypeOK, Ended
  <2>3. /\ pc' \in [Thread -> {"idle", "send"}] /\ mutex' = NoThread
        /\ count' \in [Thread -> Word] /\ tmp' \in [Thread -> Word]
        /\ put' \in [Thread -> Nat] /\ failed' \in [Thread -> Word]
    BY <1>5, Words DEF SendEnds, ConnectionTypeOK
  <2> QED
    BY <1>5, <2>2, <2>3 DEF SendEnds, ConnectionTypeOK, Ended
<1>6. ASSUME NEW t \in Thread, Disconnect(t) PROVE ConnectionTypeOK'
  BY <1>6 DEF Disconnect, ConnectionTypeOK, sendVars
<1>7. ASSUME NEW t \in Thread, NEW type \in DataType, NEW v \in DataValue, SetUserData(t, type, v)
      PROVE  ConnectionTypeOK'
  BY <1>7 DEF SetUserData, ConnectionTypeOK, sendVars
<1>8. ASSUME NEW t \in Thread, NEW type \in DataType, GetUserData(t, type) PROVE ConnectionTypeOK'
  BY <1>8 DEF GetUserData, ConnectionTypeOK, sendVars
<1>9. ASSUME NEW t \in Thread, ReleaseUserData(t) PROVE ConnectionTypeOK'
  BY <1>9 DEF ReleaseUserData, ConnectionTypeOK, sendVars
<1>10. CASE UNCHANGED cnVars
  BY <1>10 DEF cnVars, sendVars, ConnectionTypeOK
<1> QED
  BY <1>1, <1>2, <1>3, <1>4, <1>5, <1>6, <1>7, <1>8, <1>9, <1>10 DEF Next

\* Every variable keeps its type, and get_user_data never reads a member of the
\* union that was not the last written (Connection.cpp, the user data).
THEOREM ConnectionTypeCorrect == Spec => []ConnectionTypeOK
<1>1. Init => ConnectionTypeOK
  BY InitType
<1>2. ConnectionTypeOK /\ [Next]_cnVars => ConnectionTypeOK'
  BY TypeStep
<1> QED
  BY <1>1, <1>2, PTL DEF Spec
------------------------------------------------------------------------------
(* The law of the loop, and whole frames *)

\* The places of a frame are finitely many numbers of the wire.
LEMMA PlacesFinite ==
    ASSUME NEW w \in Seq(Byte), NEW n
    PROVE  /\ IsFiniteSet(PlacesOf(n, w)) /\ Cardinality(PlacesOf(n, w)) \in Nat
           /\ PlacesOf(n, w) \subseteq 1 .. Len(w)
<1>1. DOMAIN w = 1 .. Len(w) /\ Len(w) \in Nat
  BY LenProperties
<1>2. PlacesOf(n, w) \in SUBSET (1 .. Len(w))
  BY <1>1 DEF PlacesOf
<1>3. IsFiniteSet(1 .. Len(w))
  BY <1>1, FS_Interval
<1> QED
  BY <1>2, <1>3, FS_Subset, FS_CardinalityType

LEMMA WireType == ConnectionTypeOK => wire \in Seq(Byte)
BY DEF ConnectionTypeOK, Byte

LEMMA EndedType == ConnectionTypeOK => ended \in Seq(Ended)
BY DEF ConnectionTypeOK, Ended

\* What the histories hold.
LEMMA HistoryTypes ==
    ASSUME ConnectionTypeOK
    PROVE  /\ DOMAIN wire = 1 .. Len(wire) /\ Len(wire) \in Nat
           /\ \A p \in DOMAIN wire : wire[p].frame \in Nat /\ wire[p].at \in Int
           /\ DOMAIN ended = 1 .. Len(ended) /\ Len(ended) \in Nat
           /\ \A n \in DOMAIN ended : ended[n] \in Ended /\ ended[n].frame \in Nat
<1>1. wire \in Seq(Byte) /\ ended \in Seq(Ended)
  BY WireType, EndedType
<1>2. /\ DOMAIN wire = 1 .. Len(wire) /\ Len(wire) \in Nat
      /\ DOMAIN ended = 1 .. Len(ended) /\ Len(ended) \in Nat
  BY <1>1, LenProperties
<1>3. \A p \in DOMAIN wire : wire[p] \in Byte
  BY <1>1, <1>2, ElementOfSeq
<1>4. \A n \in DOMAIN ended : ended[n] \in Ended
  BY <1>1, <1>2, ElementOfSeq
<1> QED
  BY <1>2, <1>3, <1>4 DEF Byte, Ended

\* The invariant makes the count congruent to what was put less the failures.
LEMMA SendLaw ==
    ASSUME ConnectionTypeOK, ConnectionInv, NEW t \in Thread, pc[t] = "send"
    PROVE  (put[t] - failed[t] - count[t]) % M = 0
<1> DEFINE a == put[t] - failed[t] - count[t]
<1>1. Progress(t)
  BY DEF ConnectionInv, Sending
<1>2. a \in Int /\ (a = 0 \/ a = -M)
  BY <1>1, Numbers DEF Progress
<1>3. M \in Nat /\ M > 0
  BY Numbers
<1> HIDE DEF a
<1>4. a % M = IF a < 0 THEN a + M ELSE IF a < M THEN a ELSE a - M
  BY <1>2, <1>3, ModValue
<1> QED
  BY <1>2, <1>3, <1>4 DEF a

LEMMA InvGivesLaw == ConnectionTypeOK /\ ConnectionInv => CountLaw
BY SendLaw DEF ConnectionInv, CountLaw

\* While a thread is inside send, no other one is.
LEMMA OneSender ==
    ASSUME ConnectionTypeOK, ConnectionInv, NEW t \in Thread, pc[t] = "send"
    PROVE  /\ mutex = t /\ mutex # NoThread /\ frame[t] = frames
           /\ \A u \in Thread : pc[u] = "send" => u = t
BY ConnectionAssumption DEF ConnectionInv, SendersAlone

LEMMA InitInv == Init => ConnectionInv
<1> SUFFICES ASSUME Init PROVE ConnectionInv
  OBVIOUS
<1>1. \A t \in Thread : pc[t] = "idle" /\ mutex # t
  BY ConnectionAssumption DEF Init
<1>2. DOMAIN wire = {} /\ DOMAIN ended = {}
  BY DEF Init
<1>3. SendersAlone
  BY <1>1, <1>2 DEF Init, SendersAlone
<1>4. failures <= MaxFailures
  BY Sizes DEF Init
<1> QED
  BY <1>1, <1>2, <1>3, <1>4 DEF ConnectionInv, FramesWhole

\* send takes the mutex: its frame has no byte on the wire yet.
LEMMA SendInv ==
    ASSUME ConnectionTypeOK, ConnectionInv, NEW t \in Thread, Send(t)
    PROVE  ConnectionInv'
<1> USE DEF Send
<1>1. \A u \in Thread : pc[u] = "idle"
  BY ConnectionAssumption DEF ConnectionInv, SendersAlone, ConnectionTypeOK
<1>2. /\ pc'[t] = "send" /\ \A u \in Thread \ {t} : pc'[u] = "idle"
      /\ frame'[t] = frames + 1 /\ frames' = frames + 1 /\ frames \in Nat
  BY <1>1 DEF ConnectionTypeOK
<1>3. PlacesOf(frames + 1, wire) = {}
  <2>1. \A p \in DOMAIN wire : wire[p].frame # frames + 1
    BY <1>2, HistoryTypes DEF ConnectionInv, SendersAlone
  <2> QED
    BY <2>1 DEF PlacesOf
<1>4. SendersAlone'
  <2>1. \A p \in DOMAIN wire : wire[p].frame <= frames'
    BY <1>2, HistoryTypes DEF ConnectionInv, SendersAlone
  <2>2. ASSUME NEW n \in DOMAIN ended PROVE ended[n].frame < frames'
    <3>1. ended[n].frame \in Nat /\ ended[n].frame <= frames
      BY HistoryTypes DEF ConnectionInv, SendersAlone
    <3> QED
      BY <1>2, <3>1
  <2>3. \A u \in Thread : pc'[u] = "send" <=> mutex' = u
    BY <1>2, ConnectionAssumption
  <2>4. \A u \in Thread : pc'[u] = "send" => frame'[u] = frames'
    BY <1>2
  <2>5. \A u \in Thread : pc'[u] = "idle" => count'[u] = 0 /\ tmp'[u] = 1 /\ put'[u] = 0 /\ failed'[u] = 0
    BY <1>1 DEF ConnectionInv, SendersAlone
  <2>6. \A n \in DOMAIN ended' : ended'[n].frame <= frames' /\ (mutex' # NoThread => ended'[n].frame < frames')
    <3>1. \A n \in DOMAIN ended : ended[n].frame \in Nat
      BY HistoryTypes
    <3> QED
      BY <1>2, <2>2, <3>1
  <2> QED
    BY <2>1, <2>3, <2>4, <2>5, <2>6 DEF SendersAlone
<1>5. Sending(t)'
  <2>1. put'[t] = 0 /\ tmp'[t] = 1 /\ failed'[t] = 0 /\ count'[t] = 0
    BY <1>1 DEF ConnectionInv, SendersAlone
  <2>2. Cardinality(PlacesOf(frame'[t], wire')) = 0
    BY <1>2, <1>3, FS_EmptySet
  <2>3. Reached(frame'[t], -1, wire')
    BY DEF Reached
  <2>4. Progress(t)'
    BY <2>1, <2>3, Numbers DEF Progress
  <2> QED
    BY <2>1, <2>2, <2>4 DEF Sending
<1>6. \A n \in DOMAIN ended : Accounted(ended[n])'
  BY DEF ConnectionInv, Accounted
<1>7. FramesWhole'
  BY DEF ConnectionInv, FramesWhole, LeftWhole
<1> QED
  BY <1>2, <1>4, <1>5, <1>6, <1>7 DEF ConnectionInv

\* A chunk behind a wire: where its bytes are, and that the frame has been
\* reached up to its end when it was reached up to its beginning.
LEMMA ChunkBehind ==
    ASSUME NEW w \in Seq(Byte), NEW f \in Nat, NEW s \in Int, NEW k \in Nat,
           NEW c \in Seq(Byte), Len(c) = k,
           \A i \in 1 .. k : c[i] = [frame |-> f, at |-> s + i - 1]
    PROVE  /\ \A n : n # f => PlacesOf(n, w \o c) = PlacesOf(n, w)
           /\ \A n, last : n # f /\ Reached(n, last, w) => Reached(n, last, w \o c)
           /\ Cardinality(PlacesOf(f, w \o c)) = Cardinality(PlacesOf(f, w)) + k
           /\ Reached(f, s - 1, w) => Reached(f, s + k - 1, w \o c)
<1> DEFINE v == w \o c
           L == Len(w)
<1>1. /\ L \in Nat /\ DOMAIN w = 1 .. L /\ DOMAIN v = 1 .. L + k /\ v \in Seq(Byte)
      /\ \A i \in 1 .. L : v[i] = w[i]
      /\ \A i \in L + 1 .. L + k : v[i].frame = f /\ v[i].at = s + (i - L) - 1
  <2>1. /\ v \in Seq(Byte) /\ Len(v) = L + k /\ L \in Nat
        /\ \A i \in 1 .. L + k : v[i] = IF i <= L THEN w[i] ELSE c[i - L]
    BY ConcatProperties, LenProperties
  <2>2. DOMAIN w = 1 .. L /\ DOMAIN v = 1 .. L + k
    BY <2>1, LenProperties
  <2> HIDE DEF v, L
  <2>3. ASSUME NEW i \in 1 .. L PROVE v[i] = w[i]
    BY <2>1
  <2>4. ASSUME NEW i \in L + 1 .. L + k PROVE v[i].frame = f /\ v[i].at = s + (i - L) - 1
    <3>1. i - L \in 1 .. k /\ i \in 1 .. L + k /\ ~ i <= L
      BY <2>1
    <3>2. v[i] = c[i - L]
      BY <2>1, <3>1
    <3> DEFINE j == i - L
    <3> HIDE DEF j
    <3>3. c[j] = [frame |-> f, at |-> s + j - 1]
      BY <3>1 DEF j
    <3>4. v[i].frame = f /\ v[i].at = s + j - 1
      BY <3>2, <3>3 DEF j
    <3> QED
      BY <3>1, <3>4 DEF j
  <2> QED
    BY <2>1, <2>2, <2>3, <2>4
<1> HIDE DEF v, L
<1>2. ASSUME NEW n, n # f PROVE PlacesOf(n, v) = PlacesOf(n, w)
  <2>1. ASSUME NEW p PROVE p \in PlacesOf(n, v) <=> p \in PlacesOf(n, w)
    <3>1. p \in 1 .. L + k <=> p \in 1 .. L \/ p \in L + 1 .. L + k
      BY <1>1
    <3> QED
      BY <1>1, <1>2, <3>1 DEF PlacesOf
  <2> QED
    BY <2>1
<1>3. \A n, last : n # f /\ Reached(n, last, w) => Reached(n, last, v)
  <2> SUFFICES ASSUME NEW n, NEW last, n # f, Reached(n, last, w) PROVE Reached(n, last, v)
    OBVIOUS
  <2>1. PlacesOf(n, v) = PlacesOf(n, w)
    BY <1>2
  <2>2. \A p \in PlacesOf(n, w) : v[p] = w[p]
    BY <1>1 DEF PlacesOf
  <2> QED
    BY <2>1, <2>2 DEF Reached
<1>4. PlacesOf(f, v) = PlacesOf(f, w) \cup (L + 1 .. L + k)
  <2>1. ASSUME NEW p PROVE p \in PlacesOf(f, v) <=> p \in PlacesOf(f, w) \cup (L + 1 .. L + k)
    <3>1. p \in 1 .. L + k <=> p \in 1 .. L \/ p \in L + 1 .. L + k
      BY <1>1
    <3> QED
      BY <1>1, <3>1 DEF PlacesOf
  <2> QED
    BY <2>1
<1>5. PlacesOf(f, w) \cap (L + 1 .. L + k) = {}
  BY <1>1 DEF PlacesOf
<1>6. Cardinality(PlacesOf(f, v)) = Cardinality(PlacesOf(f, w)) + k
  <2>1. IsFiniteSet(L + 1 .. L + k) /\ Cardinality(L + 1 .. L + k) = k
    <3>1. L \in Nat
      BY <1>1
    <3> HIDE DEF L
    <3>2. L + 1 \in Int /\ L + k \in Int
      BY <3>1
    <3>3. /\ IsFiniteSet(L + 1 .. L + k)
          /\ Cardinality(L + 1 .. L + k) = IF L + 1 > L + k THEN 0 ELSE (L + k) - (L + 1) + 1
      BY ONLY <3>2, FS_Interval
    <3> QED
      BY <3>1, <3>3
  <2>2. IsFiniteSet(PlacesOf(f, w)) /\ Cardinality(PlacesOf(f, w)) \in Nat
    BY PlacesFinite
  <2> DEFINE A == PlacesOf(f, w)
             B == L + 1 .. L + k
  <2>3. IsFiniteSet(A) /\ IsFiniteSet(B) /\ A \cap B = {}
    BY <1>5, <2>1, <2>2
  <2> HIDE DEF A, B
  <2>4. Cardinality(A \cup B) = Cardinality(A) + Cardinality(B) - Cardinality(A \cap B)
    BY <2>3, FS_Union
  <2>5. Cardinality(A \cap B) = 0
    BY <2>3, FS_EmptySet
  <2> QED
    BY <1>1, <1>4, <2>1, <2>2, <2>4, <2>5 DEF A, B
<1>7. ASSUME Reached(f, s - 1, w), NEW i \in 0 .. s + k - 1
      PROVE  \E p \in PlacesOf(f, v) : v[p].at = i /\ \A q \in PlacesOf(f, v) : q > p => v[q].at > i
  <2>1. CASE i < s
    <3>1. PICK p \in PlacesOf(f, w) : w[p].at = i /\ \A q \in PlacesOf(f, w) : q > p => w[q].at > i
      BY <1>7, <2>1 DEF Reached
    <3>2. p \in 1 .. L /\ v[p].at = i /\ p \in PlacesOf(f, v)
      BY <1>1, <1>4, <3>1 DEF PlacesOf
    <3>3. ASSUME NEW q \in PlacesOf(f, v), q > p PROVE v[q].at > i
      <4>1. CASE q \in PlacesOf(f, w)
        BY <1>1, <3>1, <3>3, <4>1 DEF PlacesOf
      <4>2. CASE q \in L + 1 .. L + k
        <5>1. v[q].at = s + (q - L) - 1 /\ q \in Int /\ q > L
          BY <1>1, <4>2
        <5> QED
          BY <1>1, <1>7, <2>1, <5>1
      <4> QED
        BY <1>4, <3>3, <4>1, <4>2
    <3> QED
      BY <3>2, <3>3
  <2>2. CASE ~ i < s
    <3> DEFINE p == L + (i - s) + 1
    <3>1. p \in L + 1 .. L + k /\ p \in Int
      BY <1>1, <1>7, <2>2
    <3>2. v[p].at = i
      BY <1>1, <1>7, <3>1
    <3> HIDE DEF p
    <3>3. ASSUME NEW q \in PlacesOf(f, v), q > p PROVE v[q].at > i
      <4>1. q \in L + 1 .. L + k
        BY <1>1, <3>1, <3>3 DEF PlacesOf
      <4>2. v[q].at = s + (q - L) - 1 /\ v[p].at = s + (p - L) - 1
        BY <1>1, <3>1, <4>1
      <4> QED
        BY <1>1, <3>1, <3>2, <3>3, <4>1, <4>2
    <3> QED
      BY <1>4, <3>1, <3>2, <3>3
  <2> QED
    BY <1>7, <2>1, <2>2
<1> QED
  BY <1>2, <1>3, <1>6, <1>7 DEF v, Reached

\* ::send takes bytes of the one frame that is being sent.
LEMMA SendSomeInv ==
    ASSUME ConnectionTypeOK, ConnectionInv, NEW t \in Thread, SendSome(t)
    PROVE  ConnectionInv'
<1> DEFINE f == frame[t]
           s == put[t] - failed[t]
<1>1. PICK k \in 1 .. Left(t) :
        /\ tmp' = [tmp EXCEPT ![t] = k]
        /\ count' = [count EXCEPT ![t] = (@ + k) % M]
        /\ wire' = wire \o Chunk(t, k)
        /\ put' = [put EXCEPT ![t] = @ + k]
  BY Zenon DEF SendSome, Chunk
<1>2. /\ pc[t] = "send" /\ connected /\ pc' = pc /\ mutex' = mutex /\ connected' = connected
      /\ frames' = frames /\ frame' = frame /\ failed' = failed /\ failures' = failures /\ ended' = ended
  BY DEF SendSome, Looping
<1>3. /\ mutex = t /\ mutex # NoThread /\ f = frames
      /\ \A u \in Thread : pc[u] = "send" => u = t
  BY <1>2, OneSender
<1>4. Sending(t) /\ failures <= MaxFailures
  BY <1>2 DEF ConnectionInv
<1>5. /\ failed[t] <= failures /\ put[t] <= failed[t] + Size[t]
      /\ count[t] = put[t] - failed[t] + (IF put[t] < failed[t] THEN M ELSE 0)
      /\ Reached(f, s - 1, wire) /\ put[t] = Cardinality(PlacesOf(f, wire))
  BY <1>2, <1>4 DEF Sending, Progress
<1>6. k \in 1 .. Size[t] - s /\ Index(count[t]) = s /\ s \in Int
  <2>1. Left(t) = IF count[t] <= Size[t] THEN Size[t] - count[t] ELSE Size[t] - count[t] + M
    BY LeftType
  <2>2. Left(t) = Size[t] - s /\ s \in Int
    BY <1>4, <1>5, <2>1, Numbers
  <2>3. Index(count[t]) = s
    BY <1>4, <1>5, Numbers DEF Index
  <2> QED
    BY <2>2, <2>3
<1>7. /\ put'[t] = put[t] + k /\ tmp'[t] = k /\ k \in Nat /\ k > 0 /\ f \in Nat
      /\ count'[t] = IF count[t] + k < M THEN count[t] + k ELSE count[t] + k - M
      /\ \A u \in Thread \ {t} : count'[u] = count[u] /\ tmp'[u] = tmp[u] /\ put'[u] = put[u]
  <2>1. (count[t] + k) % M = IF count[t] + k < M THEN count[t] + k ELSE count[t] + k - M
    BY CountUp
  <2>2. k \in Nat /\ k > 0 /\ f \in Nat
    BY <1>6, Numbers
  <2> QED
    BY <1>1, <2>1, <2>2 DEF ConnectionTypeOK
<1>8. /\ Chunk(t, k) \in Seq(Byte) /\ Len(Chunk(t, k)) = k /\ wire \in Seq(Byte)
      /\ \A i \in 1 .. k : Chunk(t, k)[i] = [frame |-> f, at |-> s + i - 1]
  BY <1>6, <1>7, ChunkType, WireType
<1> DEFINE c == Chunk(t, k)
<1> HIDE DEF c, f, s
<1>9. /\ \A n : n # f => PlacesOf(n, wire') = PlacesOf(n, wire)
      /\ \A n, last : n # f /\ Reached(n, last, wire) => Reached(n, last, wire')
      /\ Cardinality(PlacesOf(f, wire')) = Cardinality(PlacesOf(f, wire)) + k
      /\ Reached(f, s + k - 1, wire')
  <2>1. wire' = wire \o c /\ c \in Seq(Byte) /\ Len(c) = k
        /\ \A i \in 1 .. k : c[i] = [frame |-> f, at |-> s + i - 1]
    BY <1>1, <1>8 DEF c
  <2>2. wire \in Seq(Byte) /\ f \in Nat /\ s \in Int /\ k \in Nat /\ Reached(f, s - 1, wire)
    BY <1>5, <1>6, <1>7, <1>8
  <2>3. /\ \A n : n # f => PlacesOf(n, wire \o c) = PlacesOf(n, wire)
        /\ \A n, last : n # f /\ Reached(n, last, wire) => Reached(n, last, wire \o c)
        /\ Cardinality(PlacesOf(f, wire \o c)) = Cardinality(PlacesOf(f, wire)) + k
        /\ Reached(f, s + k - 1, wire \o c)
    BY <2>1, <2>2, ChunkBehind
  <2> QED
    BY <2>1, <2>3
<1>10. Sending(t)'
  <2>1. put'[t] = Cardinality(PlacesOf(frame'[t], wire'))
    BY <1>2, <1>5, <1>7, <1>9 DEF f
  <2>2. tmp'[t] # 0
    BY <1>7
  <2>3. s + k - 1 = put'[t] - failed'[t] - 1
    BY <1>2, <1>7, Numbers DEF s
  <2>4. Reached(frame'[t], put'[t] - failed'[t] - 1, wire')
    BY <1>2, <1>9, <2>3 DEF f
  <2>5. failed'[t] <= failures' /\ put'[t] <= failed'[t] + Size[t]
    BY <1>2, <1>5, <1>6, <1>7, Numbers DEF s
  <2>6. count'[t] = put'[t] - failed'[t] + (IF put'[t] < failed'[t] THEN M ELSE 0)
    BY <1>2, <1>4, <1>5, <1>6, <1>7, Numbers DEF s
  <2> QED
    BY <1>2, <2>1, <2>2, <2>4, <2>5, <2>6 DEF Sending, Progress
<1>11. ASSUME NEW p \in DOMAIN wire'
       PROVE  \/ p \in DOMAIN wire /\ wire'[p] = wire[p]
              \/ p > Len(wire) /\ wire'[p].frame = frames
  <2>1. /\ wire' \in Seq(Byte) /\ Len(wire') = Len(wire) + k /\ Len(wire) \in Nat
        /\ \A i \in 1 .. Len(wire) + k : wire'[i] = IF i <= Len(wire) THEN wire[i] ELSE c[i - Len(wire)]
    BY <1>1, <1>8, ConcatProperties, LenProperties DEF c
  <2>2. DOMAIN wire' = 1 .. Len(wire) + k /\ DOMAIN wire = 1 .. Len(wire)
    BY <1>8, <2>1, LenProperties
  <2>3. CASE p <= Len(wire)
    BY <2>1, <2>2, <2>3
  <2>4. CASE ~ p <= Len(wire)
    <3>1. p - Len(wire) \in 1 .. k /\ p > Len(wire) /\ wire'[p] = c[p - Len(wire)]
      BY <2>1, <2>2, <2>4, <1>7
    <3>2. wire'[p].frame = f
      BY <1>8, <3>1 DEF c
    <3> QED
      BY <1>3, <3>1, <3>2
  <2> QED
    BY <2>3, <2>4
<1>12. SendersAlone'
  <2>1. \A u \in Thread : pc'[u] = "idle" => count'[u] = 0 /\ tmp'[u] = 1 /\ put'[u] = 0 /\ failed'[u] = 0
    BY <1>2, <1>7 DEF ConnectionInv, SendersAlone
  <2>2. \A p \in DOMAIN wire' : wire'[p].frame <= frames'
    <3>1. \A p \in DOMAIN wire : wire[p].frame <= frames
      BY DEF ConnectionInv, SendersAlone
    <3>2. frames \in Nat
      BY Numbers
    <3> QED
      BY <1>2, <1>11, <3>1, <3>2
  <2> QED
    BY <1>2, <2>1, <2>2 DEF ConnectionInv, SendersAlone
<1>13. ASSUME NEW n \in DOMAIN ended PROVE Accounted(ended[n])' /\ LeftWhole(ended[n])'
  <2>1. ended[n].frame # f
    <3>1. ended[n].frame < frames /\ ended[n].frame \in Nat
      BY <1>3, HistoryTypes DEF ConnectionInv, SendersAlone
    <3> QED
      BY <1>3, <3>1, Numbers
  <2>2. Accounted(ended[n]) /\ LeftWhole(ended[n])
    BY DEF ConnectionInv, FramesWhole
  <2> QED
    BY <1>2, <1>9, <2>1, <2>2 DEF Accounted, LeftWhole
<1>14. ASSUME NEW i \in DOMAIN wire', NEW j \in DOMAIN wire', i < j
       PROVE  wire'[i].frame <= wire'[j].frame
  <2>1. i \in DOMAIN wire => wire[i].frame \in Nat /\ wire[i].frame <= frames /\ i \in Nat /\ i <= Len(wire)
    BY HistoryTypes DEF ConnectionInv, SendersAlone
  <2>2. j \in DOMAIN wire => j \in Nat /\ j <= Len(wire)
    BY HistoryTypes
  <2>3. frames \in Nat /\ Len(wire) \in Nat
    BY Numbers, HistoryTypes
  <2>4. CASE i \in DOMAIN wire /\ j \in DOMAIN wire /\ wire'[i] = wire[i] /\ wire'[j] = wire[j]
    BY <1>14, <2>4 DEF ConnectionInv, FramesWhole
  <2>5. CASE wire'[j].frame = frames
    BY <1>11, <2>1, <2>3, <2>5
  <2>6. CASE j \in DOMAIN wire /\ i > Len(wire)
    <3>1. i \in Nat
      <4>1. wire' \in Seq(Byte)
        BY <1>1, <1>8, ConcatProperties
      <4> QED
        BY <4>1, LenProperties
    <3> QED
      BY <1>14, <2>2, <2>3, <2>6, <3>1
  <2> QED
    BY <1>11, <2>4, <2>5, <2>6
<1> QED
  <2>1. \A u \in Thread : pc'[u] = "send" => Sending(u)'
    BY <1>2, <1>3, <1>10
  <2>2. FramesWhole'
    BY <1>2, <1>13, <1>14 DEF FramesWhole
  <2> QED
    BY <1>2, <1>4, <1>12, <1>13, <2>1, <2>2 DEF ConnectionInv

\* A step that leaves the wire and the ended sends, and takes no failure back.
LEMMA EndedKept ==
    ASSUME ConnectionTypeOK, ConnectionInv, UNCHANGED <<wire, ended>>, failures' \in Nat, failures' >= failures
    PROVE  FramesWhole' /\ \A n \in DOMAIN ended' : Accounted(ended[n])'
<1>1. failures \in Nat
  BY DEF ConnectionTypeOK
<1>2. FramesWhole'
  BY DEF ConnectionInv, FramesWhole, LeftWhole
<1>3. ASSUME NEW n \in DOMAIN ended PROVE Accounted(ended[n])'
  BY <1>1 DEF ConnectionInv, Accounted
<1> QED
  BY <1>2, <1>3

\* A failing call of ::send takes one from the count, and counts as a failure.
LEMMA SendFailsInv ==
    ASSUME ConnectionTypeOK, ConnectionInv, NEW t \in Thread, SendFails(t)
    PROVE  ConnectionInv'
<1>1. /\ pc[t] = "send" /\ pc' = pc /\ mutex' = mutex /\ connected' = connected /\ wire' = wire
      /\ frames' = frames /\ frame' = frame /\ put' = put /\ ended' = ended
  BY DEF SendFails, Looping
<1>2. /\ \A u \in Thread : pc[u] = "send" => u = t
      /\ Sending(t) /\ failures <= MaxFailures
  BY <1>1, OneSender DEF ConnectionInv
<1>3. /\ tmp'[t] = M - 1
      /\ count'[t] = IF count[t] = 0 THEN M - 1 ELSE count[t] - 1
      /\ failed'[t] = IF failed[t] = M - 1 THEN 0 ELSE failed[t] + 1
      /\ \A u \in Thread \ {t} : count'[u] = count[u] /\ tmp'[u] = tmp[u] /\ failed'[u] = failed[u]
  <2>1. /\ (count[t] + M - 1) % M = (IF count[t] = 0 THEN M - 1 ELSE count[t] - 1)
        /\ (failed[t] + 1) % M = (IF failed[t] = M - 1 THEN 0 ELSE failed[t] + 1)
    BY CountDown
  <2> QED
    BY <2>1 DEF SendFails, ConnectionTypeOK
<1>4. /\ connected => failures < MaxFailures /\ failures' = failures + 1
      /\ ~connected => failures' = failures
      /\ failures \in Nat /\ MaxFailures \in Nat
  BY Numbers DEF SendFails, OpenFails
<1>5. Progress(t)'
  <2>1. CASE connected
    <3>1. /\ failed[t] <= failures /\ put[t] <= failed[t] + Size[t]
          /\ count[t] = put[t] - failed[t] + (IF put[t] < failed[t] THEN M ELSE 0)
          /\ Reached(frame[t], put[t] - failed[t] - 1, wire)
      BY <1>2, <2>1 DEF Sending, Progress
    <3>2. failed'[t] = failed[t] + 1
      BY <1>2, <1>3, <3>1, Numbers
    <3>3. /\ failed'[t] <= failures' /\ put'[t] <= failed'[t] + Size[t]
          /\ count'[t] = put'[t] - failed'[t] + (IF put'[t] < failed'[t] THEN M ELSE 0)
      BY <1>1, <1>2, <1>3, <1>4, <2>1, <3>1, <3>2, Numbers
    <3>4. Reached(frame'[t], put'[t] - failed'[t] - 1, wire')
      <4>1. 0 .. put'[t] - failed'[t] - 1 \subseteq 0 .. put[t] - failed[t] - 1
        BY <1>1, <3>2, Numbers
      <4> QED
        BY <1>1, <3>1, <4>1 DEF Reached
    <3> QED
      BY <1>1, <2>1, <3>3, <3>4 DEF Progress
  <2>2. CASE ~connected
    <3>1. put[t] = 0 /\ (failed[t] + count[t] = 0 \/ failed[t] + count[t] = M)
      BY <1>2, <2>2 DEF Sending, Progress
    <3>2. failed'[t] + count'[t] = 0 \/ failed'[t] + count'[t] = M
      BY <1>3, <3>1, Numbers
    <3> QED
      BY <1>1, <2>2, <3>1, <3>2 DEF Progress
  <2> QED
    BY <2>1, <2>2
<1>6. Sending(t)'
  <2>1. tmp'[t] # 0
    BY <1>3, Numbers
  <2> QED
    BY <1>1, <1>2, <1>5, <2>1 DEF Sending
<1>7. SendersAlone'
  <2>1. \A u \in Thread : pc'[u] = "idle" => count'[u] = 0 /\ tmp'[u] = 1 /\ put'[u] = 0 /\ failed'[u] = 0
    BY <1>1, <1>3 DEF ConnectionInv, SendersAlone
  <2> QED
    BY <1>1, <2>1 DEF ConnectionInv, SendersAlone
<1>8. failures' \in Nat /\ failures' >= failures /\ failures' <= MaxFailures
  BY <1>2, <1>4 DEF ConnectionTypeOK
<1>9. FramesWhole' /\ \A n \in DOMAIN ended' : Accounted(ended[n])'
  BY <1>1, <1>8, EndedKept
<1> QED
  BY <1>1, <1>2, <1>6, <1>7, <1>8, <1>9 DEF ConnectionInv

\* A call of ::send that takes nothing ends the loop.
LEMMA SendNothingInv ==
    ASSUME ConnectionTypeOK, ConnectionInv, NEW t \in Thread, SendNothing(t)
    PROVE  ConnectionInv'
<1>1. /\ pc[t] = "send" /\ pc' = pc /\ mutex' = mutex /\ connected /\ connected' = connected
      /\ wire' = wire /\ frames' = frames /\ frame' = frame /\ put' = put /\ ended' = ended
      /\ count' = count /\ failed' = failed
      /\ failures < MaxFailures /\ failures' = failures + 1
  BY DEF SendNothing, OpenFails, Looping
<1>2. /\ \A u \in Thread : pc[u] = "send" => u = t
      /\ Sending(t)
  BY <1>1, OneSender DEF ConnectionInv
<1>3. failures' \in Nat /\ failures' > failures /\ failures' <= MaxFailures /\ failures \in Nat
  BY <1>1, Numbers
<1>4. \A u \in Thread \ {t} : tmp'[u] = tmp[u]
  BY DEF SendNothing, ConnectionTypeOK
<1>5. Sending(t)'
  <2>1. failed[t] <= failures'
    BY <1>1, <1>2, <1>3, Numbers DEF Sending, Progress
  <2> QED
    BY <1>1, <1>2, <1>3, <2>1 DEF Sending, Progress
<1>6. SendersAlone'
  BY <1>1, <1>4 DEF ConnectionInv, SendersAlone
<1>7. FramesWhole' /\ \A n \in DOMAIN ended' : Accounted(ended[n])'
  BY <1>1, <1>3, EndedKept
<1> QED
  BY <1>1, <1>2, <1>3, <1>5, <1>6, <1>7 DEF ConnectionInv

\* A send that returns has put its frame, or found a failure made up; one that
\* throws has met a call that took nothing.
LEMMA SendEndsInv ==
    ASSUME ConnectionTypeOK, ConnectionInv, NEW t \in Thread, SendEnds(t)
    PROVE  ConnectionInv'
<1>1. /\ pc[t] = "send" /\ ~Looping(t) /\ mutex' = NoThread
      /\ connected' = connected /\ wire' = wire /\ frames' = frames /\ frame' = frame
      /\ failures' = failures
  BY DEF SendEnds
<1>2. PICK e \in Ended :
        /\ ended' = Append(ended, e)
        /\ e.by = t /\ e.frame = frame[t] /\ e.failed = failed[t]
        /\ e.how = IF count[t] = Size[t] THEN "sent"
                   ELSE IF tmp[t] = 0 THEN "EmptySend" ELSE "SendFailed"
  <2> DEFINE r == [by |-> t, frame |-> frame[t], failed |-> failed[t],
                   how |-> IF count[t] = Size[t] THEN "sent"
                           ELSE IF tmp[t] = 0 THEN "EmptySend" ELSE "SendFailed"]
  <2>1. r \in Ended
    BY DEF ConnectionTypeOK, Ended, Outcome
  <2>2. ended' = Append(ended, r)
    BY DEF SendEnds
  <2> QED
    BY <2>1, <2>2
<1>3. /\ pc'[t] = "idle" /\ count'[t] = 0 /\ tmp'[t] = 1 /\ put'[t] = 0 /\ failed'[t] = 0
      /\ \A u \in Thread \ {t} : /\ pc'[u] = pc[u] /\ count'[u] = count[u] /\ tmp'[u] = tmp[u]
                                /\ put'[u] = put[u] /\ failed'[u] = failed[u]
  BY DEF SendEnds, ConnectionTypeOK
<1>4. /\ mutex = t /\ frame[t] = frames
      /\ \A u \in Thread : pc[u] = "send" => u = t
      /\ Sending(t) /\ failures <= MaxFailures
  BY <1>1, OneSender DEF ConnectionInv
<1>5. \A u \in Thread : pc'[u] = "idle"
  BY <1>3, <1>4 DEF ConnectionTypeOK
<1>6. ASSUME NEW n \in DOMAIN ended'
      PROVE  (n \in DOMAIN ended /\ ended'[n] = ended[n]) \/ ended'[n] = e
  <2>1. ended \in Seq(Ended)
    BY DEF ConnectionTypeOK, Ended
  <2>2. /\ ended' \in Seq(Ended) /\ Len(ended') = Len(ended) + 1 /\ Len(ended) \in Nat
        /\ \A i \in 1 .. Len(ended) : ended'[i] = ended[i]
        /\ ended'[Len(ended) + 1] = e
    BY <1>2, <2>1, AppendProperties, LenProperties
  <2>3. DOMAIN ended' = 1 .. Len(ended) + 1 /\ DOMAIN ended = 1 .. Len(ended)
    BY <2>1, <2>2, LenProperties
  <2>4. n \in 1 .. Len(ended) \/ n = Len(ended) + 1
    BY <2>2, <2>3
  <2> QED
    BY <2>2, <2>3, <2>4
<1>7. Accounted(e)
  <2>1. CASE count[t] = Size[t]
    <3>1. (put[t] - failed[t] - Size[t]) % M = 0
      BY <1>1, <1>4, <2>1, SendLaw
    <3>2. put[t] = Cardinality(PlacesOf(frame[t], wire))
      BY <1>4 DEF Sending
    <3> QED
      BY <1>2, <2>1, <3>1, <3>2 DEF Accounted
  <2>2. CASE count[t] # Size[t]
    <3>1. tmp[t] = 0
      BY <1>1, <2>2, Numbers DEF Looping
    <3>2. failures > 0
      BY <1>4, <3>1 DEF Sending
    <3>3. e.how = "EmptySend"
      BY <1>2, <2>2, <3>1
    <3> QED
      BY <3>2, <3>3 DEF Accounted
  <2> QED
    BY <2>1, <2>2
<1>8. LeftWhole(e)
  <2> SUFFICES ASSUME PlacesOf(frame[t], wire) # {}, count[t] = Size[t]
               PROVE  Reached(frame[t], Size[t] - 1, wire)
    <3>1. e.how = "sent" => count[t] = Size[t]
      BY <1>2
    <3> QED
      BY <1>2, <3>1 DEF LeftWhole
  <2>1. put[t] # 0
    <3>1. IsFiniteSet(PlacesOf(frame[t], wire))
      BY WireType, PlacesFinite
    <3>2. Cardinality(PlacesOf(frame[t], wire)) # 0
      BY <3>1, FS_EmptySet
    <3> QED
      BY <1>4, <3>2 DEF Sending
  <2>2. /\ failed[t] <= failures
        /\ count[t] = put[t] - failed[t] + (IF put[t] < failed[t] THEN M ELSE 0)
        /\ Reached(frame[t], put[t] - failed[t] - 1, wire)
    BY <1>4, <2>1 DEF Sending, Progress
  <2>3. put[t] - failed[t] = Size[t]
    <3>1. /\ put[t] \in Nat /\ failed[t] \in Nat /\ Size[t] \in Nat /\ M \in Nat
          /\ failures \in Nat /\ MaxFailures \in Nat /\ M > 2 * Size[t] + 2 * MaxFailures
      BY Numbers
    <3>2. failed[t] <= MaxFailures
      BY <1>4, <2>2, <3>1
    <3>3. CASE put[t] < failed[t]
      <4>1. Size[t] = put[t] - failed[t] + M
        BY <2>2, <3>3
      <4> QED
        BY <3>1, <3>2, <4>1
    <3>4. CASE ~(put[t] < failed[t])
      <4>1. Size[t] = put[t] - failed[t] + 0
        BY <2>2, <3>4
      <4> QED
        BY <3>1, <4>1
    <3> QED
      BY <3>3, <3>4
  <2> QED
    BY <2>2, <2>3
<1>9. ASSUME NEW n \in DOMAIN ended'
      PROVE  Accounted(ended'[n]) /\ LeftWhole(ended'[n])
  BY <1>6, <1>7, <1>8, <1>9 DEF ConnectionInv, FramesWhole
<1>10. /\ \A n \in DOMAIN ended' : Accounted(ended[n])'
       /\ FramesWhole'
  <2>1. ASSUME NEW n \in DOMAIN ended'
        PROVE  Accounted(ended[n])' /\ LeftWhole(ended[n])'
    BY <1>1, <1>9, <2>1 DEF Accounted, LeftWhole
  <2> QED
    BY <1>1, <2>1 DEF ConnectionInv, FramesWhole
<1>11. SendersAlone'
  <2>1. ASSUME NEW n \in DOMAIN ended' PROVE ended'[n].frame <= frames
    <3>1. e.frame <= frames
      BY <1>2, <1>4, Numbers
    <3> QED
      BY <1>6, <2>1, <3>1 DEF ConnectionInv, SendersAlone
  <2>2. \A u \in Thread : pc'[u] = "idle" =>
          count'[u] = 0 /\ tmp'[u] = 1 /\ put'[u] = 0 /\ failed'[u] = 0
    <3>1. \A u \in Thread \ {t} : pc[u] = "idle"
      BY <1>3, <1>5
    <3> QED
      BY <1>3, <3>1 DEF ConnectionInv, SendersAlone
  <2>3. \A u \in Thread : (pc'[u] = "send") <=> (mutex' = u)
    BY <1>1, <1>5, ConnectionAssumption
  <2>4. \A p \in DOMAIN wire' : wire'[p].frame <= frames'
    BY <1>1 DEF ConnectionInv, SendersAlone
  <2> QED
    BY <1>1, <1>5, <2>1, <2>2, <2>3, <2>4 DEF SendersAlone
<1> QED
  BY <1>1, <1>4, <1>5, <1>10, <1>11 DEF ConnectionInv

\* disconnect waits for the thread that sends.
LEMMA DisconnectInv ==
    ASSUME ConnectionTypeOK, ConnectionInv, NEW t \in Thread, Disconnect(t)
    PROVE  ConnectionInv'
<1>1. /\ mutex = NoThread /\ mutex' = mutex /\ pc' = pc /\ count' = count /\ tmp' = tmp
      /\ wire' = wire /\ frames' = frames /\ frame' = frame /\ put' = put
      /\ failed' = failed /\ failures' = failures /\ ended' = ended
  BY DEF Disconnect, sendVars
<1>2. \A u \in Thread : pc'[u] # "send"
  BY <1>1, ConnectionAssumption DEF ConnectionInv, SendersAlone
<1>3. SendersAlone'
  BY <1>1 DEF ConnectionInv, SendersAlone
<1>4. failures' \in Nat /\ failures' >= failures
  BY <1>1 DEF ConnectionTypeOK
<1>5. FramesWhole' /\ \A n \in DOMAIN ended' : Accounted(ended[n])'
  BY <1>1, <1>4, EndedKept
<1> QED
  BY <1>1, <1>2, <1>3, <1>5 DEF ConnectionInv

\* A step of the user data leaves send alone.
LEMMA OthersInv ==
    ASSUME ConnectionTypeOK, ConnectionInv, UNCHANGED <<connected, mutex, pc, sendVars>>
    PROVE  ConnectionInv'
<1>1. /\ connected' = connected /\ mutex' = mutex /\ pc' = pc /\ count' = count /\ tmp' = tmp
      /\ wire' = wire /\ frames' = frames /\ frame' = frame /\ put' = put
      /\ failed' = failed /\ failures' = failures /\ ended' = ended
  BY DEF sendVars
<1>2. \A u \in Thread : pc'[u] = "send" => Sending(u)'
  BY <1>1 DEF ConnectionInv, Sending, Progress
<1>3. SendersAlone'
  BY <1>1 DEF ConnectionInv, SendersAlone
<1>4. failures' \in Nat /\ failures' >= failures
  BY <1>1 DEF ConnectionTypeOK
<1>5. FramesWhole' /\ \A n \in DOMAIN ended' : Accounted(ended[n])'
  BY <1>1, <1>4, EndedKept
<1> QED
  BY <1>1, <1>2, <1>3, <1>5 DEF ConnectionInv

\* Every step keeps the invariant.
LEMMA InvStep == ConnectionTypeOK /\ ConnectionInv /\ [Next]_cnVars => ConnectionInv'
<1> SUFFICES ASSUME ConnectionTypeOK, ConnectionInv, [Next]_cnVars PROVE ConnectionInv'
  OBVIOUS
<1>1. ASSUME NEW t \in Thread, NEW type \in DataType, NEW v \in DataValue, SetUserData(t, type, v)
      PROVE  ConnectionInv'
  BY <1>1, OthersInv DEF SetUserData
<1>2. ASSUME NEW t \in Thread, NEW type \in DataType, GetUserData(t, type) PROVE ConnectionInv'
  BY <1>2, OthersInv DEF GetUserData
<1>3. ASSUME NEW t \in Thread, ReleaseUserData(t) PROVE ConnectionInv'
  BY <1>3, OthersInv DEF ReleaseUserData
<1>4. CASE UNCHANGED cnVars
  BY <1>4, OthersInv DEF cnVars
<1> QED
  BY <1>1, <1>2, <1>3, <1>4, SendInv, SendSomeInv, SendFailsInv, SendNothingInv, SendEndsInv,
     DisconnectInv DEF Next

\* Connection::send keeps its count by the law, in every interleaving of the
\* threads and with any failures of ::send: what a send that returned put on
\* the wire is its frame's length and the failures made up for, modulo 2^64.
THEOREM CountLawHolds == Spec => []CountLaw
<1>1. Init => ConnectionInv
  BY InitInv
<1> QED
  BY <1>1, InitType, TypeStep, InvStep, InvGivesLaw, PTL DEF Spec

\* Connection::send under m_mutex: the frames of the threads do not mix, and a
\* frame of which a byte left before its send returned left whole, in order.
THEOREM FramesStayWhole == Spec => []FramesWhole
<1>1. ConnectionInv => FramesWhole
  BY DEF ConnectionInv
<1> QED
  BY <1>1, InitInv, InitType, TypeStep, InvStep, PTL DEF Spec
=============================================================================

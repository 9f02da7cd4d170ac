---------------------------- MODULE PacketProofs ----------------------------
(***************************************************************************)
(* Theorems about Packet, for all packets, items, byte orders and bytes    *)
(* behind a packet: is_valid is exact, what is written is valid and is     *)
(* read back as it was, and neither a reader nor the output leaves the     *)
(* packet. The recursions of the format are founded on measures, by means  *)
(* of the well-founded order of the naturals.                              *)
(***************************************************************************)
EXTENDS Packet, SequenceTheorems, WellFoundedInduction, TLAPS
------------------------------------------------------------------------------
(* Recursion and induction over a measure, and the iteration of a step. *)

\* Induction, from the order of the naturals being well-founded.
LEMMA NatSet ==
    ASSUME NEW S, 0 \in S, \A n \in Nat : n \in S => n + 1 \in S
    PROVE  Nat \subseteq S
<1> DEFINE R == OpToRel(<, Nat)
           T == Nat \ S
<1> SUFFICES ASSUME T # {} PROVE FALSE
  OBVIOUS
<1>1. \E x \in T : \A y \in T : ~ (<<y, x>> \in R)
  BY NatLessThanWellFounded, WFMin
<1>2. PICK x \in T : \A y \in T : ~ (<<y, x>> \in R)
  BY <1>1
<1>3. x # 0 /\ x - 1 \in Nat /\ x - 1 \notin S
  OBVIOUS
<1>4. <<x - 1, x>> \in R
  BY <1>3 DEF OpToRel
<1> QED
  BY <1>2, <1>3, <1>4

\* The functions on S whose values lie in V, and what of them D determines.
Typed(S, V) == {g \in [S -> UNION {V[x] : x \in S}] : \A x \in S : g[x] \in V[x]}

Below(mu, g, h, x, S) == \A y \in S : mu[y] < mu[x] => g[y] = h[y]

Founded(S, V, mu, D) ==
    \A g, h \in Typed(S, V) : \A x \in S : Below(mu, g, h, x, S) => D[<<g, x>>] = D[<<h, x>>]

Upto(S, V, mu, D, k) == {g \in Typed(S, V) : \A x \in S : mu[x] < k => g[x] = D[<<g, x>>]}

\* Two functions that follow D up to k and to l agree below k.
LEMMA RecursionAgrees ==
    ASSUME NEW S, NEW V, NEW mu \in [S -> Nat], NEW D,
           Founded(S, V, mu, D),
           NEW k \in Nat, NEW g \in Upto(S, V, mu, D, k), NEW l \in Nat, NEW h \in Upto(S, V, mu, D, l),
           k <= l, NEW x \in S, mu[x] < k
    PROVE  g[x] = h[x]
<1> DEFINE Ok == {n \in Nat : \A y \in S : mu[y] < n /\ n <= k => g[y] = h[y]}
<1>1. 0 \in Ok
  OBVIOUS
<1>2. ASSUME NEW n \in Nat, n \in Ok PROVE n + 1 \in Ok
  <2> SUFFICES ASSUME NEW y \in S, mu[y] < n + 1, n + 1 <= k PROVE g[y] = h[y]
    OBVIOUS
  <2>0. mu[y] \in Nat /\ \A z \in S : mu[z] \in Nat
    OBVIOUS
  <2>1. Below(mu, g, h, y, S)
    BY <1>2, <2>0 DEF Below
  <2>2. g \in Typed(S, V) /\ h \in Typed(S, V)
    BY DEF Upto
  <2>3. D[<<g, y>>] = D[<<h, y>>]
    BY <2>1, <2>2 DEF Founded
  <2>4. g[y] = D[<<g, y>>] /\ h[y] = D[<<h, y>>]
    BY <2>0 DEF Upto
  <2> QED
    BY <2>3, <2>4
<1> HIDE DEF Ok
<1>3. Nat \subseteq Ok
  BY <1>1, <1>2, NatSet
<1> QED
  BY <1>3 DEF Ok

\* One that follows D up to k exists, for every k.
LEMMA RecursionReaches ==
    ASSUME NEW S, NEW V, NEW mu \in [S -> Nat], NEW D,
           \A x \in S : V[x] # {},
           \A g \in Typed(S, V) : \A x \in S : D[<<g, x>>] \in V[x],
           Founded(S, V, mu, D)
    PROVE  \A k \in Nat : Upto(S, V, mu, D, k) # {}
<1> DEFINE Ok == {k \in Nat : Upto(S, V, mu, D, k) # {}}
<1>1. 0 \in Ok
  <2> DEFINE g == [x \in S |-> CHOOSE v \in V[x] : TRUE]
  <2>1. \A x \in S : g[x] \in V[x]
    OBVIOUS
  <2>2. g \in Typed(S, V)
    BY <2>1 DEF Typed
  <2>3. \A x \in S : ~ (mu[x] < 0)
    OBVIOUS
  <2> QED
    BY <2>2, <2>3 DEF Upto
<1>2. ASSUME NEW k \in Nat, k \in Ok PROVE k + 1 \in Ok
  <2>1. PICK g : g \in Upto(S, V, mu, D, k)
    BY <1>2
  <2> DEFINE h == [x \in S |-> IF mu[x] = k THEN D[<<g, x>>] ELSE g[x]]
  <2>2. g \in Typed(S, V)
    BY <2>1 DEF Upto
  <2>3. \A x \in S : h[x] \in V[x]
    BY <2>2 DEF Typed
  <2>4. h \in Typed(S, V)
    BY <2>3 DEF Typed
  <2>5. ASSUME NEW x \in S, mu[x] < k + 1 PROVE h[x] = D[<<h, x>>]
    <3>0. \A y \in S : mu[y] \in Nat
      OBVIOUS
    <3>1. Below(mu, g, h, x, S)
      BY <2>5, <3>0 DEF Below
    <3>2. D[<<g, x>>] = D[<<h, x>>]
      BY <3>1, <2>2, <2>4 DEF Founded
    <3>3. h[x] = D[<<g, x>>]
      <4>1. CASE mu[x] = k
        BY <4>1
      <4>2. CASE mu[x] # k
        <5>1. mu[x] < k
          BY <4>2, <2>5, <3>0
        <5>2. g[x] = D[<<g, x>>]
          BY <5>1, <2>1 DEF Upto
        <5> QED
          BY <5>2, <4>2
      <4> QED
        BY <4>1, <4>2
    <3> QED
      BY <3>2, <3>3
  <2> HIDE DEF h
  <2>6. h \in Upto(S, V, mu, D, k + 1)
    BY <2>4, <2>5 DEF Upto
  <2> QED
    BY <2>6
<1> HIDE DEF Ok
<1>3. Nat \subseteq Ok
  BY <1>1, <1>2, NatSet
<1> QED
  BY <1>3 DEF Ok

\* D is a definition by recursion of a function on S with values in V, of which the
\* measure mu tells what it depends on.
Recursive(S, V, mu, D) ==
    /\ mu \in [S -> Nat]
    /\ \A x \in S : V[x] # {}
    /\ \A g \in Typed(S, V) : \A x \in S : D[<<g, x>>] \in V[x]
    /\ Founded(S, V, mu, D)

Solves(f, S, V, D) == f \in Typed(S, V) /\ \A x \in S : f[x] = D[<<f, x>>]

\* Such a definition has a solution: what the CHOOSE of a recursive function finds.
LEMMA Recursion ==
    ASSUME NEW S, NEW V, NEW mu, NEW D, Recursive(S, V, mu, D)
    PROVE  \E f : Solves(f, S, V, D)
<1> mu \in [S -> Nat] /\ Founded(S, V, mu, D)
  BY DEF Recursive
<1>r1. \A x \in S : V[x] # {}
  BY DEF Recursive
<1>r2. \A g \in Typed(S, V) : \A x \in S : D[<<g, x>>] \in V[x]
  BY DEF Recursive
<1> DEFINE G(k) == Upto(S, V, mu, D, k)
           at(x) == CHOOSE g : g \in Upto(S, V, mu, D, mu[x] + 1)
           f == [x \in S |-> at(x)[x]]
<1>0. \A x \in S : mu[x] \in Nat
  OBVIOUS
<1>1. \A x \in S : at(x) \in Upto(S, V, mu, D, mu[x] + 1)
  <2> TAKE x \in S
  <2>1. mu[x] + 1 \in Nat
    BY <1>0
  <2>2. Upto(S, V, mu, D, mu[x] + 1) # {}
    BY <2>1, <1>r1, <1>r2, RecursionReaches
  <2> QED
    BY <2>2
<1> HIDE DEF at
<1>2. \A x \in S : f[x] \in V[x]
  BY <1>1 DEF Upto, Typed
<1>3. f \in Typed(S, V)
  BY <1>2 DEF Typed
<1>4. ASSUME NEW x \in S PROVE f[x] = D[<<f, x>>]
  <2>1. at(x) \in Typed(S, V)
    BY <1>1 DEF Upto
  <2>2. at(x)[x] = D[<<at(x), x>>]
    BY <1>1, <1>0 DEF Upto
  <2>3. ASSUME NEW y \in S, mu[y] < mu[x] PROVE f[y] = at(x)[y]
    <3> DEFINE k == mu[y] + 1
               l == mu[x] + 1
    <3>2. k \in Nat /\ l \in Nat /\ k <= l /\ mu[y] < k
      BY <1>0, <2>3
    <3>3. at(y) \in Upto(S, V, mu, D, k) /\ at(x) \in Upto(S, V, mu, D, l)
      BY <1>1
    <3> HIDE DEF k, l
    <3>1. at(y)[y] = at(x)[y]
      BY <3>2, <3>3, RecursionAgrees
    <3> QED
      BY <3>1
  <2>4. Below(mu, f, at(x), x, S)
    BY <2>3 DEF Below
  <2> HIDE DEF f
  <2>5. D[<<f, x>>] = D[<<at(x), x>>]
    BY <2>1, <2>4, <1>3 DEF Founded
  <2> QED
    BY <2>2, <2>5 DEF f
<1> QED
  BY <1>3, <1>4 DEF Solves

\* Induction over a measure.
LEMMA Induction ==
    ASSUME NEW S, NEW mu \in [S -> Nat], NEW T,
           \A x \in S : (\A y \in S : mu[y] < mu[x] => y \in T) => x \in T
    PROVE  S \subseteq T
<1> DEFINE Ok == {n \in Nat : \A x \in S : mu[x] < n => x \in T}
<1>0. \A x \in S : mu[x] \in Nat
  OBVIOUS
<1>1. 0 \in Ok
  BY <1>0
<1>2. ASSUME NEW n \in Nat, n \in Ok PROVE n + 1 \in Ok
  <2> SUFFICES ASSUME NEW x \in S, mu[x] < n + 1 PROVE x \in T
    OBVIOUS
  <2>1. \A y \in S : mu[y] < mu[x] => y \in T
    BY <1>0, <1>2
  <2> QED
    BY <2>1
<1> HIDE DEF Ok
<1>3. Nat \subseteq Ok
  BY <1>1, <1>2, NatSet
<1> QED
  <2> SUFFICES ASSUME NEW x \in S PROVE x \in T
    OBVIOUS
  <2>1. mu[x] + 1 \in Ok
    BY <1>0, <1>3
  <2> QED
    BY <2>1, <1>0 DEF Ok

\* A set of naturals has a least element.
LEMMA MinOf ==
    ASSUME NEW S, S \subseteq Nat, S # {}
    PROVE  Min(S) \in S /\ \A k \in S : Min(S) <= k
<1>1. PICK x \in S : \A y \in S : ~ (<<y, x>> \in OpToRel(<, Nat))
  BY NatLessThanWellFounded, WFMin
<1>2. ASSUME NEW y \in S PROVE x <= y
  <2>1. ~ (y < x)
    BY <1>1, Zenon DEF OpToRel
  <2> QED
    BY <2>1
<1> QED
  BY <1>2 DEF Min

\* Primitive recursion: the values W[0], ..., W[n] that a step leads through.
Stays(n, V, Step) == \A v \in V, k \in 1 .. n : Step[<<v, k>>] \in V

Runs(f, n, V, first, Step) ==
    f \in [0 .. n -> V] /\ \A k \in 0 .. n : f[k] = IF k = 0 THEN first ELSE Step[<<f[k - 1], k>>]

LEMMA Iteration ==
    ASSUME NEW n \in Nat, NEW V, NEW first \in V, NEW Step, Stays(n, V, Step)
    PROVE  \E f : Runs(f, n, V, first, Step)
<1> DEFINE S == 0 .. n
           W == [k \in S |-> V]
           mu == [k \in S |-> k]
           D == [y \in Typed(S, W) \X S |-> IF y[2] = 0 THEN first ELSE Step[<<y[1][y[2] - 1], y[2]>>]]
<1>1. mu \in [S -> Nat] /\ \A x \in S : W[x] # {}
  OBVIOUS
<1>2. \A g \in Typed(S, W) : \A x \in S : g[x] \in V
  BY DEF Typed
<1>3. \A g \in Typed(S, W) : \A x \in S : D[<<g, x>>] = IF x = 0 THEN first ELSE Step[<<g[x - 1], x>>]
  OBVIOUS
<1> HIDE DEF D
<1>4. \A g \in Typed(S, W) : \A x \in S : D[<<g, x>>] \in W[x]
  <2> SUFFICES ASSUME NEW g \in Typed(S, W), NEW x \in S PROVE D[<<g, x>>] \in V
    OBVIOUS
  <2>1. CASE x = 0
    BY <2>1, <1>3
  <2>2. CASE x # 0
    <3>1. x - 1 \in S /\ x \in 1 .. n
      BY <2>2
    <3>2. g[x - 1] \in V
      BY <3>1, <1>2
    <3>3. Step[<<g[x - 1], x>>] \in V
      BY <3>1, <3>2 DEF Stays
    <3> QED
      BY <3>3, <2>2, <1>3
  <2> QED
    BY <2>1, <2>2
<1>5. Founded(S, W, mu, D)
  <2> SUFFICES ASSUME NEW g \in Typed(S, W), NEW e \in Typed(S, W), NEW x \in S, Below(mu, g, e, x, S)
               PROVE  D[<<g, x>>] = D[<<e, x>>]
    BY DEF Founded
  <2>1. x # 0 => g[x - 1] = e[x - 1]
    BY DEF Below
  <2> QED
    BY <2>1, <1>3
<1>6. Recursive(S, W, mu, D)
  BY <1>1, <1>4, <1>5 DEF Recursive
<1> HIDE DEF S, W, mu
<1>7. PICK f : Solves(f, S, W, D)
  BY <1>6, Recursion
<1>8. f \in [S -> V]
  BY <1>2, <1>7 DEF Typed, Solves
<1> QED
  BY <1>3, <1>7, <1>8 DEF S, Solves, Runs

------------------------------------------------------------------------------
(* Sequences of bytes, and their orders. *)

Data == Seq(Octet)
------------------------------------------------------------------------------
LEMMA NumberIs == Number = {1, 2, 3, 4, 5, 6, 7, 8, 16, 17}
  BY DEF Number, Width

LEMMA ArrayIs == Array = {129, 130, 131, 132, 133, 134, 135, 136, 144, 145}
<1>1. ASSUME NEW a \in Array PROVE a \in {129, 130, 131, 132, 133, 134, 135, 136, 144, 145}
  BY NumberIs DEF Array
<1>2. \A t \in Number : 128 + t \in Array
  BY DEF Array
<1>3. ASSUME NEW a \in {129, 130, 131, 132, 133, 134, 135, 136, 144, 145} PROVE a \in Array
  <2>1. a - 128 \in Number /\ a = 128 + (a - 128)
    BY NumberIs
  <2> QED
    BY <2>1, <1>2
<1> QED
  BY <1>1, <1>3

LEMMA WidthIs ==
    /\ \A t \in Number : Width[t] \in {1, 2, 4, 8}
    /\ \A t \in Array : Width[t - 128] \in {1, 2, 4, 8}
<1>1. ASSUME NEW t \in Number PROVE Width[t] \in {1, 2, 4, 8}
  BY NumberIs DEF Width
<1>2. \A t \in Array : t - 128 \in Number
  BY NumberIs DEF Array
<1> QED
  BY <1>1, <1>2

LEMMA TypeIs ==
    /\ Type \subseteq 1 .. 145
    /\ Number \cap Array = {}
    /\ String \notin Number \cup Array /\ Object \notin Number \cup Array /\ String # Object
    /\ Type = Number \cup Array \cup {String, Object}
  BY NumberIs, ArrayIs DEF Type, String, Object
------------------------------------------------------------------------------
\* Sequences of bytes are equal if their elements are.
LEMMA SameData ==
    ASSUME NEW s \in Data, NEW t \in Data, Len(s) = Len(t), \A k \in 1 .. Len(s) : s[k] = t[k]
    PROVE  s = t
<1>1. s = [k \in 1 .. Len(s) |-> s[k]] /\ t = [k \in 1 .. Len(t) |-> t[k]]
  BY DEF Data
<1> QED
  BY <1>1

LEMMA LenData ==
    ASSUME NEW s \in Data
    PROVE  Len(s) \in Nat /\ \A k \in 1 .. Len(s) : s[k] \in Octet
  BY DEF Data

LEMMA JoinData ==
    ASSUME NEW s \in Data, NEW t \in Data
    PROVE  /\ s \o t \in Data /\ Len(s \o t) = Len(s) + Len(t)
           /\ \A k \in 1 .. Len(s) : (s \o t)[k] = s[k]
           /\ \A k \in 1 .. Len(t) : (s \o t)[Len(s) + k] = t[k]
  BY DEF Data

LEMMA PartData ==
    ASSUME NEW s \in Data, NEW a \in 1 .. Len(s) + 1, NEW b \in a - 1 .. Len(s)
    PROVE  /\ SubSeq(s, a, b) \in Data /\ Len(SubSeq(s, a, b)) = b - a + 1
           /\ \A k \in 1 .. b - a + 1 : SubSeq(s, a, b)[k] = s[a + k - 1]
<1>0. Len(s) \in Nat
  BY LenData
<1>1. \A k \in a .. b : s[k] \in Octet
  BY <1>0, LenData
<1>2. SubSeq(s, a, b) \in Seq(Octet) /\ Len(SubSeq(s, a, b)) = IF a <= b THEN b - a + 1 ELSE 0
  BY <1>0, <1>1, SubSeqProperties
<1>3. \A k \in 1 .. b - a + 1 : SubSeq(s, a, b)[k] = s[a + k - 1]
  BY <1>0, <1>1, SubSeqProperties
<1> QED
  BY <1>0, <1>2, <1>3 DEF Data

LEMMA ReverseData ==
    ASSUME NEW s \in Data
    PROVE  /\ Reverse(s) \in Data /\ Len(Reverse(s)) = Len(s)
           /\ \A k \in 1 .. Len(s) : Reverse(s)[k] = s[(Len(s) - k) + 1]
           /\ Reverse(Reverse(s)) = s
<1>0. s \in Seq(Octet)
  BY DEF Data
<1>1. Reverse(s) = [k \in 1 .. Len(s) |-> s[(Len(s) - k) + 1]]
  BY DEF Reverse
<1>2. \A k \in 1 .. Len(s) : (Len(s) - k) + 1 \in 1 .. Len(s)
  BY <1>0
<1>3. Reverse(s) \in Data /\ Len(Reverse(s)) = Len(s)
  BY <1>0, <1>1, <1>2 DEF Data
<1>4. Reverse(Reverse(s)) = [k \in 1 .. Len(s) |-> Reverse(s)[(Len(s) - k) + 1]]
  BY <1>3 DEF Reverse
<1>5. \A k \in 1 .. Len(s) : Reverse(s)[(Len(s) - k) + 1] = s[k]
  BY <1>0, <1>1, <1>2
<1>6. s = [k \in 1 .. Len(s) |-> s[k]]
  BY <1>0
<1> QED
  BY <1>1, <1>3, <1>4, <1>5, <1>6

\* Eight bytes and four, one by one.
Is8(s, a, b, c, d, e, f, g, h) ==
    /\ s \in Data /\ Len(s) = 8
    /\ s[1] = a /\ s[2] = b /\ s[3] = c /\ s[4] = d /\ s[5] = e /\ s[6] = f /\ s[7] = g /\ s[8] = h
Is4(s, a, b, c, d) == s \in Data /\ Len(s) = 4 /\ s[1] = a /\ s[2] = b /\ s[3] = c /\ s[4] = d

\* Eight and four bytes the other way round.
LEMMA Rev8 ==
    ASSUME NEW s, NEW a, NEW b, NEW c, NEW d, NEW e, NEW f, NEW g, NEW h,
           Is8(s, a, b, c, d, e, f, g, h)
    PROVE  Is8(Reverse(s), h, g, f, e, d, c, b, a)
<1>1. s \in Data
  BY DEF Is8
<1>2. /\ Reverse(s) \in Data /\ Len(Reverse(s)) = Len(s)
      /\ \A k \in 1 .. Len(s) : Reverse(s)[k] = s[(Len(s) - k) + 1]
  BY <1>1, ReverseData, Zenon
<1> DEFINE z == Reverse(s)
<1> HIDE DEF z
<1>3. /\ z \in Data /\ Len(z) = 8
      /\ \A k \in 1 .. 8 : z[k] = s[(8 - k) + 1]
  BY <1>2 DEF z, Is8
<1> QED
  BY <1>3 DEF Is8, z

LEMMA Rev4 ==
    ASSUME NEW s, NEW a, NEW b, NEW c, NEW d, Is4(s, a, b, c, d)
    PROVE  Is4(Reverse(s), d, c, b, a)
BY ReverseData DEF Is4

\* The halves of eight bytes.
LEMMA Half8 ==
    ASSUME NEW s \in Data, Len(s) = 8, NEW i \in {1, 5}, NEW j \in {4, 8}, j = i + 3
    PROVE  /\ SubSeq(s, i, j) \in Data /\ Len(SubSeq(s, i, j)) = 4
           /\ \A k \in 1 .. 4 : SubSeq(s, i, j)[k] = s[(i + k) - 1]
<1>1. i \in 1 .. Len(s) + 1 /\ j \in i - 1 .. Len(s) /\ j - i + 1 = 4
  OBVIOUS
<1>2. /\ SubSeq(s, i, j) \in Data /\ Len(SubSeq(s, i, j)) = j - i + 1
      /\ \A k \in 1 .. j - i + 1 : SubSeq(s, i, j)[k] = s[i + k - 1]
  BY <1>1, PartData, Zenon
<1> DEFINE z == SubSeq(s, i, j)
<1>3. z \in Data /\ Len(z) = j - i + 1 /\ \A k \in 1 .. j - i + 1 : z[k] = s[i + k - 1]
  BY <1>2
<1> HIDE DEF z
<1>4. z \in Data /\ Len(z) = 4 /\ \A k \in 1 .. 4 : z[k] = s[(i + k) - 1]
  BY <1>1, <1>3
<1> QED
  BY <1>4 DEF z

LEMMA Halves8 ==
    ASSUME NEW s, NEW a, NEW b, NEW c, NEW d, NEW e, NEW f, NEW g, NEW h,
           Is8(s, a, b, c, d, e, f, g, h)
    PROVE  Is4(SubSeq(s, 1, 4), a, b, c, d) /\ Is4(SubSeq(s, 5, 8), e, f, g, h)
<1>1. s \in Data /\ Len(s) = 8
  BY DEF Is8
<1> DEFINE part(i, j) == SubSeq(s, i, j)
<1>2. \A i \in {1, 5}, j \in {4, 8} :
         j = i + 3 => part(i, j) \in Data /\ Len(part(i, j)) = 4 /\ \A k \in 1 .. 4 : part(i, j)[k] = s[(i + k) - 1]
  BY <1>1, Half8
<1> HIDE DEF part
<1>3. Is4(part(1, 4), a, b, c, d)
  BY <1>2 DEF Is8, Is4
<1>4. Is4(part(5, 8), e, f, g, h)
  BY <1>2 DEF Is8, Is4
<1> QED
  BY <1>3, <1>4 DEF part

LEMMA Join8 ==
    ASSUME NEW x, NEW y, NEW a, NEW b, NEW c, NEW d, NEW e, NEW f, NEW g, NEW h,
           Is4(x, a, b, c, d), Is4(y, e, f, g, h)
    PROVE  Is8(x \o y, a, b, c, d, e, f, g, h)
<1>1. x \in Data /\ Len(x) = 4 /\ y \in Data /\ Len(y) = 4
  BY DEF Is4
<1>2. x \o y \in Data /\ Len(x \o y) = 8 /\ (\A k \in 1 .. 4 : (x \o y)[k] = x[k]) /\ (\A k \in 1 .. 4 : (x \o y)[4 + k] = y[k])
  <2>1. /\ x \o y \in Data /\ Len(x \o y) = Len(x) + Len(y)
        /\ \A k \in 1 .. Len(x) : (x \o y)[k] = x[k]
        /\ \A k \in 1 .. Len(y) : (x \o y)[Len(x) + k] = y[k]
    BY <1>1, JoinData, Zenon
  <2> DEFINE z == x \o y
  <2>2. /\ z \in Data /\ Len(z) = Len(x) + Len(y)
        /\ \A k \in 1 .. Len(x) : z[k] = x[k]
        /\ \A k \in 1 .. Len(y) : z[Len(x) + k] = y[k]
    BY <2>1
  <2> HIDE DEF z
  <2>3. z \in Data /\ Len(z) = 8 /\ (\A k \in 1 .. 4 : z[k] = x[k]) /\ (\A k \in 1 .. 4 : z[4 + k] = y[k])
    BY <1>1, <2>2
  <2> QED
    BY <2>3 DEF z
<1> DEFINE z == x \o y
<1> HIDE DEF z
<1> QED
  BY <1>2 DEF Is8, Is4, z

LEMMA Same8 ==
    ASSUME NEW s, NEW t, NEW a, NEW b, NEW c, NEW d, NEW e, NEW f, NEW g, NEW h,
           Is8(s, a, b, c, d, e, f, g, h), Is8(t, a, b, c, d, e, f, g, h)
    PROVE  s = t
BY SameData DEF Is8

\* The orders of the bytes cancel: what is pushed are the bytes from the most
\* significant one, and so is what front reads.
LEMMA PushIs ==
    ASSUME NEW h \in Host, NEW v \in Data, Len(v) \in {1, 2, 4, 8}
    PROVE  Push(h, v) = v /\ FrontOf(h, v) = v
<1>1. CASE Len(v) = 1
  <2>1. Len(v) # 8
    BY <1>1
  <2> QED
    BY <1>1, <2>1 DEF Push, FrontOf
<1>2. CASE Len(v) \in {2, 4}
  <2>1. Push(h, v) = NetworkOrder(h, Memory(h, v)) /\ FrontOf(h, v) = Memory(h, NetworkOrder(h, v))
    <3>1. Len(v) # 8 /\ Len(v) # 1
      BY <1>2
    <3> QED
      BY <3>1 DEF Push, FrontOf
  <2> QED
    BY <2>1, ReverseData DEF Memory, NetworkOrder
<1>3. CASE Len(v) = 8
  <2> DEFINE Front8(s) == Is8(s, v[1], v[2], v[3], v[4], v[5], v[6], v[7], v[8])
  <2>0. Is8(v, v[1], v[2], v[3], v[4], v[5], v[6], v[7], v[8])
    BY <1>3 DEF Is8
  <2>1. CASE h = "big"
    <3>1. Is8(SubSeq(v, 1, 4) \o SubSeq(v, 5, 8), v[1], v[2], v[3], v[4], v[5], v[6], v[7], v[8])
      BY <2>0, Halves8, Join8
    <3>2. SubSeq(v, 1, 4) \o SubSeq(v, 5, 8) = v
      BY <2>0, <3>1, Same8
    <3> QED
      BY <1>3, <2>1, <3>2 DEF Push, FrontOf, Memory, Swapped, NetworkOrder
  <2>2. CASE h = "little"
    <3>1. Push(h, v) = v
      <4> DEFINE m == Reverse(v)
                 dt == SubSeq(m, 5, 8) \o SubSeq(m, 1, 4)
                 all == Reverse(SubSeq(dt, 1, 4)) \o Reverse(SubSeq(dt, 5, 8))
      <4>1. Is8(m, v[8], v[7], v[6], v[5], v[4], v[3], v[2], v[1])
        BY <2>0, Rev8
      <4> HIDE DEF m
      <4>2. Is8(dt, v[4], v[3], v[2], v[1], v[8], v[7], v[6], v[5])
        BY <4>1, Halves8, Join8
      <4> HIDE DEF dt
      <4>3. Is4(SubSeq(dt, 1, 4), v[4], v[3], v[2], v[1]) /\ Is4(SubSeq(dt, 5, 8), v[8], v[7], v[6], v[5])
        BY <4>2, Halves8
      <4>4. Is8(all, v[1], v[2], v[3], v[4], v[5], v[6], v[7], v[8])
        BY <4>3, Rev4, Join8
      <4> HIDE DEF all
      <4>5. all = v
        BY <2>0, <4>4, Same8
      <4>6. Push(h, v) = all
        BY <1>3, <2>2 DEF Push, Memory, Swapped, NetworkOrder, all, dt, m
      <4> QED
        BY <4>5, <4>6
    <3>2. FrontOf(h, v) = v
      <4> DEFINE x == Reverse(SubSeq(v, 1, 4)) \o Reverse(SubSeq(v, 5, 8))
                 y == SubSeq(x, 5, 8) \o SubSeq(x, 1, 4)
                 all == Reverse(y)
      <4>1. Is4(SubSeq(v, 1, 4), v[1], v[2], v[3], v[4]) /\ Is4(SubSeq(v, 5, 8), v[5], v[6], v[7], v[8])
        BY <2>0, Halves8
      <4>2. Is8(x, v[4], v[3], v[2], v[1], v[8], v[7], v[6], v[5])
        BY <4>1, Rev4, Join8
      <4> HIDE DEF x
      <4>3. Is8(y, v[8], v[7], v[6], v[5], v[4], v[3], v[2], v[1])
        BY <4>2, Halves8, Join8
      <4> HIDE DEF y
      <4>4. Is8(all, v[1], v[2], v[3], v[4], v[5], v[6], v[7], v[8])
        BY <4>3, Rev8
      <4> HIDE DEF all
      <4>5. all = v
        BY <2>0, <4>4, Same8
      <4>6. FrontOf(h, v) = all
        BY <1>3, <2>2 DEF FrontOf, Memory, Swapped, NetworkOrder, all, x, y
      <4> QED
        BY <4>5, <4>6
    <3> QED
      BY <3>1, <3>2
  <2> QED
    BY <2>1, <2>2 DEF Host
<1> QED
  BY <1>1, <1>2, <1>3

------------------------------------------------------------------------------
(* Where one item ends: the parts of valid_next_item. *)

LEMMA OctetIs == \A o \in Octet : o \in Nat /\ o <= 255
  BY DEF Octet

LEMMA ByteAt ==
    ASSUME NEW d \in Data, NEW i \in Nat, 1 <= i, i <= Len(d)
    PROVE  d[i] \in Nat /\ d[i] <= 255 /\ d[i] \in Octet
<1>1. i \in 1 .. Len(d) /\ Len(d) \in Nat
  BY LenData
<1>2. d[i] \in Octet
  BY <1>1, LenData
<1> QED
  BY <1>2, OctetIs

\* The 16 bits of a length are the same number on every host.
LEMMA Front16Is ==
    ASSUME NEW h \in Host, NEW d \in Data, NEW i \in Nat, i + 2 <= Len(d)
    PROVE  Front16(h, d, i) = 256 * d[i + 1] + d[i + 2] /\ Front16(h, d, i) \in Nat
<1>0. Len(d) \in Nat
  BY LenData
<1>1. d[i + 1] \in Nat /\ d[i + 2] \in Nat /\ d[i + 1] \in Octet /\ d[i + 2] \in Octet
  BY <1>0, ByteAt
<1> DEFINE v == <<d[i + 1], d[i + 2]>>
<1>2. v \in Data /\ Len(v) = 2 /\ v[1] = d[i + 1] /\ v[2] = d[i + 2]
  BY <1>1 DEF Data
<1> HIDE DEF v
<1>3. FrontOf(h, v) = v
  BY <1>2, PushIs
<1>4. Front16(h, d, i) = 256 * v[1] + v[2]
  BY <1>3 DEF Front16, v
<1> QED
  BY <1>1, <1>2, <1>4

\* StringEnd is behind the first zero, or Bad if there is none.
LEMMA StringEndIs ==
    ASSUME NEW d \in Data, NEW p \in Nat
    PROVE  \/ p > Len(d) /\ StringEnd(d, p) = p + 1
           \/ /\ p <= Len(d) /\ StringEnd(d, p) = Bad
              /\ \A k \in p + 1 .. Len(d) : d[k] # 0
           \/ /\ p <= Len(d) /\ StringEnd(d, p) \in p + 1 .. Len(d)
              /\ d[StringEnd(d, p)] = 0
              /\ \A k \in p + 1 .. StringEnd(d, p) - 1 : d[k] # 0
<1> DEFINE zeros == {j \in p .. Len(d) - 1 : d[j + 1] = 0}
<1>0. Len(d) \in Nat
  BY LenData
<1>1. CASE p > Len(d)
  BY <1>1 DEF StringEnd
<1>2. CASE p <= Len(d) /\ zeros = {}
  <2>1. StringEnd(d, p) = Bad
    BY <1>0, <1>2 DEF StringEnd
  <2>2. ASSUME NEW k \in p + 1 .. Len(d), d[k] = 0 PROVE FALSE
    <3>1. k - 1 \in p .. Len(d) - 1 /\ (k - 1) + 1 = k
      BY <1>0
    <3>2. k - 1 \in zeros
      BY <3>1, <2>2
    <3> QED
      BY <3>2, <1>2
  <2> QED
    BY <2>1, <2>2, <1>2
<1>3. CASE p <= Len(d) /\ zeros # {}
  <2>1. StringEnd(d, p) = Min(zeros) + 1
    BY <1>0, <1>3 DEF StringEnd
  <2>2. Min(zeros) \in zeros /\ \A k \in zeros : Min(zeros) <= k
    <3>1. zeros \subseteq Nat
      BY <1>0
    <3> QED
      BY <3>1, <1>3, MinOf
  <2> DEFINE z == Min(zeros)
  <2>3. z \in p .. Len(d) - 1 /\ d[z + 1] = 0
    BY <2>2
  <2>4. ASSUME NEW k \in p + 1 .. z, d[k] = 0 PROVE FALSE
    <3>1. k - 1 \in p .. Len(d) - 1 /\ (k - 1) + 1 = k
      BY <1>0, <2>3
    <3>2. k - 1 \in zeros
      BY <3>1, <2>4
    <3>3. z <= k - 1
      BY <3>2, <2>2
    <3> HIDE DEF z
    <3> QED
      BY <3>3, <2>3, <1>0, <2>4
  <2> HIDE DEF z
  <2>5. StringEnd(d, p) = z + 1
    BY <2>1 DEF z
  <2>6. p <= Len(d) /\ z + 1 \in p + 1 .. Len(d) /\ d[z + 1] = 0 /\ (z + 1) - 1 = z
    BY <2>3, <1>0, <1>3
  <2>7. /\ StringEnd(d, p) \in p + 1 .. Len(d) /\ d[StringEnd(d, p)] = 0
        /\ \A k \in p + 1 .. StringEnd(d, p) - 1 : d[k] # 0
    BY <2>4, <2>5, <2>6
  <2> QED
    BY <2>6, <2>7
<1> QED
  BY <1>0, <1>1, <1>2, <1>3
------------------------------------------------------------------------------
\* Positions at k or behind it, or none.
From(k) == {Bad} \cup {j \in Nat : j >= k}

LEMMA OneType ==
    ASSUME NEW t
    PROVE  /\ t \in Number => t \notin Array /\ t # String /\ t # Object
           /\ t = String => t \notin Array /\ t \notin Number /\ t # Object
           /\ t = Object => t \notin Array /\ t \notin Number /\ t # String
           /\ t \in Array => t \notin Number /\ t # String /\ t # Object
           /\ t \notin Type => t \notin Array /\ t \notin Number /\ t # String /\ t # Object
  BY NumberIs, ArrayIs DEF Type, String, Object

LEMMA BehindNumber ==
    ASSUME NEW e, NEW h, NEW d, NEW p, NEW t \in Number
    PROVE  Behind(e, h, d, p, t) = {p + 1 + Width[t]}
  BY OneType DEF Behind

LEMMA BehindString ==
    ASSUME NEW e, NEW h, NEW d, NEW p
    PROVE  Behind(e, h, d, p, String) = {StringEnd(d, p + 1)}
  BY OneType DEF Behind

LEMMA BehindObject ==
    ASSUME NEW e, NEW h, NEW d \in Data, NEW p \in Nat, ~ (p + 2 > Len(d))
    PROVE  Behind(e, h, d, p, Object) = e[<<p + 2, d[p + 2]>>]
  BY OneType DEF Behind

LEMMA BehindObjectBad ==
    ASSUME NEW e, NEW h, NEW d \in Data, NEW p \in Nat, p + 2 > Len(d)
    PROVE  Behind(e, h, d, p, Object) = {Bad}
  BY OneType DEF Behind

LEMMA BehindArray ==
    ASSUME NEW e, NEW h, NEW d, NEW p, NEW t \in Array
    PROVE  Behind(e, h, d, p, t) = IF p + 3 > Len(d) THEN {Bad}
                                   ELSE {p + 3 + Front16(h, d, p + 1) * Width[t - 128]}
  BY OneType DEF Behind

LEMMA BehindOther ==
    ASSUME NEW e, NEW h, NEW d, NEW p, NEW t, t \notin Type
    PROVE  Behind(e, h, d, p, t) = {Bad}
  BY OneType DEF Behind

\* valid_next_item only moves on.
LEMMA BehindFrom ==
    ASSUME NEW h \in Host, NEW d \in Data, NEW p \in Nat, NEW t, NEW e,
           p + 2 <= Len(d) => e[<<p + 2, d[p + 2]>>] \subseteq From(p + 2)
    PROVE  Behind(e, h, d, p, t) \subseteq From(p + 1)
<1>0. Len(d) \in Nat
  BY LenData
<1>1. CASE t \in Number
  <2>1. Width[t] \in Nat
    BY <1>1, WidthIs
  <2> QED
    BY <1>1, <2>1, BehindNumber DEF From
<1>2. CASE t = String
  <2>1. StringEnd(d, p + 1) \in From(p + 1)
    BY <1>0, StringEndIs DEF From
  <2> QED
    BY <1>2, <2>1, BehindString
<1>3. CASE t = Object
  <2>1. CASE p + 2 > Len(d)
    <3>1. Behind(e, h, d, p, t) = {Bad}
      BY <1>3, <2>1, BehindObjectBad
    <3> QED
      BY <3>1 DEF From
  <2>2. CASE p + 2 <= Len(d)
    <3>1. Behind(e, h, d, p, t) = e[<<p + 2, d[p + 2]>>]
      <4>1. ~ (p + 2 > Len(d))
        BY <1>0, <2>2
      <4> QED
        BY <1>3, <4>1, BehindObject
    <3>2. From(p + 2) \subseteq From(p + 1)
      BY DEF From
    <3> QED
      BY <2>2, <3>1, <3>2
  <2> QED
    BY <1>0, <2>1, <2>2
<1>4. CASE t \in Array
  <2>1. CASE p + 3 > Len(d)
    BY <1>4, <2>1, BehindArray DEF From
  <2>2. CASE p + 3 <= Len(d)
    <3>1. Behind(e, h, d, p, t) = {p + 3 + Front16(h, d, p + 1) * Width[t - 128]}
      BY <1>0, <1>4, <2>2, BehindArray
    <3>2. Front16(h, d, p + 1) \in Nat
      BY <1>0, <2>2, Front16Is
    <3>3. Width[t - 128] \in {1, 2, 4, 8}
      BY <1>4, WidthIs
    <3>4. Front16(h, d, p + 1) * Width[t - 128] \in Nat
      BY <3>2, <3>3
    <3> QED
      BY <3>1, <3>4 DEF From
  <2> QED
    BY <1>0, <2>1, <2>2
<1>5. CASE t \notin Type
  BY <1>5, BehindOther DEF From
<1> QED
  BY <1>1, <1>2, <1>3, <1>4, <1>5, TypeIs
------------------------------------------------------------------------------
\* The measure of a pair: what is left of the packet, and then how many items.
Rest(d, i) == IF i <= Len(d) + 1 THEN Len(d) + 2 - i ELSE 0

Pairs(d) == [x \in Nat \X Nat |-> 257 * Rest(d, x[1]) + x[2]]

\* The measure of valid_next_item: the bytes that are left, then the items.
LEMMA PairsIs ==
    ASSUME NEW d \in Data
    PROVE  /\ Pairs(d) \in [Nat \X Nat -> Nat]
           /\ \A i, n \in Nat : Pairs(d)[<<i, n>>] < Pairs(d)[<<i, n + 1>>]
           /\ \A i, n, p, k \in Nat : i <= p /\ p + 2 <= Len(d) /\ k <= 255 =>
                 Pairs(d)[<<p + 2, k>>] < Pairs(d)[<<i, n>>]
<1>0. Len(d) \in Nat
  BY LenData
<1>1. \A i \in Nat : Rest(d, i) \in Nat
  BY <1>0 DEF Rest
<1>2. \A i, n \in Nat : Pairs(d)[<<i, n>>] = 257 * Rest(d, i) + n
  BY DEF Pairs
<1>3. Pairs(d) \in [Nat \X Nat -> Nat]
  BY <1>1 DEF Pairs
<1>4. ASSUME NEW i \in Nat, NEW n \in Nat PROVE Pairs(d)[<<i, n>>] < Pairs(d)[<<i, n + 1>>]
  <2>1. n + 1 \in Nat /\ Rest(d, i) \in Nat
    BY <1>1
  <2>2. Pairs(d)[<<i, n>>] = 257 * Rest(d, i) + n /\ Pairs(d)[<<i, n + 1>>] = 257 * Rest(d, i) + (n + 1)
    BY <1>2, <2>1
  <2> QED
    BY <2>1, <2>2
<1>5. ASSUME NEW i \in Nat, NEW n \in Nat, NEW p \in Nat, NEW k \in Nat, i <= p, p + 2 <= Len(d), k <= 255
      PROVE  Pairs(d)[<<p + 2, k>>] < Pairs(d)[<<i, n>>]
  <2>1. Rest(d, p + 2) = Len(d) - p /\ Rest(d, i) = Len(d) + 2 - i
    BY <1>0, <1>5 DEF Rest
  <2>2. Pairs(d)[<<p + 2, k>>] = 257 * (Len(d) - p) + k /\ Pairs(d)[<<i, n>>] = 257 * (Len(d) + 2 - i) + n
    BY <1>2, <2>1
  <2> QED
    BY <1>0, <1>5, <2>2
<1> QED
  BY <1>3, <1>4, <1>5

\* ItemEnds depends on e only at smaller pairs, and has values of its type if e has.
EndsIn(e, i, n) == e[<<i, n>>] \subseteq From(i + n)

LEMMA OneMoreFrom ==
    ASSUME NEW h \in Host, NEW d \in Data, NEW i \in Nat, NEW p \in From(i), NEW e,
           p \in Nat /\ p + 2 <= Len(d) => EndsIn(e, p + 2, d[p + 2])
    PROVE  OneMore(e, h, d, p) \subseteq From(i + 1)
<1>0. Len(d) \in Nat
  BY LenData
<1>1. CASE p = Bad
  BY <1>1 DEF OneMore, From
<1>2. CASE p # Bad
  <2>1. p \in Nat /\ i <= p
    BY <1>2 DEF From
  <2>2. p + 2 <= Len(d) => e[<<p + 2, d[p + 2]>>] \subseteq From(p + 2)
    <3> SUFFICES ASSUME p + 2 <= Len(d) PROVE e[<<p + 2, d[p + 2]>>] \subseteq From(p + 2)
      OBVIOUS
    <3>1. d[p + 2] \in Nat
      BY <2>1, <1>0, ByteAt
    <3>2. From(p + 2 + d[p + 2]) \subseteq From(p + 2)
      BY <2>1, <3>1 DEF From
    <3> QED
      BY <2>1, <3>2 DEF EndsIn
  <2>3. \A t \in At(d, p) : Behind(e, h, d, p, t) \subseteq From(p + 1)
    BY <2>1, <2>2, BehindFrom
  <2>4. From(p + 1) \subseteq From(i + 1)
    BY <2>1 DEF From
  <2> QED
    BY <1>2, <2>3, <2>4 DEF OneMore
<1> QED
  BY <1>1, <1>2

LEMMA ItemEndsFrom ==
    ASSUME NEW h \in Host, NEW d \in Data, NEW i \in Nat, NEW n \in Nat, NEW e,
           n # 0 => EndsIn(e, i, n - 1),
           \A p \in Nat : i <= p /\ p + 2 <= Len(d) => EndsIn(e, p + 2, d[p + 2])
    PROVE  ItemEnds(e, h, d, i, n) \subseteq From(i + n)
<1>1. CASE n = 0
  BY <1>1 DEF ItemEnds, From
<1>2. CASE n # 0
  <2>1. e[<<i, n - 1>>] \subseteq From(i + (n - 1))
    BY <1>2 DEF EndsIn
  <2>2. ASSUME NEW p \in e[<<i, n - 1>>] PROVE OneMore(e, h, d, p) \subseteq From(i + n)
    <3>1. p \in From(i + (n - 1)) /\ i + (n - 1) \in Nat /\ (i + (n - 1)) + 1 = i + n
      BY <1>2, <2>1
    <3>2. p \in Nat => i <= p
      BY <3>1, <1>2 DEF From, Bad
    <3>3. p \in Nat /\ p + 2 <= Len(d) => EndsIn(e, p + 2, d[p + 2])
      BY <3>2
    <3>4. OneMore(e, h, d, p) \subseteq From((i + (n - 1)) + 1)
      BY <3>1, <3>3, OneMoreFrom
    <3> QED
      BY <3>1, <3>4
  <2> QED
    BY <1>2, <2>2 DEF ItemEnds
<1> QED
  BY <1>1, <1>2

------------------------------------------------------------------------------
(* Where n items end. *)

\* Where e and g agree.
Agree(e, g, d, i, n) ==
    /\ n # 0 => EndsIn(e, i, n - 1) /\ e[<<i, n - 1>>] = g[<<i, n - 1>>]
    /\ \A p \in Nat : i <= p /\ p + 2 <= Len(d) => e[<<p + 2, d[p + 2]>>] = g[<<p + 2, d[p + 2]>>]

LEMMA ItemEndsAgree ==
    ASSUME NEW h \in Host, NEW d \in Data, NEW i \in Nat, NEW n \in Nat, NEW e, NEW g, Agree(e, g, d, i, n)
    PROVE  ItemEnds(e, h, d, i, n) = ItemEnds(g, h, d, i, n)
<1>0. Len(d) \in Nat
  BY LenData
<1>1. CASE n = 0
  BY <1>1 DEF ItemEnds
<1>2. CASE n # 0
  <2>1. e[<<i, n - 1>>] \subseteq From(i + (n - 1)) /\ e[<<i, n - 1>>] = g[<<i, n - 1>>]
    BY <1>2 DEF EndsIn, Agree
  <2>0. \A p \in Nat : i <= p => \A t : Behind(e, h, d, p, t) = Behind(g, h, d, p, t)
    <3> SUFFICES ASSUME NEW p \in Nat, i <= p, NEW t PROVE Behind(e, h, d, p, t) = Behind(g, h, d, p, t)
      OBVIOUS
    <3>1. ~ (p + 2 > Len(d)) => e[<<p + 2, d[p + 2]>>] = g[<<p + 2, d[p + 2]>>]
      BY <1>0 DEF Agree
    <3>2. CASE t = Object
      <4>1. CASE p + 2 > Len(d)
        BY <3>2, <4>1, BehindObjectBad
      <4>2. CASE ~ (p + 2 > Len(d))
        BY <3>1, <3>2, <4>2, BehindObject
      <4> QED
        BY <4>1, <4>2
    <3>3. CASE t # Object
      BY <3>3, OneType DEF Behind
    <3> QED
      BY <3>2, <3>3
  <2>2. ASSUME NEW p \in e[<<i, n - 1>>] PROVE OneMore(e, h, d, p) = OneMore(g, h, d, p)
    <3>1. CASE p = Bad
      BY <3>1 DEF OneMore
    <3>2. CASE p # Bad
      <4>1. p \in Nat /\ i <= p
        BY <1>2, <2>1, <3>2 DEF From
      <4>2. \A t : Behind(e, h, d, p, t) = Behind(g, h, d, p, t)
        BY <4>1, <2>0
      <4> QED
        BY <3>2, <4>2, Zenon DEF OneMore
    <3> QED
      BY <3>1, <3>2
  <2> QED
    <3>1. ItemEnds(e, h, d, i, n) = UNION {OneMore(e, h, d, p) : p \in e[<<i, n - 1>>]}
      BY <1>2 DEF ItemEnds
    <3>2. ItemEnds(g, h, d, i, n) = UNION {OneMore(g, h, d, p) : p \in e[<<i, n - 1>>]}
      BY <1>2, <2>1 DEF ItemEnds
    <3> QED
      BY <2>2, <3>1, <3>2
<1> QED
  BY <1>1, <1>2

\* A definition by recursion on pairs exists if what it is recursive in is smaller.
LEMMA EndsIs ==
    ASSUME NEW h \in Host, NEW d \in Data
    PROVE  /\ Ends(h, d) = [x \in Nat \X Nat |-> ItemEnds(Ends(h, d), h, d, x[1], x[2])]
           /\ \A i, n \in Nat : /\ Ends(h, d)[<<i, n>>] = ItemEnds(Ends(h, d), h, d, i, n)
                                /\ EndsIn(Ends(h, d), i, n)
<1> DEFINE S == Nat \X Nat
           V == [x \in S |-> SUBSET From(x[1] + x[2])]
           D == [y \in Typed(S, V) \X S |-> ItemEnds(y[1], h, d, y[2][1], y[2][2])]
           mu == Pairs(d)
           Eq(g) == [x \in S |-> ItemEnds(g, h, d, x[1], x[2])]
<1>a. \A x \in S : x = <<x[1], x[2]>> /\ x[1] \in Nat /\ x[2] \in Nat
  OBVIOUS
<1>b. mu \in [S -> Nat]
  BY PairsIs
<1>c. \A x \in S : V[x] # {}
  OBVIOUS
<1>d. \A g \in Typed(S, V) : \A i, n \in Nat : EndsIn(g, i, n)
  <2> TAKE g \in Typed(S, V)
  <2> TAKE i, n \in Nat
  <2>1. <<i, n>> \in S
    OBVIOUS
  <2>2. g[<<i, n>>] \in V[<<i, n>>]
    BY <2>1 DEF Typed
  <2> QED
    BY <2>2 DEF EndsIn
<1>e. \A g \in Typed(S, V) : \A x \in S : D[<<g, x>>] = ItemEnds(g, h, d, x[1], x[2])
  OBVIOUS
<1>f. ASSUME NEW i \in Nat, NEW p \in Nat, i <= p, p + 2 <= Len(d), NEW n \in Nat
      PROVE  /\ p + 2 \in Nat /\ d[p + 2] \in Nat
             /\ mu[<<p + 2, d[p + 2]>>] < mu[<<i, n>>]
  <2>1. d[p + 2] \in Nat /\ d[p + 2] <= 255
    BY <1>f, ByteAt
  <2> QED
    BY <1>f, <2>1, PairsIs
<1>g. ASSUME NEW i \in Nat, NEW n \in Nat, n # 0
      PROVE  n - 1 \in Nat /\ mu[<<i, n - 1>>] < mu[<<i, n>>]
  <2>1. n - 1 \in Nat /\ (n - 1) + 1 = n
    BY <1>g
  <2> QED
    BY <2>1, PairsIs
<1> HIDE DEF D, mu
<1>1. \A g \in Typed(S, V) : \A x \in S : D[<<g, x>>] \in V[x]
  <2> SUFFICES ASSUME NEW g \in Typed(S, V), NEW x \in S PROVE D[<<g, x>>] \in V[x]
    OBVIOUS
  <2>1. x[1] \in Nat /\ x[2] \in Nat /\ (x[2] # 0 => x[2] - 1 \in Nat)
    OBVIOUS
  <2>2. x[2] # 0 => EndsIn(g, x[1], x[2] - 1)
    BY <1>d, <2>1
  <2>3. \A p \in Nat : x[1] <= p /\ p + 2 <= Len(d) => EndsIn(g, p + 2, d[p + 2])
    BY <1>d, <1>f, <2>1
  <2>4. ItemEnds(g, h, d, x[1], x[2]) \subseteq From(x[1] + x[2])
    BY <2>1, <2>2, <2>3, ItemEndsFrom
  <2> QED
    BY <1>e, <2>4
<1>2. Founded(S, V, mu, D)
  <2> SUFFICES ASSUME NEW g \in Typed(S, V), NEW e \in Typed(S, V), NEW x \in S, Below(mu, g, e, x, S)
               PROVE  D[<<g, x>>] = D[<<e, x>>]
    BY DEF Founded
  <2>1. x[1] \in Nat /\ x[2] \in Nat /\ x = <<x[1], x[2]>> /\ (x[2] # 0 => x[2] - 1 \in Nat)
    OBVIOUS
  <2>2. x[2] # 0 => EndsIn(g, x[1], x[2] - 1)
    BY <1>d, <2>1
  <2>3. x[2] # 0 => g[<<x[1], x[2] - 1>>] = e[<<x[1], x[2] - 1>>]
    BY <1>g, <2>1 DEF Below
  <2>4. \A p \in Nat : x[1] <= p /\ p + 2 <= Len(d) => g[<<p + 2, d[p + 2]>>] = e[<<p + 2, d[p + 2]>>]
    BY <1>f, <2>1 DEF Below
  <2>5. ItemEnds(g, h, d, x[1], x[2]) = ItemEnds(e, h, d, x[1], x[2])
    <3> DEFINE i == x[1]
               n == x[2]
    <3>1. i \in Nat /\ n \in Nat
      BY <2>1
    <3>2. n # 0 => EndsIn(g, i, n - 1) /\ g[<<i, n - 1>>] = e[<<i, n - 1>>]
      BY <2>2, <2>3
    <3>3. \A p \in Nat : i <= p /\ p + 2 <= Len(d) => g[<<p + 2, d[p + 2]>>] = e[<<p + 2, d[p + 2]>>]
      BY <2>4
    <3>5. Agree(g, e, d, i, n)
      BY <3>2, <3>3 DEF Agree
    <3> HIDE DEF i, n
    <3>4. ItemEnds(g, h, d, i, n) = ItemEnds(e, h, d, i, n)
      BY <3>1, <3>5, ItemEndsAgree
    <3> QED
      BY <3>4 DEF i, n
  <2> QED
    BY <1>e, <2>5
<1>3. PICK g : Solves(g, S, V, D)
  <2>1. Recursive(S, V, mu, D)
    BY <1>b, <1>c, <1>1, <1>2 DEF Recursive
  <2> HIDE DEF S, V
  <2> QED
    BY <2>1, Recursion
<1>4. g = Eq(g)
  <2>1. g \in Typed(S, V) /\ \A x \in S : g[x] = ItemEnds(g, h, d, x[1], x[2])
    BY <1>3, <1>e DEF Solves
  <2>2. g = [x \in S |-> g[x]]
    BY <2>1 DEF Typed
  <2> QED
    BY <2>1, <2>2
<1>5. Ends(h, d) = CHOOSE e : e = Eq(e)
  BY DEF Ends
<1> HIDE DEF Eq
<1>6. Ends(h, d) = Eq(Ends(h, d))
  BY <1>4, <1>5, Zenon
<1> USE DEF Eq
<1> DEFINE E == Ends(h, d)
<1> HIDE DEF E
<1>7. E = [x \in S |-> ItemEnds(E, h, d, x[1], x[2])]
  BY <1>6 DEF E
<1>8. \A i, n \in Nat : E[<<i, n>>] = ItemEnds(E, h, d, i, n)
  BY <1>7
<1> DEFINE T == {x \in S : EndsIn(E, x[1], x[2])}
<1>9. S \subseteq T
  <2>1. ASSUME NEW x \in S, \A y \in S : mu[y] < mu[x] => y \in T
        PROVE  x \in T
    <3>1. x[1] \in Nat /\ x[2] \in Nat /\ x = <<x[1], x[2]>> /\ (x[2] # 0 => x[2] - 1 \in Nat)
      OBVIOUS
    <3>2. \A i, n \in Nat : mu[<<i, n>>] < mu[x] => EndsIn(E, i, n)
      <4> TAKE i, n \in Nat
      <4>1. <<i, n>> \in S
        OBVIOUS
      <4> QED
        BY <4>1, <2>1
    <3>3. x[2] # 0 => EndsIn(E, x[1], x[2] - 1)
      BY <1>g, <3>1, <3>2
    <3>4. \A p \in Nat : x[1] <= p /\ p + 2 <= Len(d) => EndsIn(E, p + 2, d[p + 2])
      BY <1>f, <3>1, <3>2
    <3>5. ItemEnds(E, h, d, x[1], x[2]) \subseteq From(x[1] + x[2])
      BY <3>1, <3>3, <3>4, ItemEndsFrom
    <3>6. EndsIn(E, x[1], x[2])
      BY <1>8, <3>1, <3>5 DEF EndsIn
    <3> QED
      BY <3>6
  <2> HIDE DEF S, T
  <2> QED
    BY <1>b, <2>1, Induction
<1>10. \A i, n \in Nat : EndsIn(E, i, n)
  <2> TAKE i, n \in Nat
  <2>1. <<i, n>> \in S
    OBVIOUS
  <2>2. <<i, n>> \in T
    BY <2>1, <1>9
  <2> QED
    BY <2>2
<1> QED
  BY <1>7, <1>8, <1>10 DEF E

------------------------------------------------------------------------------
(* Tokens, and what is owed behind them. *)

\* There is at most one token at i.
LEMMA OneToken ==
    ASSUME NEW d \in Data, NEW i \in Nat, NEW j \in i + 1 .. Len(d), NEW k \in i + 1 .. Len(d),
           IsToken(d, i, j), IsToken(d, i, k)
    PROVE  j = k
<1> DEFINE t == d[i + 1]
<1>0. Len(d) \in Nat
  BY LenData
<1>1. CASE t \in Number
  BY <1>1, OneType DEF IsToken
<1>2. CASE t = String
  <2>1. /\ j >= i + 2 /\ d[j] = 0 /\ \A l \in i + 2 .. j - 1 : d[l] # 0
        /\ k >= i + 2 /\ d[k] = 0 /\ \A l \in i + 2 .. k - 1 : d[l] # 0
    BY <1>2, OneType DEF IsToken
  <2>2. ~ (j < k)
    BY <1>0, <2>1
  <2>3. ~ (k < j)
    BY <1>0, <2>1
  <2> QED
    BY <1>0, <2>2, <2>3
<1>3. CASE t = Object
  BY <1>3, OneType DEF IsToken
<1>4. CASE t \in Array
  BY <1>4, OneType DEF IsToken
<1>5. CASE t \notin Type
  BY <1>5, OneType DEF IsToken
<1> QED
  BY <1>1, <1>2, <1>3, <1>4, <1>5, TypeIs

LEMMA TokenEndIs ==
    ASSUME NEW d \in Data, NEW i \in Nat, HasToken(d, i)
    PROVE  TokenEnd(d, i) \in i + 1 .. Len(d) /\ IsToken(d, i, TokenEnd(d, i))
  BY DEF HasToken, TokenEnd

LEMMA TokenEndAt ==
    ASSUME NEW d \in Data, NEW i \in Nat, NEW j \in i + 1 .. Len(d), IsToken(d, i, j)
    PROVE  HasToken(d, i) /\ TokenEnd(d, i) = j
<1>1. HasToken(d, i)
  BY DEF HasToken
<1> QED
  BY <1>1, TokenEndIs, OneToken

\* A token has a type, and if it is a header, the number of its fields is there.
LEMMA TokenHas ==
    ASSUME NEW d \in Data, NEW i \in Nat, HasToken(d, i)
    PROVE  /\ i < Len(d) /\ TokenEnd(d, i) \in Nat /\ i < TokenEnd(d, i) /\ TokenEnd(d, i) <= Len(d)
           /\ d[i + 1] \in Type
           /\ Fields(d, i) \in Nat /\ Fields(d, i) <= 255
<1>0. Len(d) \in Nat
  BY LenData
<1>1. TokenEnd(d, i) \in i + 1 .. Len(d) /\ IsToken(d, i, TokenEnd(d, i))
  BY TokenEndIs
<1>2. d[i + 1] \in Type
  BY <1>1, TypeIs DEF IsToken
<1>3. CASE d[i + 1] = Object
  <2>1. TokenEnd(d, i) = i + 2
    BY <1>1, <1>3, OneType DEF IsToken
  <2>2. i + 2 <= Len(d)
    BY <1>0, <1>1, <2>1
  <2>3. d[i + 2] \in Nat /\ d[i + 2] <= 255
    BY <2>2, ByteAt
  <2> QED
    BY <1>0, <1>1, <1>2, <1>3, <2>3 DEF Fields
<1>4. CASE d[i + 1] # Object
  BY <1>0, <1>1, <1>2, <1>4 DEF Fields
<1> QED
  BY <1>3, <1>4

LEMMA OwedIs ==
    ASSUME NEW n \in Nat, NEW k \in Nat
    PROVE  Owed(n, k) \in Nat /\ Owed(n + 1, k) = n + k /\ Owed(0, k) = Owed(1, k)
  BY DEF Owed
------------------------------------------------------------------------------
Behinds(d) == [x \in Nat \X Nat |-> IF x[1] <= Len(d) THEN Len(d) - x[1] ELSE 0]

LEMMA BehindsIs ==
    ASSUME NEW d \in Data
    PROVE  /\ Behinds(d) \in [Nat \X Nat -> Nat]
           /\ \A i, n, j, k \in Nat : i < j /\ j <= Len(d) => Behinds(d)[<<j, k>>] < Behinds(d)[<<i, n>>]
<1>0. Len(d) \in Nat
  BY LenData
<1>1. Behinds(d) \in [Nat \X Nat -> Nat]
  BY <1>0 DEF Behinds
<1>2. \A i, n \in Nat : Behinds(d)[<<i, n>>] = IF i <= Len(d) THEN Len(d) - i ELSE 0
  BY DEF Behinds
<1> QED
  BY <1>0, <1>1, <1>2

LeftIn == Nat \cup {Bad}

LEMMA OwingIn ==
    ASSUME NEW d \in Data, NEW i \in Nat, NEW n \in Nat, NEW f,
           \A j, k \in Nat : i < j /\ j <= Len(d) => f[<<j, k>>] \in LeftIn
    PROVE  Owing(f, d, i, n) \in LeftIn
<1>1. CASE HasToken(d, i)
  <2>1. f[<<TokenEnd(d, i), Owed(n, Fields(d, i))>>] \in LeftIn
    BY <1>1, TokenHas, OwedIs
  <2> QED
    BY <1>1, <2>1 DEF Owing, LeftIn
<1>2. CASE ~ HasToken(d, i)
  BY <1>2 DEF Owing, LeftIn
<1> QED
  BY <1>1, <1>2

AgreeBehind(f, g, d, i) == \A j, k \in Nat : i < j /\ j <= Len(d) => f[<<j, k>>] = g[<<j, k>>]

LEMMA OwingAgree ==
    ASSUME NEW d \in Data, NEW i \in Nat, NEW n \in Nat, NEW f, NEW g, AgreeBehind(f, g, d, i)
    PROVE  Owing(f, d, i, n) = Owing(g, d, i, n)
<1>1. CASE HasToken(d, i)
  <2>1. f[<<TokenEnd(d, i), Owed(n, Fields(d, i))>>] = g[<<TokenEnd(d, i), Owed(n, Fields(d, i))>>]
    BY <1>1, TokenHas, OwedIs DEF AgreeBehind
  <2> QED
    BY <1>1, <2>1 DEF Owing
<1>2. CASE ~ HasToken(d, i)
  BY <1>2 DEF Owing
<1> QED
  BY <1>1, <1>2

\* So is that of Left, on the bytes that are left.
LEMMA LeftEq ==
    ASSUME NEW d \in Data
    PROVE  /\ Left(d) = [x \in Nat \X Nat |-> Owing(Left(d), d, x[1], x[2])]
           /\ \A i, n \in Nat : Left(d)[<<i, n>>] = Owing(Left(d), d, i, n) /\ Left(d)[<<i, n>>] \in LeftIn
<1> DEFINE S == Nat \X Nat
           V == [x \in S |-> LeftIn]
           D == [y \in Typed(S, V) \X S |-> Owing(y[1], d, y[2][1], y[2][2])]
           mu == Behinds(d)
           Eq(g) == [x \in S |-> Owing(g, d, x[1], x[2])]
<1>b. mu \in [S -> Nat]
  BY BehindsIs
<1>c. \A x \in S : V[x] # {}
  BY DEF LeftIn
<1>d. \A g \in Typed(S, V) : \A i, n \in Nat : g[<<i, n>>] \in LeftIn
  BY DEF Typed
<1>e. \A g \in Typed(S, V) : \A x \in S : D[<<g, x>>] = Owing(g, d, x[1], x[2])
  OBVIOUS
<1>f. \A i, n, j, k \in Nat : i < j /\ j <= Len(d) => mu[<<j, k>>] < mu[<<i, n>>]
  BY BehindsIs
<1>a. \A x \in S : x = <<x[1], x[2]>> /\ x[1] \in Nat /\ x[2] \in Nat
  OBVIOUS
<1>h. \A i, n \in Nat : <<i, n>> \in S /\ <<i, n>>[1] = i /\ <<i, n>>[2] = n
  OBVIOUS
<1> HIDE DEF D, mu
<1>1. \A g \in Typed(S, V) : \A x \in S : D[<<g, x>>] \in V[x]
  <2> SUFFICES ASSUME NEW g \in Typed(S, V), NEW x \in S PROVE D[<<g, x>>] \in V[x]
    OBVIOUS
  <2>1. PICK i \in Nat, n \in Nat : x[1] = i /\ x[2] = n
    BY <1>a
  <2>2. \A j, k \in Nat : i < j /\ j <= Len(d) => g[<<j, k>>] \in LeftIn
    BY <1>d
  <2>3. Owing(g, d, i, n) \in LeftIn
    BY <2>2, OwingIn
  <2> QED
    BY <1>e, <2>1, <2>3
<1>2. Founded(S, V, mu, D)
  <2> SUFFICES ASSUME NEW g \in Typed(S, V), NEW e \in Typed(S, V), NEW x \in S, Below(mu, g, e, x, S)
               PROVE  D[<<g, x>>] = D[<<e, x>>]
    BY DEF Founded
  <2>1. PICK i \in Nat, n \in Nat : x[1] = i /\ x[2] = n /\ x = <<i, n>>
    BY <1>a
  <2>2. ASSUME NEW j \in Nat, NEW k \in Nat, i < j, j <= Len(d) PROVE g[<<j, k>>] = e[<<j, k>>]
    <3>1. mu[<<j, k>>] < mu[x]
      BY <1>f, <2>1, <2>2
    <3>2. <<j, k>> \in S
      BY <1>h
    <3> QED
      BY <3>1, <3>2 DEF Below
  <2>3. Owing(g, d, i, n) = Owing(e, d, i, n)
    <3>1. AgreeBehind(g, e, d, i)
      BY <2>2 DEF AgreeBehind
    <3> QED
      BY <3>1, OwingAgree
  <2> QED
    BY <1>e, <2>1, <2>3
<1>3. PICK g : Solves(g, S, V, D)
  <2>1. Recursive(S, V, mu, D)
    BY <1>b, <1>c, <1>1, <1>2 DEF Recursive
  <2> HIDE DEF S, V
  <2> QED
    BY <2>1, Recursion
<1>4. g = Eq(g)
  <2>1. g \in Typed(S, V) /\ \A x \in S : g[x] = Owing(g, d, x[1], x[2])
    BY <1>3, <1>e DEF Solves
  <2>2. g = [x \in S |-> g[x]]
    BY <2>1 DEF Typed
  <2> QED
    BY <2>1, <2>2
<1>5. Left(d) = CHOOSE e : e = Eq(e)
  BY DEF Left
<1> HIDE DEF Eq
<1>6. Left(d) = Eq(Left(d))
  BY <1>4, <1>5, Zenon
<1> USE DEF Eq
<1> DEFINE E == Left(d)
<1> HIDE DEF E
<1>7. E = [x \in S |-> Owing(E, d, x[1], x[2])]
  BY <1>6 DEF E
<1>8. \A i, n \in Nat : E[<<i, n>>] = Owing(E, d, i, n)
  BY <1>7
<1> DEFINE T == {x \in S : E[<<x[1], x[2]>>] \in LeftIn}
<1>9. S \subseteq T
  <2>1. ASSUME NEW x \in S, \A y \in S : mu[y] < mu[x] => y \in T
        PROVE  x \in T
    <3>1. PICK i \in Nat, n \in Nat : x[1] = i /\ x[2] = n /\ x = <<i, n>>
      BY <1>a
    <3>2. ASSUME NEW j \in Nat, NEW k \in Nat, i < j, j <= Len(d) PROVE E[<<j, k>>] \in LeftIn
      <4>1. mu[<<j, k>>] < mu[x]
        BY <1>f, <3>1, <3>2
      <4>2. <<j, k>> \in T
        BY <1>h, <2>1, <4>1
      <4> QED
        BY <4>2
    <3>3. Owing(E, d, i, n) \in LeftIn
      BY <3>2, OwingIn
    <3> QED
      BY <1>8, <3>1, <3>3
  <2> HIDE DEF S, T
  <2> QED
    BY <1>b, <2>1, Induction
<1>10. \A i, n \in Nat : E[<<i, n>>] \in LeftIn
  <2> TAKE i, n \in Nat
  <2>1. <<i, n>> \in T
    BY <1>9, <1>h
  <2> QED
    BY <2>1
<1> QED
  BY <1>7, <1>8, <1>10 DEF E

\* What is owed is n at the end, and goes on behind a token.
LEMMA LeftIs ==
    ASSUME NEW d \in Data, NEW i \in Nat, NEW n \in Nat
    PROVE  /\ Left(d)[<<i, n>>] \in LeftIn
           /\ i = Len(d) => Left(d)[<<i, n>>] = n
           /\ HasToken(d, i) => Left(d)[<<i, n>>] = Left(d)[<<TokenEnd(d, i), Owed(n, Fields(d, i))>>]
           /\ i # Len(d) /\ ~ HasToken(d, i) => Left(d)[<<i, n>>] = Bad
<1> DEFINE L == Left(d)
<1>1. L[<<i, n>>] = Owing(L, d, i, n) /\ L[<<i, n>>] \in LeftIn
  BY LeftEq
<1> HIDE DEF L
<1>2. HasToken(d, i) => i # Len(d)
  BY TokenHas, LenData
<1>3. /\ i = Len(d) => L[<<i, n>>] = n
      /\ HasToken(d, i) => L[<<i, n>>] = L[<<TokenEnd(d, i), Owed(n, Fields(d, i))>>]
      /\ i # Len(d) /\ ~ HasToken(d, i) => L[<<i, n>>] = Bad
  BY <1>1, <1>2 DEF Owing
<1> QED
  BY <1>1, <1>3 DEF L

------------------------------------------------------------------------------
(* The tokens by their types. *)

\* Where the token at p ends, if there is one.
LEMMA NumberToken ==
    ASSUME NEW d \in Data, NEW p \in Nat, p < Len(d), d[p + 1] \in Number, NEW e \in Nat, e = p + 1 + Width[d[p + 1]]
    PROVE  /\ e <= Len(d) => HasToken(d, p) /\ TokenEnd(d, p) = e /\ Fields(d, p) = 0
           /\ e > Len(d) => ~ HasToken(d, p)
<1>0. Len(d) \in Nat /\ Width[d[p + 1]] \in Nat /\ Width[d[p + 1]] >= 1
  BY LenData, WidthIs
<1>1. ASSUME e <= Len(d) PROVE HasToken(d, p) /\ TokenEnd(d, p) = e /\ Fields(d, p) = 0
  <2>1. e \in p + 1 .. Len(d) /\ IsToken(d, p, e)
    BY <1>0, <1>1 DEF IsToken
  <2> QED
    BY <2>1, TokenEndAt, OneType DEF Fields
<1>2. ASSUME e > Len(d), HasToken(d, p) PROVE FALSE
  <2>1. TokenEnd(d, p) \in p + 1 .. Len(d) /\ IsToken(d, p, TokenEnd(d, p))
    BY <1>2, TokenEndIs
  <2>2. TokenEnd(d, p) = e
    BY <2>1, OneType DEF IsToken
  <2> QED
    BY <1>0, <1>2, <2>1, <2>2
<1> QED
  BY <1>1, <1>2

LEMMA StringToken ==
    ASSUME NEW d \in Data, NEW p \in Nat, p < Len(d), d[p + 1] = String, NEW e, e = StringEnd(d, p + 1)
    PROVE  \/ e \in 0 .. Len(d) /\ HasToken(d, p) /\ TokenEnd(d, p) = e /\ Fields(d, p) = 0
           \/ e = Bad /\ ~ HasToken(d, p)
<1>0. Len(d) \in Nat
  BY LenData
<1>1. \/ /\ e = Bad
         /\ \A k \in p + 2 .. Len(d) : d[k] # 0
      \/ /\ e \in p + 2 .. Len(d)
         /\ d[e] = 0
         /\ \A k \in p + 2 .. e - 1 : d[k] # 0
  BY <1>0, StringEndIs
<1>2. CASE e = Bad /\ \A k \in p + 2 .. Len(d) : d[k] # 0
  <2>1. ASSUME HasToken(d, p) PROVE FALSE
    <3>1. TokenEnd(d, p) \in p + 1 .. Len(d) /\ IsToken(d, p, TokenEnd(d, p))
      BY <2>1, TokenEndIs
    <3>2. TokenEnd(d, p) >= p + 2 /\ d[TokenEnd(d, p)] = 0
      BY <3>1, OneType DEF IsToken
    <3> QED
      BY <1>0, <1>2, <3>1, <3>2
  <2> QED
    BY <1>2, <2>1
<1>3. CASE e \in p + 2 .. Len(d) /\ d[e] = 0 /\ \A k \in p + 2 .. e - 1 : d[k] # 0
  <2>1. e \in p + 1 .. Len(d) /\ IsToken(d, p, e)
    BY <1>0, <1>3 DEF IsToken
  <2>2. HasToken(d, p) /\ TokenEnd(d, p) = e
    BY <2>1, TokenEndAt
  <2>3. Fields(d, p) = 0
    BY OneType DEF Fields
  <2> QED
    BY <1>0, <1>3, <2>2, <2>3
<1> QED
  BY <1>1, <1>2, <1>3

LEMMA ObjectToken ==
    ASSUME NEW d \in Data, NEW p \in Nat, p < Len(d), d[p + 1] = Object
    PROVE  /\ p + 2 <= Len(d) => HasToken(d, p) /\ TokenEnd(d, p) = p + 2 /\ Fields(d, p) = d[p + 2]
           /\ p + 2 > Len(d) => ~ HasToken(d, p)
<1>0. Len(d) \in Nat
  BY LenData
<1>1. ASSUME p + 2 <= Len(d) PROVE HasToken(d, p) /\ TokenEnd(d, p) = p + 2 /\ Fields(d, p) = d[p + 2]
  <2>1. p + 2 \in p + 1 .. Len(d) /\ IsToken(d, p, p + 2)
    BY <1>0, <1>1 DEF IsToken
  <2> QED
    BY <2>1, TokenEndAt DEF Fields
<1>2. ASSUME p + 2 > Len(d), HasToken(d, p) PROVE FALSE
  <2>1. TokenEnd(d, p) \in p + 1 .. Len(d) /\ IsToken(d, p, TokenEnd(d, p))
    BY <1>2, TokenEndIs
  <2>2. TokenEnd(d, p) = p + 2
    BY <2>1, OneType DEF IsToken
  <2> QED
    BY <1>0, <1>2, <2>1, <2>2
<1> QED
  BY <1>1, <1>2

LEMMA ArrayToken ==
    ASSUME NEW h \in Host, NEW d \in Data, NEW p \in Nat, p < Len(d), d[p + 1] \in Array
    PROVE  /\ p + 3 > Len(d) => ~ HasToken(d, p)
           /\ p + 3 <= Len(d) =>
                 LET e == p + 3 + Front16(h, d, p + 1) * Width[d[p + 1] - 128] IN
                 /\ e \in Nat
                 /\ e <= Len(d) => HasToken(d, p) /\ TokenEnd(d, p) = e /\ Fields(d, p) = 0
                 /\ e > Len(d) => ~ HasToken(d, p)
<1>0. Len(d) \in Nat /\ Width[d[p + 1] - 128] \in {1, 2, 4, 8}
  BY LenData, WidthIs
<1>1. ASSUME p + 3 > Len(d), HasToken(d, p) PROVE FALSE
  <2>1. TokenEnd(d, p) \in p + 1 .. Len(d) /\ IsToken(d, p, TokenEnd(d, p))
    BY <1>1, TokenEndIs
  <2>2. TokenEnd(d, p) >= p + 3
    BY <2>1, OneType DEF IsToken
  <2> QED
    BY <1>0, <1>1, <2>1, <2>2
<1>2. ASSUME p + 3 <= Len(d)
      PROVE  LET e == p + 3 + Front16(h, d, p + 1) * Width[d[p + 1] - 128] IN
                 /\ e \in Nat
                 /\ e <= Len(d) => HasToken(d, p) /\ TokenEnd(d, p) = e /\ Fields(d, p) = 0
                 /\ e > Len(d) => ~ HasToken(d, p)
  <2> DEFINE c == Front16(h, d, p + 1)
             w == Width[d[p + 1] - 128]
             e == p + 3 + c * w
  <2>1. c = 256 * d[p + 2] + d[p + 3] /\ c \in Nat
    BY <1>0, <1>2, Front16Is
  <2>2. w \in {1, 2, 4, 8}
    BY <1>0
  <2>5. \A j : IsToken(d, p, j) <=> j >= p + 3 /\ j = p + 3 + c * w
    BY <2>1, OneType DEF IsToken
  <2> HIDE DEF c, w
  <2>3. c * w \in Nat
    BY <2>1, <2>2
  <2>4. e \in Nat /\ e >= p + 3
    BY <2>3
  <2>6. ASSUME e <= Len(d) PROVE HasToken(d, p) /\ TokenEnd(d, p) = e /\ Fields(d, p) = 0
    <3>1. e \in p + 1 .. Len(d) /\ IsToken(d, p, e)
      BY <1>0, <2>4, <2>5, <2>6
    <3> HIDE DEF e
    <3> QED
      BY <3>1, TokenEndAt, OneType DEF Fields
  <2>7. ASSUME e > Len(d), HasToken(d, p) PROVE FALSE
    <3>1. TokenEnd(d, p) \in p + 1 .. Len(d) /\ IsToken(d, p, TokenEnd(d, p))
      BY <2>7, TokenEndIs
    <3>2. TokenEnd(d, p) = e
      BY <3>1, <2>5
    <3> HIDE DEF e
    <3> QED
      BY <1>0, <2>4, <2>7, <3>1, <3>2
  <2> QED
    BY <2>4, <2>6, <2>7 DEF c, w
<1> QED
  BY <1>1, <1>2

LEMMA OtherToken ==
    ASSUME NEW d \in Data, NEW p \in Nat, d[p + 1] \notin Type
    PROVE  ~ HasToken(d, p)
  BY TokenHas

------------------------------------------------------------------------------
(* valid_next_item goes from item to item as the tokens do. *)

\* What is owed at the end does not depend on whether it is counted from i, where
\* n more items are owed, or from e; 0 is no answer if e is not a position.
Leads(d, i, n, e, m) ==
    IF e \in 0 .. Len(d) THEN Left(d)[<<i, n>>] = Left(d)[<<e, m>>] ELSE Left(d)[<<i, n>>] # 0

Keeps(h, d, i, n) == \A e \in Ends(h, d)[<<i, n>>], m \in Nat : Leads(d, i, n + m, e, m)

LEMMA FromIs ==
    ASSUME NEW i \in Nat, NEW p \in From(i)
    PROVE  p = Bad \/ (p \in Nat /\ p >= i)
  BY DEF From

LEMMA TokenLeads ==
    ASSUME NEW d \in Data, NEW p \in Nat, NEW e \in Nat, NEW m \in Nat, NEW n \in Nat,
           \/ e <= Len(d) /\ HasToken(d, p) /\ TokenEnd(d, p) = e /\ Owed(n, Fields(d, p)) = m
           \/ e > Len(d) /\ p # Len(d) /\ ~ HasToken(d, p)
    PROVE  Leads(d, p, n, e, m)
<1>0. Len(d) \in Nat
  BY LenData
<1>1. CASE e <= Len(d) /\ HasToken(d, p) /\ TokenEnd(d, p) = e /\ Owed(n, Fields(d, p)) = m
  BY <1>0, <1>1, LeftIs DEF Leads
<1>2. CASE e > Len(d) /\ p # Len(d) /\ ~ HasToken(d, p)
  <2>1. Left(d)[<<p, n>>] = Bad
    BY <1>2, LeftIs
  <2> QED
    BY <1>0, <1>2, <2>1 DEF Leads, Bad
<1> QED
  BY <1>1, <1>2

LEMMA NoTokenLeads ==
    ASSUME NEW d \in Data, NEW p \in Nat, NEW m \in Nat, NEW n \in Nat, p # Len(d), ~ HasToken(d, p)
    PROVE  Leads(d, p, n, Bad, m)
<1>1. Left(d)[<<p, n>>] = Bad
  BY LeftIs
<1> QED
  BY <1>1 DEF Leads, Bad

\* One item at p pays one of those that are owed.
LEMMA OneLeads ==
    ASSUME NEW h \in Host, NEW d \in Data, NEW p \in Nat, p < Len(d),
           p + 2 <= Len(d) => Keeps(h, d, p + 2, d[p + 2]),
           NEW e \in Behind(Ends(h, d), h, d, p, d[p + 1]), NEW m \in Nat
    PROVE  Leads(d, p, m + 1, e, m)
<1> DEFINE t == d[p + 1]
<1>0. Len(d) \in Nat /\ p # Len(d)
  BY LenData
<1>o. Owed(m + 1, 0) = m /\ m + 1 \in Nat
  BY OwedIs
<1>1. CASE t \in Number
  <2>1. e = p + 1 + Width[t]
    BY <1>1, BehindNumber
  <2>2. e \in Nat
    BY <1>1, <2>1, WidthIs
  <2>3. /\ e <= Len(d) => HasToken(d, p) /\ TokenEnd(d, p) = e /\ Fields(d, p) = 0
        /\ e > Len(d) => ~ HasToken(d, p)
    BY <1>1, <2>1, <2>2, NumberToken
  <2> QED
    BY <1>0, <1>o, <2>2, <2>3, TokenLeads
<1>2. CASE t = String
  <2>1. e = StringEnd(d, p + 1)
    BY <1>2, BehindString
  <2>2. CASE e \in 0 .. Len(d) /\ HasToken(d, p) /\ TokenEnd(d, p) = e /\ Fields(d, p) = 0
    BY <1>0, <1>o, <2>2, TokenLeads
  <2>3. CASE e = Bad /\ ~ HasToken(d, p)
    BY <1>0, <1>o, <2>3, NoTokenLeads
  <2> QED
    BY <1>2, <2>1, <2>2, <2>3, StringToken
<1>3. CASE t = Object
  <2>1. CASE p + 2 > Len(d)
    <3>1. e = Bad
      BY <1>3, <2>1, BehindObjectBad
    <3> QED
      BY <1>0, <1>3, <1>o, <2>1, <3>1, ObjectToken, NoTokenLeads
  <2>2. CASE ~ (p + 2 > Len(d))
    <3>0. p + 2 <= Len(d) /\ p + 2 \in Nat /\ d[p + 2] \in Nat
      BY <1>0, <2>2, ByteAt
    <3>1. e \in Ends(h, d)[<<p + 2, d[p + 2]>>]
      BY <1>3, <2>2, BehindObject
    <3>2. Leads(d, p + 2, d[p + 2] + m, e, m)
      BY <3>0, <3>1 DEF Keeps
    <3>3. HasToken(d, p) /\ TokenEnd(d, p) = p + 2 /\ Fields(d, p) = d[p + 2]
      BY <1>3, <3>0, ObjectToken
    <3>4. Owed(m + 1, Fields(d, p)) = d[p + 2] + m
      <4>1. Owed(m + 1, d[p + 2]) = m + d[p + 2]
        BY <3>0, OwedIs
      <4> QED
        BY <3>0, <3>3, <4>1
    <3>5. Left(d)[<<p, m + 1>>] = Left(d)[<<p + 2, d[p + 2] + m>>]
      BY <1>o, <3>3, <3>4, LeftIs
    <3> QED
      BY <3>2, <3>5 DEF Leads
  <2> QED
    BY <2>1, <2>2
<1>4. CASE t \in Array
  <2>1. CASE p + 3 > Len(d)
    <3>1. e = Bad
      BY <1>4, <2>1, BehindArray
    <3>2. ~ HasToken(d, p)
      BY <1>4, <2>1, ArrayToken
    <3> QED
      BY <1>0, <1>o, <3>1, <3>2, NoTokenLeads
  <2>2. CASE p + 3 <= Len(d)
    <3>1. e = p + 3 + Front16(h, d, p + 1) * Width[t - 128]
      BY <1>0, <1>4, <2>2, BehindArray
    <3>2. /\ e \in Nat
          /\ e <= Len(d) => HasToken(d, p) /\ TokenEnd(d, p) = e /\ Fields(d, p) = 0
          /\ e > Len(d) => ~ HasToken(d, p)
      BY <1>4, <2>2, <3>1, ArrayToken
    <3> QED
      BY <1>0, <1>o, <3>2, TokenLeads
  <2> QED
    BY <1>0, <2>1, <2>2
<1>5. CASE t \notin Type
  <2>1. e = Bad
    BY <1>5, BehindOther
  <2>2. ~ HasToken(d, p)
    BY <1>5, OtherToken
  <2> QED
    BY <1>0, <1>o, <2>1, <2>2, NoTokenLeads
<1> QED
  BY <1>1, <1>2, <1>3, <1>4, <1>5, TypeIs

\* At the end of the packet, and behind it, there is no further item.
LEMMA NoneBehind ==
    ASSUME NEW h \in Host, NEW d \in Data, NEW p \in Nat, p >= Len(d), NEW t
    PROVE  \A e \in Behind(Ends(h, d), h, d, p, t) : e = Bad \/ (e \in Nat /\ e > Len(d))
<1>0. Len(d) \in Nat
  BY LenData
<1>1. ~ (p + 2 <= Len(d))
  BY <1>0
<1>2. Behind(Ends(h, d), h, d, p, t) \subseteq From(p + 1)
  BY <1>1, BehindFrom
<1> QED
  BY <1>0, <1>2 DEF From

LEMMA NextKeeps ==
    ASSUME NEW h \in Host, NEW d \in Data, NEW i \in Nat, NEW n \in Nat,
           n # 0 => Keeps(h, d, i, n - 1),
           \A p \in Nat : i <= p /\ p + 2 <= Len(d) => Keeps(h, d, p + 2, d[p + 2])
    PROVE  Keeps(h, d, i, n)
<1>0. Len(d) \in Nat
  BY LenData
<1>e. Ends(h, d)[<<i, n>>] = ItemEnds(Ends(h, d), h, d, i, n)
  BY EndsIs
<1>1. CASE n = 0
  <2> SUFFICES ASSUME NEW m \in Nat PROVE Leads(d, i, m, i, m)
    BY <1>1, <1>e DEF Keeps, ItemEnds
  <2>1. CASE i <= Len(d)
    BY <2>1, <1>0 DEF Leads
  <2>2. CASE i > Len(d)
    <3>1. ~ HasToken(d, i) /\ i # Len(d)
      BY <1>0, <2>2, TokenHas
    <3>2. Left(d)[<<i, m>>] = Bad
      BY <3>1, LeftIs
    <3> QED
      BY <1>0, <2>2, <3>2 DEF Leads, Bad
  <2> QED
    BY <1>0, <2>1, <2>2
<1>2. CASE n # 0
  <2>1. PICK k \in Nat : k = n - 1 /\ n = k + 1
    BY <1>2
  <2>2. EndsIn(Ends(h, d), i, k)
    BY EndsIs
  <2> SUFFICES ASSUME NEW e \in Ends(h, d)[<<i, n>>], NEW m \in Nat PROVE Leads(d, i, n + m, e, m)
    BY DEF Keeps
  <2>3. PICK p \in Ends(h, d)[<<i, k>>] : e \in OneMore(Ends(h, d), h, d, p)
    BY <1>2, <1>e, <2>1 DEF ItemEnds
  <2>4. p = Bad \/ (p \in Nat /\ p >= i)
    <3>1. p \in From(i + k)
      BY <2>2, <2>3 DEF EndsIn
    <3>2. i + k \in Nat /\ i + k >= i
      OBVIOUS
    <3> QED
      BY <3>1, <3>2, FromIs
  <2>5. Leads(d, i, k + (m + 1), p, m + 1)
    <3>1. Keeps(h, d, i, k)
      BY <1>2, <2>1
    <3>2. m + 1 \in Nat
      OBVIOUS
    <3> QED
      BY <2>3, <3>1, <3>2, Zenon DEF Keeps
  <2>6. k + (m + 1) = n + m
    BY <2>1
  <2>7. Leads(d, i, n + m, p, m + 1)
    BY <2>5, <2>6
  <2>8. CASE p = Bad
    <3>1. e = Bad
      BY <2>3, <2>8 DEF OneMore
    <3> QED
      BY <2>7, <2>8, <3>1 DEF Leads, Bad
  <2>9. CASE p \in Nat /\ p >= Len(d)
    <3>1. e = Bad \/ (e \in Nat /\ e > Len(d))
      BY <2>3, <2>9, NoneBehind DEF OneMore, Bad
    <3>2. e \notin 0 .. Len(d)
      BY <1>0, <3>1 DEF Bad
    <3>3. Left(d)[<<i, n + m>>] # 0
      <4>1. CASE p = Len(d)
        <5>1. Left(d)[<<p, m + 1>>] = m + 1
          <6>1. PICK q \in Nat, l \in Nat : q = Len(d) /\ l = m + 1
            BY <1>0
          <6>2. Left(d)[<<q, l>>] = l
            BY <6>1, LeftIs
          <6> QED
            BY <4>1, <6>1, <6>2
        <5> QED
          BY <1>0, <2>7, <2>9, <4>1, <5>1 DEF Leads
      <4>2. CASE p # Len(d)
        BY <1>0, <2>7, <2>9, <4>2 DEF Leads
      <4> QED
        BY <4>1, <4>2
    <3> QED
      BY <3>2, <3>3 DEF Leads
  <2>10. CASE p \in Nat /\ p < Len(d)
    <3>1. e \in Behind(Ends(h, d), h, d, p, d[p + 1])
      BY <2>3, <2>10 DEF OneMore, At, Bad
    <3>2. p + 2 <= Len(d) => Keeps(h, d, p + 2, d[p + 2])
      BY <2>4, <2>10 DEF Bad
    <3>3. Leads(d, p, m + 1, e, m)
      BY <2>10, <3>1, <3>2, OneLeads
    <3>4. p \in 0 .. Len(d)
      BY <1>0, <2>10
    <3> QED
      BY <2>7, <3>3, <3>4 DEF Leads
  <2> QED
    BY <1>0, <2>4, <2>8, <2>9, <2>10
<1> QED
  BY <1>1, <1>2

\* n items at i pay n of those that are owed, whichever end valid_next_item finds.
LEMMA AllKeeps ==
    ASSUME NEW h \in Host, NEW d \in Data
    PROVE  \A i, n \in Nat : Keeps(h, d, i, n)
<1> DEFINE S == Nat \X Nat
           mu == Pairs(d)
           T == {x \in S : Keeps(h, d, x[1], x[2])}
<1>b. mu \in [S -> Nat]
  BY PairsIs
<1>h. \A i, n \in Nat : <<i, n>> \in S /\ <<i, n>>[1] = i /\ <<i, n>>[2] = n
  OBVIOUS
<1>1. ASSUME NEW x \in S, \A y \in S : mu[y] < mu[x] => y \in T
      PROVE  x \in T
  <2>1. PICK i \in Nat, n \in Nat : x[1] = i /\ x[2] = n /\ x = <<i, n>>
    OBVIOUS
  <2>2. ASSUME NEW j \in Nat, NEW k \in Nat, mu[<<j, k>>] < mu[<<i, n>>] PROVE Keeps(h, d, j, k)
    <3>1. <<j, k>> \in T
      BY <1>1, <1>h, <2>1, <2>2
    <3> QED
      BY <3>1
  <2>3. n # 0 => Keeps(h, d, i, n - 1)
    <3> SUFFICES ASSUME n # 0 PROVE Keeps(h, d, i, n - 1)
      OBVIOUS
    <3>1. PICK k \in Nat : k = n - 1 /\ n = k + 1
      OBVIOUS
    <3>2. mu[<<i, k>>] < mu[<<i, n>>]
      BY <3>1, PairsIs
    <3> QED
      BY <2>2, <3>1, <3>2
  <2>4. ASSUME NEW p \in Nat, i <= p, p + 2 <= Len(d) PROVE Keeps(h, d, p + 2, d[p + 2])
    <3>1. d[p + 2] \in Nat /\ d[p + 2] <= 255
      BY <2>4, ByteAt
    <3>2. mu[<<p + 2, d[p + 2]>>] < mu[<<i, n>>]
      BY <2>4, <3>1, PairsIs
    <3> QED
      BY <2>2, <3>1, <3>2
  <2>5. Keeps(h, d, i, n)
    BY <2>3, <2>4, NextKeeps
  <2> QED
    BY <2>1, <2>5
<1>2. S \subseteq T
  <2> HIDE DEF S, T, mu
  <2> QED
    BY <1>b, <1>1, Induction
<1> QED
  <2> TAKE i, n \in Nat
  <2>1. <<i, n>> \in T
    BY <1>2, <1>h
  <2> QED
    BY <2>1

------------------------------------------------------------------------------
(* is_valid is exact. *)

Ahead(d) == [i \in Nat |-> IF i <= Len(d) THEN Len(d) - i ELSE 0]

LEMMA AheadIs ==
    ASSUME NEW d \in Data
    PROVE  /\ Ahead(d) \in [Nat -> Nat]
           /\ \A i, j \in Nat : i < Len(d) /\ i < j => Ahead(d)[j] < Ahead(d)[i]
  BY LenData DEF Ahead

LEMMA EndsAhead ==
    ASSUME NEW h \in Host, NEW d \in Data, NEW i \in Nat, NEW e \in Ends(h, d)[<<i, 1>>], e # Bad
    PROVE  e \in Nat /\ i < e
<1>1. e \in From(i + 1)
  BY EndsIs DEF EndsIn
<1> QED
  BY <1>1 DEF From

\* The loop of is_valid ends.
LEMMA ScanIs ==
    ASSUME NEW h \in Host, NEW d \in Data
    PROVE  \A i \in Nat : Scan(h, d)[i] = Scanned(Scan(h, d), h, d, i)
<1> DEFINE S == Nat
           V == [i \in S |-> SUBSET Int]
           D == [y \in Typed(S, V) \X S |-> Scanned(y[1], h, d, y[2])]
           mu == Ahead(d)
           Eq(g) == [i \in S |-> Scanned(g, h, d, i)]
<1>b. mu \in [S -> Nat]
  BY AheadIs
<1>c. \A x \in S : V[x] # {}
  OBVIOUS
<1>d. \A g \in Typed(S, V) : \A i \in S : g[i] \subseteq Int
  BY DEF Typed
<1>e. \A g \in Typed(S, V) : \A x \in S : D[<<g, x>>] = Scanned(g, h, d, x)
  OBVIOUS
<1> HIDE DEF D, mu
<1>1. ASSUME NEW g \in Typed(S, V), NEW i \in S PROVE D[<<g, i>>] \in V[i]
  <2>1. \A e \in Ends(h, d)[<<i, 1>>] : (IF e = Bad THEN {Bad} ELSE g[e]) \subseteq Int
    BY <1>d, EndsAhead DEF Bad
  <2>2. Scanned(g, h, d, i) \subseteq Int
    BY <2>1 DEF Scanned
  <2> QED
    BY <1>e, <2>2
<1>2. Founded(S, V, mu, D)
  <2> SUFFICES ASSUME NEW g \in Typed(S, V), NEW s \in Typed(S, V), NEW i \in S, Below(mu, g, s, i, S)
               PROVE  D[<<g, i>>] = D[<<s, i>>]
    BY DEF Founded
  <2>1. CASE i >= Len(d)
    BY <1>e, <2>1 DEF Scanned
  <2>2. CASE ~ (i >= Len(d))
    <3>1. ASSUME NEW e \in Ends(h, d)[<<i, 1>>]
          PROVE  (IF e = Bad THEN {Bad} ELSE g[e]) = (IF e = Bad THEN {Bad} ELSE s[e])
      <4>1. CASE e = Bad
        BY <4>1
      <4>2. CASE e # Bad
        <5>1. e \in Nat /\ i < e
          BY <4>2, EndsAhead
        <5>2. mu[e] < mu[i]
          <6>1. i < Len(d)
            BY <2>2, LenData
          <6> QED
            BY <5>1, <6>1, AheadIs DEF mu
        <5> QED
          BY <4>2, <5>1, <5>2 DEF Below
      <4> QED
        BY <4>1, <4>2
    <3>2. Scanned(g, h, d, i) = UNION {IF e = Bad THEN {Bad} ELSE g[e] : e \in Ends(h, d)[<<i, 1>>]}
      BY <2>2 DEF Scanned
    <3>3. Scanned(s, h, d, i) = UNION {IF e = Bad THEN {Bad} ELSE s[e] : e \in Ends(h, d)[<<i, 1>>]}
      BY <2>2 DEF Scanned
    <3>4. Scanned(g, h, d, i) = Scanned(s, h, d, i)
      BY <3>1, <3>2, <3>3
    <3> QED
      BY <1>e, <3>4
  <2> QED
    BY <2>1, <2>2
<1>3. PICK g : Solves(g, S, V, D)
  <2>1. Recursive(S, V, mu, D)
    BY <1>b, <1>c, <1>1, <1>2 DEF Recursive
  <2> HIDE DEF S, V
  <2> QED
    BY <2>1, Recursion
<1>4. g = Eq(g)
  <2>1. g \in Typed(S, V) /\ \A x \in S : g[x] = Scanned(g, h, d, x)
    BY <1>3, <1>e DEF Solves
  <2>2. g = [x \in S |-> g[x]]
    BY <2>1 DEF Typed
  <2> QED
    BY <2>1, <2>2
<1>5. Scan(h, d) = CHOOSE e : e = Eq(e)
  BY DEF Scan
<1> HIDE DEF Eq
<1>6. Scan(h, d) = Eq(Scan(h, d))
  BY <1>4, <1>5, Zenon
<1> QED
  BY <1>6 DEF Eq

\* The bytes before the first item are those before its fields: nothing is owed to the
\* item that begins a packet, so one may as well be owed.
LEMMA OneOwed ==
    ASSUME NEW d \in Data, NEW i \in Nat, i # Len(d)
    PROVE  Left(d)[<<i, 0>>] = Left(d)[<<i, 1>>]
<1>1. PICK m \in Nat, n \in Nat : m = 0 /\ n = 1
  OBVIOUS
<1>2. Left(d)[<<i, m>>] = Left(d)[<<i, n>>]
  <2>1. CASE HasToken(d, i)
    <3>1. Owed(m, Fields(d, i)) = Owed(n, Fields(d, i))
      BY <1>1, <2>1, TokenHas, OwedIs
    <3>2. /\ Left(d)[<<i, m>>] = Left(d)[<<TokenEnd(d, i), Owed(m, Fields(d, i))>>]
          /\ Left(d)[<<i, n>>] = Left(d)[<<TokenEnd(d, i), Owed(n, Fields(d, i))>>]
      BY <2>1, LeftIs
    <3> QED
      BY <3>1, <3>2
  <2>2. CASE ~ HasToken(d, i)
    <3>1. Left(d)[<<i, m>>] = Bad /\ Left(d)[<<i, n>>] = Bad
      BY <2>2, LeftIs
    <3> QED
      BY <3>1
  <2> QED
    BY <2>1, <2>2
<1> QED
  BY <1>1, <1>2

\* is_valid ends at the end of the packet exactly if it is well formed.
Right(h, d, i) == \A e \in Scan(h, d)[i] : Accepts(d, e) <=> Left(d)[<<i, 0>>] = 0

\* is_valid is exact.
LEMMA ScanRight ==
    ASSUME NEW h \in Host, NEW d \in Data
    PROVE  \A e \in Scan(h, d)[0] : Accepts(d, e) <=> WellFormed(d)
<1> DEFINE T == {i \in Nat : Right(h, d, i)}
           mu == Ahead(d)
<1>0. Len(d) \in Nat
  BY LenData
<1>1. ASSUME NEW i \in Nat, \A j \in Nat : mu[j] < mu[i] => j \in T
      PROVE  i \in T
  <2>1. CASE i >= Len(d)
    <3>1. Scan(h, d)[i] = {i}
      BY <2>1, ScanIs DEF Scanned
    <3>2. i = Len(d) <=> Left(d)[<<i, 0>>] = 0
      <4>1. CASE i = Len(d)
        BY <4>1, LeftIs
      <4>2. CASE i # Len(d)
        <5>1. ~ HasToken(d, i)
          BY <2>1, <1>0, TokenHas
        <5>2. Left(d)[<<i, 0>>] = Bad
          BY <4>2, <5>1, LeftIs
        <5> QED
          BY <4>2, <5>2 DEF Bad
      <4> QED
        BY <4>1, <4>2
    <3> QED
      BY <3>1, <3>2 DEF Right, Accepts
  <2>2. CASE ~ (i >= Len(d))
    <3> SUFFICES ASSUME NEW e \in Scan(h, d)[i] PROVE Accepts(d, e) <=> Left(d)[<<i, 0>>] = 0
      BY DEF Right
    <3>0. Left(d)[<<i, 0>>] = Left(d)[<<i, 1>>]
      BY <1>0, <2>2, OneOwed
    <3>1. Scan(h, d)[i] = UNION {IF p = Bad THEN {Bad} ELSE Scan(h, d)[p] : p \in Ends(h, d)[<<i, 1>>]}
      BY <2>2, ScanIs DEF Scanned
    <3>2. PICK p \in Ends(h, d)[<<i, 1>>] : e \in (IF p = Bad THEN {Bad} ELSE Scan(h, d)[p])
      BY <3>1
    <3>3. Leads(d, i, 1, p, 0)
      <4>1. Keeps(h, d, i, 1)
        BY AllKeeps
      <4>2. Leads(d, i, 1 + 0, p, 0)
        BY <4>1 DEF Keeps
      <4> QED
        BY <4>2
    <3>4. CASE p = Bad
      <4>1. e # Len(d) /\ p \notin 0 .. Len(d)
        BY <1>0, <3>2, <3>4 DEF Bad
      <4> QED
        BY <3>0, <3>3, <4>1 DEF Leads, Accepts
    <3>5. CASE p # Bad
      <4>1. p \in Nat /\ i < p
        BY <3>5, EndsAhead
      <4>2. mu[p] < mu[i]
        BY <1>0, <2>2, <4>1, AheadIs
      <4>3. Right(h, d, p)
        BY <1>1, <4>1, <4>2
      <4>4. Accepts(d, e) <=> Left(d)[<<p, 0>>] = 0
        BY <3>2, <3>5, <4>3 DEF Right
      <4>5. CASE p <= Len(d)
        <5>1. Left(d)[<<i, 1>>] = Left(d)[<<p, 0>>]
          BY <1>0, <3>3, <4>1, <4>5 DEF Leads
        <5> QED
          BY <3>0, <4>4, <5>1
      <4>6. CASE p > Len(d)
        <5>1. Left(d)[<<i, 1>>] # 0
          BY <1>0, <3>3, <4>1, <4>6 DEF Leads
        <5>2. ~ HasToken(d, p) /\ p # Len(d)
          BY <1>0, <4>1, <4>6, TokenHas
        <5>3. Left(d)[<<p, 0>>] = Bad
          BY <4>1, <5>2, LeftIs
        <5> QED
          BY <3>0, <4>4, <5>1, <5>3 DEF Bad
      <4> QED
        BY <1>0, <4>1, <4>5, <4>6
    <3> QED
      BY <3>4, <3>5
  <2> QED
    BY <2>1, <2>2
<1>2. Nat \subseteq T
  <2>1. mu \in [Nat -> Nat]
    BY AheadIs
  <2> HIDE DEF T, mu
  <2> QED
    BY <1>1, <2>1, Induction
<1>3. Right(h, d, 0)
  <2>1. 0 \in T
    BY <1>2
  <2> QED
    BY <2>1
<1> QED
  BY <1>3 DEF Right, WellFormed

------------------------------------------------------------------------------
(* A reader takes the token that is there. *)

LEMMA PartIs ==
    ASSUME NEW d \in Data, NEW i \in Nat, NEW j \in Nat, i <= j, j <= Len(d)
    PROVE  /\ Part(d, i, j) \in Data /\ Len(Part(d, i, j)) = j - i
           /\ \A k \in 1 .. j - i : Part(d, i, j)[k] = d[i + k]
<1>0. Len(d) \in Nat
  BY LenData
<1>1. \A k \in i + 1 .. j : d[k] \in Octet
  BY <1>0, LenData
<1>2. PICK a \in Int : a = i + 1
  OBVIOUS
<1>3. /\ SubSeq(d, a, j) \in Seq(Octet)
      /\ Len(SubSeq(d, a, j)) = IF a <= j THEN j - a + 1 ELSE 0
      /\ \A k \in 1 .. j - a + 1 : SubSeq(d, a, j)[k] = d[a + k - 1]
  BY <1>1, <1>2, SubSeqProperties
<1>4. Part(d, i, j) = SubSeq(d, a, j)
  BY <1>2 DEF Part
<1> DEFINE z == SubSeq(d, a, j)
<1>5. /\ z \in Seq(Octet)
      /\ Len(z) = IF a <= j THEN j - a + 1 ELSE 0
      /\ \A k \in 1 .. j - a + 1 : z[k] = d[a + k - 1]
  BY <1>3
<1> HIDE DEF z
<1>6. \A k \in 1 .. j - i : k \in 1 .. j - a + 1 /\ a + k - 1 = i + k
  BY <1>2
<1>7. \A k \in 1 .. j - i : z[k] = d[i + k]
  BY <1>5, <1>6
<1>8. Len(z) = j - i
  BY <1>2, <1>5
<1> QED
  BY <1>4, <1>5, <1>7, <1>8 DEF z, Data

Divides(w, n) == \E c \in Nat : n = c * w

LEMMA EachAt ==
    ASSUME NEW w \in {1, 2, 4, 8}, NEW n \in Nat, Divides(w, n), NEW k \in 1 .. n
    PROVE  /\ (k - 1) % w \in 0 .. w - 1
           /\ k - ((k - 1) % w) >= 1
           /\ k - ((k - 1) % w) + w - 1 <= n
<1>1. PICK c \in Nat : n = c * w
  BY DEF Divides
<1>2. CASE w = 1
  BY <1>1, <1>2
<1>3. CASE w = 2
  BY <1>1, <1>3
<1>4. CASE w = 4
  BY <1>1, <1>4
<1>5. CASE w = 8
  BY <1>1, <1>5
<1> QED
  BY <1>2, <1>3, <1>4, <1>5

\* A byte of an array belongs to a whole number.
LEMMA EachIs ==
    ASSUME NEW w \in {1, 2, 4, 8}, NEW v \in Data, Divides(w, Len(v)), NEW k \in 1 .. Len(v)
    PROVE  Each(w, v, k) \in Data /\ Len(Each(w, v, k)) = w /\ Each(w, v, k)[((k - 1) % w) + 1] = v[k]
<1>0. Len(v) \in Nat
  BY LenData
<1>1. /\ (k - 1) % w \in 0 .. w - 1
      /\ k - ((k - 1) % w) >= 1
      /\ k - ((k - 1) % w) + w - 1 <= Len(v)
  BY <1>0, EachAt
<1>2. PICK r \in 0 .. w - 1 : r = (k - 1) % w
  BY <1>1
<1>3. PICK i \in Nat, j \in Nat : i = (k - r) - 1 /\ j = (k - r) + w - 1
  <2>1. k \in Nat /\ r \in Nat /\ w \in Nat /\ w >= 1 /\ k - r >= 1
    BY <1>0, <1>1, <1>2
  <2>2. (k - r) - 1 \in Nat /\ (k - r) + w - 1 \in Nat
    BY <2>1
  <2> QED
    BY <2>2
<1>4. Each(w, v, k) = Part(v, i, j)
  <2>1. i + 1 = k - ((k - 1) % w) /\ j = k - ((k - 1) % w) + w - 1
    BY <1>2, <1>3
  <2> QED
    BY <2>1 DEF Each, Part
<1>5. i <= j /\ j <= Len(v) /\ j - i = w /\ i + (r + 1) = k /\ r + 1 \in 1 .. j - i
  BY <1>0, <1>1, <1>2, <1>3
<1>6. /\ Part(v, i, j) \in Data /\ Len(Part(v, i, j)) = j - i
      /\ \A l \in 1 .. j - i : Part(v, i, j)[l] = v[i + l]
  BY <1>5, PartIs
<1>7. Part(v, i, j)[r + 1] = v[k]
  BY <1>5, <1>6
<1> QED
  BY <1>2, <1>4, <1>5, <1>6, <1>7

\* The numbers of an array come through unchanged.
LEMMA AllIs ==
    ASSUME NEW h \in Host, NEW w \in {1, 2, 4, 8}, NEW v \in Data, Divides(w, Len(v))
    PROVE  AllPushed(h, w, v) = v /\ AllFronted(h, w, v) = v
<1>1. ASSUME NEW k \in 1 .. Len(v)
      PROVE  /\ Push(h, Each(w, v, k))[((k - 1) % w) + 1] = v[k]
             /\ FrontOf(h, Each(w, v, k))[((k - 1) % w) + 1] = v[k]
  <2>1. Each(w, v, k) \in Data /\ Len(Each(w, v, k)) = w /\ Each(w, v, k)[((k - 1) % w) + 1] = v[k]
    BY EachIs
  <2>2. Push(h, Each(w, v, k)) = Each(w, v, k) /\ FrontOf(h, Each(w, v, k)) = Each(w, v, k)
    BY <2>1, PushIs
  <2> QED
    BY <2>1, <2>2
<1>2. v = [k \in 1 .. Len(v) |-> v[k]]
  BY DEF Data
<1>3. AllPushed(h, w, v) = [k \in 1 .. Len(v) |-> v[k]]
  BY <1>1 DEF AllPushed
<1>4. AllFronted(h, w, v) = [k \in 1 .. Len(v) |-> v[k]]
  BY <1>1 DEF AllFronted
<1> QED
  BY <1>2, <1>3, <1>4
------------------------------------------------------------------------------
\* The answer is one token that goes up to a byte.
IsTaken(answer, to) == \E k \in Token : answer = {[token |-> k, next |-> to]}

LEMMA TakenIs ==
    ASSUME NEW d \in Data, NEW t \in Type, NEW v \in Data, NEW to \in Nat, to <= Len(d)
    PROVE  IsTaken(Taken(d, t, v, to), to)
<1>1. [type |-> t, value |-> v] \in Token
  BY DEF Token, Data
<1>2. ~ (to > Len(d))
  BY LenData
<1> QED
  BY <1>1, <1>2 DEF Taken, IsTaken

LEMMA TokenAtNumber ==
    ASSUME NEW h, NEW d, NEW i, NEW t, t = d[i + 1], t \in Number
    PROVE  TokenAt(h, d, i) = Taken(d, t, FrontOf(h, Part(d, i + 1, i + 1 + Width[t])), i + 1 + Width[t])
  BY OneType DEF TokenAt

LEMMA TokenAtString ==
    ASSUME NEW h, NEW d, NEW i, d[i + 1] = String, StringEnd(d, i + 1) # Bad
    PROVE  TokenAt(h, d, i) = Taken(d, String, Part(d, i + 1, StringEnd(d, i + 1) - 1), StringEnd(d, i + 1))
  BY OneType DEF TokenAt

LEMMA TokenAtObject ==
    ASSUME NEW h, NEW d, NEW i, d[i + 1] = Object
    PROVE  TokenAt(h, d, i) = Taken(d, Object, Part(d, i + 1, i + 2), i + 2)
  BY OneType DEF TokenAt

LEMMA TokenAtArray ==
    ASSUME NEW h, NEW d \in Data, NEW i \in Nat, NEW t, t = d[i + 1], t \in Array, ~ (i + 3 > Len(d)),
           NEW to, to = i + 3 + Front16(h, d, i + 1) * Width[t - 128]
    PROVE  TokenAt(h, d, i) = Taken(d, t, AllFronted(h, Width[t - 128], Part(d, i + 3, to)), to)
  BY OneType DEF TokenAt

\* The reader takes the token that is there, whatever its type.
LEMMA TokenAtIs ==
    ASSUME NEW h \in Host, NEW d \in Data, NEW i \in Nat, HasToken(d, i)
    PROVE  IsTaken(TokenAt(h, d, i), TokenEnd(d, i))
<1> DEFINE t == d[i + 1]
           to == TokenEnd(d, i)
<1>0. Len(d) \in Nat
  BY LenData
<1>1. i < Len(d) /\ to \in Nat /\ to <= Len(d) /\ t \in Type
  BY TokenHas
<1>2. CASE t \in Number
  <2>1. PICK e \in Nat : e = i + 1 + Width[t]
    BY <1>2, WidthIs
  <2>2. e <= Len(d) /\ to = e
    BY <1>0, <1>1, <1>2, <2>1, NumberToken
  <2> DEFINE v == Part(d, i + 1, e)
  <2>3. v \in Data /\ Len(v) = Width[t]
    <3>1. PICK a \in Nat : a = i + 1
      OBVIOUS
    <3>2. a <= e /\ e - a = Width[t]
      BY <1>2, <2>1, <3>1, WidthIs
    <3>3. Part(d, a, e) \in Data /\ Len(Part(d, a, e)) = e - a
      BY <2>2, <3>2, PartIs
    <3> QED
      BY <3>1, <3>2, <3>3
  <2>4. FrontOf(h, v) = v
    BY <1>2, <2>3, WidthIs, PushIs
  <2>5. TokenAt(h, d, i) = Taken(d, t, v, e)
    BY <1>2, <2>1, <2>4, TokenAtNumber
  <2> HIDE DEF v
  <2> QED
    BY <1>1, <2>2, <2>3, <2>5, TakenIs
<1>3. CASE t = String
  <2>1. StringEnd(d, i + 1) = to /\ StringEnd(d, i + 1) # Bad
    <3>1. PICK e : e = StringEnd(d, i + 1)
      OBVIOUS
    <3>2. e \in 0 .. Len(d) /\ TokenEnd(d, i) = e
      BY <1>1, <1>3, <3>1, StringToken
    <3> QED
      BY <1>0, <3>1, <3>2 DEF Bad
  <2>2. i + 2 <= to
    <3>1. to \in i + 1 .. Len(d) /\ IsToken(d, i, to)
      BY TokenEndIs
    <3> QED
      BY <1>3, <3>1, OneType DEF IsToken
  <2>3. PICK a \in Nat, b \in Nat : a = i + 1 /\ b = to - 1 /\ a <= b /\ b <= Len(d)
    BY <1>0, <1>1, <2>2
  <2>4. TokenAt(h, d, i) = Taken(d, String, Part(d, a, b), to)
    BY <1>3, <2>1, <2>3, TokenAtString
  <2>5. Part(d, a, b) \in Data
    BY <2>3, PartIs
  <2>6. String \in Type
    BY TypeIs
  <2> QED
    BY <1>1, <2>4, <2>5, <2>6, TakenIs
<1>4. CASE t = Object
  <2>1. i + 2 <= Len(d) /\ to = i + 2
    BY <1>0, <1>1, <1>4, ObjectToken
  <2>2. PICK a \in Nat, b \in Nat : a = i + 1 /\ b = i + 2 /\ a <= b /\ b <= Len(d)
    BY <1>0, <1>1, <2>1
  <2>3. TokenAt(h, d, i) = Taken(d, Object, Part(d, a, b), b)
    BY <1>4, <2>2, TokenAtObject
  <2>4. Part(d, a, b) \in Data
    BY <2>2, PartIs
  <2>5. Object \in Type
    BY TypeIs
  <2> QED
    BY <2>1, <2>2, <2>3, <2>4, <2>5, TakenIs
<1>5. CASE t \in Array
  <2>0. Width[t - 128] \in {1, 2, 4, 8}
    BY <1>5, WidthIs
  <2>1. i + 3 <= Len(d)
    BY <1>0, <1>1, <1>5, ArrayToken
  <2>2. PICK c \in Nat : c = Front16(h, d, i + 1)
    BY <1>0, <2>1, Front16Is
  <2>3. PICK w \in {1, 2, 4, 8} : w = Width[t - 128]
    BY <2>0
  <2>4. PICK a \in Nat, b \in Nat : a = i + 3 /\ b = a + c * w
    OBVIOUS
  <2>5. b <= Len(d) /\ to = b
    BY <1>0, <1>1, <1>5, <2>1, <2>2, <2>3, <2>4, ArrayToken
  <2>6. Part(d, a, b) \in Data /\ Len(Part(d, a, b)) = b - a
    <3>1. a <= b
      BY <2>4
    <3> QED
      BY <2>5, <3>1, PartIs
  <2>7. Divides(w, Len(Part(d, a, b)))
    BY <2>4, <2>6 DEF Divides
  <2>8. AllFronted(h, w, Part(d, a, b)) = Part(d, a, b)
    BY <2>6, <2>7, AllIs
  <2>9. TokenAt(h, d, i) = Taken(d, t, AllFronted(h, w, Part(d, a, b)), b)
    <3>1. ~ (i + 3 > Len(d)) /\ b = i + 3 + Front16(h, d, i + 1) * Width[t - 128]
      BY <1>0, <2>1, <2>2, <2>3, <2>4
    <3>2. TokenAt(h, d, i) = Taken(d, t, AllFronted(h, Width[t - 128], Part(d, i + 3, b)), b)
      BY <1>5, <3>1, TokenAtArray
    <3> QED
      BY <2>3, <2>4, <3>2
  <2> QED
    BY <1>1, <2>4, <2>5, <2>6, <2>8, <2>9, TakenIs
<1> QED
  BY <1>1, <1>2, <1>3, <1>4, <1>5, TypeIs

------------------------------------------------------------------------------
(* The output of one item. *)

\* Without one it would have to read behind the packet.
LEMMA TokenAtNone ==
    ASSUME NEW h \in Host, NEW d \in Data, NEW i \in Nat, i < Len(d), ~ HasToken(d, i), d[i + 1] \in Type, d[i + 1] # Object
    PROVE  TokenAt(h, d, i) = {}
<1> DEFINE t == d[i + 1]
<1>0. Len(d) \in Nat
  BY LenData
<1>1. CASE t \in Number
  <2>1. PICK e \in Nat : e = i + 1 + Width[t]
    BY <1>1, WidthIs
  <2>2. e > Len(d)
    BY <1>0, <1>1, <2>1, NumberToken
  <2> QED
    BY <1>1, <2>1, <2>2, TokenAtNumber DEF Taken
<1>2. CASE t = String
  <2>1. StringEnd(d, i + 1) = Bad
    <3>1. PICK e : e = StringEnd(d, i + 1)
      OBVIOUS
    <3> QED
      BY <1>2, <3>1, StringToken
  <2> QED
    BY <1>2, <2>1, OneType DEF TokenAt
<1>3. CASE t \in Array
  <2>1. CASE i + 3 > Len(d)
    BY <1>3, <2>1, OneType DEF TokenAt
  <2>2. CASE ~ (i + 3 > Len(d))
    <3>1. PICK to : to = i + 3 + Front16(h, d, i + 1) * Width[t - 128]
      OBVIOUS
    <3>2. to \in Nat /\ to > Len(d)
      BY <1>0, <1>3, <2>2, <3>1, ArrayToken
    <3>3. TokenAt(h, d, i) = Taken(d, t, AllFronted(h, Width[t - 128], Part(d, i + 3, to)), to)
      BY <1>3, <2>2, <3>1, TokenAtArray
    <3> QED
      BY <3>2, <3>3 DEF Taken
  <2> QED
    BY <2>1, <2>2
<1> QED
  BY <1>1, <1>2, <1>3, TypeIs
------------------------------------------------------------------------------
\* output_one at the end of the packet, at an object, at another token, and where no
\* token is.
LEMMA ShowOneEnd ==
    ASSUME NEW s, NEW h, NEW d \in Data, NEW p \in Nat, p >= Len(d)
    PROVE  ShowOne(s, h, d, p) = Bad
<1>1. NextType(d, p) = 0
  BY LenData DEF NextType, More, Unknown
<1>2. 0 \notin Type
  BY NumberIs, ArrayIs DEF Type, String, Object
<1> QED
  BY <1>1, <1>2, OneType DEF ShowOne, Object

LEMMA ShowOneObject ==
    ASSUME NEW s, NEW h, NEW d \in Data, NEW p \in Nat, p < Len(d), d[p + 1] = Object
    PROVE  ShowOne(s, h, d, p) = IF p + 2 > Len(d) THEN Outside ELSE s[<<p + 2, d[p + 2]>>]
<1>1. NextType(d, p) = Object
  BY DEF NextType, More
<1> QED
  BY <1>1 DEF ShowOne

LEMMA Only ==
    ASSUME NEW r
    PROVE  (CHOOSE x \in {r} : TRUE) = r
OBVIOUS

LEMMA ShowOneToken ==
    ASSUME NEW s, NEW h \in Host, NEW d \in Data, NEW p \in Nat, HasToken(d, p), d[p + 1] # Object
    PROVE  ShowOne(s, h, d, p) = TokenEnd(d, p)
<1>1. p < Len(d) /\ d[p + 1] \in Type
  BY TokenHas
<1>2. NextType(d, p) \in Type \ {Object}
  BY <1>1 DEF NextType, More
<1>3. PICK k : TokenAt(h, d, p) = {[token |-> k, next |-> TokenEnd(d, p)]}
  <2>1. IsTaken(TokenAt(h, d, p), TokenEnd(d, p))
    BY TokenAtIs
  <2> QED
    BY <2>1 DEF IsTaken
<1>4. TokenAt(h, d, p) # {} /\ (CHOOSE x \in TokenAt(h, d, p) : TRUE).next = TokenEnd(d, p)
  <2> DEFINE r == [token |-> k, next |-> TokenEnd(d, p)]
  <2>1. r.next = TokenEnd(d, p)
    OBVIOUS
  <2> HIDE DEF r
  <2>2. (CHOOSE x \in {r} : TRUE) = r
    BY Only
  <2> QED
    BY <1>3, <2>1, <2>2 DEF r
<1> QED
  BY <1>2, <1>4 DEF ShowOne

LEMMA ShowOneNone ==
    ASSUME NEW s, NEW h \in Host, NEW d \in Data, NEW p \in Nat, p < Len(d), ~ HasToken(d, p), d[p + 1] # Object
    PROVE  ShowOne(s, h, d, p) \in {Bad, Outside}
<1>1. NextType(d, p) = d[p + 1]
  BY DEF NextType, More
<1>2. CASE d[p + 1] \in Type
  <2>1. TokenAt(h, d, p) = {}
    BY <1>2, TokenAtNone
  <2> QED
    BY <1>1, <1>2, <2>1 DEF ShowOne
<1>3. CASE d[p + 1] \notin Type
  BY <1>1, <1>3 DEF ShowOne
<1> QED
  BY <1>2, <1>3

\* The positions at k or behind it, or one of the two failures.
ShownFrom(k) == {Bad, Outside} \cup {j \in Nat : j >= k}

ShownIn(s, i, n) == s[<<i, n>>] \in ShownFrom(i + n)

LEMMA ShowOneFrom ==
    ASSUME NEW h \in Host, NEW d \in Data, NEW p \in Nat, NEW s,
           p + 2 <= Len(d) => ShownIn(s, p + 2, d[p + 2])
    PROVE  ShowOne(s, h, d, p) \in ShownFrom(p + 1)
<1>0. Len(d) \in Nat
  BY LenData
<1>1. CASE p >= Len(d)
  BY <1>1, ShowOneEnd DEF ShownFrom
<1>2. CASE p < Len(d) /\ d[p + 1] = Object
  <2>1. CASE p + 2 > Len(d)
    BY <1>2, <2>1, ShowOneObject DEF ShownFrom
  <2>2. CASE ~ (p + 2 > Len(d))
    <3>1. p + 2 <= Len(d) /\ d[p + 2] \in Nat
      BY <1>0, <2>2, ByteAt
    <3>2. ShowOne(s, h, d, p) = s[<<p + 2, d[p + 2]>>]
      BY <1>2, <2>2, ShowOneObject
    <3>3. ShownFrom(p + 2 + d[p + 2]) \subseteq ShownFrom(p + 1)
      BY <3>1 DEF ShownFrom
    <3> QED
      BY <3>1, <3>2, <3>3 DEF ShownIn
  <2> QED
    BY <2>1, <2>2
<1>3. CASE HasToken(d, p) /\ d[p + 1] # Object
  <2>1. ShowOne(s, h, d, p) = TokenEnd(d, p)
    BY <1>3, ShowOneToken
  <2> QED
    BY <1>3, <2>1, TokenHas DEF ShownFrom
<1>4. CASE p < Len(d) /\ ~ HasToken(d, p) /\ d[p + 1] # Object
  BY <1>4, ShowOneNone DEF ShownFrom
<1> QED
  BY <1>0, <1>1, <1>2, <1>3, <1>4

\* They agree on the fields of an object at p.
AgreeAt(s, g, d, p) == p + 2 <= Len(d) => s[<<p + 2, d[p + 2]>>] = g[<<p + 2, d[p + 2]>>]

LEMMA ShowOneAgree ==
    ASSUME NEW h, NEW d \in Data, NEW p \in Nat, NEW s, NEW g, AgreeAt(s, g, d, p)
    PROVE  ShowOne(s, h, d, p) = ShowOne(g, h, d, p)
<1>0. Len(d) \in Nat
  BY LenData
<1>a. p + 2 <= Len(d) => s[<<p + 2, d[p + 2]>>] = g[<<p + 2, d[p + 2]>>]
  BY DEF AgreeAt
<1>1. CASE p >= Len(d)
  BY <1>1, ShowOneEnd
<1>2. CASE p < Len(d) /\ d[p + 1] = Object
  <2>1. CASE p + 2 > Len(d)
    BY <1>2, <2>1, ShowOneObject
  <2>2. CASE ~ (p + 2 > Len(d))
    <3>1. ShowOne(s, h, d, p) = s[<<p + 2, d[p + 2]>>]
      BY <1>2, <2>2, ShowOneObject
    <3>2. ShowOne(g, h, d, p) = g[<<p + 2, d[p + 2]>>]
      BY <1>2, <2>2, ShowOneObject
    <3> QED
      BY <1>0, <1>a, <2>2, <3>1, <3>2
  <2> QED
    BY <2>1, <2>2
<1>3. CASE p < Len(d) /\ d[p + 1] # Object
  <2>1. NextType(d, p) # Object
    BY <1>3 DEF NextType, More
  <2> QED
    BY <2>1 DEF ShowOne
<1> QED
  BY <1>0, <1>1, <1>2, <1>3

------------------------------------------------------------------------------
(* The output of n items. *)

LEMMA ShowItemsIn ==
    ASSUME NEW h \in Host, NEW d \in Data, NEW i \in Nat, NEW n \in Nat, NEW s,
           n # 0 => ShownIn(s, i, n - 1),
           \A p \in Nat : i <= p /\ p + 2 <= Len(d) => ShownIn(s, p + 2, d[p + 2])
    PROVE  ShowItems(s, h, d, i, n) \in ShownFrom(i + n)
<1>1. CASE n = 0
  BY <1>1 DEF ShowItems, ShownFrom
<1>2. CASE n # 0
  <2>1. PICK k \in Nat : k = n - 1 /\ n = k + 1
    BY <1>2
  <2>2. PICK p \in ShownFrom(i + k) : p = s[<<i, k>>]
    BY <1>2, <2>1 DEF ShownIn
  <2>3. ShowItems(s, h, d, i, n) = IF p \in {Bad, Outside} THEN p ELSE ShowOne(s, h, d, p)
    BY <1>2, <2>1, <2>2 DEF ShowItems
  <2>4. CASE p \in {Bad, Outside}
    BY <2>3, <2>4 DEF ShownFrom
  <2>5. CASE p \notin {Bad, Outside}
    <3>1. p \in Nat /\ p >= i + k
      BY <2>2, <2>5 DEF ShownFrom
    <3>2. p >= i
      BY <3>1
    <3>3. p + 2 <= Len(d) => ShownIn(s, p + 2, d[p + 2])
      BY <3>1, <3>2
    <3>4. ShowOne(s, h, d, p) \in ShownFrom(p + 1)
      BY <3>1, <3>3, ShowOneFrom
    <3>5. ShownFrom(p + 1) \subseteq ShownFrom(i + n)
      BY <2>1, <3>1 DEF ShownFrom
    <3> QED
      BY <2>3, <2>5, <3>4, <3>5
  <2> QED
    BY <2>4, <2>5
<1> QED
  BY <1>1, <1>2

ShownAgree(s, g, d, i, n) ==
    /\ n # 0 => ShownIn(s, i, n - 1) /\ s[<<i, n - 1>>] = g[<<i, n - 1>>]
    /\ \A p \in Nat : i <= p /\ p + 2 <= Len(d) => s[<<p + 2, d[p + 2]>>] = g[<<p + 2, d[p + 2]>>]

LEMMA ShowItemsAgree ==
    ASSUME NEW h \in Host, NEW d \in Data, NEW i \in Nat, NEW n \in Nat, NEW s, NEW g, ShownAgree(s, g, d, i, n)
    PROVE  ShowItems(s, h, d, i, n) = ShowItems(g, h, d, i, n)
<1>1. CASE n = 0
  BY <1>1 DEF ShowItems
<1>2. CASE n # 0
  <2>1. PICK k \in Nat : k = n - 1 /\ n = k + 1
    BY <1>2
  <2>2. PICK p \in ShownFrom(i + k) : p = s[<<i, k>>] /\ p = g[<<i, k>>]
    BY <1>2, <2>1 DEF ShownIn, ShownAgree
  <2>3. /\ ShowItems(s, h, d, i, n) = IF p \in {Bad, Outside} THEN p ELSE ShowOne(s, h, d, p)
        /\ ShowItems(g, h, d, i, n) = IF p \in {Bad, Outside} THEN p ELSE ShowOne(g, h, d, p)
    BY <1>2, <2>1, <2>2 DEF ShowItems
  <2>4. CASE p \in {Bad, Outside}
    BY <2>3, <2>4
  <2>5. CASE p \notin {Bad, Outside}
    <3>1. p \in Nat /\ p >= i + k
      BY <2>2, <2>5 DEF ShownFrom
    <3>2. p >= i
      BY <3>1
    <3>3. AgreeAt(s, g, d, p)
      BY <3>1, <3>2 DEF ShownAgree, AgreeAt
    <3>4. ShowOne(s, h, d, p) = ShowOne(g, h, d, p)
      BY <3>1, <3>3, ShowOneAgree
    <3> QED
      BY <2>3, <2>5, <3>4
  <2> QED
    BY <2>4, <2>5
<1> QED
  BY <1>1, <1>2

\* The recursion of output_one is well-founded.
LEMMA ShownIs ==
    ASSUME NEW h \in Host, NEW d \in Data
    PROVE  \A i, n \in Nat : /\ Shown(h, d)[<<i, n>>] = ShowItems(Shown(h, d), h, d, i, n)
                             /\ ShownIn(Shown(h, d), i, n)
<1> DEFINE S == Nat \X Nat
           V == [x \in S |-> ShownFrom(x[1] + x[2])]
           D == [y \in Typed(S, V) \X S |-> ShowItems(y[1], h, d, y[2][1], y[2][2])]
           mu == Pairs(d)
           Eq(g) == [x \in S |-> ShowItems(g, h, d, x[1], x[2])]
<1>a. \A x \in S : \E i, n \in Nat : x[1] = i /\ x[2] = n /\ x = <<i, n>>
  OBVIOUS
<1>b. mu \in [S -> Nat]
  BY PairsIs
<1>c. \A x \in S : V[x] # {}
  BY DEF ShownFrom
<1>h. \A i, n \in Nat : <<i, n>> \in S /\ <<i, n>>[1] = i /\ <<i, n>>[2] = n
  OBVIOUS
<1>d. \A g \in Typed(S, V) : \A i, n \in Nat : ShownIn(g, i, n)
  <2> TAKE g \in Typed(S, V)
  <2> TAKE i, n \in Nat
  <2>1. <<i, n>> \in S
    OBVIOUS
  <2>2. g[<<i, n>>] \in V[<<i, n>>]
    BY <2>1 DEF Typed
  <2> QED
    BY <2>2 DEF ShownIn
<1>e. \A g \in Typed(S, V) : \A x \in S : D[<<g, x>>] = ShowItems(g, h, d, x[1], x[2])
  OBVIOUS
<1>f. ASSUME NEW i \in Nat, NEW p \in Nat, i <= p, p + 2 <= Len(d), NEW n \in Nat
      PROVE  /\ p + 2 \in Nat /\ d[p + 2] \in Nat
             /\ mu[<<p + 2, d[p + 2]>>] < mu[<<i, n>>]
  <2>1. d[p + 2] \in Nat /\ d[p + 2] <= 255
    BY <1>f, ByteAt
  <2> QED
    BY <1>f, <2>1, PairsIs
<1>g. ASSUME NEW i \in Nat, NEW n \in Nat, n # 0
      PROVE  n - 1 \in Nat /\ mu[<<i, n - 1>>] < mu[<<i, n>>]
  <2>1. n - 1 \in Nat /\ (n - 1) + 1 = n
    BY <1>g
  <2> QED
    BY <2>1, PairsIs
<1> HIDE DEF D, mu
<1>1. ASSUME NEW g \in Typed(S, V), NEW x \in S PROVE D[<<g, x>>] \in V[x]
  <2>1. PICK i \in Nat, n \in Nat : x[1] = i /\ x[2] = n /\ x = <<i, n>>
    BY <1>a
  <2>2. n # 0 => ShownIn(g, i, n - 1)
    BY <1>d
  <2>3. \A p \in Nat : i <= p /\ p + 2 <= Len(d) => ShownIn(g, p + 2, d[p + 2])
    BY <1>d, <1>f
  <2>4. ShowItems(g, h, d, i, n) \in ShownFrom(i + n)
    BY <2>2, <2>3, ShowItemsIn
  <2> QED
    BY <1>e, <2>1, <2>4
<1>2. Founded(S, V, mu, D)
  <2> SUFFICES ASSUME NEW g \in Typed(S, V), NEW s \in Typed(S, V), NEW x \in S, Below(mu, g, s, x, S)
               PROVE  D[<<g, x>>] = D[<<s, x>>]
    BY DEF Founded
  <2>1. PICK i \in Nat, n \in Nat : x[1] = i /\ x[2] = n /\ x = <<i, n>>
    BY <1>a
  <2>2. n # 0 => ShownIn(g, i, n - 1)
    BY <1>d
  <2>3. n # 0 => g[<<i, n - 1>>] = s[<<i, n - 1>>]
    BY <1>g, <1>h, <2>1 DEF Below
  <2>4. ASSUME NEW p \in Nat, i <= p, p + 2 <= Len(d) PROVE g[<<p + 2, d[p + 2]>>] = s[<<p + 2, d[p + 2]>>]
    BY <1>f, <1>h, <2>1, <2>4 DEF Below
  <2>5. ShownAgree(g, s, d, i, n)
    BY <2>2, <2>3, <2>4 DEF ShownAgree
  <2>6. ShowItems(g, h, d, i, n) = ShowItems(s, h, d, i, n)
    BY <2>5, ShowItemsAgree
  <2> QED
    BY <1>e, <2>1, <2>6
<1>3. PICK g : Solves(g, S, V, D)
  <2>1. Recursive(S, V, mu, D)
    BY <1>b, <1>c, <1>1, <1>2 DEF Recursive
  <2> HIDE DEF S, V
  <2> QED
    BY <2>1, Recursion
<1>4. g = Eq(g)
  <2>1. g \in Typed(S, V) /\ \A x \in S : g[x] = ShowItems(g, h, d, x[1], x[2])
    BY <1>3, <1>e DEF Solves
  <2>2. g = [x \in S |-> g[x]]
    BY <2>1 DEF Typed
  <2> QED
    BY <2>1, <2>2
<1>5. Shown(h, d) = CHOOSE e : e = Eq(e)
  BY DEF Shown
<1> HIDE DEF Eq
<1>6. Shown(h, d) = Eq(Shown(h, d))
  BY <1>4, <1>5, Zenon
<1> USE DEF Eq
<1> DEFINE E == Shown(h, d)
<1> HIDE DEF E
<1>7. E = [x \in S |-> ShowItems(E, h, d, x[1], x[2])]
  BY <1>6 DEF E
<1>8. \A i, n \in Nat : E[<<i, n>>] = ShowItems(E, h, d, i, n)
  BY <1>7
<1> DEFINE T == {x \in S : ShownIn(E, x[1], x[2])}
<1>9. S \subseteq T
  <2>1. ASSUME NEW x \in S, \A y \in S : mu[y] < mu[x] => y \in T
        PROVE  x \in T
    <3>1. PICK i \in Nat, n \in Nat : x[1] = i /\ x[2] = n /\ x = <<i, n>>
      BY <1>a
    <3>2. ASSUME NEW j \in Nat, NEW k \in Nat, mu[<<j, k>>] < mu[x] PROVE ShownIn(E, j, k)
      <4>1. <<j, k>> \in T
        BY <1>h, <2>1, <3>2
      <4> QED
        BY <4>1
    <3>3. n # 0 => ShownIn(E, i, n - 1)
      BY <1>g, <3>1, <3>2
    <3>4. \A p \in Nat : i <= p /\ p + 2 <= Len(d) => ShownIn(E, p + 2, d[p + 2])
      BY <1>f, <3>1, <3>2
    <3>5. ShowItems(E, h, d, i, n) \in ShownFrom(i + n)
      BY <3>3, <3>4, ShowItemsIn
    <3>6. ShownIn(E, i, n)
      BY <1>8, <3>5 DEF ShownIn
    <3> QED
      BY <3>1, <3>6
  <2> HIDE DEF S, T
  <2> QED
    BY <1>b, <2>1, Induction
<1>10. \A i, n \in Nat : ShownIn(E, i, n)
  <2> TAKE i, n \in Nat
  <2>1. <<i, n>> \in T
    BY <1>h, <1>9
  <2> QED
    BY <2>1
<1> QED
  BY <1>8, <1>10 DEF E

------------------------------------------------------------------------------
(* The output stays inside the packet. *)

\* If whole tokens lie behind i, the output stays inside the packet; it goes on where
\* the items end, and gives up only where it finds less than it was to put out.
Tells(d, i, n, e, m) ==
    Left(d)[<<i, n>>] # Bad =>
        /\ e # Outside
        /\ e = Bad => Left(d)[<<i, n>>] > m
        /\ e # Bad => e \in 0 .. Len(d) /\ Left(d)[<<i, n>>] = Left(d)[<<e, m>>]

ShowsWell(h, d, i, n) == \A m \in Nat : Tells(d, i, n + m, Shown(h, d)[<<i, n>>], m)

\* If whole tokens lie behind i there is one at i, or the end.
LEMMA LeftFits ==
    ASSUME NEW d \in Data, NEW i \in Nat, NEW n \in Nat, Left(d)[<<i, n>>] # Bad
    PROVE  i <= Len(d) /\ (i # Len(d) => HasToken(d, i)) /\ Left(d)[<<i, n>>] \in Nat
<1>0. Len(d) \in Nat
  BY LenData
<1>1. Left(d)[<<i, n>>] \in LeftIn
  BY LeftIs
<1>2. i # Len(d) => HasToken(d, i)
  BY LeftIs
<1>3. i <= Len(d)
  BY <1>0, <1>2, TokenHas
<1> QED
  BY <1>1, <1>2, <1>3 DEF LeftIn

\* One item, and n of them.
LEMMA OneTells ==
    ASSUME NEW h \in Host, NEW d \in Data, NEW p \in Nat, NEW m \in Nat,
           p + 2 <= Len(d) => ShowsWell(h, d, p + 2, d[p + 2])
    PROVE  Tells(d, p, m + 1, ShowOne(Shown(h, d), h, d, p), m)
<1> DEFINE L == Left(d)[<<p, m + 1>>]
           e == ShowOne(Shown(h, d), h, d, p)
<1>0. Len(d) \in Nat /\ m + 1 \in Nat
  BY LenData
<1> SUFFICES ASSUME L # Bad PROVE Tells(d, p, m + 1, e, m)
  BY DEF Tells
<1>1. L \in Nat /\ p <= Len(d) /\ (p # Len(d) => HasToken(d, p))
  BY <1>0, LeftFits
<1>2. CASE p = Len(d)
  <2>1. PICK n \in Nat : n = m + 1
    OBVIOUS
  <2>2. Left(d)[<<p, n>>] = n
    BY <1>2, LeftIs
  <2>3. e = Bad
    BY <1>0, <1>2, ShowOneEnd
  <2> QED
    BY <2>1, <2>2, <2>3 DEF Tells, Bad, Outside
<1>3. CASE p # Len(d) /\ d[p + 1] = Object
  <2>1. p < Len(d) /\ HasToken(d, p)
    BY <1>0, <1>1, <1>3
  <2>2. p + 2 <= Len(d) /\ TokenEnd(d, p) = p + 2 /\ Fields(d, p) = d[p + 2]
    BY <1>0, <1>3, <2>1, ObjectToken
  <2>3. d[p + 2] \in Nat
    BY <2>2, ByteAt
  <2>4. e = Shown(h, d)[<<p + 2, d[p + 2]>>]
    <3>1. ~ (p + 2 > Len(d))
      BY <1>0, <2>2
    <3> QED
      BY <1>3, <2>1, <3>1, ShowOneObject
  <2>5. Owed(m + 1, Fields(d, p)) = d[p + 2] + m
    <3>1. Owed(m + 1, d[p + 2]) = m + d[p + 2]
      BY <2>3, OwedIs
    <3> QED
      BY <2>2, <2>3, <3>1
  <2>6. L = Left(d)[<<p + 2, d[p + 2] + m>>]
    BY <1>0, <2>1, <2>2, <2>5, LeftIs
  <2>7. Tells(d, p + 2, d[p + 2] + m, e, m)
    BY <2>2, <2>3, <2>4 DEF ShowsWell
  <2> HIDE DEF e
  <2> QED
    BY <2>6, <2>7 DEF Tells
<1>4. CASE p # Len(d) /\ d[p + 1] # Object
  <2>1. HasToken(d, p)
    BY <1>1, <1>4
  <2>2. e = TokenEnd(d, p) /\ e \in Nat /\ e <= Len(d)
    BY <1>4, <2>1, ShowOneToken, TokenHas
  <2>3. Fields(d, p) = 0
    BY <1>4 DEF Fields
  <2>4. Owed(m + 1, Fields(d, p)) = m
    BY <2>3, OwedIs
  <2>5. L = Left(d)[<<e, m>>]
    BY <1>0, <2>1, <2>2, <2>4, LeftIs
  <2> HIDE DEF e
  <2> QED
    BY <1>0, <2>2, <2>5 DEF Tells, Bad, Outside
<1> QED
  BY <1>2, <1>3, <1>4

LEMMA NextShowsWell ==
    ASSUME NEW h \in Host, NEW d \in Data, NEW i \in Nat, NEW n \in Nat,
           n # 0 => ShowsWell(h, d, i, n - 1),
           \A p \in Nat : i <= p /\ p + 2 <= Len(d) => ShowsWell(h, d, p + 2, d[p + 2])
    PROVE  ShowsWell(h, d, i, n)
<1>0. Len(d) \in Nat
  BY LenData
<1>e. Shown(h, d)[<<i, n>>] = ShowItems(Shown(h, d), h, d, i, n)
  BY ShownIs
<1>1. CASE n = 0
  <2> SUFFICES ASSUME NEW m \in Nat PROVE Tells(d, i, m, i, m)
    BY <1>1, <1>e DEF ShowsWell, ShowItems
  <2> SUFFICES ASSUME Left(d)[<<i, m>>] # Bad PROVE i \in 0 .. Len(d)
    BY DEF Tells, Bad, Outside
  <2> QED
    BY <1>0, LeftFits
<1>2. CASE n # 0
  <2>1. PICK k \in Nat : k = n - 1 /\ n = k + 1
    BY <1>2
  <2> DEFINE p == Shown(h, d)[<<i, k>>]
  <2>2. p \in ShownFrom(i + k)
    BY ShownIs DEF ShownIn
  <2>3. Shown(h, d)[<<i, n>>] = IF p \in {Bad, Outside} THEN p ELSE ShowOne(Shown(h, d), h, d, p)
    BY <1>2, <1>e, <2>1 DEF ShowItems
  <2> SUFFICES ASSUME NEW m \in Nat PROVE Tells(d, i, n + m, Shown(h, d)[<<i, n>>], m)
    BY DEF ShowsWell
  <2>4. Tells(d, i, n + m, p, m + 1)
    <3>1. ShowsWell(h, d, i, k)
      BY <1>2, <2>1
    <3>2. m + 1 \in Nat /\ k + (m + 1) = n + m
      BY <2>1
    <3>3. Tells(d, i, k + (m + 1), p, m + 1)
      BY <3>1, <3>2, Zenon DEF ShowsWell
    <3> QED
      BY <3>2, <3>3
  <2>5. n + m \in Nat
    OBVIOUS
  <2> HIDE DEF p
  <2> SUFFICES ASSUME Left(d)[<<i, n + m>>] # Bad PROVE Tells(d, i, n + m, Shown(h, d)[<<i, n>>], m)
    BY DEF Tells
  <2>6. Left(d)[<<i, n + m>>] \in Nat
    BY <2>5, LeftFits
  <2>7. CASE p \in {Bad, Outside}
    <3>1. p = Bad /\ Left(d)[<<i, n + m>>] > m + 1
      BY <2>4, <2>7 DEF Tells
    <3>2. Left(d)[<<i, n + m>>] > m
      BY <2>6, <3>1
    <3> QED
      BY <2>3, <2>7, <3>1, <3>2 DEF Tells, Bad, Outside
  <2>8. CASE p \notin {Bad, Outside}
    <3>1. p \in Nat /\ p >= i
      <4>1. p \in Nat /\ p >= i + k
        BY <2>2, <2>8 DEF ShownFrom
      <4> QED
        BY <4>1
    <3>2. p + 2 <= Len(d) => ShowsWell(h, d, p + 2, d[p + 2])
      BY <3>1
    <3>3. Tells(d, p, m + 1, ShowOne(Shown(h, d), h, d, p), m)
      BY <3>1, <3>2, OneTells
    <3>4. Left(d)[<<i, n + m>>] = Left(d)[<<p, m + 1>>]
      BY <2>4, <2>8 DEF Tells
    <3>5. Shown(h, d)[<<i, n>>] = ShowOne(Shown(h, d), h, d, p)
      BY <2>3, <2>8
    <3> QED
      BY <3>3, <3>4, <3>5 DEF Tells
  <2> QED
    BY <2>7, <2>8
<1> QED
  BY <1>1, <1>2

LEMMA AllShowWell ==
    ASSUME NEW h \in Host, NEW d \in Data
    PROVE  \A i, n \in Nat : ShowsWell(h, d, i, n)
<1> DEFINE S == Nat \X Nat
           mu == Pairs(d)
           T == {x \in S : ShowsWell(h, d, x[1], x[2])}
<1>b. mu \in [S -> Nat]
  BY PairsIs
<1>h. \A i, n \in Nat : <<i, n>> \in S /\ <<i, n>>[1] = i /\ <<i, n>>[2] = n
  OBVIOUS
<1>1. ASSUME NEW x \in S, \A y \in S : mu[y] < mu[x] => y \in T
      PROVE  x \in T
  <2>1. PICK i \in Nat, n \in Nat : x[1] = i /\ x[2] = n /\ x = <<i, n>>
    OBVIOUS
  <2>2. ASSUME NEW j \in Nat, NEW k \in Nat, mu[<<j, k>>] < mu[<<i, n>>] PROVE ShowsWell(h, d, j, k)
    <3>1. <<j, k>> \in T
      BY <1>1, <1>h, <2>1, <2>2
    <3> QED
      BY <3>1
  <2>3. n # 0 => ShowsWell(h, d, i, n - 1)
    <3> SUFFICES ASSUME n # 0 PROVE ShowsWell(h, d, i, n - 1)
      OBVIOUS
    <3>1. PICK k \in Nat : k = n - 1 /\ n = k + 1
      OBVIOUS
    <3>2. mu[<<i, k>>] < mu[<<i, n>>]
      BY <3>1, PairsIs
    <3> QED
      BY <2>2, <3>1, <3>2
  <2>4. ASSUME NEW p \in Nat, i <= p, p + 2 <= Len(d) PROVE ShowsWell(h, d, p + 2, d[p + 2])
    <3>1. d[p + 2] \in Nat /\ d[p + 2] <= 255
      BY <2>4, ByteAt
    <3>2. mu[<<p + 2, d[p + 2]>>] < mu[<<i, n>>]
      BY <2>4, <3>1, PairsIs
    <3> QED
      BY <2>2, <3>1, <3>2
  <2>5. ShowsWell(h, d, i, n)
    BY <2>3, <2>4, NextShowsWell
  <2> QED
    BY <2>1, <2>5
<1>2. S \subseteq T
  <2> HIDE DEF S, T, mu
  <2> QED
    BY <1>b, <1>1, Induction
<1> QED
  <2> TAKE i, n \in Nat
  <2>1. <<i, n>> \in T
    BY <1>2, <1>h
  <2> QED
    BY <2>1
------------------------------------------------------------------------------
LEMMA ShownAhead ==
    ASSUME NEW h \in Host, NEW d \in Data, NEW i \in Nat, Shown(h, d)[<<i, 1>>] \notin {Bad, Outside}
    PROVE  Shown(h, d)[<<i, 1>>] \in Nat /\ i < Shown(h, d)[<<i, 1>>]
<1>1. Shown(h, d)[<<i, 1>>] \in ShownFrom(i + 1)
  BY ShownIs DEF ShownIn
<1> QED
  BY <1>1 DEF ShownFrom

\* The loop of the output ends.
LEMMA ShownAllIs ==
    ASSUME NEW h \in Host, NEW d \in Data
    PROVE  \A i \in Nat : ShownAll(h, d)[i] = ShowRest(ShownAll(h, d), h, d, i)
<1> DEFINE S == Nat
           V == [i \in S |-> Int]
           D == [y \in Typed(S, V) \X S |-> ShowRest(y[1], h, d, y[2])]
           mu == Ahead(d)
           Eq(g) == [i \in S |-> ShowRest(g, h, d, i)]
<1>b. mu \in [S -> Nat]
  BY AheadIs
<1>c. \A x \in S : V[x] # {}
  OBVIOUS
<1>d. \A g \in Typed(S, V) : \A i \in S : g[i] \in Int
  BY DEF Typed
<1>e. \A g \in Typed(S, V) : \A x \in S : D[<<g, x>>] = ShowRest(g, h, d, x)
  OBVIOUS
<1> HIDE DEF D, mu
<1>1. ASSUME NEW g \in Typed(S, V), NEW i \in S PROVE D[<<g, i>>] \in V[i]
  <2>1. Shown(h, d)[<<i, 1>>] \notin {Bad, Outside} => g[Shown(h, d)[<<i, 1>>]] \in Int
    BY <1>d, ShownAhead
  <2>2. Bad \in Int /\ Outside \in Int
    BY DEF Bad, Outside
  <2>3. ShowRest(g, h, d, i) \in Int
    BY <2>1, <2>2 DEF ShowRest
  <2> QED
    BY <1>e, <2>3
<1>2. Founded(S, V, mu, D)
  <2> SUFFICES ASSUME NEW g \in Typed(S, V), NEW s \in Typed(S, V), NEW i \in S, Below(mu, g, s, i, S)
               PROVE  D[<<g, i>>] = D[<<s, i>>]
    BY DEF Founded
  <2> DEFINE e == Shown(h, d)[<<i, 1>>]
  <2>1. ASSUME i < Len(d), e \notin {Bad, Outside} PROVE g[e] = s[e]
    <3>1. e \in Nat /\ i < e
      BY <2>1, ShownAhead
    <3>2. mu[e] < mu[i]
      BY <2>1, <3>1, AheadIs DEF mu
    <3> QED
      BY <3>1, <3>2 DEF Below
  <2>2. ShowRest(g, h, d, i) = ShowRest(s, h, d, i)
    BY <2>1 DEF ShowRest, More
  <2> QED
    BY <1>e, <2>2
<1>3. PICK g : Solves(g, S, V, D)
  <2>1. Recursive(S, V, mu, D)
    BY <1>b, <1>c, <1>1, <1>2 DEF Recursive
  <2> HIDE DEF S, V
  <2> QED
    BY <2>1, Recursion
<1>4. g = Eq(g)
  <2>1. g \in Typed(S, V) /\ \A x \in S : g[x] = ShowRest(g, h, d, x)
    BY <1>3, <1>e DEF Solves
  <2>2. g = [x \in S |-> g[x]]
    BY <2>1 DEF Typed
  <2> QED
    BY <2>1, <2>2
<1>5. ShownAll(h, d) = CHOOSE e : e = Eq(e)
  BY DEF ShownAll
<1> HIDE DEF Eq
<1>6. ShownAll(h, d) = Eq(ShownAll(h, d))
  BY <1>4, <1>5, Zenon
<1> QED
  BY <1>6 DEF Eq

\* The output of whole tokens never leaves the packet, and is CORRUPTED only if items
\* are owed at the end.
ShownWell(h, d, i) ==
    Left(d)[<<i, 0>>] # Bad =>
        /\ ShownAll(h, d)[i] # Outside
        /\ ShownAll(h, d)[i] = Bad => Left(d)[<<i, 0>>] # 0

LEMMA ShownAllWell ==
    ASSUME NEW h \in Host, NEW d \in Data
    PROVE  ShownWell(h, d, 0)
<1> DEFINE T == {i \in Nat : ShownWell(h, d, i)}
           mu == Ahead(d)
<1>0. Len(d) \in Nat
  BY LenData
<1>1. ASSUME NEW i \in Nat, \A j \in Nat : mu[j] < mu[i] => j \in T
      PROVE  i \in T
  <2> DEFINE e == Shown(h, d)[<<i, 1>>]
  <2>1. CASE ~ (i < Len(d))
    <3>1. ShownAll(h, d)[i] = i
      BY <2>1, ShownAllIs DEF ShowRest, More
    <3> QED
      BY <3>1 DEF ShownWell, Bad, Outside
  <2>2. CASE i < Len(d)
    <3>0. Left(d)[<<i, 0>>] = Left(d)[<<i, 1>>]
      BY <1>0, <2>2, OneOwed
    <3>1. ShownAll(h, d)[i] = IF e \in {Bad, Outside} THEN e ELSE ShownAll(h, d)[e]
      BY <2>2, ShownAllIs DEF ShowRest, More
    <3>2. Tells(d, i, 1, e, 0)
      <4>1. ShowsWell(h, d, i, 1)
        BY AllShowWell
      <4>2. Tells(d, i, 1 + 0, e, 0)
        BY <4>1 DEF ShowsWell
      <4> QED
        BY <4>2
    <3> SUFFICES ASSUME Left(d)[<<i, 1>>] # Bad PROVE ShownWell(h, d, i)
      BY <3>0 DEF ShownWell
    <3>3. CASE e \in {Bad, Outside}
      <4>1. e = Bad /\ Left(d)[<<i, 1>>] > 0
        BY <3>2, <3>3 DEF Tells
      <4> QED
        BY <3>0, <3>1, <3>3, <4>1 DEF ShownWell, Bad, Outside
    <3>4. CASE e \notin {Bad, Outside}
      <4>1. e \in Nat /\ i < e
        BY <3>4, ShownAhead
      <4>2. mu[e] < mu[i]
        BY <2>2, <4>1, AheadIs
      <4>3. ShownWell(h, d, e)
        BY <1>1, <4>1, <4>2
      <4>4. Left(d)[<<i, 1>>] = Left(d)[<<e, 0>>]
        BY <3>2, <3>4 DEF Tells
      <4>5. ShownAll(h, d)[i] = ShownAll(h, d)[e]
        BY <3>1, <3>4
      <4> HIDE DEF e
      <4> QED
        BY <3>0, <4>3, <4>4, <4>5 DEF ShownWell
    <3> QED
      BY <3>3, <3>4
  <2> QED
    BY <2>1, <2>2
<1>2. Nat \subseteq T
  <2>1. mu \in [Nat -> Nat]
    BY AheadIs
  <2> HIDE DEF T, mu
  <2> QED
    BY <1>1, <2>1, Induction
<1> QED
  <2>1. 0 \in T
    BY <1>2
  <2> QED
    BY <2>1

------------------------------------------------------------------------------
(* The bytes of a token, on every host. *)

\* The bytes v lie in d behind the first i.
Lies(d, i, v) == i + Len(v) <= Len(d) /\ \A k \in 1 .. Len(v) : d[i + k] = v[k]

\* Then they are what a reader cuts out there.
LEMMA LiesPart ==
    ASSUME NEW d \in Data, NEW v \in Data, NEW i \in Nat, NEW j \in Nat, Lies(d, i, v), j = i + Len(v)
    PROVE  Part(d, i, j) = v
<1>0. Len(v) \in Nat /\ Len(d) \in Nat /\ i <= j /\ j <= Len(d) /\ j - i = Len(v)
  BY LenData DEF Lies
<1>p. /\ Part(d, i, j) \in Data /\ Len(Part(d, i, j)) = j - i
      /\ \A k \in 1 .. j - i : Part(d, i, j)[k] = d[i + k]
  BY <1>0, PartIs
<1>1. /\ Part(d, i, j) \in Data /\ Len(Part(d, i, j)) = Len(v)
      /\ \A k \in 1 .. Len(v) : Part(d, i, j)[k] = d[i + k]
  BY <1>0, <1>p
<1>2. \A k \in 1 .. Len(v) : Part(d, i, j)[k] = v[k]
  BY <1>1 DEF Lies
<1> QED
  BY <1>1, <1>2, SameData

LEMMA LiesJoin ==
    ASSUME NEW d \in Data, NEW v \in Data, NEW w \in Data, NEW i \in Nat, Lies(d, i, v \o w)
    PROVE  Lies(d, i, v) /\ Lies(d, i + Len(v), w)
<1>0. Len(v) \in Nat /\ Len(w) \in Nat /\ Len(d) \in Nat
  BY LenData
<1>1. /\ Len(v \o w) = Len(v) + Len(w)
      /\ \A k \in 1 .. Len(v) : (v \o w)[k] = v[k]
      /\ \A k \in 1 .. Len(w) : (v \o w)[Len(v) + k] = w[k]
  BY JoinData
<1>2. i + (Len(v) + Len(w)) <= Len(d) /\ \A k \in 1 .. Len(v) + Len(w) : d[i + k] = (v \o w)[k]
  BY <1>1 DEF Lies
<1>3. \A k \in 1 .. Len(v) : d[i + k] = v[k]
  BY <1>0, <1>1, <1>2
<1>4. ASSUME NEW k \in 1 .. Len(w) PROVE d[(i + Len(v)) + k] = w[k]
  <2>1. Len(v) + k \in 1 .. Len(v) + Len(w) /\ (i + Len(v)) + k = i + (Len(v) + k)
    BY <1>0
  <2>2. d[i + (Len(v) + k)] = (v \o w)[Len(v) + k]
    BY <1>2, <2>1
  <2> QED
    BY <1>1, <2>1, <2>2
<1> QED
  BY <1>0, <1>2, <1>3, <1>4 DEF Lies

LEMMA OneByte ==
    ASSUME NEW o \in Octet
    PROVE  <<o>> \in Data /\ Len(<<o>>) = 1 /\ <<o>>[1] = o
BY DEF Data

\* What the writer puts behind the type, on every host.
Body(token) ==
    CASE token.type = String  -> token.value \o <<0>>
      [] token.type \in Array -> <<Count(token) \div 256, Count(token) % 256>> \o token.value
      [] token.type = Object  -> token.value
      [] OTHER                -> token.value

Sound(token) == Writable(token) /\ ~ Throws(token)

\* What is known of a token that can be written.
LEMMA SoundIs ==
    ASSUME NEW token, Sound(token)
    PROVE  /\ token \in Token /\ token.type \in Type /\ token.value \in Data
           /\ token = [type |-> token.type, value |-> token.value]
           /\ token.type \in Number => Len(token.value) = Width[token.type]
           /\ token.type = String => \A k \in 1 .. Len(token.value) : token.value[k] # 0
           /\ token.type = Object => Len(token.value) = 1 /\ token.value[1] \in Nat /\ token.value[1] <= 255
           /\ FieldsOf(token) \in Nat
<1>1. token \in Token /\ Writable(token)
  BY DEF Sound, Writable
<1>2. token.type \in Type /\ token.value \in Data /\ token = [type |-> token.type, value |-> token.value]
  BY <1>1 DEF Token, Data
<1>3. DOMAIN token.value = 1 .. Len(token.value)
  BY <1>2 DEF Data
<1>4. token.type \in Number => Len(token.value) = Width[token.type]
  BY <1>1 DEF Writable
<1>5. token.type = String => \A k \in 1 .. Len(token.value) : token.value[k] # 0
  BY <1>1, <1>3 DEF Writable
<1>6. token.type = Object => Len(token.value) = 1 /\ token.value[1] \in Nat /\ token.value[1] <= 255
  <2> HAVE token.type = Object
  <2>1. Len(token.value) = 1
    BY <1>1 DEF Writable
  <2> QED
    BY <1>2, <2>1, ByteAt
<1> QED
  BY <1>1, <1>2, <1>4, <1>5, <1>6 DEF FieldsOf

\* The length of an array fits into the 16 bits it has.
LEMMA CountIs ==
    ASSUME NEW token, Sound(token), token.type \in Array
    PROVE  /\ Count(token) \in Nat /\ Count(token) <= 65535
           /\ Len(token.value) = Count(token) * Width[token.type - 128]
           /\ Divides(Width[token.type - 128], Len(token.value))
           /\ Count(token) \div 256 \in Octet /\ Count(token) % 256 \in Octet
           /\ 256 * (Count(token) \div 256) + (Count(token) % 256) = Count(token)
<1>1. PICK w \in {1, 2, 4, 8} : w = Width[token.type - 128]
  BY WidthIs
<1>2. Len(token.value) \in Nat
  BY SoundIs, LenData
<1>3. PICK n \in Nat : n = Len(token.value)
  BY <1>2
<1>4. n % w = 0
  BY <1>1, <1>3 DEF Sound, Writable
<1>5. Count(token) = n \div w
  BY <1>1, <1>3 DEF Count
<1>6. n \div w \in Nat /\ n = (n \div w) * w
  BY <1>4
<1>7. PICK c \in Nat : c = Count(token) /\ n = c * w
  BY <1>5, <1>6
<1>8. c <= 65535
  <2>1. ~ (Count(token) > MaxArray)
    BY DEF Sound, Throws, Thrown
  <2>2. MaxArray \in Nat /\ MaxArray <= 65535
    BY FormatAssumption
  <2> QED
    BY <1>7, <2>1, <2>2
<1>9. c \div 256 \in Octet /\ c % 256 \in Octet /\ 256 * (c \div 256) + (c % 256) = c
  <2>1. c \div 256 \in 0 .. 255 /\ c % 256 \in 0 .. 255 /\ 256 * (c \div 256) + (c % 256) = c
    BY <1>8
  <2> QED
    BY <2>1 DEF Octet
<1>10. Divides(w, n)
  BY <1>7 DEF Divides
<1> QED
  BY <1>1, <1>3, <1>7, <1>8, <1>9, <1>10

LEMMA TwoBytes ==
    ASSUME NEW a \in Octet, NEW b \in Octet
    PROVE  <<a, b>> \in Data /\ Len(<<a, b>>) = 2 /\ <<a, b>>[1] = a /\ <<a, b>>[2] = b
BY DEF Data

LEMMA ZeroByte == <<0>> \in Data /\ Len(<<0>>) = 1 /\ <<0>>[1] = 0
<1>1. 0 \in Octet
  BY DEF Octet
<1> QED
  BY <1>1, OneByte

LEMMA TypeByte ==
    ASSUME NEW t \in Type
    PROVE  t \in Octet
<1>1. t \in 1 .. 145
  BY TypeIs
<1> QED
  BY <1>1 DEF Octet

\* Encode puts the type and the body, in the same way on every host.
LEMMA EncodeIs ==
    ASSUME NEW h \in Host, NEW token, Sound(token)
    PROVE  /\ Encode(h, token) = <<token.type>> \o Body(token)
           /\ Body(token) \in Data /\ Encode(h, token) \in Data
           /\ Len(Encode(h, token)) = 1 + Len(Body(token))
<1>0. token.type \in Type /\ token.value \in Data
  BY SoundIs
<1>t. <<token.type>> \in Data /\ Len(<<token.type>>) = 1
  BY <1>0, TypeByte, OneByte
<1> SUFFICES Encode(h, token) = <<token.type>> \o Body(token) /\ Body(token) \in Data
  BY <1>t, JoinData
<1>1. CASE token.type = String
  <2>1. Encode(h, token) = <<token.type>> \o (token.value \o <<0>>)
    BY <1>1, OneType DEF Encode
  <2>2. Body(token) = token.value \o <<0>>
    BY <1>1, OneType DEF Body
  <2>3. token.value \o <<0>> \in Data
    BY <1>0, ZeroByte, JoinData
  <2> QED
    BY <2>1, <2>2, <2>3
<1>2. CASE token.type \in Array
  <2>0. PICK c, w : c = Count(token) /\ w = Width[token.type - 128]
    OBVIOUS
  <2>1. Encode(h, token) = <<token.type>> \o (Push(h, <<c \div 256, c % 256>>) \o AllPushed(h, w, token.value))
    BY <1>2, <2>0, OneType DEF Encode
  <2>2. Body(token) = <<c \div 256, c % 256>> \o token.value
    BY <1>2, <2>0, OneType DEF Body
  <2>3. <<c \div 256, c % 256>> \in Data /\ Len(<<c \div 256, c % 256>>) = 2
    BY <1>2, <2>0, CountIs, TwoBytes
  <2>4. Push(h, <<c \div 256, c % 256>>) = <<c \div 256, c % 256>>
    BY <2>3, PushIs
  <2>5. w \in {1, 2, 4, 8} /\ Divides(w, Len(token.value))
    <3>1. Width[token.type - 128] \in {1, 2, 4, 8}
      BY <1>2, WidthIs
    <3>2. Divides(Width[token.type - 128], Len(token.value))
      BY <1>2, CountIs
    <3> QED
      BY <2>0, <3>1, <3>2
  <2>6. AllPushed(h, w, token.value) = token.value
    BY <1>0, <2>5, AllIs
  <2>7. <<c \div 256, c % 256>> \o token.value \in Data
    BY <1>0, <2>3, JoinData
  <2> QED
    BY <2>1, <2>2, <2>4, <2>6, <2>7
<1>3. CASE token.type = Object
  <2>1. Encode(h, token) = <<token.type>> \o token.value
    BY <1>3, OneType DEF Encode
  <2>2. Body(token) = token.value
    BY <1>3, OneType DEF Body
  <2> QED
    BY <1>0, <2>1, <2>2
<1>4. CASE token.type \in Number
  <2>1. Encode(h, token) = <<token.type>> \o Push(h, token.value)
    BY <1>4, OneType DEF Encode
  <2>2. Body(token) = token.value
    BY <1>4, OneType DEF Body
  <2>3. Push(h, token.value) = token.value
    <3>1. Len(token.value) \in {1, 2, 4, 8}
      BY <1>4, SoundIs, WidthIs
    <3> QED
      BY <1>0, <3>1, PushIs
  <2> QED
    BY <1>0, <2>1, <2>2, <2>3
<1> QED
  BY <1>0, <1>1, <1>2, <1>3, <1>4, TypeIs

------------------------------------------------------------------------------
(* They are read as that token, on every host. *)

\* At i of d there is the token, and a reader takes it from there.
Holds(r, d, i, token, to) ==
    /\ HasToken(d, i) /\ TokenEnd(d, i) = to /\ Fields(d, i) = FieldsOf(token)
    /\ TokenAt(r, d, i) = {[token |-> token, next |-> to]}

\* A token that can be written, its type and its value.
Made(token, t, v) == Sound(token) /\ t = token.type /\ v = token.value

LEMMA MadeIs ==
    ASSUME NEW token, NEW t, NEW v, Made(token, t, v)
    PROVE  /\ t \in Type /\ v \in Data /\ Len(v) \in Nat
           /\ token = [type |-> t, value |-> v]
           /\ t \in Number => Len(v) = Width[t] /\ Width[t] \in {1, 2, 4, 8}
           /\ t = String => \A k \in 1 .. Len(v) : v[k] # 0
           /\ t = Object => Len(v) = 1 /\ FieldsOf(token) = v[1]
           /\ t # Object => FieldsOf(token) = 0
<1>1. Sound(token) /\ t = token.type /\ v = token.value
  BY DEF Made
<1>2. /\ t \in Type /\ v \in Data /\ token = [type |-> t, value |-> v]
      /\ t \in Number => Len(v) = Width[t]
      /\ t = String => \A k \in 1 .. Len(v) : v[k] # 0
      /\ t = Object => Len(v) = 1
  BY <1>1, SoundIs
<1>3. Len(v) \in Nat
  BY <1>2, LenData
<1>4. t \in Number => Width[t] \in {1, 2, 4, 8}
  BY WidthIs
<1>5. (t = Object => FieldsOf(token) = v[1]) /\ (t # Object => FieldsOf(token) = 0)
  BY <1>1 DEF FieldsOf
<1> QED
  BY <1>2, <1>3, <1>4, <1>5

LEMMA TakenToken ==
    ASSUME NEW d \in Data, NEW token, NEW t, NEW v, Made(token, t, v),
           NEW to \in Nat, to <= Len(d)
    PROVE  Taken(d, t, v, to) = {[token |-> token, next |-> to]}
<1>1. token = [type |-> t, value |-> v]
  BY MadeIs
<1>2. ~ (to > Len(d))
  BY LenData
<1> QED
  BY <1>1, <1>2, Zenon DEF Taken

\* A number, a string, an object and an array that lie in d are there as tokens.
LEMMA HoldsNumber ==
    ASSUME NEW r \in Host, NEW d \in Data, NEW i \in Nat, NEW token, NEW t, NEW v, Made(token, t, v), t \in Number,
           i < Len(d), d[i + 1] = t, NEW p \in Nat, p = i + 1, Lies(d, p, v),
           NEW to \in Nat, to = p + Len(v)
    PROVE  Holds(r, d, i, token, to)
<1>0. v \in Data /\ Len(v) = Width[t] /\ Len(v) \in {1, 2, 4, 8} /\ Len(d) \in Nat
  <2>1. v \in Data /\ Len(v) = Width[t] /\ Width[t] \in {1, 2, 4, 8}
    BY MadeIs
  <2>2. Len(d) \in Nat
    BY LenData
  <2> QED
    BY <2>1, <2>2
<1>1. to <= Len(d)
  BY <1>0 DEF Lies
<1>2. to = i + 1 + Width[d[i + 1]]
  BY <1>0
<1>3. HasToken(d, i) /\ TokenEnd(d, i) = to /\ Fields(d, i) = 0
  BY <1>1, <1>2, NumberToken
<1>4. Part(d, p, to) = v
  BY <1>0, LiesPart
<1>5. TokenAt(r, d, i) = Taken(d, t, FrontOf(r, Part(d, i + 1, i + 1 + Width[t])), i + 1 + Width[t])
  BY TokenAtNumber
<1>6. FrontOf(r, v) = v
  BY <1>0, PushIs
<1>7. TokenAt(r, d, i) = Taken(d, t, v, to)
  BY <1>2, <1>4, <1>5, <1>6
<1>8. TokenAt(r, d, i) = {[token |-> token, next |-> to]}
  BY <1>1, <1>7, TakenToken
<1>9. FieldsOf(token) = 0
  BY OneType, MadeIs
<1> QED
  BY <1>3, <1>8, <1>9 DEF Holds

LEMMA HoldsString ==
    ASSUME NEW r \in Host, NEW d \in Data, NEW i \in Nat, NEW token, NEW t, NEW v, Made(token, t, v), t = String,
           i < Len(d), d[i + 1] = t, NEW p \in Nat, p = i + 1, Lies(d, p, v \o << 0 >>),
           NEW to \in Nat, to = p + Len(v) + 1
    PROVE  Holds(r, d, i, token, to)
<1>0. v \in Data /\ Len(v) \in Nat /\ Len(d) \in Nat /\ \A k \in 1 .. Len(v) : v[k] # 0
  BY MadeIs, LenData
<1>1. PICK q \in Nat : q = p + Len(v)
  BY <1>0
<1>2. Lies(d, p, v) /\ Lies(d, q, <<0>>)
  BY <1>0, <1>1, ZeroByte, LiesJoin
<1>3. q + 1 <= Len(d) /\ d[q + 1] = 0
  BY <1>2, ZeroByte DEF Lies
<1>4. \A k \in p + 1 .. q : d[k] # 0
  <2> SUFFICES ASSUME NEW k \in p + 1 .. q PROVE d[k] # 0
    OBVIOUS
  <2>1. k - p \in 1 .. Len(v) /\ p + (k - p) = k
    BY <1>0, <1>1
  <2>2. d[p + (k - p)] = v[k - p]
    BY <1>2, <2>1 DEF Lies
  <2> QED
    BY <1>0, <2>1, <2>2
<1>5. StringEnd(d, p) = to
  <2> DEFINE e == StringEnd(d, p)
  <2>1. \/ p > Len(d)
        \/ p <= Len(d) /\ (\A k \in p + 1 .. Len(d) : d[k] # 0)
        \/ /\ p <= Len(d) /\ e \in p + 1 .. Len(d) /\ d[e] = 0
           /\ \A k \in p + 1 .. e - 1 : d[k] # 0
    BY StringEndIs
  <2> HIDE DEF e
  <2>2. p <= q /\ q + 1 \in p + 1 .. Len(d)
    BY <1>0, <1>1, <1>3
  <2>3. /\ e \in p + 1 .. Len(d) /\ d[e] = 0
        /\ \A k \in p + 1 .. e - 1 : d[k] # 0
    BY <1>0, <1>3, <2>1, <2>2
  <2>4. e <= q + 1
    BY <1>3, <2>2, <2>3
  <2>5. ~ (e <= q)
    BY <1>4, <2>3
  <2>6. e = q + 1
    BY <1>1, <2>3, <2>4, <2>5
  <2> QED
    BY <1>0, <1>1, <2>6 DEF e
<1>6. to # Bad
  BY DEF Bad
<1>7. HasToken(d, i) /\ TokenEnd(d, i) = to /\ Fields(d, i) = 0
  <2>1. to = StringEnd(d, i + 1)
    BY <1>5
  <2> QED
    BY <1>6, <2>1, StringToken
<1>8. TokenAt(r, d, i) = Taken(d, String, Part(d, i + 1, to - 1), to)
  <2>1. StringEnd(d, i + 1) = to /\ StringEnd(d, i + 1) # Bad
    BY <1>5, <1>6
  <2> QED
    BY <2>1, TokenAtString
<1>9. Part(d, i + 1, to - 1) = v
  <2>1. Part(d, p, q) = v
    BY <1>0, <1>1, <1>2, LiesPart
  <2>2. q = to - 1
    BY <1>0, <1>1
  <2> QED
    BY <2>1, <2>2
<1>10. to <= Len(d)
  BY <1>0, <1>1, <1>3
<1>11. TokenAt(r, d, i) = {[token |-> token, next |-> to]}
  BY <1>8, <1>9, <1>10, TakenToken
<1>12. FieldsOf(token) = 0
  BY OneType, MadeIs
<1> QED
  BY <1>7, <1>11, <1>12 DEF Holds

LEMMA HoldsObject ==
    ASSUME NEW r \in Host, NEW d \in Data, NEW i \in Nat, NEW token, NEW t, NEW v, Made(token, t, v), t = Object,
           i < Len(d), d[i + 1] = t, NEW p \in Nat, p = i + 1, Lies(d, p, v),
           NEW to \in Nat, to = p + Len(v)
    PROVE  Holds(r, d, i, token, to)
<1>0. v \in Data /\ Len(v) = 1 /\ Len(d) \in Nat
  BY MadeIs, LenData
<1>1. to = i + 2 /\ i + 2 <= Len(d) /\ d[i + 2] = v[1]
  BY <1>0 DEF Lies
<1>2. HasToken(d, i) /\ TokenEnd(d, i) = to /\ Fields(d, i) = v[1]
  BY <1>1, ObjectToken
<1>3. Part(d, p, to) = v
  BY <1>0, LiesPart
<1>4. TokenAt(r, d, i) = Taken(d, Object, v, to)
  BY <1>1, <1>3, TokenAtObject
<1>5. TokenAt(r, d, i) = {[token |-> token, next |-> to]}
  BY <1>1, <1>4, TakenToken
<1> QED
  BY <1>2, <1>5, MadeIs DEF Holds

LEMMA HoldsArray ==
    ASSUME NEW r \in Host, NEW d \in Data, NEW i \in Nat, NEW token, NEW t, NEW v, Made(token, t, v), t \in Array,
           i < Len(d), d[i + 1] = t, NEW p \in Nat, p = i + 1,
           Lies(d, p, <<Count(token) \div 256, Count(token) % 256>> \o v),
           NEW to \in Nat, to = p + 2 + Len(v)
    PROVE  Holds(r, d, i, token, to)
<1>0. v \in Data /\ Len(v) \in Nat /\ Len(d) \in Nat
  BY MadeIs, LenData
<1>1. PICK c \in Nat, w \in {1, 2, 4, 8} :
          /\ c = Count(token) /\ w = Width[t - 128] /\ Len(v) = c * w /\ Divides(w, Len(v))
          /\ c \div 256 \in Octet /\ c % 256 \in Octet /\ 256 * (c \div 256) + (c % 256) = c
  <2>1. Width[t - 128] \in {1, 2, 4, 8}
    BY WidthIs
  <2>2. Sound(token) /\ t = token.type /\ v = token.value
    BY DEF Made
  <2> QED
    BY <2>1, <2>2, CountIs
<1>2. PICK s \in Data : /\ s = <<Count(token) \div 256, Count(token) % 256>>
                        /\ Len(s) = 2 /\ s[1] = c \div 256 /\ s[2] = c % 256
  <2>1. PICK m \in Octet, n \in Octet : m = c \div 256 /\ n = c % 256
    BY <1>1
  <2>2. <<m, n>> \in Data /\ Len(<<m, n>>) = 2 /\ <<m, n>>[1] = m /\ <<m, n>>[2] = n
    BY TwoBytes
  <2>3. <<m, n>> = <<Count(token) \div 256, Count(token) % 256>>
    BY <1>1, <2>1
  <2> QED
    BY <2>1, <2>2, <2>3
<1>3. PICK a \in Nat : a = p + 2
  OBVIOUS
<1>4. Lies(d, p, s) /\ Lies(d, a, v)
  <2>1. Lies(d, p, s \o v)
    BY <1>2
  <2>2. Lies(d, p, s) /\ Lies(d, p + Len(s), v)
    BY <1>0, <2>1, LiesJoin
  <2> QED
    BY <1>2, <1>3, <2>2
<1>5. /\ i + 3 <= Len(d) /\ d[p + 1] = c \div 256 /\ d[p + 2] = c % 256
  BY <1>0, <1>2, <1>4 DEF Lies
<1>6. Front16(r, d, p) = c
  <2>1. p + 2 <= Len(d)
    BY <1>5
  <2>2. Front16(r, d, p) = 256 * d[p + 1] + d[p + 2]
    BY <2>1, Front16Is
  <2> QED
    BY <1>1, <1>5, <2>2
<1>7. to = i + 3 + Front16(r, d, i + 1) * Width[t - 128] /\ to = a + Len(v)
  <2>1. i + 3 = a /\ Front16(r, d, i + 1) = c
    BY <1>3, <1>6
  <2>2. to = a + Len(v)
    BY <1>0, <1>3
  <2>3. Len(v) = Front16(r, d, i + 1) * Width[t - 128]
    BY <1>1, <2>1
  <2> QED
    BY <2>1, <2>2, <2>3
<1>8. to <= Len(d)
  BY <1>0, <1>4, <1>7 DEF Lies
<1>9. HasToken(d, i) /\ TokenEnd(d, i) = to /\ Fields(d, i) = 0
  BY <1>5, <1>7, <1>8, ArrayToken
<1>10. Part(d, a, to) = v
  BY <1>0, <1>4, <1>7, LiesPart
<1>11. TokenAt(r, d, i) = Taken(d, t, v, to)
  <2>1. ~ (i + 3 > Len(d))
    BY <1>0, <1>5
  <2>2. TokenAt(r, d, i) = Taken(d, t, AllFronted(r, Width[t - 128], Part(d, i + 3, to)), to)
    BY <1>7, <2>1, TokenAtArray
  <2>3. i + 3 = a
    BY <1>3
  <2>4. AllFronted(r, w, v) = v
    <3>1. v \in Data /\ Divides(w, Len(v))
      BY <1>0, <1>1
    <3> QED
      BY <3>1, AllIs
  <2> QED
    BY <1>1, <1>10, <2>2, <2>3, <2>4
<1>12. TokenAt(r, d, i) = {[token |-> token, next |-> to]}
  BY <1>8, <1>11, TakenToken
<1>13. FieldsOf(token) = 0
  BY OneType, MadeIs
<1> QED
  BY <1>9, <1>12, <1>13 DEF Holds

\* Where the bytes of a token lie, every reader takes that token.
LEMMA TokenLies ==
    ASSUME NEW h \in Host, NEW r \in Host, NEW d \in Data, NEW i \in Nat, NEW token, Sound(token),
           Lies(d, i, Encode(h, token)), NEW to, to = i + Len(Encode(h, token))
    PROVE  Holds(r, d, i, token, to)
<1>t. token.type \in Type /\ token.value \in Data
  BY SoundIs
<1>v. PICK t \in Type, v \in Data : t = token.type /\ v = token.value
  BY <1>t
<1>m. Made(token, t, v)
  BY <1>v DEF Made
<1>0. Len(v) \in Nat /\ Len(d) \in Nat
  BY LenData
<1>1. Body(token) \in Data /\ Len(Body(token)) \in Nat /\ to = i + 1 + Len(Body(token))
  <2>1. Body(token) \in Data /\ Len(Encode(h, token)) = 1 + Len(Body(token))
    BY EncodeIs
  <2>2. Len(Body(token)) \in Nat
    BY <2>1, LenData
  <2> QED
    BY <2>1, <2>2
<1>2. PICK p \in Nat, e \in Nat : p = i + 1 /\ e = p + Len(Body(token)) /\ e = to
  BY <1>1
<1>3. <<t>> \in Data /\ Len(<<t>>) = 1 /\ <<t>>[1] = t
  BY TypeByte, OneByte
<1>4. Lies(d, i, <<t>>) /\ Lies(d, p, Body(token))
  <2>1. Lies(d, i, <<t>> \o Body(token))
    BY <1>v, EncodeIs
  <2> QED
    BY <1>1, <1>2, <1>3, <2>1, LiesJoin
<1>5. i < Len(d) /\ d[i + 1] = t
  BY <1>0, <1>3, <1>4 DEF Lies
<1>6. CASE t = String
  <2>1. Body(token) = v \o <<0>>
    BY <1>v, <1>6, OneType DEF Body
  <2>2. Len(v \o <<0>>) = Len(v) + 1
    BY <1>0, ZeroByte, JoinData
  <2>3. e = p + Len(v) + 1
    BY <1>0, <1>2, <2>1, <2>2
  <2> QED
    BY <1>m, <1>2, <1>4, <1>5, <1>6, <2>1, <2>3, HoldsString
<1>7. CASE t \in Array
  <2> DEFINE s == <<Count(token) \div 256, Count(token) % 256>>
  <2>1. Body(token) = s \o v
    BY <1>v, <1>7, OneType DEF Body
  <2>2. s \in Data /\ Len(s) = 2
    BY <1>v, <1>7, CountIs, TwoBytes
  <2>3. Len(s \o v) = 2 + Len(v)
    BY <1>0, <2>2, JoinData
  <2>4. e = p + 2 + Len(v)
    BY <1>0, <1>2, <2>1, <2>3
  <2> QED
    BY <1>m, <1>2, <1>4, <1>5, <1>7, <2>1, <2>4, HoldsArray
<1>8. CASE t = Object
  <2>1. Body(token) = v
    BY <1>v, <1>8, OneType DEF Body
  <2> QED
    BY <1>m, <1>2, <1>4, <1>5, <1>8, <2>1, HoldsObject
<1>9. CASE t \in Number
  <2>1. Body(token) = v
    BY <1>v, <1>9, OneType DEF Body
  <2> QED
    BY <1>m, <1>2, <1>4, <1>5, <1>9, <2>1, HoldsNumber
<1> QED
  BY <1>6, <1>7, <1>8, <1>9, TypeIs

------------------------------------------------------------------------------
(* The bytes of several tokens. *)

\* Induction on an interval.
LEMMA Upward ==
    ASSUME NEW n \in Nat, NEW T, 0 \in T, \A k \in 1 .. n : k - 1 \in T => k \in T
    PROVE  0 .. n \subseteq T
<1> DEFINE Ok == {k \in Nat : k <= n => k \in T}
<1>1. 0 \in Ok
  OBVIOUS
<1>2. ASSUME NEW k \in Nat, k \in Ok PROVE k + 1 \in Ok
  <2> SUFFICES ASSUME k + 1 <= n PROVE k + 1 \in T
    OBVIOUS
  <2>1. k \in T /\ k + 1 \in 1 .. n /\ (k + 1) - 1 = k
    BY <1>2
  <2> QED
    BY <2>1
<1> HIDE DEF Ok
<1>3. Nat \subseteq Ok
  BY <1>1, <1>2, NatSet
<1> QED
  BY <1>3 DEF Ok

Sounds == {t \in Token : Sound(t)}

LEMMA SoundAt ==
    ASSUME NEW w \in Seq(Sounds), NEW k \in 1 .. Len(w)
    PROVE  w[k] \in Token /\ Sound(w[k])
<1>1. w[k] \in Sounds
  OBVIOUS
<1> QED
  BY <1>1 DEF Sounds

\* The bytes up to each of the tokens w.
Heads(h, w) ==
    LET b[k \in 0 .. Len(w)] == IF k = 0 THEN <<>> ELSE b[k - 1] \o Encode(h, w[k])
    IN  b

LEMMA BytesAre ==
    ASSUME NEW h, NEW w
    PROVE  Bytes(h, w) = Heads(h, w)[Len(w)]
BY Zenon DEF Bytes, Heads

LEMMA NoData == <<>> \in Data /\ Len(<<>>) = 0
BY DEF Data

\* The recursion of Bytes.
LEMMA HeadsAre ==
    ASSUME NEW h \in Host, NEW w \in Seq(Sounds)
    PROVE  /\ \A k \in 0 .. Len(w) : Heads(h, w)[k] \in Data
           /\ Heads(h, w)[0] = <<>>
           /\ \A k \in 1 .. Len(w) : Heads(h, w)[k] = Heads(h, w)[k - 1] \o Encode(h, w[k])
<1> DEFINE N == Len(w)
           Step == [x \in Data \X (1 .. N) |-> x[1] \o Encode(h, w[x[2]])]
           Eq(g) == [k \in 0 .. N |-> IF k = 0 THEN <<>> ELSE g[k - 1] \o Encode(h, w[k])]
<1>0. N \in Nat
  OBVIOUS
<1>1. \A v \in Data, k \in 1 .. N : Step[<<v, k>>] = v \o Encode(h, w[k])
  OBVIOUS
<1>2. \A v \in Data, k \in 1 .. N : v \o Encode(h, w[k]) \in Data
  <2> TAKE v \in Data, k \in 1 .. N
  <2>1. Encode(h, w[k]) \in Data
    BY SoundAt, EncodeIs
  <2> QED
    BY <2>1, JoinData
<1> HIDE DEF Step
<1>3. Stays(N, Data, Step)
  BY <1>1, <1>2 DEF Stays
<1> HIDE DEF N
<1>4. PICK g : Runs(g, N, Data, <<>>, Step)
  BY <1>0, <1>3, NoData, Iteration
<1>5. g = Eq(g)
  <2>1. \A k \in 0 .. N : g[k] = IF k = 0 THEN <<>> ELSE g[k - 1] \o Encode(h, w[k])
    <3> TAKE k \in 0 .. N
    <3>1. CASE k = 0
      BY <1>4, <3>1 DEF Runs
    <3>2. CASE k # 0
      <4>1. g[k - 1] \in Data /\ k \in 1 .. N
        BY <1>0, <1>4, <3>2 DEF Runs
      <4> QED
        BY <1>1, <1>4, <3>2, <4>1 DEF Runs
    <3> QED
      BY <3>1, <3>2
  <2>2. g \in [0 .. N -> Data]
    BY <1>4 DEF Runs
  <2> QED
    BY <2>1, <2>2
<1>6. Heads(h, w) = CHOOSE e : e = Eq(e)
  BY DEF Heads, N
<1> HIDE DEF Eq
<1>7. Heads(h, w) = Eq(Heads(h, w))
  BY <1>5, <1>6, Zenon
<1> DEFINE E == Heads(h, w)
<1> HIDE DEF E
<1>8. E = [k \in 0 .. N |-> IF k = 0 THEN <<>> ELSE E[k - 1] \o Encode(h, w[k])]
  BY <1>7 DEF E, Eq
<1>9. E[0] = <<>> /\ \A k \in 1 .. N : E[k] = E[k - 1] \o Encode(h, w[k])
  <2>1. 0 \in 0 .. N /\ \A k \in 1 .. N : k \in 0 .. N /\ k # 0 /\ k - 1 \in 0 .. N
    BY <1>0
  <2>2. \A k \in 0 .. N : E[k] = IF k = 0 THEN <<>> ELSE E[k - 1] \o Encode(h, w[k])
    BY <1>8, Zenon
  <2> QED
    BY <2>1, <2>2
<1> DEFINE T == {k \in 0 .. N : E[k] \in Data}
<1>10. 0 .. N \subseteq T
  <2>1. 0 \in T
    BY <1>0, <1>9, NoData
  <2>2. ASSUME NEW k \in 1 .. N, k - 1 \in T PROVE k \in T
    <3>1. E[k - 1] \in Data /\ k \in 0 .. N
      BY <1>0, <2>2
    <3>2. E[k] \in Data
      BY <1>2, <1>9, <3>1
    <3> QED
      BY <3>1, <3>2
  <2> HIDE DEF T
  <2> QED
    BY <1>0, <2>1, <2>2, Upward
<1> QED
  BY <1>9, <1>10 DEF E, N

\* What is owed behind each of them.
Owes(n, w) ==
    LET f[k \in 0 .. Len(w)] == IF k = 0 THEN n ELSE Owed(f[k - 1], FieldsOf(w[k]))
    IN  f

LEMMA LeftOfIs ==
    ASSUME NEW n, NEW w
    PROVE  LeftOf(n, w) = Owes(n, w)[Len(w)]
BY Zenon DEF LeftOf, Owes

\* The recursion of LeftOf.
LEMMA OwesAre ==
    ASSUME NEW n \in Nat, NEW w \in Seq(Sounds)
    PROVE  /\ \A k \in 0 .. Len(w) : Owes(n, w)[k] \in Nat
           /\ Owes(n, w)[0] = n
           /\ \A k \in 1 .. Len(w) : Owes(n, w)[k] = Owed(Owes(n, w)[k - 1], FieldsOf(w[k]))
<1> DEFINE N == Len(w)
           Step == [x \in Nat \X (1 .. N) |-> Owed(x[1], FieldsOf(w[x[2]]))]
           Eq(g) == [k \in 0 .. N |-> IF k = 0 THEN n ELSE Owed(g[k - 1], FieldsOf(w[k]))]
<1>0. N \in Nat
  OBVIOUS
<1>1. \A v \in Nat, k \in 1 .. N : Step[<<v, k>>] = Owed(v, FieldsOf(w[k]))
  OBVIOUS
<1>2. \A v \in Nat, k \in 1 .. N : Owed(v, FieldsOf(w[k])) \in Nat
  <2> TAKE v \in Nat, k \in 1 .. N
  <2>1. FieldsOf(w[k]) \in Nat
    BY SoundAt, SoundIs
  <2> QED
    BY <2>1, OwedIs
<1> HIDE DEF Step
<1>3. Stays(N, Nat, Step)
  BY <1>1, <1>2 DEF Stays
<1> HIDE DEF N
<1>4. PICK g : Runs(g, N, Nat, n, Step)
  BY <1>0, <1>3, Iteration
<1>5. g = Eq(g)
  <2>1. \A k \in 0 .. N : g[k] = IF k = 0 THEN n ELSE Owed(g[k - 1], FieldsOf(w[k]))
    <3> TAKE k \in 0 .. N
    <3>1. CASE k = 0
      BY <1>4, <3>1 DEF Runs
    <3>2. CASE k # 0
      <4>1. g[k - 1] \in Nat /\ k \in 1 .. N
        BY <1>0, <1>4, <3>2 DEF Runs
      <4> QED
        BY <1>1, <1>4, <3>2, <4>1 DEF Runs
    <3> QED
      BY <3>1, <3>2
  <2>2. g \in [0 .. N -> Nat]
    BY <1>4 DEF Runs
  <2> QED
    BY <2>1, <2>2
<1>6. Owes(n, w) = CHOOSE e : e = Eq(e)
  BY DEF Owes, N
<1> HIDE DEF Eq
<1>7. Owes(n, w) = Eq(Owes(n, w))
  BY <1>5, <1>6, Zenon
<1> DEFINE E == Owes(n, w)
<1> HIDE DEF E
<1>8. E = [k \in 0 .. N |-> IF k = 0 THEN n ELSE Owed(E[k - 1], FieldsOf(w[k]))]
  BY <1>7 DEF E, Eq
<1>9. E[0] = n /\ \A k \in 1 .. N : E[k] = Owed(E[k - 1], FieldsOf(w[k]))
  <2>1. 0 \in 0 .. N /\ \A k \in 1 .. N : k \in 0 .. N /\ k # 0 /\ k - 1 \in 0 .. N
    BY <1>0
  <2>2. \A k \in 0 .. N : E[k] = IF k = 0 THEN n ELSE Owed(E[k - 1], FieldsOf(w[k]))
    BY <1>8, Zenon
  <2> QED
    BY <2>1, <2>2
<1> DEFINE T == {k \in 0 .. N : E[k] \in Nat}
<1>10. 0 .. N \subseteq T
  <2>1. 0 \in T
    BY <1>0, <1>9
  <2>2. ASSUME NEW k \in 1 .. N, k - 1 \in T PROVE k \in T
    <3>1. E[k - 1] \in Nat /\ k \in 0 .. N
      BY <1>0, <2>2
    <3>2. E[k] \in Nat
      BY <1>2, <1>9, <3>1
    <3> QED
      BY <3>1, <3>2
  <2> HIDE DEF T
  <2> QED
    BY <1>0, <2>1, <2>2, Upward
<1> QED
  BY <1>9, <1>10 DEF E, N

------------------------------------------------------------------------------
(* They are read one behind the other. *)

\* Bytes that are appended leave what lies there.
LEMMA LiesFurther ==
    ASSUME NEW d \in Data, NEW e \in Data, NEW v \in Data, NEW i \in Nat, Lies(d, i, v)
    PROVE  Lies(d \o e, i, v)
<1>0. Len(v) \in Nat /\ Len(d) \in Nat /\ Len(e) \in Nat
  BY LenData
<1>1. Len(d \o e) = Len(d) + Len(e) /\ \A k \in 1 .. Len(d) : (d \o e)[k] = d[k]
  BY JoinData
<1>2. i + Len(v) <= Len(d) /\ \A k \in 1 .. Len(v) : d[i + k] = v[k]
  BY DEF Lies
<1>3. ASSUME NEW k \in 1 .. Len(v) PROVE (d \o e)[i + k] = v[k]
  <2>1. i + k \in 1 .. Len(d)
    BY <1>0, <1>2
  <2> QED
    BY <1>1, <1>2, <2>1
<1>4. i + Len(v) <= Len(d \o e)
  BY <1>0, <1>1, <1>2
<1> QED
  BY <1>3, <1>4 DEF Lies

LEMMA LiesBehind ==
    ASSUME NEW d \in Data, NEW v \in Data
    PROVE  Lies(d \o v, Len(d), v)
<1>0. Len(v) \in Nat /\ Len(d) \in Nat
  BY LenData
<1>1. Len(d \o v) = Len(d) + Len(v) /\ \A k \in 1 .. Len(v) : (d \o v)[Len(d) + k] = v[k]
  BY JoinData
<1> QED
  BY <1>0, <1>1 DEF Lies

\* In the bytes of w, those of the k-th token lie behind the first k - 1.
LEMMA HeadLies ==
    ASSUME NEW h \in Host, NEW w \in Seq(Sounds), NEW k \in 1 .. Len(w)
    PROVE  /\ Len(Heads(h, w)[k]) \in Nat /\ Len(Heads(h, w)[k - 1]) \in Nat
           /\ Bytes(h, w) \in Data
           /\ Lies(Bytes(h, w), Len(Heads(h, w)[k - 1]), Encode(h, w[k]))
           /\ Len(Heads(h, w)[k]) = Len(Heads(h, w)[k - 1]) + Len(Encode(h, w[k]))
<1> DEFINE N == Len(w)
           H == Heads(h, w)
<1>0. N \in Nat /\ k - 1 \in 0 .. N /\ k \in 0 .. N
  OBVIOUS
<1>1. \A j \in 0 .. N : H[j] \in Data
  BY HeadsAre
<1>2. \A j \in 1 .. N : H[j] = H[j - 1] \o Encode(h, w[j]) /\ Encode(h, w[j]) \in Data
  <2> TAKE j \in 1 .. N
  <2>1. Encode(h, w[j]) \in Data
    BY SoundAt, EncodeIs
  <2> QED
    BY <2>1, HeadsAre
<1>b. Bytes(h, w) = H[N]
  BY BytesAre
<1> HIDE DEF H, N
<1>3. PICK v \in Data, i \in Nat : v = Encode(h, w[k]) /\ i = Len(H[k - 1])
  <2>1. H[k - 1] \in Data /\ Encode(h, w[k]) \in Data
    BY <1>0, <1>1, <1>2 DEF N
  <2> QED
    BY <2>1, LenData
<1> DEFINE T == {m \in 0 .. N : k <= m => Lies(H[m], i, v)}
<1>4. 0 .. N \subseteq T
  <2>1. 0 \in T
    BY <1>0
  <2>2. ASSUME NEW m \in 1 .. N, m - 1 \in T PROVE m \in T
    <3>1. H[m - 1] \in Data /\ Encode(h, w[m]) \in Data /\ H[m] = H[m - 1] \o Encode(h, w[m]) /\ m \in 0 .. N
      <4>1. m - 1 \in 0 .. N /\ m \in 0 .. N
        BY <1>0
      <4> QED
        BY <1>1, <1>2, <4>1
    <3>2. CASE m = k
      <4>1. Lies(H[m - 1] \o v, Len(H[m - 1]), v)
        BY <3>1, LiesBehind
      <4> QED
        BY <1>3, <3>1, <3>2, <4>1
    <3>3. CASE k < m
      <4>1. Lies(H[m - 1], i, v)
        BY <1>0, <2>2, <3>3
      <4>2. Lies(H[m - 1] \o Encode(h, w[m]), i, v)
        BY <3>1, <4>1, LiesFurther
      <4> QED
        BY <3>1, <4>2
    <3> QED
      BY <1>0, <3>1, <3>2, <3>3
  <2> HIDE DEF T
  <2> QED
    BY <1>0, <2>1, <2>2, Upward
<1>5. Lies(H[N], i, v)
  <2>1. N \in T /\ k <= N
    BY <1>0, <1>4
  <2> QED
    BY <2>1
<1>6. H[N] \in Data
  BY <1>0, <1>1
<1>7. Len(H[k]) = i + Len(v) /\ Len(v) \in Nat
  <2>1. H[k] = H[k - 1] \o v /\ H[k - 1] \in Data
    BY <1>0, <1>1, <1>2, <1>3 DEF N
  <2> QED
    BY <1>3, <2>1, JoinData, LenData
<1>8. Len(H[k]) \in Nat /\ Bytes(h, w) \in Data /\ Lies(Bytes(h, w), Len(H[k - 1]), Encode(h, w[k]))
  <2>1. Len(H[k]) \in Nat
    BY <1>7
  <2>2. Bytes(h, w) \in Data
    BY <1>6, <1>b
  <2>3. Lies(H[N], Len(H[k - 1]), Encode(h, w[k]))
    BY <1>3, <1>5
  <2> QED
    BY <2>1, <2>2, <2>3, <1>b
<1>9. Len(H[k - 1]) \in Nat /\ Len(H[k]) = Len(H[k - 1]) + Len(Encode(h, w[k]))
  BY <1>3, <1>7
<1> QED
  BY <1>8, <1>9 DEF H

\* In the bytes of w every reader finds them, one behind the other.
LEMMA HeadHolds ==
    ASSUME NEW h \in Host, NEW r \in Host, NEW w \in Seq(Sounds), NEW k \in 1 .. Len(w)
    PROVE  Holds(r, Bytes(h, w), Len(Heads(h, w)[k - 1]), w[k], Len(Heads(h, w)[k]))
<1>1. PICK d \in Data, i \in Nat, token \in {w[k]} :
          d = Bytes(h, w) /\ i = Len(Heads(h, w)[k - 1]) /\ token = w[k]
  BY HeadLies
<1>2. Sound(token) /\ Lies(d, i, Encode(h, token))
  BY <1>1, SoundAt, HeadLies
<1>3. Len(Heads(h, w)[k]) = i + Len(Encode(h, token))
  BY <1>1, HeadLies
<1>4. Holds(r, d, i, token, Len(Heads(h, w)[k]))
  BY <1>2, <1>3, TokenLies
<1> QED
  BY <1>1, <1>4

LEMMA BytesData ==
    ASSUME NEW h \in Host, NEW w \in Seq(Sounds)
    PROVE  Bytes(h, w) \in Data /\ Len(Bytes(h, w)) \in Nat
<1>1. Bytes(h, w) = Heads(h, w)[Len(w)] /\ Len(w) \in 0 .. Len(w)
  BY BytesAre
<1>2. Bytes(h, w) \in Data
  BY <1>1, HeadsAre
<1> QED
  BY <1>2, LenData

\* Only behind the last of them a reader is at the end.
LEMMA HeadEnds ==
    ASSUME NEW h \in Host, NEW w \in Seq(Sounds), NEW k \in 0 .. Len(w)
    PROVE  Len(Heads(h, w)[k]) \in 0 .. Len(Bytes(h, w)) /\ (Len(Heads(h, w)[k]) = Len(Bytes(h, w)) <=> k = Len(w))
<1>0. Len(Bytes(h, w)) \in Nat /\ Bytes(h, w) = Heads(h, w)[Len(w)]
  BY BytesData, BytesAre
<1>1. CASE k = Len(w)
  BY <1>0, <1>1
<1>2. CASE k # Len(w)
  <2>1. PICK j \in 1 .. Len(w) : j - 1 = k
    <3>1. k + 1 \in 1 .. Len(w) /\ (k + 1) - 1 = k
      BY <1>2
    <3> QED
      BY <3>1
  <2>2. PICK d \in Data, i \in Nat, token \in {w[j]} : d = Bytes(h, w) /\ i = Len(Heads(h, w)[k]) /\ token = w[j]
    BY <2>1, HeadLies
  <2>3. Lies(d, i, Encode(h, token)) /\ Sound(token)
    BY <2>1, <2>2, HeadLies, SoundAt
  <2>4. Len(Encode(h, token)) \in Nat /\ Len(Encode(h, token)) >= 1
    <3>1. Body(token) \in Data /\ Len(Encode(h, token)) = 1 + Len(Body(token))
      BY <2>3, EncodeIs
    <3> QED
      BY <3>1, LenData
  <2>5. i < Len(d)
    <3>1. Len(d) \in Nat
      BY LenData
    <3> QED
      BY <2>3, <2>4, <3>1 DEF Lies
  <2> QED
    BY <1>0, <1>2, <2>2, <2>5
<1> QED
  BY <1>1, <1>2

\* What is owed at the end of the bytes of w is what is owed behind w.
LEMMA LeftWritten ==
    ASSUME NEW h \in Host, NEW w \in Seq(Sounds), NEW n \in Nat, NEW zero, zero = 0
    PROVE  Left(Bytes(h, w))[<<zero, n>>] = LeftOf(n, w)
<1> DEFINE N == Len(w)
           d == Bytes(h, w)
           pos(k) == Len(Heads(h, w)[k])
           owes(k) == Owes(n, w)[k]
           T == {k \in 0 .. N : Left(d)[<<zero, n>>] = Left(d)[<<pos(k), owes(k)>>]}
<1>0. N \in Nat /\ d \in Data /\ Len(d) \in Nat
  BY BytesData
<1>1. 0 .. N \subseteq T
  <2>1. 0 \in T
    <3>1. pos(0) = 0 /\ owes(0) = n
      BY HeadsAre, OwesAre, NoData
    <3> QED
      BY <1>0, <3>1
  <2>2. ASSUME NEW k \in 1 .. N, k - 1 \in T PROVE k \in T
    <3>1. PICK i \in Nat, j \in Nat, m \in Nat, e \in Data :
              i = pos(k - 1) /\ j = pos(k) /\ m = owes(k - 1) /\ e = d
      <4>1. pos(k - 1) \in Nat /\ pos(k) \in Nat
        BY HeadLies
      <4>2. owes(k - 1) \in Nat
        <5>1. k - 1 \in 0 .. N
          BY <1>0
        <5> QED
          BY <5>1, OwesAre
      <4> QED
        BY <1>0, <4>1, <4>2
    <3>2. Holds(h, e, i, w[k], j)
      BY <3>1, HeadHolds
    <3>3. HasToken(e, i) /\ TokenEnd(e, i) = j /\ Fields(e, i) = FieldsOf(w[k])
      BY <3>2 DEF Holds
    <3>4. Left(e)[<<i, m>>] = Left(e)[<<TokenEnd(e, i), Owed(m, Fields(e, i))>>]
      BY <3>3, LeftIs
    <3>5. owes(k) = Owed(m, FieldsOf(w[k]))
      BY <3>1, OwesAre
    <3>6. Left(d)[<<zero, n>>] = Left(d)[<<i, m>>]
      BY <2>2, <3>1
    <3>7. Left(d)[<<zero, n>>] = Left(d)[<<pos(k), owes(k)>>]
      BY <3>1, <3>3, <3>4, <3>5, <3>6
    <3>8. k \in 0 .. N
      BY <1>0
    <3> QED
      BY <3>7, <3>8
  <2> HIDE DEF T
  <2> QED
    BY <1>0, <2>1, <2>2, Upward
<1>2. Left(d)[<<zero, n>>] = Left(d)[<<pos(N), owes(N)>>]
  <2>0. N \in 0 .. N
    BY <1>0
  <2> HIDE DEF T
  <2>1. N \in T
    BY <1>1, <2>0
  <2> USE DEF T
  <2> QED
    BY <2>1
<1>3. pos(N) = Len(d) /\ owes(N) = LeftOf(n, w)
  BY BytesAre, LeftOfIs
<1>4. owes(N) \in Nat
  BY <1>0, OwesAre
<1>5. PICK i \in Nat, m \in Nat, e \in Data : i = Len(d) /\ m = LeftOf(n, w) /\ e = d
  BY <1>0, <1>3, <1>4
<1>6. Left(e)[<<i, m>>] = m
  BY <1>5, LeftIs
<1> QED
  BY <1>2, <1>3, <1>5, <1>6

------------------------------------------------------------------------------
(* Writing behind what was written. *)

LEMMA JoinSounds ==
    ASSUME NEW w \in Seq(Sounds), NEW v \in Seq(Sounds)
    PROVE  /\ w \o v \in Seq(Sounds) /\ Len(w \o v) = Len(w) + Len(v)
           /\ \A k \in 1 .. Len(w) : (w \o v)[k] = w[k]
           /\ \A k \in 1 .. Len(v) : (w \o v)[Len(w) + k] = v[k]
OBVIOUS

LEMMA DataJoins ==
    ASSUME NEW a \in Data, NEW b \in Data, NEW c \in Data
    PROVE  (a \o b) \o c = a \o (b \o c) /\ a \o <<>> = a
BY DEF Data

\* Writing v behind w appends the bytes of v.
LEMMA BytesJoin ==
    ASSUME NEW h \in Host, NEW w \in Seq(Sounds), NEW v \in Seq(Sounds)
    PROVE  Bytes(h, w \o v) = Bytes(h, w) \o Bytes(h, v)
<1> DEFINE N == Len(w)
           M == Len(v)
           A == Heads(h, w)
           B == Heads(h, v)
           C == Heads(h, w \o v)
<1>0. N \in Nat /\ M \in Nat
  OBVIOUS
<1>1. /\ w \o v \in Seq(Sounds) /\ Len(w \o v) = N + M
      /\ \A k \in 1 .. N : (w \o v)[k] = w[k]
      /\ \A k \in 1 .. M : (w \o v)[N + k] = v[k]
  BY JoinSounds
<1>2. A[0] = <<>> /\ (\A k \in 0 .. N : A[k] \in Data) /\ \A k \in 1 .. N : A[k] = A[k - 1] \o Encode(h, w[k])
  BY HeadsAre
<1>3. B[0] = <<>> /\ (\A k \in 0 .. M : B[k] \in Data) /\ \A k \in 1 .. M : B[k] = B[k - 1] \o Encode(h, v[k])
  BY HeadsAre
<1>4. C[0] = <<>> /\ \A k \in 1 .. N + M : C[k] = C[k - 1] \o Encode(h, (w \o v)[k])
  BY <1>1, HeadsAre
<1>5. Bytes(h, w) = A[N] /\ Bytes(h, v) = B[M] /\ Bytes(h, w \o v) = C[N + M]
  BY <1>1, BytesAre
<1>6. \A k \in 1 .. M : Encode(h, v[k]) \in Data
  BY SoundAt, EncodeIs
<1> HIDE DEF A, B, C, N, M
<1> DEFINE S == {k \in 0 .. N : C[k] = A[k]}
<1>7. 0 .. N \subseteq S
  <2>1. 0 \in S
    BY <1>0, <1>2, <1>4
  <2>2. ASSUME NEW k \in 1 .. N, k - 1 \in S PROVE k \in S
    <3>1. k \in 1 .. N + M /\ k \in 0 .. N
      BY <1>0
    <3>2. C[k] = C[k - 1] \o Encode(h, w[k])
      BY <1>1, <1>4, <3>1
    <3> QED
      BY <1>2, <2>2, <3>1, <3>2
  <2> HIDE DEF S
  <2> QED
    BY <1>0, <2>1, <2>2, Upward
<1>8. C[N] = A[N] /\ A[N] \in Data
  <2>1. N \in 0 .. N
    BY <1>0
  <2> QED
    BY <1>2, <1>7, <2>1
<1> DEFINE T == {k \in 0 .. M : C[N + k] = A[N] \o B[k]}
<1>9. 0 .. M \subseteq T
  <2>1. 0 \in T
    <3>1. N + 0 = N /\ 0 \in 0 .. M
      BY <1>0
    <3>2. A[N] \o <<>> = A[N]
      BY <1>8, DataJoins
    <3> QED
      BY <1>3, <1>8, <3>1, <3>2
  <2>2. ASSUME NEW k \in 1 .. M, k - 1 \in T PROVE k \in T
    <3>1. N + k \in 1 .. N + M /\ k \in 0 .. M /\ k - 1 \in 0 .. M /\ (N + k) - 1 = N + (k - 1)
      BY <1>0
    <3>2. C[N + k] = C[N + (k - 1)] \o Encode(h, v[k])
      BY <1>1, <1>4, <3>1
    <3>3. C[N + (k - 1)] = A[N] \o B[k - 1] /\ B[k - 1] \in Data
      BY <1>3, <2>2, <3>1
    <3>4. (A[N] \o B[k - 1]) \o Encode(h, v[k]) = A[N] \o (B[k - 1] \o Encode(h, v[k]))
      <4>1. Encode(h, v[k]) \in Data
        BY <1>6
      <4> QED
        BY <1>8, <3>3, <4>1, DataJoins
    <3>5. B[k] = B[k - 1] \o Encode(h, v[k])
      BY <1>3
    <3> QED
      BY <3>1, <3>2, <3>3, <3>4, <3>5
  <2> HIDE DEF T
  <2> QED
    BY <1>0, <2>1, <2>2, Upward
<1>10. C[N + M] = A[N] \o B[M]
  <2>1. M \in 0 .. M
    BY <1>0
  <2> QED
    BY <1>9, <2>1
<1> QED
  BY <1>5, <1>10

\* The head of w up to k is what the first k tokens are written to.
LEMMA HeadsPrefix ==
    ASSUME NEW h \in Host, NEW w \in Seq(Sounds), NEW k \in 0 .. Len(w)
    PROVE  Bytes(h, SubSeq(w, 1, k)) = Heads(h, w)[k]
<1> DEFINE v == SubSeq(w, 1, k)
           A == Heads(h, v)
           C == Heads(h, w)
<1>0. k \in Nat /\ Len(w) \in Nat /\ k <= Len(w)
  OBVIOUS
<1>1. v \in Seq(Sounds) /\ Len(v) = k /\ \A j \in 1 .. k : v[j] = w[j]
  BY <1>0
<1> HIDE DEF v
<1>2. A[0] = <<>> /\ \A j \in 1 .. k : A[j] = A[j - 1] \o Encode(h, v[j])
  BY <1>1, HeadsAre
<1>3. C[0] = <<>> /\ \A j \in 1 .. Len(w) : C[j] = C[j - 1] \o Encode(h, w[j])
  BY HeadsAre
<1>4. Bytes(h, v) = A[k]
  BY <1>1, BytesAre
<1> HIDE DEF A, C
<1> DEFINE S == {j \in 0 .. k : A[j] = C[j]}
<1>5. 0 .. k \subseteq S
  <2>1. 0 \in S
    BY <1>0, <1>2, <1>3
  <2>2. ASSUME NEW j \in 1 .. k, j - 1 \in S PROVE j \in S
    <3>1. j \in 1 .. Len(w) /\ j \in 0 .. k
      BY <1>0
    <3> QED
      BY <1>1, <1>2, <1>3, <2>2, <3>1
  <2> HIDE DEF S
  <2> QED
    BY <1>0, <2>1, <2>2, Upward
<1>6. A[k] = C[k]
  <2>1. k \in 0 .. k
    BY <1>0
  <2> QED
    BY <1>5, <2>1
<1> QED
  BY <1>4, <1>6 DEF v, C

LEMMA LeftOfIn ==
    ASSUME NEW w \in Seq(Sounds), NEW n \in Nat
    PROVE  LeftOf(n, w) \in Nat
<1>1. Len(w) \in 0 .. Len(w)
  OBVIOUS
<1> QED
  BY <1>1, LeftOfIs, OwesAre

\* What is owed behind w is owed in front of v.
LEMMA LeftOfJoin ==
    ASSUME NEW w \in Seq(Sounds), NEW v \in Seq(Sounds), NEW n \in Nat, NEW m \in Nat, m = LeftOf(n, w)
    PROVE  LeftOf(n, w \o v) = LeftOf(m, v)
<1> DEFINE N == Len(w)
           M == Len(v)
           A == Owes(n, w)
           B == Owes(m, v)
           C == Owes(n, w \o v)
<1>0. N \in Nat /\ M \in Nat
  OBVIOUS
<1>1. /\ w \o v \in Seq(Sounds) /\ Len(w \o v) = N + M
      /\ \A k \in 1 .. N : (w \o v)[k] = w[k]
      /\ \A k \in 1 .. M : (w \o v)[N + k] = v[k]
  BY JoinSounds
<1>2. A[0] = n /\ \A k \in 1 .. N : A[k] = Owed(A[k - 1], FieldsOf(w[k]))
  BY OwesAre
<1>3. B[0] = m /\ \A k \in 1 .. M : B[k] = Owed(B[k - 1], FieldsOf(v[k]))
  BY OwesAre
<1>4. C[0] = n /\ \A k \in 1 .. N + M : C[k] = Owed(C[k - 1], FieldsOf((w \o v)[k]))
  <2>1. PICK u \in Seq(Sounds) : u = w \o v /\ Len(u) = N + M
    BY <1>1
  <2>2. Owes(n, u)[0] = n /\ \A k \in 1 .. Len(u) : Owes(n, u)[k] = Owed(Owes(n, u)[k - 1], FieldsOf(u[k]))
    BY OwesAre
  <2> QED
    BY <2>1, <2>2
<1>5. LeftOf(n, w) = A[N] /\ LeftOf(m, v) = B[M] /\ LeftOf(n, w \o v) = C[N + M]
  BY <1>1, LeftOfIs
<1> HIDE DEF A, B, C, N, M
<1> DEFINE S == {k \in 0 .. N : C[k] = A[k]}
<1>6. 0 .. N \subseteq S
  <2>1. 0 \in S
    BY <1>0, <1>2, <1>4
  <2>2. ASSUME NEW k \in 1 .. N, k - 1 \in S PROVE k \in S
    <3>1. k \in 1 .. N + M /\ k \in 0 .. N
      BY <1>0
    <3>2. C[k] = Owed(C[k - 1], FieldsOf(w[k]))
      BY <1>1, <1>4, <3>1
    <3> QED
      BY <1>2, <2>2, <3>1, <3>2
  <2> HIDE DEF S
  <2> QED
    BY <1>0, <2>1, <2>2, Upward
<1>7. C[N] = m
  <2>1. N \in 0 .. N
    BY <1>0
  <2> QED
    BY <1>5, <1>6, <2>1
<1> DEFINE T == {k \in 0 .. M : C[N + k] = B[k]}
<1>8. 0 .. M \subseteq T
  <2>1. 0 \in T
    <3>1. N + 0 = N /\ 0 \in 0 .. M
      BY <1>0
    <3> QED
      BY <1>3, <1>7, <3>1
  <2>2. ASSUME NEW k \in 1 .. M, k - 1 \in T PROVE k \in T
    <3>1. N + k \in 1 .. N + M /\ k \in 0 .. M /\ (N + k) - 1 = N + (k - 1)
      BY <1>0
    <3>2. C[N + k] = Owed(C[N + (k - 1)], FieldsOf(v[k]))
      BY <1>1, <1>4, <3>1
    <3>3. B[k] = Owed(B[k - 1], FieldsOf(v[k]))
      BY <1>3
    <3> QED
      BY <2>2, <3>1, <3>2, <3>3
  <2> HIDE DEF T
  <2> QED
    BY <1>0, <2>1, <2>2, Upward
<1>9. C[N + M] = B[M]
  <2>1. M \in 0 .. M
    BY <1>0
  <2> QED
    BY <1>8, <2>1
<1> QED
  BY <1>5, <1>9

------------------------------------------------------------------------------
(* The inductive invariant. *)

\* The exceptions a call can end with, or none.
Exceptions ==
    {<<>>, <<"WrongArray">>, <<"EmptyObject">>, <<"WrongSizedObject">>, <<"Unknown">>, <<"CORRUPTED">>}
        \cup ({"Expected"} \X Type)

\* Whole tokens lie behind i.
Reads(d, i) == \E n \in Nat : Left(d)[<<i, n>>] # Bad

\* The tokens g are the first ones of w, and i lies behind them.
Follows(h, w, i, g) == \E k \in 0 .. Len(w) : g = SubSeq(w, 1, k) /\ i = Len(Heads(h, w)[k])

\* The inductive invariant.
IInv ==
    /\ PacketTypeOK
    /\ written \in Seq(Sounds)
    /\ own => /\ m_data = Bytes(host.writer, written)
              /\ Follows(host.writer, written, m_idx, got)
              /\ ~ spoilt => LeftOf(0, written) = 0 /\ phase # "dropped"
    /\ phase = "write" => own
    /\ phase # "read" => m_idx = 0 /\ got = <<>>
    /\ phase = "read" => WellFormed(m_data) /\ Reads(m_data, m_idx)
    /\ phase = "dropped" => ~ WellFormed(m_data)
    /\ ReaderInside

\* The first token of an item that throws.
LEMMA SelectIs ==
    ASSUME NEW item \in Seq(Token), NEW fails, fails = SelectInSeq(item, Throws)
    PROVE  /\ fails \in 0 .. Len(item)
           /\ fails = 0 => \A k \in 1 .. Len(item) : ~ Throws(item[k])
           /\ fails # 0 => Throws(item[fails]) /\ \A k \in 1 .. fails - 1 : ~ Throws(item[k])
<1> DEFINE I == {k \in 1 .. Len(item) : Throws(item[k])}
<1>0. Len(item) \in Nat
  OBVIOUS
<1>1. fails = IF I # {} THEN Min(I) ELSE 0
  BY DEF SelectInSeq
<1>2. CASE I = {}
  BY <1>0, <1>1, <1>2
<1>3. CASE I # {}
  <2>1. fails = Min(I) /\ I \subseteq Nat
    BY <1>0, <1>1, <1>3
  <2> HIDE DEF I
  <2>2. fails \in I /\ \A k \in I : fails <= k
    BY <1>3, <2>1, MinOf
  <2> USE DEF I
  <2>3. fails \in 1 .. Len(item) /\ Throws(item[fails])
    BY <2>2
  <2>4. ASSUME NEW k \in 1 .. fails - 1 PROVE ~ Throws(item[k])
    <3>1. k \in 1 .. Len(item) /\ ~ (fails <= k)
      BY <1>0, <2>3
    <3> QED
      BY <2>2, <3>1
  <2>5. fails \in 0 .. Len(item) /\ fails # 0
    BY <1>0, <2>3
  <2> QED
    BY <2>3, <2>4, <2>5, Zenon
<1> QED
  BY <1>2, <1>3

\* What an operator<< writes of an item: all of it, or the tokens before the first
\* one that throws.
Does(item, fails, done) ==
    /\ item \in Seq({t \in Token : Writable(t)})
    /\ fails = SelectInSeq(item, Throws)
    /\ done = IF fails = 0 THEN item ELSE SubSeq(item, 1, fails - 1)

LEMMA DoneSounds ==
    ASSUME NEW item, NEW fails, NEW done, Does(item, fails, done)
    PROVE  /\ done \in Seq(Sounds) /\ fails \in 0 .. Len(item)
           /\ fails = 1 => done = <<>>
           /\ fails # 0 => item[fails] \in Token /\ Throws(item[fails])
<1>d. /\ item \in Seq({t \in Token : Writable(t)})
      /\ fails = SelectInSeq(item, Throws)
      /\ done = IF fails = 0 THEN item ELSE SubSeq(item, 1, fails - 1)
  BY DEF Does
<1>0. Len(item) \in Nat /\ \A k \in 1 .. Len(item) : item[k] \in Token /\ Writable(item[k])
  BY <1>d
<1>1. item \in Seq(Token)
  BY <1>d
<1>2. /\ fails \in 0 .. Len(item)
      /\ fails = 0 => \A k \in 1 .. Len(item) : ~ Throws(item[k])
      /\ fails # 0 => Throws(item[fails]) /\ \A k \in 1 .. fails - 1 : ~ Throws(item[k])
  BY <1>1, <1>d, SelectIs
<1>3. CASE fails = 0
  <2>1. \A k \in 1 .. Len(item) : item[k] \in Sounds
    BY <1>0, <1>2, <1>3 DEF Sounds, Sound
  <2>2. item \in Seq(Sounds)
    BY <1>0, <1>1, <2>1
  <2> QED
    BY <1>d, <1>2, <1>3, <2>2
<1>4. CASE fails # 0
  <2>1. \A k \in 1 .. fails - 1 : k \in 1 .. Len(item) /\ item[k] \in Sounds
    <3> TAKE k \in 1 .. fails - 1
    <3>1. k \in 1 .. Len(item)
      <4>1. fails \in 1 .. Len(item)
        BY <1>0, <1>2, <1>4
      <4> QED
        BY <1>0, <4>1
    <3>2. item[k] \in Token /\ Writable(item[k])
      BY <1>0, <3>1
    <3>3. ~ Throws(item[k])
      BY <1>2, <1>4
    <3> QED
      BY <3>1, <3>2, <3>3 DEF Sounds, Sound
  <2>2. /\ Len(SubSeq(item, 1, fails - 1)) = fails - 1
        /\ SubSeq(item, 1, fails - 1) \in Seq(Token)
        /\ \A k \in 1 .. fails - 1 : SubSeq(item, 1, fails - 1)[k] = item[k]
    BY <1>0, <1>1, <1>2, <1>4
  <2>3. SubSeq(item, 1, fails - 1) \in Seq(Sounds)
    BY <1>2, <1>4, <2>1, <2>2
  <2>4. fails = 1 => SubSeq(item, 1, fails - 1) = <<>>
    BY <2>2
  <2>5. fails \in 1 .. Len(item)
    BY <1>2, <1>4
  <2>6. item[fails] \in Token /\ Throws(item[fails])
    BY <1>0, <1>2, <1>4, <2>5, Zenon
  <2> QED
    BY <1>d, <1>2, <1>4, <2>3, <2>4, <2>6, Zenon
<1> QED
  BY <1>2, <1>3, <1>4

\* What was written is whole tokens, and valid if every item is complete.
LEMMA WrittenIs ==
    ASSUME NEW h \in Host, NEW w \in Seq(Sounds)
    PROVE  /\ Left(Bytes(h, w))[<<0, 0>>] \in Nat
           /\ WellFormed(Bytes(h, w)) <=> LeftOf(0, w) = 0
<1>1. PICK zero \in Nat : zero = 0
  OBVIOUS
<1>2. Left(Bytes(h, w))[<<zero, zero>>] = LeftOf(zero, w)
  BY <1>1, LeftWritten
<1>3. LeftOf(zero, w) \in Nat
  BY LeftOfIn
<1> QED
  BY <1>1, <1>2, <1>3 DEF WellFormed

LEMMA HostsAre ==
    ASSUME PacketTypeOK
    PROVE  host.writer \in Host /\ host.reader \in Host
<1>1. host \in [{"writer", "reader"} -> Host]
  BY PacketAssumption DEF PacketTypeOK
<1> QED
  BY <1>1

LEMMA NatNotBad == \A n \in Nat : n # Bad
BY DEF Bad

LEMMA ReadsFrom ==
    ASSUME NEW d \in Data, WellFormed(d)
    PROVE  Reads(d, 0)
<1>1. Left(d)[<<0, 0>>] # Bad
  BY DEF WellFormed, Bad
<1> QED
  BY <1>1 DEF Reads

LEMMA FollowsFrom ==
    ASSUME NEW h \in Host, NEW w \in Seq(Sounds)
    PROVE  Follows(h, w, 0, <<>>)
<1>1. Heads(h, w)[0] = <<>>
  BY HeadsAre
<1>2. SubSeq(w, 1, 0) = <<>> /\ 0 \in 0 .. Len(w) /\ Len(<<>>) = 0
  OBVIOUS
<1> QED
  BY <1>1, <1>2 DEF Follows

\* So what was read is a prefix of w, and all of it at the end.
LEMMA FollowsPrefix ==
    ASSUME NEW h \in Host, NEW w \in Seq(Sounds), NEW i, NEW g, Follows(h, w, i, g)
    PROVE  IsPrefix(g, w) /\ (i = Len(Bytes(h, w)) => g = w)
<1>1. PICK k \in 0 .. Len(w) : g = SubSeq(w, 1, k) /\ i = Len(Heads(h, w)[k])
  BY DEF Follows
<1>2. Len(g) = k
  BY <1>1
<1>3. SubSeq(g, 1, k) = g
  BY <1>1, <1>2
<1>4. i = Len(Bytes(h, w)) => k = Len(w)
  BY <1>1, HeadEnds
<1>5. k = Len(w) => g = w
  BY <1>1
<1> QED
  BY <1>1, <1>2, <1>3, <1>4, <1>5 DEF IsPrefix

\* The inductive invariant implies the invariants of the run.
LEMMA InvariantHolds ==
    ASSUME IInv
    PROVE  PacketTypeOK /\ ValidityExact /\ WrittenValid /\ ReadBack /\ ReaderInside
<1>0. PacketTypeOK /\ ReaderInside /\ written \in Seq(Sounds) /\ host.writer \in Host
  BY HostsAre DEF IInv
<1>1. ValidityExact
  BY DEF IInv, ValidityExact
<1>2. WrittenValid
  BY <1>0, WrittenIs DEF IInv, WrittenValid
<1>3. ReadBack
  BY <1>0, FollowsPrefix DEF IInv, ReadBack, size
<1> QED
  BY <1>0, <1>1, <1>2, <1>3

LEMMA InitHolds ==
    ASSUME Init
    PROVE  IInv
<1>1. host.writer \in Host
  <2>1. host \in [{"writer", "reader"} -> Host]
    BY PacketAssumption DEF Init
  <2> QED
    BY <2>1
<1>2. PacketTypeOK
  <2>1. m_data \in Seq(Octet) /\ written \in Seq(Token) /\ got \in Seq(Token) /\ m_idx \in 0 .. Len(m_data)
    BY DEF Init
  <2> QED
    BY <2>1 DEF Init, PacketTypeOK, size
<1>3. written \in Seq(Sounds)
  BY DEF Init
<1>4. Bytes(host.writer, written) = <<>>
  <2>1. Heads(host.writer, written)[0] = <<>> /\ Len(written) = 0
    BY <1>1, <1>3, HeadsAre DEF Init
  <2> QED
    BY <2>1, BytesAre
<1>5. LeftOf(0, written) = 0
  <2>1. PICK n \in Nat : n = 0
    OBVIOUS
  <2>2. Owes(n, written)[0] = n /\ Len(written) = 0
    BY <1>3, OwesAre DEF Init
  <2> QED
    BY <2>1, <2>2, LeftOfIs
<1>6. Follows(host.writer, written, m_idx, got)
  BY <1>1, <1>3, FollowsFrom DEF Init
<1>7. ReaderInside
  BY DEF Init, ReaderInside
<1> QED
  BY <1>2, <1>3, <1>4, <1>5, <1>6, <1>7 DEF IInv, Init

------------------------------------------------------------------------------
(* The steps of the writer, of is_valid and of the output. *)

LEMMA ThrownIs ==
    ASSUME NEW token
    PROVE  Thrown(token) \in {<<>>, <<"WrongArray">>, <<"EmptyObject">>}
BY DEF Thrown

LEMMA WriteStep ==
    ASSUME IInv, NEW item \in Items, Write(item)
    PROVE  IInv'
<1> DEFINE h == host.writer
<1>1. PICK fails, done :
          /\ fails = SelectInSeq(item, Throws)
          /\ done = IF fails = 0 THEN item ELSE SubSeq(item, 1, fails - 1)
          /\ phase = "write"
          /\ m_data' = m_data \o Bytes(h, done)
          /\ written' = written \o done
          /\ raised' = IF fails = 0 THEN <<>> ELSE Thrown(item[fails])
          /\ spoilt' = (spoilt \/ fails > 1)
          /\ UNCHANGED <<host, phase, m_idx, own, got, outside>>
  BY DEF Write
<1>2. item \in Seq({t \in Token : Writable(t)}) /\ LeftOf(0, item) = 0
  BY PacketAssumption
<1>3. /\ done \in Seq(Sounds) /\ fails \in 0 .. Len(item)
      /\ fails = 1 => done = <<>>
      /\ fails = 0 => done = item
  <2>1. done = IF fails = 0 THEN item ELSE SubSeq(item, 1, fails - 1)
    BY <1>1
  <2>2. fails = SelectInSeq(item, Throws)
    BY <1>1
  <2>3. done \in Seq(Sounds) /\ fails \in 0 .. Len(item) /\ (fails = 1 => done = <<>>)
    <3>1. Does(item, fails, done)
      BY <1>2, <2>1, <2>2 DEF Does
    <3> QED
      BY <3>1, DoneSounds
  <2> QED
    BY <2>1, <2>3
<1>4. /\ h \in Host /\ written \in Seq(Sounds) /\ PacketTypeOK /\ own
      /\ m_data = Bytes(h, written) /\ m_idx = 0 /\ got = <<>> /\ ReaderInside
      /\ ~ spoilt => LeftOf(0, written) = 0
  BY <1>1, HostsAre DEF IInv
<1>5. written' \in Seq(Sounds)
  BY <1>1, <1>3, <1>4, JoinSounds
<1>6. m_data' = Bytes(h, written')
  BY <1>1, <1>3, <1>4, BytesJoin
<1>7. Follows(h, written', 0, <<>>)
  BY <1>4, <1>5, FollowsFrom
<1>8. m_data' \in Data /\ Len(m_data') \in Nat
  BY <1>4, <1>5, <1>6, BytesData
<1>9. spoilt \in BOOLEAN /\ spoilt' \in BOOLEAN
  BY <1>1, <1>4 DEF PacketTypeOK
<1>10. ~ spoilt' => LeftOf(0, written') = 0
  <2> HAVE ~ spoilt'
  <2>1. ~ spoilt /\ ~ (fails > 1)
    BY <1>1
  <2>2. fails = 0 \/ fails = 1
    BY <1>3, <2>1
  <2>3. PICK n \in Nat : n = 0
    OBVIOUS
  <2>4. LeftOf(n, written) = n
    BY <1>4, <2>1, <2>3
  <2>5. CASE fails = 0
    <3>1. LeftOf(n, written \o done) = LeftOf(n, done)
      BY <1>3, <1>4, <2>4, LeftOfJoin
    <3> QED
      BY <1>1, <1>2, <1>3, <2>3, <2>5, <3>1
  <2>6. CASE fails = 1
    <3>1. written \o <<>> = written
      BY <1>4
    <3> QED
      BY <1>1, <1>3, <1>4, <2>1, <2>6, <3>1
  <2> QED
    BY <2>2, <2>5, <2>6
<1>11. raised' \in {<<>>, <<"WrongArray">>, <<"EmptyObject">>}
  BY <1>1, ThrownIs
<1>12. PacketTypeOK'
  <2>1. written' \in Seq(Token)
    BY <1>5 DEF Sounds
  <2>2. m_data' \in Seq(Octet) /\ m_idx' \in 0 .. Len(m_data')
    BY <1>1, <1>4, <1>8 DEF Data
  <2>3. raised' \in Exceptions
    BY <1>11 DEF Exceptions
  <2> QED
    BY <1>1, <1>4, <1>9, <2>1, <2>2, <2>3 DEF PacketTypeOK, Exceptions, size
<1>13. ReaderInside'
  <2>1. raised' # <<"CORRUPTED">>
    BY <1>11
  <2> QED
    BY <1>1, <1>4, <2>1 DEF ReaderInside
<1> QED
  BY <1>1, <1>4, <1>5, <1>6, <1>7, <1>10, <1>12, <1>13 DEF IInv

LEMMA SendStep ==
    ASSUME IInv, Send
    PROVE  IInv'
<1>1. PacketTypeOK'
  BY DEF Send, IInv, PacketTypeOK, size
<1>2. ReaderInside'
  BY DEF Send, IInv, ReaderInside
<1> QED
  BY <1>1, <1>2 DEF Send, IInv

LEMMA PeerData ==
    ASSUME NEW d \in SeqOf(Byte, MaxSize)
    PROVE  d \in Data
<1>1. MaxSize \in Nat /\ Byte \subseteq Octet
  BY PacketAssumption
<1>2. PICK m \in 0 .. MaxSize : d \in [1 .. m -> Byte]
  BY DEF SeqOf
<1>3. m \in Nat /\ d \in [1 .. m -> Octet]
  BY <1>1, <1>2
<1> QED
  BY <1>3 DEF Data

LEMMA ArriveStep ==
    ASSUME IInv, NEW d \in SeqOf(Byte, MaxSize), Arrive(d)
    PROVE  IInv'
<1>1. d \in Data /\ Len(d) \in Nat
  BY PeerData, LenData
<1>2. m_idx = 0 /\ got = <<>> /\ phase = "write"
  BY DEF Arrive, IInv
<1>3. PacketTypeOK'
  <2>1. m_data' \in Seq(Octet) /\ m_idx' \in 0 .. Len(m_data')
    BY <1>1, <1>2 DEF Arrive, Data
  <2> QED
    BY <2>1 DEF Arrive, IInv, PacketTypeOK, size
<1>4. ReaderInside'
  BY <1>2 DEF Arrive, IInv, ReaderInside
<1> QED
  BY <1>2, <1>3, <1>4 DEF Arrive, IInv

LEMMA ValidateStep ==
    ASSUME IInv, Validate
    PROVE  IInv'
<1>1. /\ PacketTypeOK /\ host.reader \in Host /\ host.writer \in Host /\ m_data \in Data
      /\ phase = "sent" /\ m_idx = 0 /\ got = <<>> /\ ~ outside
  BY HostsAre DEF IInv, Validate, PacketTypeOK, Data, ReaderInside
<1>2. PICK e \in Scan(host.reader, m_data)[0] : phase' = IF Accepts(m_data, e) THEN "read" ELSE "dropped"
  BY DEF Validate
<1>3. phase' = IF WellFormed(m_data) THEN "read" ELSE "dropped"
  BY <1>1, <1>2, ScanRight
<1>4. WellFormed(m_data) => Reads(m_data, 0)
  BY <1>1, ReadsFrom
<1>5. own /\ ~ spoilt => WellFormed(m_data)
  BY <1>1, WrittenIs DEF IInv
<1>6. phase' \in {"read", "dropped"} /\ raised' = <<>>
  BY <1>3 DEF Validate
<1>7. PacketTypeOK'
  BY <1>6 DEF Validate, IInv, PacketTypeOK, size
<1>8. ReaderInside'
  BY <1>1, <1>6 DEF Validate, ReaderInside
<1> QED
  BY <1>1, <1>3, <1>4, <1>5, <1>6, <1>7, <1>8 DEF Validate, IInv

LEMMA ShowStep ==
    ASSUME IInv, Show
    PROVE  IInv'
<1> DEFINE h == IF phase = "write" THEN host.writer ELSE host.reader
           end == ShownAll(h, m_data)[0]
<1>1. /\ phase \in {"write", "read"} /\ ~ outside
      /\ raised' = IF end = Bad THEN <<"CORRUPTED">> ELSE <<>>
      /\ outside' = (end = Outside)
      /\ UNCHANGED <<host, phase, m_data, m_idx, own, written, spoilt, got>>
  BY DEF Show
<1>2. h \in Host /\ m_data \in Data /\ PacketTypeOK
  BY HostsAre DEF IInv, PacketTypeOK, Data
<1>3. Left(m_data)[<<0, 0>>] # Bad
  <2>1. CASE phase = "write"
    <3>1. m_data = Bytes(host.writer, written) /\ written \in Seq(Sounds) /\ host.writer \in Host
      BY <2>1, HostsAre DEF IInv
    <3>2. Left(m_data)[<<0, 0>>] \in Nat
      BY <3>1, WrittenIs
    <3> QED
      BY <3>2, NatNotBad
  <2>2. CASE phase = "read"
    BY <2>2 DEF IInv, WellFormed, Bad
  <2> QED
    BY <1>1, <2>1, <2>2
<1>4. ShownWell(h, m_data, 0)
  BY <1>2, ShownAllWell
<1> HIDE DEF h, end
<1>5. end # Outside /\ (end = Bad => ~ WellFormed(m_data))
  BY <1>3, <1>4 DEF ShownWell, WellFormed, end
<1>6. ~ outside'
  BY <1>1, <1>5
<1>7. end = Bad => phase = "write" /\ spoilt
  <2> HAVE end = Bad
  <2>1. ~ WellFormed(m_data)
    BY <1>5
  <2>2. phase = "write"
    BY <1>1, <2>1 DEF IInv
  <2>3. own /\ m_data = Bytes(host.writer, written) /\ written \in Seq(Sounds) /\ host.writer \in Host
    BY <2>2, HostsAre DEF IInv
  <2>4. LeftOf(0, written) # 0
    BY <2>1, <2>3, WrittenIs
  <2> QED
    BY <2>2, <2>3, <2>4 DEF IInv
<1>8. ReaderInside'
  BY <1>1, <1>6, <1>7 DEF ReaderInside
<1>9. PacketTypeOK'
  <2>1. raised' \in {<<>>, <<"CORRUPTED">>} /\ outside' \in BOOLEAN
    BY <1>1
  <2> QED
    BY <1>1, <1>2, <2>1 DEF PacketTypeOK, size
<1> QED
  BY <1>1, <1>8, <1>9 DEF IInv

------------------------------------------------------------------------------
(* One operator>>. *)

\* A reader that is not at the end finds one token, and more whole ones behind it.
LEMMA NextToken ==
    ASSUME NEW h \in Host, NEW d \in Data, NEW i \in Nat, Reads(d, i), i # Len(d)
    PROVE  \E token \in Token, to \in Nat : /\ TokenAt(h, d, i) = {[token |-> token, next |-> to]}
                                            /\ to <= Len(d) /\ Reads(d, to) /\ i < Len(d)
<1>1. PICK n \in Nat : Left(d)[<<i, n>>] # Bad
  BY DEF Reads
<1>2. HasToken(d, i)
  BY <1>1, LeftFits
<1>3. PICK to \in Nat, f \in Nat : to = TokenEnd(d, i) /\ f = Fields(d, i) /\ to <= Len(d) /\ i < Len(d)
  BY <1>2, TokenHas
<1>4. IsTaken(TokenAt(h, d, i), to)
  BY <1>2, <1>3, TokenAtIs
<1>5. PICK token \in Token : TokenAt(h, d, i) = {[token |-> token, next |-> to]}
  BY <1>4 DEF IsTaken
<1>6. PICK m \in Nat : m = Owed(n, f)
  BY OwedIs
<1>7. Left(d)[<<i, n>>] = Left(d)[<<to, m>>]
  BY <1>2, <1>3, <1>6, LeftIs
<1>8. Reads(d, to)
  BY <1>1, <1>7 DEF Reads
<1> QED
  BY <1>3, <1>5, <1>8

\* It is the next one that was written.
LEMMA FollowsNext ==
    ASSUME NEW h \in Host, NEW r \in Host, NEW w \in Seq(Sounds), NEW i, NEW g,
           Follows(h, w, i, g), i # Len(Bytes(h, w)),
           NEW token, NEW to, TokenAt(r, Bytes(h, w), i) = {[token |-> token, next |-> to]}
    PROVE  Follows(h, w, to, Append(g, token))
<1>0. Len(w) \in Nat
  OBVIOUS
<1>1. PICK k \in 0 .. Len(w) : g = SubSeq(w, 1, k) /\ i = Len(Heads(h, w)[k])
  BY DEF Follows
<1>2. k # Len(w)
  BY <1>1, HeadEnds
<1>3. PICK j \in 1 .. Len(w) : j - 1 = k /\ j = k + 1
  BY <1>0, <1>2
<1>4. Holds(r, Bytes(h, w), Len(Heads(h, w)[j - 1]), w[j], Len(Heads(h, w)[j]))
  BY HeadHolds
<1>5. TokenAt(r, Bytes(h, w), i) = {[token |-> w[j], next |-> Len(Heads(h, w)[j])]}
  BY <1>1, <1>3, <1>4 DEF Holds
<1>6. [token |-> token, next |-> to] = [token |-> w[j], next |-> Len(Heads(h, w)[j])]
  BY <1>5
<1>7. token = w[j] /\ to = Len(Heads(h, w)[j])
  BY <1>6
<1>8. Append(SubSeq(w, 1, k), w[j]) = SubSeq(w, 1, j)
  BY <1>0, <1>3
<1> QED
  BY <1>1, <1>3, <1>7, <1>8 DEF Follows

\* What a read may have come to.
Readings ==
    {r \in [idx : Nat, got : Seq(Token), raised : Exceptions, outside : BOOLEAN] :
        /\ ~ r.outside /\ r.idx <= Len(m_data) /\ r.raised # <<"CORRUPTED">>
        /\ Reads(m_data, r.idx)
        /\ own => Follows(host.writer, written, r.idx, r.got)}

\* One step of the reader inside the packet.
LEMMA AdvanceIs ==
    ASSUME IInv, NEW r \in Readings, r.idx # Len(m_data)
    PROVE  /\ r.idx < Len(m_data)
           /\ \E k : TokenAt(host.reader, m_data, r.idx) = {k} /\ Advance(r, k) \in Readings
<1>1. /\ host.reader \in Host /\ host.writer \in Host /\ m_data \in Data /\ written \in Seq(Sounds)
      /\ own => m_data = Bytes(host.writer, written)
  BY HostsAre DEF IInv, PacketTypeOK, Data
<1>2. /\ r \in [idx : Nat, got : Seq(Token), raised : Exceptions, outside : BOOLEAN]
      /\ ~ r.outside /\ r.raised # <<"CORRUPTED">>
      /\ Reads(m_data, r.idx)
      /\ own => Follows(host.writer, written, r.idx, r.got)
  BY DEF Readings
<1>3. PICK i \in Nat, g \in Seq(Token) : i = r.idx /\ g = r.got
  BY <1>2
<1>4. PICK token \in Token, to \in Nat :
          /\ TokenAt(host.reader, m_data, i) = {[token |-> token, next |-> to]}
          /\ to <= Len(m_data) /\ Reads(m_data, to) /\ i < Len(m_data)
  <2>1. Reads(m_data, i) /\ i # Len(m_data)
    BY <1>2, <1>3
  <2> QED
    BY <1>1, <2>1, NextToken
<1> DEFINE k == [token |-> token, next |-> to]
<1>5. Advance(r, k) = [r EXCEPT !.idx = to, !.got = Append(g, token)]
  BY <1>3 DEF Advance
<1>6. Append(g, token) \in Seq(Token)
  OBVIOUS
<1>7. own => Follows(host.writer, written, to, Append(g, token))
  BY <1>1, <1>2, <1>3, <1>4, FollowsNext
<1> DEFINE n == [r EXCEPT !.idx = to, !.got = Append(g, token)]
<1>8. /\ n \in [idx : Nat, got : Seq(Token), raised : Exceptions, outside : BOOLEAN]
      /\ n.idx = to /\ n.got = Append(g, token) /\ n.raised = r.raised /\ n.outside = r.outside
  BY <1>2, <1>6
<1>9. n \in Readings
  BY <1>2, <1>4, <1>7, <1>8 DEF Readings
<1> QED
  BY <1>3, <1>4, <1>5, <1>9

LEMMA RaiseIs ==
    ASSUME NEW r \in Readings, NEW x \in Exceptions, x # <<"CORRUPTED">>
    PROVE  [r EXCEPT !.raised = x] \in Readings
<1>1. /\ r \in [idx : Nat, got : Seq(Token), raised : Exceptions, outside : BOOLEAN]
      /\ ~ r.outside /\ r.idx <= Len(m_data)
      /\ Reads(m_data, r.idx)
      /\ own => Follows(host.writer, written, r.idx, r.got)
  BY DEF Readings
<1> DEFINE n == [r EXCEPT !.raised = x]
<1>2. /\ n \in [idx : Nat, got : Seq(Token), raised : Exceptions, outside : BOOLEAN]
      /\ n.idx = r.idx /\ n.got = r.got /\ n.raised = x /\ n.outside = r.outside
  BY <1>1
<1> QED
  BY <1>1, <1>2 DEF Readings

LEMMA ReadHeaderIs ==
    ASSUME IInv, NEW r \in Readings, NEW want
    PROVE  ReadHeader(want, r) \in Readings
<1>0. Len(m_data) \in Nat /\ r.idx \in Nat
  BY LenData DEF IInv, PacketTypeOK, Data, Readings
<1> DEFINE token == TokenAt(host.reader, m_data, r.idx)
<1>1. CASE NextType(m_data, r.idx) # Object
  <2>1. <<"Expected", Object>> \in Exceptions
    BY TypeIs DEF Exceptions
  <2>2. [r EXCEPT !.raised = <<"Expected", Object>>] \in Readings
    BY <2>1, RaiseIs
  <2>3. ReadHeader(want, r) = [r EXCEPT !.raised = <<"Expected", Object>>]
    BY <1>1 DEF ReadHeader
  <2> QED
    BY <2>2, <2>3
<1>2. CASE NextType(m_data, r.idx) = Object
  <2>1. r.idx # Len(m_data)
    BY <1>0, <1>2 DEF NextType, More, Unknown, Object
  <2>2. PICK k : token = {k} /\ Advance(r, k) \in Readings
    BY <2>1, AdvanceIs
  <2>3. (CHOOSE x \in token : TRUE) = k
    BY <2>2, Only
  <2>4. \/ ReadHeader(want, r) = [r EXCEPT !.raised = <<"EmptyObject">>]
        \/ ReadHeader(want, r) = Advance(r, k)
        \/ ReadHeader(want, r) = [r EXCEPT !.raised = <<"WrongSizedObject">>]
    <3>1. token # {}
      BY <2>2
    <3> HIDE DEF token
    <3>2. ReadHeader(want, r) =
             CASE k.token.value = <<0>>           -> [r EXCEPT !.raised = <<"EmptyObject">>]
               [] k.token.value = <<want.length>> -> Advance(r, k)
               [] OTHER                           -> [r EXCEPT !.raised = <<"WrongSizedObject">>]
      BY <1>2, <2>3, <3>1 DEF ReadHeader, token
    <3> QED
      BY <3>2
  <2>5. <<"EmptyObject">> \in Exceptions /\ <<"WrongSizedObject">> \in Exceptions
    BY DEF Exceptions
  <2> QED
    BY <2>2, <2>4, <2>5, RaiseIs
<1> QED
  BY <1>1, <1>2

\* Whatever the program wants to read next.
LEMMA ReadOneIs ==
    ASSUME IInv, NEW r \in Readings, NEW want
    PROVE  ReadOne(want, r) \in Readings
<1>0. Len(m_data) \in Nat /\ r.idx \in Nat /\ ~ r.outside
  BY LenData DEF IInv, PacketTypeOK, Data, Readings
<1> DEFINE token == TokenAt(host.reader, m_data, r.idx)
           t == NextType(m_data, r.idx)
<1>1. CASE r.raised # <<>>
  BY <1>1 DEF ReadOne
<1>2. CASE r.raised = <<>> /\ Object \in want.types
  BY <1>0, <1>2, ReadHeaderIs DEF ReadOne
<1>3. CASE r.raised = <<>> /\ Object \notin want.types /\ ~ More(m_data, r.idx)
  BY <1>3 DEF ReadOne
<1>4. CASE r.raised = <<>> /\ Object \notin want.types /\ More(m_data, r.idx) /\ t \notin want.types
  <2>1. ReadOne(want, r) = [r EXCEPT !.raised = ExceptionByType(t)]
    BY <1>0, <1>4 DEF ReadOne
  <2>2. ExceptionByType(t) \in Exceptions /\ ExceptionByType(t) # <<"CORRUPTED">>
    BY DEF ExceptionByType, Exceptions
  <2> QED
    BY <2>1, <2>2, RaiseIs
<1>5. CASE r.raised = <<>> /\ Object \notin want.types /\ More(m_data, r.idx) /\ t \in want.types
  <2>1. r.idx # Len(m_data)
    BY <1>0, <1>5 DEF More
  <2>2. PICK k : token = {k} /\ Advance(r, k) \in Readings
    BY <2>1, AdvanceIs
  <2>3. (CHOOSE x \in token : TRUE) = k /\ token # {}
    BY <2>2, Only
  <2> HIDE DEF token
  <2>4. ReadOne(want, r) = Advance(r, CHOOSE x \in token : TRUE)
    BY <1>0, <1>5, <2>3 DEF ReadOne, token
  <2> QED
    BY <2>2, <2>3, <2>4
<1> QED
  BY <1>1, <1>2, <1>3, <1>4, <1>5

------------------------------------------------------------------------------
(* read_from_packet, and the theorems. *)

\* Whatever it wants to read one behind the other.
LEMMA ReadAllIs ==
    ASSUME IInv, phase = "read", NEW wants \in Wants
    PROVE  ReadAll(wants) \in Readings
<1> DEFINE N == Len(wants)
           first == [idx |-> m_idx, got |-> got, raised |-> <<>>, outside |-> FALSE]
           Step == [x \in Readings \X (1 .. N) |-> ReadOne(wants[x[2]], x[1])]
           Eq(g) == [k \in 0 .. N |-> IF k = 0 THEN first ELSE ReadOne(wants[k], g[k - 1])]
           R == CHOOSE e : e = Eq(e)
<1>0. N \in Nat
  BY PacketAssumption
<1>1. first \in Readings
  <2>1. m_idx \in Nat /\ m_idx <= Len(m_data) /\ got \in Seq(Token) /\ <<>> \in Exceptions
    <3>1. Len(m_data) \in Nat
      BY LenData DEF IInv, PacketTypeOK, Data
    <3> QED
      BY <3>1 DEF IInv, PacketTypeOK, size, Exceptions
  <2>2. Reads(m_data, m_idx) /\ (own => Follows(host.writer, written, m_idx, got))
    BY DEF IInv
  <2> QED
    BY <2>1, <2>2 DEF Readings
<1>2. \A v \in Readings, k \in 1 .. N : Step[<<v, k>>] = ReadOne(wants[k], v)
  OBVIOUS
<1>3. \A v \in Readings, k \in 1 .. N : ReadOne(wants[k], v) \in Readings
  BY ReadOneIs
<1>a. ReadAll(wants) = R[N]
  BY DEF ReadAll
<1> HIDE DEF Step, first, N, R
<1>4. Stays(N, Readings, Step)
  BY <1>2, <1>3 DEF Stays
<1>5. PICK g : Runs(g, N, Readings, first, Step)
  BY <1>0, <1>1, <1>4, Iteration
<1>6. g = Eq(g)
  <2>1. \A k \in 0 .. N : g[k] = IF k = 0 THEN first ELSE ReadOne(wants[k], g[k - 1])
    <3> TAKE k \in 0 .. N
    <3>1. CASE k = 0
      BY <1>5, <3>1 DEF Runs
    <3>2. CASE k # 0
      <4>1. g[k - 1] \in Readings /\ k \in 1 .. N
        BY <1>0, <1>5, <3>2 DEF Runs
      <4> QED
        BY <1>2, <1>5, <3>2, <4>1 DEF Runs
    <3> QED
      BY <3>1, <3>2
  <2>2. g \in [0 .. N -> Readings]
    BY <1>5 DEF Runs
  <2> QED
    BY <2>1, <2>2
<1> HIDE DEF Eq
<1>7. R = Eq(R)
  BY <1>6, Zenon DEF R
<1>8. R = [k \in 0 .. N |-> IF k = 0 THEN first ELSE ReadOne(wants[k], R[k - 1])]
  BY <1>7 DEF Eq
<1>9. R[0] = first /\ \A k \in 1 .. N : R[k] = ReadOne(wants[k], R[k - 1])
  <2>1. 0 \in 0 .. N /\ \A k \in 1 .. N : k \in 0 .. N /\ k # 0 /\ k - 1 \in 0 .. N
    BY <1>0
  <2>2. \A k \in 0 .. N : R[k] = IF k = 0 THEN first ELSE ReadOne(wants[k], R[k - 1])
    BY <1>8, Zenon
  <2> QED
    BY <2>1, <2>2
<1> DEFINE T == {k \in 0 .. N : R[k] \in Readings}
<1>10. 0 .. N \subseteq T
  <2>1. 0 \in T
    BY <1>0, <1>1, <1>9
  <2>2. ASSUME NEW k \in 1 .. N, k - 1 \in T PROVE k \in T
    <3>1. R[k - 1] \in Readings /\ k \in 0 .. N
      BY <1>0, <2>2
    <3>2. R[k] \in Readings
      BY <1>3, <1>9, <3>1
    <3> QED
      BY <3>1, <3>2
  <2> HIDE DEF T
  <2> QED
    BY <1>0, <2>1, <2>2, Upward
<1>11. N \in T
  <2>1. N \in 0 .. N
    BY <1>0
  <2> HIDE DEF T
  <2> QED
    BY <1>10, <2>1
<1> QED
  BY <1>a, <1>11

LEMMA ReadStep ==
    ASSUME IInv, NEW wants \in Wants, Read(wants)
    PROVE  IInv'
<1> DEFINE r == ReadAll(wants)
           done == r.raised = <<>> /\ ~ r.outside
<1>1. /\ phase = "read" /\ ~ outside
      /\ raised' = r.raised
      /\ outside' = r.outside
      /\ m_idx' = IF done THEN r.idx ELSE m_idx
      /\ got' = IF done THEN r.got ELSE got
      /\ UNCHANGED <<host, phase, m_data, own, written, spoilt>>
  BY DEF Read
<1>2. r \in Readings
  BY <1>1, ReadAllIs
<1> HIDE DEF r
<1>3. /\ r.idx \in Nat /\ r.got \in Seq(Token) /\ r.raised \in Exceptions /\ r.outside \in BOOLEAN
      /\ ~ r.outside /\ r.idx <= Len(m_data) /\ r.raised # <<"CORRUPTED">>
      /\ Reads(m_data, r.idx)
      /\ own => Follows(host.writer, written, r.idx, r.got)
  BY <1>2 DEF Readings
<1>4. PacketTypeOK'
  <2>1. Len(m_data) \in Nat
    BY LenData DEF IInv, PacketTypeOK, Data
  <2>2. m_idx' \in 0 .. Len(m_data) /\ got' \in Seq(Token)
    BY <1>1, <1>3, <2>1 DEF IInv, PacketTypeOK, size
  <2> QED
    BY <1>1, <1>3, <2>2 DEF IInv, PacketTypeOK, size, Exceptions
<1>5. ReaderInside'
  BY <1>1, <1>3 DEF ReaderInside
<1>6. Reads(m_data, m_idx') /\ (own => Follows(host.writer, written, m_idx', got'))
  BY <1>1, <1>3 DEF IInv
<1> QED
  BY <1>1, <1>4, <1>5, <1>6 DEF IInv

LEMMA NextHolds ==
    ASSUME IInv, [Next]_vars
    PROVE  IInv'
<1>1. CASE UNCHANGED vars
  BY <1>1 DEF vars, IInv, PacketTypeOK, ReaderInside, size
<1>2. ASSUME NEW item \in Items, Write(item) PROVE IInv'
  BY <1>2, WriteStep
<1>3. ASSUME NEW d \in SeqOf(Byte, MaxSize), Arrive(d) PROVE IInv'
  BY <1>3, ArriveStep
<1>4. ASSUME NEW wants \in Wants, Read(wants) PROVE IInv'
  BY <1>4, ReadStep
<1> QED
  BY <1>1, <1>2, <1>3, <1>4, SendStep, ValidateStep, ShowStep DEF Next

LEMMA Invariant == Spec => []IInv
<1>1. Init => IInv
  BY InitHolds
<1>2. IInv /\ [Next]_vars => IInv'
  BY NextHolds
<1> QED
  BY <1>1, <1>2, PTL DEF Spec
------------------------------------------------------------------------------
(* What follows for the bytes alone. *)

\* is_valid answers true for the packets that are a sequence of whole items and for no
\* others, on every host and whatever bytes lie behind the packet.
THEOREM IsValidExact ==
    ASSUME NEW h \in Host, NEW d \in Seq(Octet)
    PROVE  \A e \in Scan(h, d)[0] : Accepts(d, e) <=> WellFormed(d)
BY ScanRight DEF Data

\* Whatever tokens operator<< has written, valid ones that did not throw, a reader on
\* any host that stands behind the first k - 1 takes the next one, with the value it
\* was written with, and stands behind it then.
THEOREM ReadAsWritten ==
    ASSUME NEW h \in Host, NEW r \in Host, NEW w \in Seq({t \in Token : Writable(t) /\ ~ Throws(t)}),
           NEW k \in 1 .. Len(w)
    PROVE  TokenAt(r, Bytes(h, w), Len(Bytes(h, SubSeq(w, 1, k - 1)))) =
               {[token |-> w[k], next |-> Len(Bytes(h, SubSeq(w, 1, k)))]}
<1>1. w \in Seq(Sounds)
  BY DEF Sounds, Sound
<1>2. Holds(r, Bytes(h, w), Len(Heads(h, w)[k - 1]), w[k], Len(Heads(h, w)[k]))
  BY <1>1, HeadHolds
<1>3. k - 1 \in 0 .. Len(w) /\ k \in 0 .. Len(w)
  OBVIOUS
<1>4. Bytes(h, SubSeq(w, 1, k - 1)) = Heads(h, w)[k - 1] /\ Bytes(h, SubSeq(w, 1, k)) = Heads(h, w)[k]
  BY <1>1, <1>3, HeadsPrefix
<1> QED
  BY <1>2, <1>4 DEF Holds

\* What operator<< has written is a valid packet if and only if every object in it has
\* got the fields its header announces.
THEOREM WrittenWell ==
    ASSUME NEW h \in Host, NEW w \in Seq({t \in Token : Writable(t) /\ ~ Throws(t)})
    PROVE  WellFormed(Bytes(h, w)) <=> LeftOf(0, w) = 0
<1>1. w \in Seq(Sounds)
  BY DEF Sounds, Sound
<1> QED
  BY <1>1, WrittenIs

\* The output of a packet that is_valid accepts stays inside it and never ends with
\* CORRUPTED.
THEOREM OutputOfValid ==
    ASSUME NEW h \in Host, NEW d \in Seq(Octet), WellFormed(d)
    PROVE  ShownAll(h, d)[0] \notin {Bad, Outside}
<1>1. ShownWell(h, d, 0)
  BY ShownAllWell DEF Data
<1>2. Left(d)[<<0, 0>>] = 0 /\ 0 # Bad
  BY DEF WellFormed, Bad
<1> QED
  BY <1>1, <1>2 DEF ShownWell
------------------------------------------------------------------------------
(* The theorems about the specification. *)

\* The variables keep their types; m_idx stays within the packet, and no call raises
\* anything but the exceptions of the header.
THEOREM PacketTyped == Spec => []PacketTypeOK
<1>1. IInv => PacketTypeOK
  BY DEF IInv
<1> QED
  BY <1>1, Invariant, PTL

\* A packet is handed to a reader if and only if it is a sequence of whole items.
THEOREM PacketValidity == Spec => []ValidityExact
<1>1. IInv => ValidityExact
  BY InvariantHolds
<1> QED
  BY <1>1, Invariant, PTL

\* What the program has written is valid at every moment and is not dropped, unless a
\* write threw inside an object.
THEOREM PacketWritten == Spec => []WrittenValid
<1>1. IInv => WrittenValid
  BY InvariantHolds
<1> QED
  BY <1>1, Invariant, PTL

\* The reader gets what was written, in its order, through every read that fails, and
\* at the end of the packet it has got everything.
THEOREM PacketReadBack == Spec => []ReadBack
<1>1. IInv => ReadBack
  BY InvariantHolds
<1> QED
  BY <1>1, Invariant, PTL

\* Neither a reader nor the output reads behind a packet, and the output calls only
\* those CORRUPTED in which a write stopped inside an object.
THEOREM PacketInside == Spec => []ReaderInside
<1>1. IInv => ReaderInside
  BY InvariantHolds
<1> QED
  BY <1>1, Invariant, PTL
=============================================================================

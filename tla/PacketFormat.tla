----------------------------- MODULE PacketFormat -----------------------------
(***************************************************************************)
(* The bytes of a Packet. It is a sequence of typed items,                 *)
(*                                                                         *)
(*     number : type | its bytes        string : type | bytes | '\0'       *)
(*     array  : type | UInt16 | bytes   object : type | UInt8 | its items  *)
(*                                                                         *)
(* written by operator<<, examined by is_valid and read by a PacketReader. *)
(* In the operators h is a host, which has its order of bytes, d the bytes *)
(* of a packet, and i how many of them lie in front.                       *)
(***************************************************************************)
EXTENDS Integers, Sequences, SequencesExt

CONSTANTS
    Garbage,  \* the bytes that may lie behind m_data
    MaxArray  \* the longest array, 65535 in the code

Octet == 0 .. 255

ASSUME FormatAssumption == Garbage \subseteq Octet /\ MaxArray \in 0 .. 65535

Host == {"little", "big"}
------------------------------------------------------------------------------
(* Packet::Type *)

String == 32
Object == 64

Unknown == 0

\* Numbers and the size of each.
Width == [t \in (1 .. 8) \cup {16, 17} |->
             CASE t \in {1, 5} -> 1 [] t \in {2, 6} -> 2
               [] t \in {3, 7, 16} -> 4 [] t \in {4, 8, 17} -> 8]

Number == DOMAIN Width
Array  == {128 + t : t \in Number}
Type   == Number \cup Array \cup {String, Object}

\* A token is a number, a string, an array, or the header of an object. The value of
\* a number is its bytes from the most significant one, that of an array all of them.
Token == [type : Type, value : Seq(Octet)]

Count(token) == Len(token.value) \div Width[token.type - 128]

\* write_as_object and number_of_args: the header and the fields.
ObjectOf(fields) == <<[type |-> Object, value |-> <<Len(fields)>>]>> \o FlattenSeq(fields)
------------------------------------------------------------------------------
(* The order of the bytes *)

\* The bytes of a number in the memory of a host, and from there.
Memory(h, v) == IF h = "little" THEN Reverse(v) ELSE v

\* htons, htonl, ntohs and ntohl, on the bytes in memory.
NetworkOrder(h, bytes) == IF h = "little" THEN Reverse(bytes) ELSE bytes

\* __bytes_swap, done on hosts that are not __is_big_endian.
Swapped(h, bytes) == IF h = "little" THEN SubSeq(bytes, 5, 8) \o SubSeq(bytes, 1, 4) ELSE bytes

\* Mutation: the halves of 64 bits are never swapped.
PushUnswapped(h, v) ==
    CASE Len(v) = 8 -> LET dt == Memory(h, v)
                       IN  NetworkOrder(h, SubSeq(dt, 1, 4)) \o NetworkOrder(h, SubSeq(dt, 5, 8))
      [] Len(v) = 1 -> v
      [] OTHER      -> NetworkOrder(h, Memory(h, v))

\* __push_8 to __push_64.
Push(h, v) ==
    CASE Len(v) = 8 -> LET dt == Swapped(h, Memory(h, v))
                       IN  NetworkOrder(h, SubSeq(dt, 1, 4)) \o NetworkOrder(h, SubSeq(dt, 5, 8))
      [] Len(v) = 1 -> v
      [] OTHER      -> NetworkOrder(h, Memory(h, v))

\* __front_8 to __front_64.
FrontOf(h, bytes) ==
    CASE Len(bytes) = 8 -> Memory(h, Swapped(h, NetworkOrder(h, SubSeq(bytes, 1, 4)) \o
                                                NetworkOrder(h, SubSeq(bytes, 5, 8))))
      [] Len(bytes) = 1 -> bytes
      [] OTHER          -> Memory(h, NetworkOrder(h, bytes))

\* Among numbers of w bytes each, the one that byte k belongs to.
Each(w, bytes, k) == LET first == k - ((k - 1) % w) IN SubSeq(bytes, first, first + w - 1)

AllPushed(h, w, v)  == [k \in 1 .. Len(v) |-> Push(h, Each(w, v, k))[((k - 1) % w) + 1]]
AllFronted(h, w, v) == [k \in 1 .. Len(v) |-> FrontOf(h, Each(w, v, k))[((k - 1) % w) + 1]]

\* The front of m_data from the byte behind i, as an UInt16.
Front16(h, d, i) == LET v == FrontOf(h, <<d[i + 1], d[i + 2]>>) IN 256 * v[1] + v[2]
------------------------------------------------------------------------------
(* operator<< *)

\* Mutation: the length of an array is written in the order of the host.
EncodeHost(h, token) ==
    <<token.type>> \o
    (CASE token.type = String  -> token.value \o <<0>>
       [] token.type \in Array -> Memory(h, <<Count(token) \div 256, Count(token) % 256>>) \o
                                  AllPushed(h, Width[token.type - 128], token.value)
       [] token.type = Object  -> token.value
       [] OTHER                -> Push(h, token.value))

Encode(h, token) ==
    <<token.type>> \o
    (CASE token.type = String  -> token.value \o <<0>>
       [] token.type \in Array -> Push(h, <<Count(token) \div 256, Count(token) % 256>>) \o
                                  AllPushed(h, Width[token.type - 128], token.value)
       [] token.type = Object  -> token.value
       [] OTHER                -> Push(h, token.value))

\* The tokens one behind the other.
Bytes(h, tokens) ==
    LET b[k \in 0 .. Len(tokens)] == IF k = 0 THEN <<>> ELSE b[k - 1] \o Encode(h, tokens[k])
    IN  b[Len(tokens)]

\* Thrown before anything of the token is written.
Thrown(token) ==
    IF token.type \in Array /\ Count(token) > MaxArray THEN <<"WrongArray">>
    ELSE IF token.type = Object /\ token.value = <<0>> THEN <<"EmptyObject">>
    ELSE <<>>

Throws(token) == Thrown(token) # <<>>
------------------------------------------------------------------------------
(* is_valid *)

Bad == 0 - 1

At(d, i) == IF i < Len(d) THEN {d[i + 1]} ELSE Garbage

\* Behind the '\0' of the string whose bytes begin at i.
StringEnd(d, i) ==
    IF i > Len(d) THEN i + 1
    ELSE LET zeros == {j \in i .. Len(d) - 1 : d[j + 1] = 0}
         IN  IF zeros = {} THEN Bad ELSE Min(zeros) + 1

\* valid_next_item for the type t found at p, e being itself: the fields of an object
\* are items again.
Behind(e, h, d, p, t) ==
    CASE t \in Number -> {p + 1 + Width[t]}
      [] t = String   -> {StringEnd(d, p + 1)}
      [] t = Object   -> IF p + 2 > Len(d) THEN {Bad} ELSE e[<<p + 2, d[p + 2]>>]
      [] t \in Array  -> IF p + 3 > Len(d) THEN {Bad}
                         ELSE {p + 3 + Front16(h, d, p + 1) * Width[t - 128]}
      [] OTHER        -> {Bad}

\* The type of a field is read before its position is compared with the size, so it
\* may come from behind m_data.
OneMore(e, h, d, p) ==
    IF p = Bad THEN {Bad} ELSE UNION {Behind(e, h, d, p, t) : t \in At(d, p)}

ItemEnds(e, h, d, i, n) ==
    IF n = 0 THEN {i} ELSE UNION {OneMore(e, h, d, p) : p \in e[<<i, n - 1>>]}

\* Where the n items that begin at i may end, Bad if valid_next_item returns false.
Ends(h, d) == LET e[x \in Nat \X Nat] == ItemEnds(e, h, d, x[1], x[2]) IN e

Scanned(s, h, d, i) ==
    IF i >= Len(d) THEN {i}
    ELSE UNION {IF e = Bad THEN {Bad} ELSE s[e] : e \in Ends(h, d)[<<i, 1>>]}

\* Where the loop of is_valid may end.
Scan(h, d) == LET s[i \in Nat] == Scanned(s, h, d, i) IN s

\* Mutation: the last comparison, i != size, is left out.
AcceptsLax(d, e) == e # Bad

\* The answer of is_valid.
Accepts(d, e) == e = Len(d)
------------------------------------------------------------------------------
(* operator>> *)

\* operator bool and next_type.
More(d, i)     == i < Len(d)
NextType(d, i) == IF More(d, i) THEN d[i + 1] ELSE Unknown

Part(d, from, to) == SubSeq(d, from + 1, to)

\* A token with value v that goes up to byte to, if the packet does.
Taken(d, t, v, to) ==
    IF to > Len(d) THEN {} ELSE {[token |-> [type |-> t, value |-> v], next |-> to]}

\* The token at i as the reader takes it, and where it goes on. Nothing if it has
\* to read behind m_data for it.
TokenAt(h, d, i) ==
    LET t == d[i + 1] IN
    CASE t \in Number -> LET to == i + 1 + Width[t]
                         IN  Taken(d, t, FrontOf(h, Part(d, i + 1, to)), to)
      [] t = String   -> LET to == StringEnd(d, i + 1)
                         IN  IF to = Bad THEN {} ELSE Taken(d, t, Part(d, i + 1, to - 1), to)
      [] t = Object   -> Taken(d, t, Part(d, i + 1, i + 2), i + 2)
      [] t \in Array  -> IF i + 3 > Len(d) THEN {}
                         ELSE LET w  == Width[t - 128]
                                  to == i + 3 + Front16(h, d, i + 1) * w
                              IN  Taken(d, t, AllFronted(h, w, Part(d, i + 3, to)), to)
------------------------------------------------------------------------------
(* operator<< to a stream *)

Outside == 0 - 2

\* output_one at p.
ShowOne(s, h, d, p) ==
    CASE NextType(d, p) = Object -> IF p + 2 > Len(d) THEN Outside ELSE s[<<p + 2, d[p + 2]>>]
      [] NextType(d, p) \in Type \ {Object} ->
             IF TokenAt(h, d, p) = {} THEN Outside ELSE (CHOOSE k \in TokenAt(h, d, p) : TRUE).next
      [] OTHER -> Bad

ShowItems(s, h, d, i, n) ==
    IF n = 0 THEN i
    ELSE LET before == s[<<i, n - 1>>]
         IN  IF before \in {Bad, Outside} THEN before ELSE ShowOne(s, h, d, before)

\* Where the n items that begin at i end, as output_one reads them: Bad when it
\* returns false, Outside when it has to read behind m_data.
Shown(h, d) == LET s[x \in Nat \X Nat] == ShowItems(s, h, d, x[1], x[2]) IN s

ShowRest(s, h, d, i) ==
    IF ~ More(d, i) THEN i
    ELSE LET e == Shown(h, d)[<<i, 1>>] IN IF e \in {Bad, Outside} THEN e ELSE s[e]

\* Where the output of the packet ends.
ShownAll(h, d) == LET s[i \in Nat] == ShowRest(s, h, d, i) IN s
------------------------------------------------------------------------------
(* The reference: items in prefix notation. Each token pays one of the items that are *)
(* owed, and the header of an object owes its fields.                                 *)

\* The bytes behind i up to j are one token.
IsToken(d, i, j) ==
    LET t == d[i + 1] IN
    \/ t \in Number /\ j = i + 1 + Width[t]
    \/ t = String /\ j >= i + 2 /\ d[j] = 0 /\ \A k \in i + 2 .. j - 1 : d[k] # 0
    \/ t = Object /\ j = i + 2
    \/ t \in Array /\ j >= i + 3 /\ j = i + 3 + (256 * d[i + 2] + d[i + 3]) * Width[t - 128]

HasToken(d, i) == \E j \in i + 1 .. Len(d) : IsToken(d, i, j)
TokenEnd(d, i) == CHOOSE j \in i + 1 .. Len(d) : IsToken(d, i, j)

\* What is owed behind a token with that many fields. A token that nobody owed begins
\* an item of the packet.
Owed(n, fields) == (IF n = 0 THEN 0 ELSE n - 1) + fields

Fields(d, i)     == IF d[i + 1] = Object THEN d[i + 2] ELSE 0
FieldsOf(token)  == IF token.type = Object THEN token.value[1] ELSE 0

Owing(f, d, i, n) ==
    IF i = Len(d) THEN n
    ELSE IF HasToken(d, i) THEN f[<<TokenEnd(d, i), Owed(n, Fields(d, i))>>] ELSE Bad

\* What is owed at the end of the packet if n items are owed at i; Bad if what lies
\* behind i are not whole tokens.
Left(d) == LET f[x \in Nat \X Nat] == Owing(f, d, x[1], x[2]) IN f

WellFormed(d) == Left(d)[<<0, 0>>] = 0

\* The same for tokens.
LeftOf(n, tokens) ==
    LET f[k \in 0 .. Len(tokens)] == IF k = 0 THEN n ELSE Owed(f[k - 1], FieldsOf(tokens[k]))
    IN  f[Len(tokens)]

\* What the program can hand to operator<<: numbers of their size, strings that end
\* at their '\0', vectors of numbers, objects of as many fields as an UInt8 counts.
Writable(token) ==
    /\ token \in Token
    /\ token.type \in Number => Len(token.value) = Width[token.type]
    /\ token.type = String => \A k \in DOMAIN token.value : token.value[k] # 0
    /\ token.type \in Array => Len(token.value) % Width[token.type - 128] = 0
    /\ token.type = Object => Len(token.value) = 1
=============================================================================

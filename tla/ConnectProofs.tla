---------------------------- MODULE ConnectProofs ----------------------------
(***************************************************************************)
(* Theorems about Connect, for any number of threads, descriptors,         *)
(* addresses and calls: the types of the variables, who frees the lists of *)
(* retrieve_addresses, which descriptor a disconnect closes, that a        *)
(* connected object is usable, and which descriptors are lost.             *)
(***************************************************************************)
EXTENDS Connect, FiniteSetTheorems, SequenceTheorems, WellFoundedInduction, TLAPS

Calls == [found : Seq(Answers), addrs : 0 .. 2, keeper : 0 .. 2,
          frees : Seq(0 .. 2), left : 0 .. MaxAddresses, fd : Fd \cup {-1}]

\* Where a thread walks over the list, has a socket, or is in disconnect.
Walking       == {"address", "bind", "setup", "connect", "select", "publish", "store"}
WithSocket    == Walking \ {"address"}
Disconnecting == {"test", "close", "clear", "cleared"}
Stopped       == \E t \in Thread : pc[t] = "stopped"

\* The locals of a connect during its look-ups.
Looking(c) ==
    /\ c.left = 0 /\ c.addrs = c.keeper /\ c.frees = <<0, 0>>
    /\ \/ c.found = <<>> /\ c.keeper = 0
       \/ c.found = <<"again">> /\ c.keeper = 0
       \/ c.found = <<"found">> /\ c.keeper = 1

\* After them: the keeper owns the list that is walked, and the first list
\* has been freed if the first look-up found one.
Walks(c) ==
    /\ c.addrs = c.keeper
    /\ \/ c.found = <<"found", "found">> /\ c.keeper = 2 /\ c.frees = <<1, 0>>
       \/ c.found = <<"found", "again">> /\ c.keeper = 1 /\ c.frees = <<1, 0>>
       \/ c.found = <<"again", "found">> /\ c.keeper = 2 /\ c.frees = <<0, 0>>
       \/ c.found = <<"again", "again">> /\ c.keeper = 0 /\ c.frees = <<0, 0>>

\* At the end: no list is owned, and the first one was freed twice if the
\* second look-up failed.
Ended(c) ==
    /\ c.addrs = 0 /\ c.keeper = 0 /\ c.left = 0
    /\ \/ c.found = <<>> /\ c.frees = <<0, 0>>
       \/ c.found = <<"found", "found">> /\ c.frees = <<1, 1>>
       \/ c.found = <<"again", "found">> /\ c.frees = <<0, 1>>
       \/ \E a \in Answers \ {"found"} :
            \/ c.found = <<"found", a>> /\ c.frees = <<2, 0>>
            \/ c.found = <<"again", a>> /\ c.frees = <<0, 0>>
            \/ c.found = <<a>> /\ c.frees = <<0, 0>>

\* The lists of a thread at a point, and the addresses left where it has a
\* socket it may give up.
Fits(at, c) ==
    /\ at = "lookup" => Looking(c)
    /\ at \in Walking => Walks(c)
    /\ at \in Disconnecting \cup {"idle"} => Ended(c)
    /\ at \in {"bind", "setup", "connect", "select"} => c.left > 0

ListsInv == \A t \in Thread : Fits(pc[t], call[t])

\* The types of what is not a thread's.
ObjectOK ==
    /\ kind \in {"client", "server"} /\ address \in {"empty", "port", "named"}
    /\ timeout \in {"block", "wait", "bad"}
    /\ connected \in BOOLEAN /\ fd \in Fd \cup {-1} /\ mutex \in Thread \cup {NoThread}
    /\ open \subseteq Fd /\ blocking \subseteq open
    /\ replaced \in Nat /\ abandoned \in Nat /\ raced \in BOOLEAN

HistoryOK == calls \in [Thread -> 0 .. MaxCalls] /\ outcome \in [Thread -> Outcomes]
ThreadsOK == pc \in [Thread -> Points] /\ call \in [Thread -> Calls]

\* A step of t that keeps the type and the lists of its own connect.
Steps(t) ==
    /\ pc' \in [Thread -> Points] /\ call' \in [Thread -> Calls]
    /\ \A u \in Thread \ {t} : pc'[u] = pc[u] /\ call'[u] = call[u]
    /\ Fits(pc'[t], call'[t])
------------------------------------------------------------------------------
\* A sequence of two is the pair of its elements.
LEMMA Pair ==
    ASSUME NEW S, NEW s \in Seq(S), Len(s) = 2
    PROVE  s = <<s[1], s[2]>>
  OBVIOUS

\* A sequence of one.
LEMMA Single ==
    ASSUME NEW S, NEW s \in Seq(S), Len(s) = 1
    PROVE  s = <<s[1]>>
  OBVIOUS

\* The answer of the first look-up, and of the second.
LEMMA AppendAnswer ==
    ASSUME NEW a \in Answers, NEW b \in Answers
    PROVE  /\ Append(<<>>, a) = <<a>> /\ Append(<<a>>, b) = <<a, b>>
           /\ Len(<<>>) = 0 /\ Len(<<a>>) = 1
<1>1. Append(<<>>, a) = <<a>>
  <2> DEFINE s == Append(<<>>, a)
  <2>1. s \in Seq(Answers) /\ Len(s) = 1 /\ s[1] = a
    OBVIOUS
  <2>2. QED
    BY <2>1, Single
<1>2. Append(<<a>>, b) = <<a, b>>
  <2> DEFINE s == Append(<<a>>, b)
  <2>1. s \in Seq(Answers) /\ Len(s) = 2 /\ s[1] = a /\ s[2] = b
    OBVIOUS
  <2>2. QED
    BY <2>1, Pair
<1>3. QED
  BY <1>1, <1>2

\* What the deleters of the keepers do to the counts of the two lists.
LEMMA FreedPair ==
    ASSUME NEW a \in Nat, NEW b \in Nat
    PROVE  /\ Freed(<<a, b>>, 0) = <<a, b>>
           /\ Freed(<<a, b>>, 1) = <<a + 1, b>>
           /\ Freed(<<a, b>>, 2) = <<a, b + 1>>
<1>1. [<<a, b>> EXCEPT ![1] = @ + 1] = <<a + 1, b>>
  <2> DEFINE s == [<<a, b>> EXCEPT ![1] = @ + 1]
  <2>1. s \in Seq(Nat) /\ Len(s) = 2 /\ s[1] = a + 1 /\ s[2] = b
    OBVIOUS
  <2>2. QED
    BY <2>1, Pair
<1>2. [<<a, b>> EXCEPT ![2] = @ + 1] = <<a, b + 1>>
  <2> DEFINE s == [<<a, b>> EXCEPT ![2] = @ + 1]
  <2>1. s \in Seq(Nat) /\ Len(s) = 2 /\ s[1] = a /\ s[2] = b + 1
    OBVIOUS
  <2>2. QED
    BY <2>1, Pair
<1>3. QED
  BY <1>1, <1>2 DEF Freed

\* The counts that occur.
LEMMA FreedCounts ==
    /\ Freed(<<0, 0>>, 0) = <<0, 0>> /\ Freed(<<0, 0>>, 1) = <<1, 0>> /\ Freed(<<0, 0>>, 2) = <<0, 1>>
    /\ Freed(<<1, 0>>, 0) = <<1, 0>> /\ Freed(<<1, 0>>, 1) = <<2, 0>> /\ Freed(<<1, 0>>, 2) = <<1, 1>>
<1>1. /\ Freed(<<0, 0>>, 0) = <<0, 0>> /\ Freed(<<0, 0>>, 1) = <<0 + 1, 0>> /\ Freed(<<0, 0>>, 2) = <<0, 0 + 1>>
      /\ Freed(<<1, 0>>, 0) = <<1, 0>> /\ Freed(<<1, 0>>, 1) = <<1 + 1, 0>> /\ Freed(<<1, 0>>, 2) = <<1, 0 + 1>>
  BY FreedPair
<1>2. QED
  BY <1>1

\* Their type.
LEMMA CountsType ==
    ASSUME NEW f \in {<<0, 0>>, <<1, 0>>, <<2, 0>>, <<0, 1>>, <<1, 1>>}
    PROVE  f \in Seq(0 .. 2)
<1>1. CASE f = <<0, 0>>
  BY <1>1
<1>2. CASE f = <<1, 0>>
  BY <1>2
<1>3. CASE f = <<2, 0>>
  BY <1>3
<1>4. CASE f = <<0, 1>>
  BY <1>4
<1>5. CASE f = <<1, 1>>
  BY <1>5
<1>6. QED
  BY <1>1, <1>2, <1>3, <1>4, <1>5

\* The locals of a connect, field by field.
LEMMA CallsType ==
    ASSUME NEW d, d = [found |-> d.found, addrs |-> d.addrs, keeper |-> d.keeper,
                       frees |-> d.frees, left |-> d.left, fd |-> d.fd],
           d.found \in Seq(Answers), d.addrs \in 0 .. 2, d.keeper \in 0 .. 2,
           d.frees \in Seq(0 .. 2), d.left \in 0 .. MaxAddresses, d.fd \in Fd \cup {-1}
    PROVE  d \in Calls
  BY DEF Calls

\* The locals after one round of retrieve_addresses.
LEMMA LookupEnds ==
    ASSUME NEW c \in Calls, Looking(c), NEW answer \in Answers, NEW n \in 1 .. MaxAddresses
    PROVE  /\ Looked(c, answer, n) \in Calls /\ Looked(c, answer, n).fd = c.fd
           /\ Ends(answer) => Ended(Looked(c, answer, n))
           /\ ~Ends(answer) /\ c.found = <<>> => Looking(Looked(c, answer, n))
           /\ ~Ends(answer) /\ c.found # <<>> => Walks(Looked(c, answer, n))
<1> USE ConnectAssumption
<1>d. PICK d : d = Looked(c, answer, n)
  OBVIOUS
<1> DEFINE try == Len(c.found) + 1
           addrs == IF answer = "found" THEN try ELSE c.addrs
           frees == IF Ends(answer) THEN Freed(Freed(c.frees, addrs), c.keeper)
                    ELSE Freed(c.frees, c.keeper)
<1>0. d = [found |-> d.found, addrs |-> d.addrs, keeper |-> d.keeper,
           frees |-> d.frees, left |-> d.left, fd |-> d.fd]
  BY <1>d DEF Calls, Looked
<1>1. /\ d.found = Append(c.found, answer) /\ d.frees = frees
      /\ d.addrs = IF Ends(answer) THEN 0 ELSE addrs
      /\ d.keeper = IF Ends(answer) THEN 0 ELSE addrs
      /\ d.left = IF d.keeper = 0 \/ try = 1 THEN 0 ELSE n
      /\ d.fd = c.fd /\ c.found \in Seq(Answers) /\ d.fd \in Fd \cup {-1}
  BY <1>d DEF Calls, Looked
<1>a. /\ addrs = IF answer = "found" THEN try ELSE c.addrs
      /\ frees = IF Ends(answer) THEN Freed(Freed(c.frees, addrs), c.keeper)
                 ELSE Freed(c.frees, c.keeper)
      /\ try = Len(c.found) + 1
  OBVIOUS
<1> SUFFICES /\ d \in Calls
             /\ Ends(answer) => Ended(d)
             /\ ~Ends(answer) /\ c.found = <<>> => Looking(d)
             /\ ~Ends(answer) /\ c.found # <<>> => Walks(d)
  BY <1>d, <1>1
<1> HIDE DEF frees, addrs, try
<1>2. /\ c.left = 0 /\ c.addrs = c.keeper /\ c.frees = <<0, 0>>
      /\ \/ c.found = <<>> /\ c.keeper = 0
         \/ c.found = <<"again">> /\ c.keeper = 0
         \/ c.found = <<"found">> /\ c.keeper = 1
  BY DEF Looking
<1>3. "found" \in Answers /\ "again" \in Answers
  BY DEF Answers
<1>4. /\ Append(<<>>, answer) = <<answer>> /\ Len(<<>>) = 0
      /\ Append(<<"again">>, answer) = <<"again", answer>> /\ Len(<<"again">>) = 1
      /\ Append(<<"found">>, answer) = <<"found", answer>> /\ Len(<<"found">>) = 1
  BY <1>3, AppendAnswer
<1>5. \/ c.found = <<>> /\ try = 1 /\ d.found = <<answer>> /\ c.keeper = 0
      \/ c.found = <<"again">> /\ try = 2 /\ d.found = <<"again", answer>> /\ c.keeper = 0
      \/ c.found = <<"found">> /\ try = 2 /\ d.found = <<"found", answer>> /\ c.keeper = 1
  <2>1. CASE c.found = <<>> /\ c.keeper = 0
    BY <1>1, <1>a, <1>4, <2>1
  <2>2. CASE c.found = <<"again">> /\ c.keeper = 0
    BY <1>1, <1>a, <1>4, <2>2
  <2>3. CASE c.found = <<"found">> /\ c.keeper = 1
    BY <1>1, <1>a, <1>4, <2>3
  <2>4. QED
    BY <1>2, <2>1, <2>2, <2>3
<1>6. answer \in {"found", "again", "memory", "unknown"}
  BY DEF Answers
<1>7. addrs \in 0 .. 2
  BY <1>a, <1>2, <1>5
<1>8. frees \in {<<0, 0>>, <<1, 0>>, <<2, 0>>}
      /\ frees = IF c.keeper = 0 THEN <<0, 0>> ELSE IF Ends(answer) THEN <<2, 0>> ELSE <<1, 0>>
  <2>1. Ends(answer) => addrs = c.keeper
    BY <1>a, <1>2 DEF Ends
  <2>2. QED
    BY <1>a, <1>2, <2>1, FreedCounts
<1>9. d \in Calls
  <2>1. d.frees \in Seq(0 .. 2)
    BY <1>1, <1>8, CountsType
  <2>2. d.found \in Seq(Answers)
    BY <1>1
  <2>3. d.left \in 0 .. MaxAddresses
    BY <1>1
  <2>4. d.addrs \in 0 .. 2 /\ d.keeper \in 0 .. 2
    BY <1>1, <1>7
  <2>5. d.fd \in Fd \cup {-1}
    BY <1>1
  <2>6. QED
    BY <1>0, <2>1, <2>2, <2>3, <2>4, <2>5, CallsType
<1>10. CASE Ends(answer)
  <2>1. answer # "found"
    BY <1>10 DEF Ends
  <2>2. Ended(d)
    BY <1>1, <1>5, <1>8, <1>10, <2>1 DEF Ended
  <2>3. QED
    BY <1>1, <1>9, <1>10, <2>2
<1>11. CASE ~Ends(answer) /\ c.found = <<>>
  <2>1. answer \in {"found", "again"}
    BY <1>6, <1>11 DEF Ends
  <2>2. c.keeper = 0 /\ addrs = IF answer = "found" THEN 1 ELSE 0
    BY <1>a, <1>2, <1>5, <1>11
  <2>3. Looking(d)
    BY <1>1, <1>5, <1>8, <1>11, <2>1, <2>2 DEF Looking
  <2>4. QED
    BY <1>1, <1>9, <1>11, <2>3
<1>12. CASE ~Ends(answer) /\ c.found # <<>>
  <2>1. /\ answer \in {"found", "again"} /\ try = 2
        /\ addrs = IF answer = "found" THEN 2 ELSE c.keeper
    BY <1>a, <1>2, <1>5, <1>6, <1>12 DEF Ends
  <2>2. Walks(d)
    BY <1>1, <1>5, <1>8, <1>12, <2>1 DEF Walks
  <2>3. QED
    BY <1>1, <1>9, <1>12, <2>2
<1>13. QED
  BY <1>10, <1>11, <1>12

\* The locals after the end of connect.
LEMMA LeaveEnds ==
    ASSUME NEW c \in Calls, Walks(c)
    PROVE  Over(c) \in Calls /\ Over(c).fd = -1 /\ Ended(Over(c))
<1> USE ConnectAssumption
<1>d. PICK d : d = Over(c)
  OBVIOUS
<1>0. d = [found |-> d.found, addrs |-> d.addrs, keeper |-> d.keeper,
           frees |-> d.frees, left |-> d.left, fd |-> d.fd]
  BY <1>d DEF NoCall, Over
<1>1. /\ d.found = c.found /\ d.frees = Freed(c.frees, c.keeper)
      /\ d.addrs = 0 /\ d.keeper = 0 /\ d.left = 0 /\ d.fd = -1
  BY <1>d DEF NoCall, Over
<1> SUFFICES d \in Calls /\ Ended(d)
  BY <1>d, <1>1
<1>2. /\ Freed(<<0, 0>>, 0) = <<0, 0>> /\ Freed(<<1, 0>>, 1) = <<2, 0>>
      /\ Freed(<<1, 0>>, 2) = <<1, 1>> /\ Freed(<<0, 0>>, 2) = <<0, 1>>
  BY FreedCounts
<1>3. /\ d.frees \in {<<0, 0>>, <<2, 0>>, <<1, 1>>, <<0, 1>>}
      /\ Ended(d)
  BY <1>1, <1>2 DEF Walks, Ended, Answers
<1>4. d \in Calls
  <2>1. d.frees \in Seq(0 .. 2) /\ d.found \in Seq(Answers)
    BY <1>1, <1>3, CountsType DEF Calls
  <2>2. d.addrs \in 0 .. 2 /\ d.keeper \in 0 .. 2 /\ d.left \in 0 .. MaxAddresses /\ d.fd \in Fd \cup {-1}
    BY <1>1
  <2>3. QED
    BY <1>0, <2>1, <2>2, CallsType
<1>5. QED
  BY <1>1, <1>3, <1>4

\* Before the first call, and at the start of one, no list exists.
LEMMA NoCallEnds == NoCall \in Calls /\ NoCall.fd = -1 /\ Looking(NoCall) /\ Ended(NoCall)
<1>1. <<>> \in Seq(Answers)
  OBVIOUS
<1>2. NoCall \in Calls
  BY <1>1, ConnectAssumption, CountsType DEF NoCall, Calls
<1>3. QED
  BY <1>2 DEF NoCall, Looking, Ended
------------------------------------------------------------------------------
\* The kernel gives a free descriptor.
LEMMA LeastFree ==
    ASSUME Free # {}
    PROVE  Min(Free) \in Free
<1> DEFINE S == Free
           R == {ss \in Nat \X Nat : ss[1] < ss[2]}
<1>1. S \subseteq Nat /\ S # {}
  BY ConnectAssumption DEF Free
<1>2. IsWellFoundedOn(R, Nat)
  BY NatLessThanWellFounded DEF OpToRel
<1>3. \A x, y \in S : y < x => <<y, x>> \in R
  BY <1>1
<1> HIDE DEF S, R
<1>4. PICK x \in S : \A y \in S : ~(<<y, x>> \in R)
  BY <1>1, <1>2, WFMin
<1>5. ASSUME NEW y \in S
      PROVE  x =< y
  <2>1. x \in Nat /\ y \in Nat
    BY <1>1
  <2>2. ~(y < x)
    BY <1>3, <1>4
  <2>3. QED
    BY <2>1, <2>2
<1>6. QED
  BY <1>5 DEF Min, S

\* The parts of the type invariant.
LEMMA TypeParts == ConnectTypeOK <=> ObjectOK /\ HistoryOK /\ ThreadsOK
  BY DEF ConnectTypeOK, ObjectOK, HistoryOK, ThreadsOK, Calls

\* What a step of one thread leaves true.
LEMMA StepsKeep ==
    ASSUME ListsInv, NEW t \in Thread, Steps(t)
    PROVE  ThreadsOK' /\ ListsInv'
  BY DEF Steps, ListsInv, ThreadsOK

\* A call of connect.
LEMMA TypeCall ==
    ASSUME ObjectOK, HistoryOK, ThreadsOK, ListsInv, NEW t \in Thread, Call(t)
    PROVE  ObjectOK' /\ HistoryOK' /\ Steps(t)
<1>1. ObjectOK'
  BY DEF Call, ObjectOK, rigidVars, objectVars, kernelVars
<1>2. HistoryOK'
  BY ConnectAssumption DEF Call, HistoryOK, Throw, Set, Outcomes
<1>3. Steps(t)
  BY NoCallEnds DEF Call, Steps, Fits, ThreadsOK, Throw, Set, Points, Walking, Disconnecting
<1>4. QED
  BY <1>1, <1>2, <1>3

\* A round of retrieve_addresses.
LEMMA TypeLookup ==
    ASSUME ObjectOK, HistoryOK, ThreadsOK, ListsInv, NEW t \in Thread, Lookup(t)
    PROVE  ObjectOK' /\ HistoryOK' /\ Steps(t)
<1>1. ObjectOK'
  BY DEF Lookup, ObjectOK, rigidVars, objectVars, kernelVars
<1>2. HistoryOK'
  BY DEF Lookup, HistoryOK, Throw, Set, Outcomes
<1>3. call[t] \in Calls /\ Looking(call[t])
  BY DEF Lookup, ThreadsOK, ListsInv, Fits
<1>4. Steps(t)
  <2>1. PICK answer \in Answers, n \in 1 .. MaxAddresses :
          /\ call' = [call EXCEPT ![t] = Looked(@, answer, n)]
          /\ pc' = [pc EXCEPT ![t] = IF Ends(answer) THEN "idle"
                                     ELSE IF call[t].found = <<>> THEN "lookup" ELSE "address"]
    BY DEF Lookup, Throw, Set, Answers
  <2> DEFINE d == Looked(call[t], answer, n)
  <2>2. /\ d \in Calls
        /\ Ends(answer) => Ended(d)
        /\ ~Ends(answer) /\ call[t].found = <<>> => Looking(d)
        /\ ~Ends(answer) /\ call[t].found # <<>> => Walks(d)
    BY <1>3, LookupEnds
  <2>3. call'[t] = d
    BY <2>1 DEF ThreadsOK
  <2>4. call' \in [Thread -> Calls] /\ \A u \in Thread \ {t} : call'[u] = call[u]
    BY <2>1, <2>2 DEF ThreadsOK
  <2> HIDE DEF d
  <2>5. Fits(pc'[t], d)
    BY <2>1, <2>2 DEF ThreadsOK, Fits, Walking, Disconnecting
  <2>6. pc' \in [Thread -> Points] /\ \A u \in Thread \ {t} : pc'[u] = pc[u]
    BY <2>1 DEF ThreadsOK, Points
  <2>7. QED
    BY <2>3, <2>4, <2>5, <2>6 DEF Steps
<1>5. QED
  BY <1>1, <1>2, <1>4

\* A step on the walk.
LEMMA StepsWalk ==
    ASSUME ThreadsOK, NEW t \in Thread, NEW at \in Walking, NEW d \in Calls,
           pc' = [pc EXCEPT ![t] = at], call' = [call EXCEPT ![t] = d],
           Walks(d), at \in {"bind", "setup", "connect", "select"} => d.left > 0
    PROVE  Steps(t)
  BY DEF ThreadsOK, Steps, Fits, Walking, Disconnecting, Points

\* The end of a connect, whatever it returns or throws.
LEMMA StepsLeave ==
    ASSUME ThreadsOK, NEW t \in Thread, Walks(call[t]),
           Set(t, "idle"), Leave(t)
    PROVE  Steps(t) /\ call'[t].fd = -1
<1>1. Over(call[t]) \in Calls /\ Over(call[t]).fd = -1 /\ Ended(Over(call[t]))
  BY LeaveEnds DEF ThreadsOK
<1>2. QED
  BY <1>1 DEF Leave, ThreadsOK, Steps, Fits, Walking, Disconnecting, Points, Set

\* An address that did not do.
LEMMA StepsNext ==
    ASSUME ThreadsOK, NEW t \in Thread, Walks(call[t]), call[t].left > 0, NextAddress(t)
    PROVE  Steps(t) /\ call'[t].fd = -1
<1> DEFINE d == Passed(call[t])
<1>1. call[t] \in Calls /\ call[t].left - 1 \in 0 .. MaxAddresses
  BY ConnectAssumption DEF ThreadsOK, Calls
<1>2. d \in Calls /\ Walks(d) /\ d.fd = -1
  BY <1>1, ConnectAssumption DEF Passed, Calls, Walks
<1>3. call' = [call EXCEPT ![t] = d] /\ pc' = [pc EXCEPT ![t] = "address"]
  BY DEF NextAddress, Set
<1> HIDE DEF d
<1>4. "address" \in Walking /\ call'[t] = d
  BY <1>3 DEF Walking, ThreadsOK
<1>5. Steps(t) /\ call'[t].fd = -1
  BY <1>2, <1>3, <1>4, StepsWalk
<1>6. QED
  BY <1>2, <1>4, <1>5 DEF d

\* A step that leaves the locals alone.
LEMMA StepsPlain ==
    ASSUME ThreadsOK, ListsInv, NEW t \in Thread, pc[t] \in WithSocket,
           NEW at \in WithSocket, at \in {"bind", "setup", "connect", "select"} => call[t].left > 0,
           Set(t, at), UNCHANGED call
    PROVE  Steps(t)
  BY DEF ThreadsOK, ListsInv, Steps, Fits, Walking, WithSocket, Disconnecting, Points, Set

\* The socket of the next address.
LEMMA TypeSocket ==
    ASSUME ObjectOK, HistoryOK, ThreadsOK, ListsInv, NEW t \in Thread, Socket(t)
    PROVE  ObjectOK' /\ HistoryOK' /\ Steps(t)
<1>1. pc[t] = "address" /\ call[t] \in Calls /\ Walks(call[t]) /\ call[t].left > 0
  BY DEF Socket, ThreadsOK, ListsInv, Fits, Walking
<1>2. HistoryOK'
  BY DEF Socket, HistoryOK, historyVars
<1>3. CASE /\ Free # {}
           /\ call' = [call EXCEPT ![t].fd = Min(Free)]
           /\ open' = open \cup {Min(Free)} /\ blocking' = blocking \cup {Min(Free)}
           /\ Set(t, IF kind = "client" THEN "connect" ELSE "bind")
  <2> DEFINE m == Min(Free)
             d == [call[t] EXCEPT !.fd = m]
             at == IF kind = "client" THEN "connect" ELSE "bind"
  <2>1. m \in Free /\ m \in Fd
    BY <1>3, LeastFree DEF Free
  <2> HIDE DEF m
  <2>2. d \in Calls /\ Walks(d) /\ d.left = call[t].left
    BY <1>1, <2>1 DEF Calls, Walks
  <2>3. call' = [call EXCEPT ![t] = d] /\ pc' = [pc EXCEPT ![t] = at]
    BY <1>3 DEF Set, m
  <2>4. at \in Walking
    BY DEF Walking
  <2> HIDE DEF d, at
  <2>5. Steps(t)
    BY <1>1, <2>2, <2>3, <2>4, StepsWalk
  <2>6. ObjectOK'
    BY <1>3, <2>1 DEF Socket, ObjectOK, rigidVars, objectVars, historyVars, m
  <2>7. QED
    BY <1>2, <2>5, <2>6
<1>4. CASE call' = [call EXCEPT ![t].left = @ - 1] /\ UNCHANGED <<kernelVars, pc>>
  <2> DEFINE d == [call[t] EXCEPT !.left = @ - 1]
  <2>1. call[t].left - 1 \in 0 .. MaxAddresses /\ call[t].fd \in Fd \cup {-1}
    BY <1>1, ConnectAssumption DEF Calls
  <2>2. d \in Calls /\ Walks(d)
    BY <1>1, <2>1 DEF Calls, Walks
  <2>3. call' = [call EXCEPT ![t] = d] /\ pc' = [pc EXCEPT ![t] = "address"]
    BY <1>1, <1>4 DEF ThreadsOK
  <2>4. "address" \in Walking
    BY DEF Walking
  <2> HIDE DEF d
  <2>5. Steps(t)
    BY <2>2, <2>3, <2>4, StepsWalk
  <2>6. ObjectOK'
    BY <1>4 DEF Socket, ObjectOK, rigidVars, objectVars, historyVars, kernelVars
  <2>7. QED
    BY <1>2, <2>5, <2>6
<1>5. QED
  BY <1>3, <1>4 DEF Socket

\* A thread on the walk, and what it may do there.
LEMMA OnWalk ==
    ASSUME ThreadsOK, ListsInv, NEW t \in Thread, pc[t] \in Walking
    PROVE  call[t] \in Calls /\ Walks(call[t]) /\ (pc[t] \in {"bind", "setup", "connect", "select"} => call[t].left > 0)
  BY DEF ThreadsOK, ListsInv, Fits

\* No address is left.
LEMMA TypeExhausted ==
    ASSUME ObjectOK, HistoryOK, ThreadsOK, ListsInv, NEW t \in Thread, Exhausted(t)
    PROVE  ObjectOK' /\ HistoryOK' /\ Steps(t)
<1>1. ObjectOK'
  BY DEF Exhausted, ObjectOK, rigidVars, objectVars, kernelVars
<1>2. HistoryOK'
  BY DEF Exhausted, HistoryOK, Throw, Outcomes
<1>3. Steps(t)
  BY OnWalk, StepsLeave DEF Exhausted, Throw, Walking
<1>4. QED
  BY <1>1, <1>2, <1>3

\* A socket is closed, or set to non-blocking mode.
LEMMA KernelType ==
    ASSUME open \subseteq Fd, blocking \subseteq open, NEW t \in Thread,
           NextAddress(t) \/ NonBlocking(t) \/ UNCHANGED kernelVars
    PROVE  open' \subseteq Fd /\ blocking' \subseteq open'
  BY DEF NextAddress, NonBlocking, kernelVars

\* bind, connect and select: the next address, or on with this one.
LEMMA TypeAttempt ==
    ASSUME ObjectOK, HistoryOK, ThreadsOK, ListsInv, NEW t \in Thread,
           Bind(t) \/ Connecting(t) \/ Select(t)
    PROVE  ObjectOK' /\ HistoryOK' /\ Steps(t)
<1>1. /\ pc[t] \in {"bind", "connect", "select"}
      /\ UNCHANGED <<rigidVars, objectVars, calls, historyVars>>
  BY DEF Bind, Connecting, Select
<1>2. \/ NextAddress(t)
      \/ (Set(t, "setup") \/ Set(t, "publish") \/ Set(t, "select")) /\ UNCHANGED call
  BY DEF Bind, Connecting, Select, Found
<1>3. open' \subseteq Fd /\ blocking' \subseteq open'
  <2>1. NextAddress(t) \/ NonBlocking(t) \/ UNCHANGED kernelVars
    BY DEF Bind, Connecting, Select
  <2>2. QED
    BY <2>1, KernelType DEF ObjectOK
<1>4. ObjectOK'
  BY <1>1, <1>3 DEF ObjectOK, rigidVars, objectVars, historyVars
<1>5. HistoryOK'
  BY <1>1 DEF HistoryOK, historyVars
<1>6. Walks(call[t]) /\ call[t].left > 0 /\ pc[t] \in WithSocket
  BY <1>1, OnWalk DEF Walking, WithSocket
<1>7. Steps(t)
  <2>1. CASE NextAddress(t)
    BY <1>6, <2>1, StepsNext
  <2>2. CASE (Set(t, "setup") \/ Set(t, "publish") \/ Set(t, "select")) /\ UNCHANGED call
    <3>1. {"setup", "publish", "select"} \subseteq WithSocket
      BY DEF WithSocket, Walking
    <3>2. QED
      BY <1>6, <2>2, <3>1, StepsPlain
  <2>3. QED
    BY <1>2, <2>1, <2>2
<1>8. QED
  BY <1>4, <1>5, <1>7

\* The end of the set-up of a server.
LEMMA TypeSetup ==
    ASSUME ObjectOK, HistoryOK, ThreadsOK, ListsInv, NEW t \in Thread, Setup(t)
    PROVE  ObjectOK' /\ HistoryOK' /\ Steps(t)
<1>1. pc[t] = "setup" /\ UNCHANGED <<rigidVars, objectVars, calls, replaced, raced>>
  BY DEF Setup
<1>2. open' \subseteq Fd /\ blocking' \subseteq open'
  <2>1. NonBlocking(t) \/ UNCHANGED kernelVars
    BY DEF Setup
  <2>2. QED
    BY <2>1, KernelType DEF ObjectOK
<1>3. abandoned' \in Nat
  BY DEF Setup, ObjectOK
<1>4. ObjectOK'
  BY <1>1, <1>2, <1>3 DEF ObjectOK, rigidVars, objectVars
<1>5. HistoryOK'
  BY DEF Setup, HistoryOK, Throw, Outcomes
<1>6. Walks(call[t]) /\ pc[t] \in WithSocket /\ "publish" \in WithSocket
  BY <1>1, OnWalk DEF Walking, WithSocket
<1>7. Steps(t)
  <2>1. CASE Found(t)
    BY <1>6, <2>1, StepsPlain DEF Found
  <2>2. CASE Set(t, "idle") /\ Leave(t)
    BY <1>6, <2>2, StepsLeave
  <2>3. QED
    BY <2>1, <2>2 DEF Setup, Throw
<1>8. QED
  BY <1>4, <1>5, <1>7

\* The two assignments of connect.
LEMMA TypePublish ==
    ASSUME ObjectOK, HistoryOK, ThreadsOK, ListsInv, NEW t \in Thread,
           PublishConnected(t) \/ StoreFd(t)
    PROVE  ObjectOK' /\ HistoryOK' /\ Steps(t)
<1>1. CASE PublishConnected(t)
  <2>1. ObjectOK'
    <3>1. raced' \in BOOLEAN
      BY <1>1 DEF PublishConnected, ObjectOK
    <3>2. QED
      BY <1>1, <3>1 DEF PublishConnected, ObjectOK, rigidVars, kernelVars
  <2>2. HistoryOK'
    BY <1>1 DEF PublishConnected, HistoryOK
  <2>3. pc[t] \in WithSocket /\ "store" \in WithSocket /\ Set(t, "store") /\ UNCHANGED call
    BY <1>1 DEF PublishConnected, WithSocket, Walking
  <2>4. QED
    BY <2>1, <2>2, <2>3, StepsPlain
<1>2. CASE StoreFd(t)
  <2>1. Walks(call[t]) /\ call[t] \in Calls
    BY <1>2, OnWalk DEF StoreFd, Walking
  <2>2. ObjectOK'
    BY <1>2, <2>1 DEF StoreFd, ObjectOK, rigidVars, kernelVars, Calls
  <2>3. HistoryOK'
    BY <1>2 DEF StoreFd, HistoryOK, Throw, Outcomes
  <2>4. QED
    BY <1>2, <2>1, <2>2, <2>3, StepsLeave DEF StoreFd, Throw
<1>3. QED
  BY <1>1, <1>2

\* disconnect.
LEMMA TypeDisconnect ==
    ASSUME ObjectOK, HistoryOK, ThreadsOK, ListsInv, NEW t \in Thread,
           \/ Disconnect(t) \/ TestConnected(t) \/ CloseFd(t) \/ ClearFd(t) \/ ClearConnected(t)
    PROVE  ObjectOK' /\ HistoryOK' /\ Steps(t)
<1>1. /\ pc[t] \in Disconnecting \cup {"idle"} /\ UNCHANGED <<rigidVars, call, replaced, abandoned>>
      /\ \E at \in Disconnecting \cup {"idle"} : pc' = [pc EXCEPT ![t] = at]
  BY DEF Disconnect, TestConnected, CloseFd, ClearFd, ClearConnected, Set, Disconnecting, historyVars
<1>2. Ended(call[t])
  BY <1>1 DEF ListsInv, Fits
<1>3. Steps(t)
  BY <1>1, <1>2 DEF Steps, ThreadsOK, Fits, Disconnecting, Walking, Points
<1>4. HistoryOK'
  BY ConnectAssumption DEF HistoryOK, Disconnect, TestConnected, CloseFd, ClearFd, ClearConnected, historyVars
<1>5. raced' \in BOOLEAN /\ connected' \in BOOLEAN
  BY DEF ObjectOK, Disconnect, TestConnected, CloseFd, ClearFd, ClearConnected, historyVars, objectVars
<1>6. fd' \in Fd \cup {-1} /\ mutex' \in Thread \cup {NoThread}
  BY DEF ObjectOK, Disconnect, TestConnected, CloseFd, ClearFd, ClearConnected, objectVars
<1>7. open' \subseteq Fd /\ blocking' \subseteq open'
  BY DEF ObjectOK, Disconnect, TestConnected, CloseFd, ClearFd, ClearConnected, kernelVars
<1>8. ObjectOK'
  BY <1>1, <1>5, <1>6, <1>7 DEF ObjectOK, rigidVars
<1>9. QED
  BY <1>3, <1>4, <1>8

\* The steps of one thread.
Step(t) ==
    \/ Call(t) \/ Lookup(t) \/ Socket(t) \/ Exhausted(t)
    \/ Bind(t) \/ Setup(t) \/ Connecting(t) \/ Select(t)
    \/ PublishConnected(t) \/ StoreFd(t)
    \/ Disconnect(t) \/ TestConnected(t) \/ CloseFd(t) \/ ClearFd(t) \/ ClearConnected(t)

\* They keep the types and the lists.
LEMMA TypeStep ==
    ASSUME ObjectOK, HistoryOK, ThreadsOK, ListsInv, NEW t \in Thread, Step(t)
    PROVE  ObjectOK' /\ HistoryOK' /\ Steps(t)
  BY TypeCall, TypeLookup, TypeSocket, TypeExhausted, TypeAttempt, TypeSetup, TypePublish, TypeDisconnect DEF Step

\* Init, every step and a stutter.
LEMMA TypeInit == Init => ConnectTypeOK /\ ListsInv
<1> SUFFICES ASSUME Init PROVE ConnectTypeOK /\ ListsInv
  OBVIOUS
<1>1. ObjectOK
  BY DEF Init, ObjectOK
<1>2. HistoryOK
  BY ConnectAssumption DEF Init, HistoryOK, Outcomes
<1>3. ThreadsOK /\ ListsInv
  BY NoCallEnds DEF Init, ThreadsOK, Points, ListsInv, Fits, Walking, Disconnecting
<1>4. QED
  BY <1>1, <1>2, <1>3, TypeParts

LEMMA TypeNext == ConnectTypeOK /\ ListsInv /\ [Next]_connectVars => ConnectTypeOK' /\ ListsInv'
<1> SUFFICES ASSUME ConnectTypeOK, ListsInv, [Next]_connectVars
             PROVE  ConnectTypeOK' /\ ListsInv'
  OBVIOUS
<1>1. ObjectOK /\ HistoryOK /\ ThreadsOK
  BY TypeParts
<1>2. ObjectOK' /\ HistoryOK' /\ ThreadsOK' /\ ListsInv'
  <2>1. ASSUME NEW t \in Thread, Step(t)
        PROVE  ObjectOK' /\ HistoryOK' /\ ThreadsOK' /\ ListsInv'
    BY <1>1, <2>1, TypeStep, StepsKeep
  <2>2. ASSUME NEW t \in Thread, Undefined(t)
        PROVE  ObjectOK' /\ HistoryOK' /\ ThreadsOK' /\ ListsInv'
    <3>1. ObjectOK' /\ HistoryOK'
      BY <1>1, <2>2 DEF Undefined, ObjectOK, HistoryOK, rigidVars, objectVars, kernelVars, historyVars
    <3>2. ThreadsOK' /\ ListsInv'
      BY <1>1, <2>2 DEF Undefined, ThreadsOK, Points, ListsInv, Fits, Walking, Disconnecting
    <3>3. QED
      BY <3>1, <3>2
  <2>3. CASE UNCHANGED connectVars
    BY <1>1, <2>3 DEF connectVars, rigidVars, objectVars, kernelVars, historyVars,
                      ObjectOK, HistoryOK, ThreadsOK, ListsInv
  <2>4. Next => \E t \in Thread : Step(t) \/ Undefined(t)
    BY DEF Next, Step
  <2>5. QED
    BY <2>1, <2>2, <2>3, <2>4
<1>3. QED
  BY <1>2, TypeParts, PTL

\* Types of the variables.
THEOREM ConnectTypeCorrect == Spec => []ConnectTypeOK
<1>1. Init => ConnectTypeOK /\ ListsInv
  BY TypeInit
<1>2. ConnectTypeOK /\ ListsInv /\ [Next]_connectVars => ConnectTypeOK' /\ ListsInv'
  BY TypeNext
<1>3. QED
  BY <1>1, <1>2, PTL DEF Spec

\* The table of the lists says what ListsFreed says.
LEMMA ListsTold == ListsInv => ListsFreed
<1> SUFFICES ASSUME ListsInv, NEW t \in Thread
             PROVE  LET c == call[t] IN
                    /\ pc[t] = "idle" => \A l \in DOMAIN c.found :
                         c.frees[l] = IF c.found[l] # "found" THEN 0
                                      ELSE IF l = 1 /\ c.found[Len(c.found)] # "found" THEN 2 ELSE 1
                    /\ pc[t] \in Walking => (Dangling(t) <=> c.found = <<"found", "again">>)
  BY DEF ListsFreed, Walking
<1>1. ASSUME pc[t] = "idle"
      PROVE  \A l \in DOMAIN call[t].found :
               call[t].frees[l] = IF call[t].found[l] # "found" THEN 0
                                  ELSE IF l = 1 /\ call[t].found[Len(call[t].found)] # "found" THEN 2 ELSE 1
  <2>1. Ended(call[t])
    BY <1>1 DEF ListsInv, Fits
  <2>2. CASE call[t].found = <<>>
    BY <2>2
  <2>3. CASE call[t].found = <<"found", "found">> /\ call[t].frees = <<1, 1>>
    BY <2>3
  <2>4. CASE call[t].found = <<"again", "found">> /\ call[t].frees = <<0, 1>>
    BY <2>4
  <2>5. ASSUME NEW a \in Answers \ {"found"}, call[t].found = <<"found", a>>, call[t].frees = <<2, 0>>
        PROVE  \A l \in DOMAIN call[t].found :
               call[t].frees[l] = IF call[t].found[l] # "found" THEN 0
                                  ELSE IF l = 1 /\ call[t].found[Len(call[t].found)] # "found" THEN 2 ELSE 1
    BY <2>5
  <2>6. ASSUME NEW a \in Answers \ {"found"}, call[t].found = <<"again", a>>, call[t].frees = <<0, 0>>
        PROVE  \A l \in DOMAIN call[t].found :
               call[t].frees[l] = IF call[t].found[l] # "found" THEN 0
                                  ELSE IF l = 1 /\ call[t].found[Len(call[t].found)] # "found" THEN 2 ELSE 1
    BY <2>6
  <2>7. ASSUME NEW a \in Answers \ {"found"}, call[t].found = <<a>>, call[t].frees = <<0, 0>>
        PROVE  \A l \in DOMAIN call[t].found :
               call[t].frees[l] = IF call[t].found[l] # "found" THEN 0
                                  ELSE IF l = 1 /\ call[t].found[Len(call[t].found)] # "found" THEN 2 ELSE 1
    BY <2>7
  <2>8. QED
    BY <2>1, <2>2, <2>3, <2>4, <2>5, <2>6, <2>7 DEF Ended
<1>2. ASSUME pc[t] \in Walking
      PROVE  Dangling(t) <=> call[t].found = <<"found", "again">>
  <2>1. Walks(call[t])
    BY <1>2 DEF ListsInv, Fits
  <2>2. /\ <<"found", "found">> # <<"found", "again">>
        /\ <<"again", "found">> # <<"found", "again">>
        /\ <<"again", "again">> # <<"found", "again">>
    OBVIOUS
  <2>3. QED
    BY <2>1, <2>2 DEF Walks, Dangling
<1>3. QED
  BY <1>1, <1>2

\* The lists of retrieve_addresses are freed once each, but for the first one
\* when the second look-up fails, and only then connect walks over a freed one.
THEOREM ListsFreedRight == Spec => []ListsFreed
<1>1. Init => ConnectTypeOK /\ ListsInv
  BY TypeInit
<1>2. ConnectTypeOK /\ ListsInv /\ [Next]_connectVars => ConnectTypeOK' /\ ListsInv'
  BY TypeNext
<1>3. ListsInv => ListsFreed
  BY ListsTold
<1>4. QED
  BY <1>1, <1>2, <1>3, PTL DEF Spec
------------------------------------------------------------------------------
\* What the steps do to the descriptors, the locals of a connect apart.

\* A connect that has no socket and gets none.
Rests(t) ==
    /\ pc[t] \in {"idle", "lookup", "address"} /\ pc'[t] \in {"idle", "lookup", "address"}
    /\ call'[t].fd \in {call[t].fd, -1}
    /\ UNCHANGED <<rigidVars, objectVars, kernelVars, replaced, abandoned, raced>>

\* It gets one.
Opens(t) ==
    /\ pc[t] = "address" /\ pc'[t] = IF kind = "client" THEN "connect" ELSE "bind"
    /\ call'[t].fd \in Free
    /\ open' = open \cup {call'[t].fd} /\ blocking' = blocking \cup {call'[t].fd}
    /\ UNCHANGED <<rigidVars, objectVars, replaced, abandoned, raced>>

\* It closes it and passes to the next address.
Passes(t) ==
    /\ pc[t] \in {"bind", "connect", "select"} /\ pc'[t] = "address"
    /\ call'[t].fd = -1
    /\ open' = open \ {call[t].fd} /\ blocking' = blocking \ {call[t].fd}
    /\ UNCHANGED <<rigidVars, objectVars, replaced, abandoned, raced>>

\* It goes on with it.
Advances(t) ==
    /\ \/ pc[t] = "bind" /\ pc'[t] = "setup"
       \/ pc[t] = "connect" /\ timeout # "block" /\ pc'[t] = "select" /\ NonBlocking(t)
       \/ pc[t] = "connect" /\ timeout = "block" /\ pc'[t] = "publish"
       \/ pc[t] \in {"setup", "connect"} /\ pc'[t] = "publish" /\ NonBlocking(t)
       \/ pc[t] = "select" /\ pc'[t] = "publish"
    /\ call'[t] = call[t] /\ open' = open
    /\ blocking' = blocking \/ blocking' = blocking \ {call[t].fd}
    /\ UNCHANGED <<rigidVars, objectVars, replaced, abandoned, raced>>

\* A server's throws and leaves it open.
Abandons(t) ==
    /\ pc[t] = "setup" /\ pc'[t] = "idle"
    /\ call'[t].fd = -1 /\ open' = open
    /\ blocking' = blocking \/ blocking' = blocking \ {call[t].fd}
    /\ abandoned' = abandoned + 1
    /\ UNCHANGED <<rigidVars, objectVars, replaced, raced>>

\* The first assignment at the end of connect, and the second.
Publishes(t) ==
    /\ pc[t] = "publish" /\ pc'[t] = "store" /\ connected' = TRUE
    /\ raced' = (raced \/ ~Alone(t)) /\ call'[t] = call[t]
    /\ UNCHANGED <<rigidVars, fd, mutex, kernelVars, replaced, abandoned>>

Stores(t) ==
    /\ pc[t] = "store" /\ pc'[t] = "idle"
    /\ fd' = call[t].fd /\ call'[t].fd = -1
    /\ replaced' = replaced + (IF fd = -1 THEN 0 ELSE 1)
    /\ UNCHANGED <<rigidVars, connected, mutex, kernelVars, abandoned, raced>>

Disconnects(t) ==
    \/ Disconnect(t) \/ TestConnected(t) \/ CloseFd(t) \/ ClearFd(t) \/ ClearConnected(t)

\* Every step of a thread is one of these.
LEMMA StepKinds ==
    ASSUME ObjectOK, HistoryOK, ThreadsOK, ListsInv, NEW t \in Thread, Step(t)
    PROVE  \/ Rests(t) \/ Opens(t) \/ Passes(t) \/ Advances(t) \/ Abandons(t)
           \/ Publishes(t) \/ Stores(t) \/ Disconnects(t)
<1> USE DEF ThreadsOK
<1>1. ASSUME Call(t) PROVE Rests(t)
  BY <1>1, NoCallEnds DEF Call, Rests, Set, Throw
<1>2. ASSUME Lookup(t) PROVE Rests(t)
  <2>1. pc[t] = "lookup" /\ Looking(call[t])
    BY <1>2 DEF Lookup, ListsInv, Fits
  <2>2. PICK answer \in Answers, n \in 1 .. MaxAddresses :
          /\ call' = [call EXCEPT ![t] = Looked(@, answer, n)]
          /\ pc' = [pc EXCEPT ![t] = IF Ends(answer) THEN "idle"
                                     ELSE IF call[t].found = <<>> THEN "lookup" ELSE "address"]
    BY <1>2 DEF Lookup, Throw, Set, Answers
  <2>3. Looked(call[t], answer, n).fd = call[t].fd
    BY <2>1, LookupEnds
  <2>4. call'[t].fd = call[t].fd /\ pc'[t] \in {"idle", "lookup", "address"}
    BY <2>2, <2>3
  <2>5. QED
    BY <1>2, <2>1, <2>4 DEF Lookup, Rests
<1>3. ASSUME Socket(t) PROVE Rests(t) \/ Opens(t)
  <2>1. pc[t] = "address" /\ UNCHANGED <<rigidVars, objectVars, replaced, abandoned, raced>>
    BY <1>3 DEF Socket, historyVars
  <2>2. CASE /\ Free # {}
             /\ call' = [call EXCEPT ![t].fd = Min(Free)]
             /\ open' = open \cup {Min(Free)} /\ blocking' = blocking \cup {Min(Free)}
             /\ Set(t, IF kind = "client" THEN "connect" ELSE "bind")
    <3>1. Min(Free) \in Free
      BY <2>2, LeastFree
    <3> DEFINE m == Min(Free)
    <3>2. call' = [call EXCEPT ![t].fd = m] /\ open' = open \cup {m} /\ blocking' = blocking \cup {m} /\ m \in Free
      BY <2>2, <3>1
    <3> HIDE DEF m
    <3>3. call'[t].fd = m
      BY <3>2 DEF Calls
    <3>4. QED
      BY <2>1, <2>2, <3>2, <3>3 DEF Opens, Set
  <2>3. CASE call' = [call EXCEPT ![t].left = @ - 1] /\ UNCHANGED <<kernelVars, pc>>
    <3>1. call'[t].fd = call[t].fd
      BY <2>3 DEF Calls
    <3>2. QED
      BY <2>1, <2>3, <3>1 DEF Rests
  <2>4. QED
    BY <1>3, <2>2, <2>3 DEF Socket
<1>4. ASSUME Exhausted(t) PROVE Rests(t)
  BY <1>4, OnWalk, StepsLeave DEF Exhausted, Rests, Throw, Set, Walking
<1>5. ASSUME NextAddress(t), pc[t] \in {"bind", "connect", "select"},
             UNCHANGED <<rigidVars, objectVars, calls, historyVars>>
      PROVE  Passes(t)
  <2>1. Walks(call[t]) /\ call[t].left > 0
    BY <1>5, OnWalk DEF Walking
  <2>2. call'[t].fd = -1
    BY <1>5, <2>1, StepsNext
  <2>3. QED
    BY <1>5, <2>2 DEF NextAddress, Passes, Set, historyVars
<1>6. ASSUME Bind(t) \/ Connecting(t) \/ Select(t) PROVE Passes(t) \/ Advances(t)
  <2>1. /\ pc[t] \in {"bind", "connect", "select"}
        /\ UNCHANGED <<rigidVars, objectVars, calls, historyVars>>
    BY <1>6 DEF Bind, Connecting, Select
  <2>2. CASE NextAddress(t)
    BY <1>5, <2>1, <2>2
  <2>3. CASE ~NextAddress(t)
    BY <1>6, <2>1, <2>3 DEF Bind, Connecting, Select, Advances, Found, NonBlocking, Set, kernelVars, historyVars
  <2>4. QED
    BY <2>2, <2>3
<1>7. ASSUME Setup(t) PROVE Advances(t) \/ Abandons(t)
  <2>1. pc[t] = "setup" /\ UNCHANGED <<rigidVars, objectVars, calls, replaced, raced>>
    BY <1>7 DEF Setup
  <2>2. CASE Found(t) /\ NonBlocking(t) /\ UNCHANGED <<outcome, abandoned>>
    BY <2>1, <2>2 DEF Advances, Found, NonBlocking, Set
  <2>3. CASE /\ Set(t, "idle") /\ (NonBlocking(t) \/ UNCHANGED kernelVars)
             /\ Leave(t) /\ abandoned' = abandoned + 1
    <3>1. call'[t].fd = -1
      BY <2>1, <2>3, OnWalk, StepsLeave DEF Walking
    <3>2. QED
      BY <2>1, <2>3, <3>1 DEF Abandons, NonBlocking, Set, kernelVars
  <2>4. QED
    BY <1>7, <2>2, <2>3 DEF Setup, Throw
<1>8. ASSUME PublishConnected(t) PROVE Publishes(t)
  BY <1>8 DEF PublishConnected, Publishes, Set
<1>9. ASSUME StoreFd(t) PROVE Stores(t)
  <2>1. call'[t].fd = -1
    BY <1>9, OnWalk, StepsLeave DEF StoreFd, Throw, Walking
  <2>2. QED
    BY <1>9, <2>1 DEF StoreFd, Stores, Throw, Set
<1>10. QED
  BY <1>1, <1>2, <1>3, <1>4, <1>6, <1>7, <1>8, <1>9 DEF Step, Disconnects
------------------------------------------------------------------------------
\* m_mutex is held in disconnect, the connects have different sockets, which
\* are open, and m_fd, unless it is being closed, is open and another one.
Whole     == (\A t \in Thread : pc[t] # "clear") /\ fd # -1
MutexInv  == \A t \in Thread : mutex = t <=> pc[t] \in Disconnecting
SocketInv == \A t \in Thread : IF pc[t] \in WithSocket THEN call[t].fd \in open ELSE call[t].fd = -1
ApartInv  == \A t, u \in Thread : t # u /\ call[t].fd # -1 => call[t].fd # call[u].fd
OwnInv    == Whole => fd \in open /\ \A t \in Thread : call[t].fd # fd

DescriptorInv ==
    /\ Stopped => \A t \in Thread : pc[t] = "stopped"
    /\ ~Stopped => MutexInv /\ SocketInv /\ ApartInv /\ OwnInv

\* Before a step no thread has stopped, and none has after it.
LEMMA Going ==
    ASSUME DescriptorInv, NEW t \in Thread, Steps(t), pc[t] # "stopped", pc'[t] # "stopped"
    PROVE  /\ ~Stopped /\ ~Stopped'
           /\ MutexInv /\ SocketInv /\ ApartInv /\ OwnInv
  BY DEF DescriptorInv, Stopped, Steps

\* A closed number is none of the others', and -1 is no open one.
LEMMA OpenNumbers ==
    ASSUME ObjectOK, SocketInv, ApartInv, OwnInv
    PROVE  /\ -1 \notin open
           /\ \A t \in Thread : pc[t] \in WithSocket => call[t].fd \in open /\ call[t].fd # -1
           /\ \A t \in Thread : pc[t] \notin WithSocket => call[t].fd = -1
<1>1. -1 \notin open
  BY ConnectAssumption DEF ObjectOK
<1>2. QED
  BY <1>1 DEF SocketInv

\* The steps of a connect that opens, keeps or closes its own socket.
LEMMA SocketSteps ==
    ASSUME ObjectOK, ThreadsOK, NEW t \in Thread, Steps(t),
           MutexInv, SocketInv, ApartInv, OwnInv,
           \/ Rests(t) \/ Opens(t) \/ Passes(t) \/ Advances(t) \/ Abandons(t) \/ Publishes(t)
    PROVE  MutexInv' /\ SocketInv' /\ ApartInv' /\ OwnInv'
<1> USE DEF Steps, ThreadsOK
<1>0. /\ -1 \notin open
      /\ \A u \in Thread : pc[u] \in WithSocket => call[u].fd \in open /\ call[u].fd # -1
      /\ \A u \in Thread : pc[u] \notin WithSocket => call[u].fd = -1
  BY OpenNumbers
<1>1. /\ pc[t] \notin Disconnecting /\ pc'[t] \notin Disconnecting /\ UNCHANGED <<fd, mutex>>
      /\ pc[t] # "clear" /\ pc'[t] # "clear"
  BY DEF Rests, Opens, Passes, Advances, Abandons, Publishes, objectVars, Disconnecting
<1>2. MutexInv'
  BY <1>1 DEF MutexInv
<1>3. Whole' => Whole
  BY <1>1 DEF Whole
<1>4. CASE Rests(t)
  <2>1. call'[t].fd = -1 /\ pc'[t] \notin WithSocket /\ open' = open /\ call[t].fd = -1
    BY <1>0, <1>4 DEF Rests, WithSocket, Walking, kernelVars
  <2>2. SocketInv'
    BY <2>1 DEF SocketInv
  <2>3. ApartInv' /\ OwnInv'
    BY <1>1, <1>3, <2>1 DEF ApartInv, OwnInv, Whole
  <2>4. QED
    BY <1>2, <2>2, <2>3
<1>5. CASE Opens(t)
  <2>1. /\ call'[t].fd \notin open /\ open' = open \cup {call'[t].fd}
        /\ pc'[t] \in WithSocket
    BY <1>5 DEF Opens, Free, WithSocket, Walking
  <2>2. SocketInv'
    BY <2>1 DEF SocketInv
  <2>3. \A u \in Thread \ {t} : call'[u] = call[u] /\ (call[u].fd = -1 \/ call[u].fd \in open)
    BY <1>0
  <2>4. call'[t].fd # -1
    BY <1>5, ConnectAssumption DEF Opens, Free
  <2>5. ApartInv'
    BY <2>1, <2>3, <2>4 DEF ApartInv
  <2>6. OwnInv'
    BY <1>1, <1>3, <2>1 DEF OwnInv, Whole
  <2>7. QED
    BY <1>2, <2>2, <2>5, <2>6
<1>6. CASE Passes(t)
  <2>1. /\ pc[t] \in WithSocket /\ pc'[t] \notin WithSocket
        /\ call'[t].fd = -1 /\ open' = open \ {call[t].fd}
    BY <1>6 DEF Passes, WithSocket, Walking
  <2>2. call[t].fd # -1 /\ \A u \in Thread \ {t} : call[u].fd # call[t].fd
    BY <1>0, <2>1 DEF ApartInv
  <2>3. SocketInv'
    BY <2>1, <2>2 DEF SocketInv
  <2>4. ApartInv'
    BY <2>1 DEF ApartInv
  <2>5. OwnInv'
    BY <1>1, <1>3, <2>1 DEF OwnInv, Whole
  <2>6. QED
    BY <1>2, <2>3, <2>4, <2>5
<1>7. CASE Advances(t) \/ Publishes(t)
  <2>1. /\ pc[t] \in WithSocket /\ pc'[t] \in WithSocket
        /\ call'[t] = call[t] /\ open' = open
    BY <1>7 DEF Advances, Publishes, WithSocket, Walking, kernelVars
  <2>2. SocketInv'
    BY <2>1 DEF SocketInv
  <2>3. ApartInv' /\ OwnInv'
    BY <1>1, <1>3, <2>1 DEF ApartInv, OwnInv, Whole
  <2>4. QED
    BY <1>2, <2>2, <2>3
<1>8. CASE Abandons(t)
  <2>1. pc'[t] \notin WithSocket /\ call'[t].fd = -1 /\ open' = open
    BY <1>8 DEF Abandons, WithSocket, Walking
  <2>2. SocketInv'
    BY <2>1 DEF SocketInv
  <2>3. ApartInv'
    BY <2>1 DEF ApartInv
  <2>4. OwnInv'
    BY <1>0, <1>1, <1>3, <2>1 DEF OwnInv, Whole
  <2>5. QED
    BY <1>2, <2>2, <2>3, <2>4
<1>9. QED
  BY <1>4, <1>5, <1>6, <1>7, <1>8

\* The object takes the socket of the connect.
LEMMA StoreSteps ==
    ASSUME ObjectOK, ThreadsOK, NEW t \in Thread, Steps(t),
           MutexInv, SocketInv, ApartInv, OwnInv, Stores(t)
    PROVE  MutexInv' /\ SocketInv' /\ ApartInv' /\ OwnInv'
<1> USE DEF Steps, ThreadsOK
<1>1. /\ pc[t] \in WithSocket /\ pc'[t] \notin WithSocket
      /\ pc[t] \notin Disconnecting /\ pc'[t] \notin Disconnecting
      /\ call'[t].fd = -1 /\ open' = open /\ mutex' = mutex /\ fd' = call[t].fd
  BY DEF Stores, WithSocket, Walking, Disconnecting, kernelVars
<1>2. call[t].fd # -1 /\ call[t].fd \in open
  BY <1>1, OpenNumbers
<1>3. MutexInv'
  BY <1>1 DEF MutexInv
<1>4. SocketInv'
  BY <1>1 DEF SocketInv
<1>5. ApartInv'
  BY <1>1 DEF ApartInv
<1>6. OwnInv'
  BY <1>1, <1>2 DEF OwnInv, ApartInv, Whole
<1>7. QED
  BY <1>3, <1>4, <1>5, <1>6

\* Who is in disconnect is there alone, so that what it closes is its own.
LEMMA ClosingOwn ==
    ASSUME ObjectOK, NEW t \in Thread, MutexInv, OwnInv, pc[t] = "close", fd # -1
    PROVE  fd \in open /\ \A u \in Thread : call[u].fd # fd
<1>1. \A u \in Thread : pc[u] # "clear"
  BY DEF MutexInv, Disconnecting
<1>2. QED
  BY <1>1 DEF OwnInv, Whole

\* The steps of disconnect.
LEMMA DisconnectSteps ==
    ASSUME ObjectOK, ThreadsOK, NEW t \in Thread, Steps(t),
           MutexInv, SocketInv, ApartInv, OwnInv, Disconnects(t)
    PROVE  MutexInv' /\ SocketInv' /\ ApartInv' /\ OwnInv'
<1> USE DEF Steps, ThreadsOK
<1>1. /\ call' = call /\ pc[t] \notin WithSocket /\ pc'[t] \notin WithSocket
  BY DEF Disconnects, Disconnect, TestConnected, CloseFd, ClearFd, ClearConnected, Set, WithSocket, Walking
<1>2. MutexInv'
  <2>1. \/ mutex = NoThread /\ mutex' = t /\ pc[t] \notin Disconnecting /\ pc'[t] \in Disconnecting
        \/ mutex' = mutex /\ pc[t] \in Disconnecting /\ pc'[t] \in Disconnecting
        \/ mutex' = NoThread /\ pc[t] \in Disconnecting /\ pc'[t] \notin Disconnecting
    BY DEF Disconnects, Disconnect, TestConnected, CloseFd, ClearFd, ClearConnected, Set, Disconnecting, objectVars
  <2>2. \A u \in Thread : u # NoThread
    BY ConnectAssumption
  <2>3. CASE mutex = NoThread /\ mutex' = t /\ pc[t] \notin Disconnecting /\ pc'[t] \in Disconnecting
    BY <2>2, <2>3 DEF MutexInv
  <2>4. CASE mutex' = mutex /\ pc[t] \in Disconnecting /\ pc'[t] \in Disconnecting
    BY <2>4 DEF MutexInv
  <2>5. CASE mutex' = NoThread /\ pc[t] \in Disconnecting /\ pc'[t] \notin Disconnecting
    BY <2>2, <2>5 DEF MutexInv
  <2>6. QED
    BY <2>1, <2>3, <2>4, <2>5
<1>3. ApartInv'
  BY <1>1 DEF ApartInv
<1>4. CASE CloseFd(t)
  <2>1. pc[t] = "close" /\ pc'[t] = "clear" /\ open' = open \ {fd}
    BY <1>4 DEF CloseFd, Set
  <2>2. OwnInv'
    BY <2>1 DEF OwnInv, Whole
  <2>3. \A u \in Thread : pc[u] \in WithSocket => call[u].fd \in open /\ call[u].fd # fd
    BY <2>1, ClosingOwn, OpenNumbers
  <2>4. SocketInv'
    BY <1>1, <2>1, <2>3 DEF SocketInv
  <2>5. QED
    BY <1>2, <1>3, <2>2, <2>4
<1>5. CASE ~CloseFd(t)
  <2>1. open' = open
    BY <1>5 DEF Disconnects, Disconnect, TestConnected, ClearFd, ClearConnected, kernelVars
  <2>2. SocketInv'
    BY <1>1, <2>1 DEF SocketInv
  <2>3. Whole' => Whole /\ fd' = fd
    BY <1>5 DEF Disconnects, Disconnect, TestConnected, ClearFd, ClearConnected, Set, Whole, objectVars
  <2>4. OwnInv'
    BY <1>1, <2>1, <2>3 DEF OwnInv
  <2>5. QED
    BY <1>2, <1>3, <2>2, <2>4
<1>6. QED
  BY <1>4, <1>5

\* Where a step goes from, and where to.
LEMMA StepPoints ==
    ASSUME ThreadsOK, NEW t \in Thread, Steps(t),
           \/ Rests(t) \/ Opens(t) \/ Passes(t) \/ Advances(t) \/ Abandons(t)
           \/ Publishes(t) \/ Stores(t) \/ Disconnects(t)
    PROVE  pc[t] # "stopped" /\ pc'[t] # "stopped"
<1>1. ASSUME Disconnects(t) PROVE pc[t] # "stopped" /\ pc'[t] # "stopped"
  BY <1>1 DEF Disconnects, Disconnect, TestConnected, CloseFd, ClearFd, ClearConnected, Set, ThreadsOK
<1>2. QED
  BY <1>1 DEF Rests, Opens, Passes, Advances, Abandons, Publishes, Stores

\* A step of a thread keeps the descriptors in order.
LEMMA DescriptorStep ==
    ASSUME ObjectOK, HistoryOK, ThreadsOK, ListsInv, DescriptorInv, NEW t \in Thread, Step(t)
    PROVE  /\ DescriptorInv' /\ Steps(t) /\ ~Stopped /\ ~Stopped'
           /\ MutexInv /\ SocketInv /\ ApartInv /\ OwnInv
           /\ MutexInv' /\ SocketInv' /\ ApartInv' /\ OwnInv'
<1>1. Steps(t)
  BY TypeStep
<1>2. \/ Rests(t) \/ Opens(t) \/ Passes(t) \/ Advances(t) \/ Abandons(t)
      \/ Publishes(t) \/ Stores(t) \/ Disconnects(t)
  BY StepKinds
<1>3. /\ ~Stopped /\ ~Stopped'
      /\ MutexInv /\ SocketInv /\ ApartInv /\ OwnInv
  BY <1>1, <1>2, StepPoints, Going
<1>4. MutexInv' /\ SocketInv' /\ ApartInv' /\ OwnInv'
  BY <1>1, <1>2, <1>3, SocketSteps, StoreSteps, DisconnectSteps
<1>5. QED
  BY <1>1, <1>3, <1>4 DEF DescriptorInv

\* The process that a freed list ends.
LEMMA DescriptorUndefined ==
    ASSUME NEW t \in Thread, Undefined(t)
    PROVE  DescriptorInv' /\ Stopped'
  BY DEF Undefined, DescriptorInv, Stopped

LEMMA DescriptorInit == Init => DescriptorInv
<1> SUFFICES ASSUME Init PROVE DescriptorInv
  OBVIOUS
<1>1. \A t \in Thread : pc[t] = "idle" /\ call[t].fd = -1 /\ t # NoThread
  BY ConnectAssumption DEF Init, NoCall
<1>2. QED
  BY <1>1 DEF Init, DescriptorInv, Stopped, MutexInv, SocketInv, ApartInv, OwnInv, Whole,
              Disconnecting, WithSocket, Walking

LEMMA DescriptorNext ==
    ConnectTypeOK /\ ListsInv /\ DescriptorInv /\ [Next]_connectVars => DescriptorInv'
<1> SUFFICES ASSUME ConnectTypeOK, ListsInv, DescriptorInv, [Next]_connectVars
             PROVE  DescriptorInv'
  OBVIOUS
<1>1. ObjectOK /\ HistoryOK /\ ThreadsOK
  BY TypeParts
<1>2. CASE UNCHANGED connectVars
  BY <1>2 DEF connectVars, objectVars, kernelVars, DescriptorInv, Stopped,
              MutexInv, SocketInv, ApartInv, OwnInv, Whole
<1>3. Next => \E t \in Thread : Step(t) \/ Undefined(t)
  BY DEF Next, Step
<1>4. QED
  BY <1>1, <1>2, <1>3, DescriptorStep, DescriptorUndefined

\* Also when connect and disconnect race, a disconnect closes what the object
\* held, and never the number of a socket another thread is connecting.
THEOREM OwnClosed == Spec => []ClosesOwn
<1>1. Init => ConnectTypeOK /\ ListsInv /\ DescriptorInv
  BY TypeInit, DescriptorInit
<1>2. ConnectTypeOK /\ ListsInv /\ DescriptorInv /\ [Next]_connectVars
      => ConnectTypeOK' /\ ListsInv' /\ DescriptorInv'
  BY TypeNext, DescriptorNext
<1>3. ConnectTypeOK /\ DescriptorInv => ClosesOwn
  <2> SUFFICES ASSUME ConnectTypeOK, DescriptorInv, NEW t \in Thread, pc[t] = "close", fd # -1
               PROVE  fd \in open /\ \A u \in Thread : call[u].fd # fd
    BY DEF ClosesOwn
  <2>1. ~Stopped
    BY DEF DescriptorInv
  <2>2. ObjectOK
    BY TypeParts
  <2>3. QED
    BY <2>1, <2>2, ClosingOwn DEF DescriptorInv
<1>4. QED
  BY <1>1, <1>2, <1>3, PTL DEF Spec
------------------------------------------------------------------------------
\* Only a client without a time limit may end with a blocking descriptor.
Good(d) == d \in blocking => kind = "client" /\ timeout = "block"

\* Which connect comes to which point.
KindInv ==
    /\ \A t \in Thread : pc[t] \in {"connect", "select"} => kind = "client"
    /\ \A t \in Thread : pc[t] = "select" => call[t].fd \notin blocking

\* The mode of the descriptors that the object has or is about to get.
ModeInv ==
    /\ \A t \in Thread : pc[t] \in {"publish", "store"} => Good(call[t].fd)
    /\ Whole => Good(fd)

\* m_connected and m_fd agree but for one thread that is between the two.
PairInv ==
    /\ \A t \in Thread : pc[t] = "store" => Alone(t)
    /\ \A t \in Thread : pc[t] \in {"store", "close", "clear", "cleared"} => connected
    /\ \A t \in Thread : pc[t] \in {"close", "clear"} => fd # -1
    /\ \A t \in Thread : pc[t] = "cleared" => fd = -1
    /\ connected => fd # -1 \/ \E t \in Thread : pc[t] \in {"store", "cleared"}
    /\ ~connected => fd = -1

UsableInv == ~Stopped => KindInv /\ ModeInv /\ (~raced => PairInv)

\* The points between the statements that change the object.
LEMMA InsidePoints == \A t \in Thread : Inside(t) <=> pc[t] \in Disconnecting \cup {"store"}
  BY DEF Inside, Disconnecting

\* Two threads are never both in disconnect.
LEMMA OneDisconnects ==
    ASSUME MutexInv, NEW t \in Thread, NEW u \in Thread, pc[t] \in Disconnecting, pc[u] \in Disconnecting
    PROVE  t = u
  BY DEF MutexInv

\* Modes: the steps of a connect.
LEMMA ModeSteps ==
    ASSUME ObjectOK, ThreadsOK, NEW t \in Thread, Steps(t),
           MutexInv, SocketInv, ApartInv, OwnInv, KindInv, ModeInv,
           \/ Rests(t) \/ Opens(t) \/ Passes(t) \/ Advances(t) \/ Abandons(t) \/ Publishes(t) \/ Stores(t)
    PROVE  KindInv' /\ ModeInv'
<1> USE DEF Steps, ThreadsOK
<1>0. /\ -1 \notin open /\ -1 \notin blocking /\ blocking \subseteq open
      /\ \A u \in Thread : pc[u] \in WithSocket => call[u].fd \in open /\ call[u].fd # -1
      /\ kind' = kind /\ timeout' = timeout
  BY OpenNumbers DEF ObjectOK, Rests, Opens, Passes, Advances, Abandons, Publishes, Stores, rigidVars
<1>1. blocking' \subseteq blocking \/ Opens(t)
  BY DEF Rests, Passes, Advances, Abandons, Publishes, Stores, kernelVars
<1>2. \A d \in open \cup {-1} : d \in blocking' => d \in blocking
  <2>1. CASE Opens(t)
    <3>1. call'[t].fd \notin open /\ call'[t].fd # -1 /\ blocking' = blocking \cup {call'[t].fd}
      BY <2>1, ConnectAssumption DEF Opens, Free
    <3>2. QED
      BY <3>1
  <2>2. QED
    BY <1>1, <2>1
<1>3. \A u \in Thread \ {t} : /\ pc'[u] \in {"connect", "select"} => kind' = "client"
                              /\ pc'[u] = "select" => call'[u].fd \notin blocking'
                              /\ pc'[u] \in {"publish", "store"} => Good(call[u].fd)'
  BY <1>0, <1>2 DEF KindInv, ModeInv, Good, WithSocket, Walking
<1>4. Whole /\ fd' = fd => (fd' \in blocking' => kind' = "client" /\ timeout' = "block")
  BY <1>0, <1>2 DEF ModeInv, OwnInv, Good
<1>5. pc'[t] \in {"connect", "select"} => kind' = "client"
  BY <1>0 DEF KindInv, Rests, Opens, Passes, Advances, Abandons, Publishes, Stores
<1>6. pc'[t] = "select" => call'[t].fd \notin blocking'
  BY DEF Rests, Opens, Passes, Advances, Abandons, Publishes, Stores, NonBlocking
<1>7. pc'[t] \in {"publish", "store"} => (call'[t].fd \in blocking' => kind' = "client" /\ timeout' = "block")
  <2>1. CASE Advances(t)
    BY <1>0, <2>1 DEF KindInv, Advances, NonBlocking
  <2>2. CASE Publishes(t)
    BY <1>0, <2>2 DEF ModeInv, Good, Publishes, kernelVars
  <2>3. QED
    BY <2>1, <2>2 DEF Rests, Opens, Passes, Abandons, Stores
<1>8. Whole' => (fd' \in blocking' => kind' = "client" /\ timeout' = "block")
  <2>1. CASE Stores(t)
    BY <1>0, <2>1 DEF ModeInv, Good, Stores, kernelVars
  <2>2. CASE ~Stores(t)
    <3>1. fd' = fd /\ pc[t] # "clear"
      BY <2>2 DEF Rests, Opens, Passes, Advances, Abandons, Publishes, objectVars
    <3>2. Whole' => Whole
      BY <3>1 DEF Whole
    <3>3. QED
      BY <1>4, <3>1, <3>2
  <2>3. QED
    BY <2>1, <2>2
<1>9. KindInv'
  BY <1>3, <1>5, <1>6 DEF KindInv
<1>10. ModeInv'
  BY <1>3, <1>7, <1>8 DEF ModeInv, Good
<1>11. QED
  BY <1>9, <1>10

\* The steps of disconnect.
LEMMA ModeDisconnect ==
    ASSUME ThreadsOK, NEW t \in Thread, Steps(t), KindInv, ModeInv, Disconnects(t)
    PROVE  KindInv' /\ ModeInv'
<1> USE DEF Steps, ThreadsOK
<1>1. /\ call' = call /\ kind' = kind /\ timeout' = timeout /\ blocking' \subseteq blocking
      /\ pc'[t] \notin {"connect", "select", "publish", "store"}
  BY DEF Disconnects, Disconnect, TestConnected, CloseFd, ClearFd, ClearConnected, Set, rigidVars, kernelVars
<1>2. Whole' => Whole /\ fd' = fd
  BY DEF Disconnects, Disconnect, TestConnected, CloseFd, ClearFd, ClearConnected, Set, Whole, objectVars
<1>3. KindInv'
  BY <1>1 DEF KindInv
<1>4. ModeInv'
  BY <1>1, <1>2 DEF ModeInv, Good
<1>5. QED
  BY <1>3, <1>4

\* m_connected and m_fd: what happens outside the object's statements.
LEMMA PairOutside ==
    ASSUME ThreadsOK, NEW t \in Thread, Steps(t), PairInv,
           \/ Rests(t) \/ Opens(t) \/ Passes(t) \/ Advances(t) \/ Abandons(t)
    PROVE  PairInv' /\ raced' = raced
<1>1. /\ pc[t] \notin Disconnecting \cup {"store"} /\ pc'[t] \notin Disconnecting \cup {"store"}
      /\ UNCHANGED <<connected, fd, raced>>
  BY DEF Rests, Opens, Passes, Advances, Abandons, Disconnecting, objectVars
<1>2. QED
  BY <1>1 DEF Steps, PairInv, Alone, Inside, Disconnecting

\* The two assignments of connect.
LEMMA PairPublishes ==
    ASSUME ThreadsOK, NEW t \in Thread, Steps(t), ~raced => PairInv, Publishes(t)
    PROVE  ~raced' => PairInv'
<1> SUFFICES ASSUME ~raced' PROVE PairInv'
  OBVIOUS
<1>1. ~raced /\ Alone(t) /\ connected' = TRUE /\ fd' = fd /\ pc'[t] = "store"
  BY DEF Publishes
<1>2. \A u \in Thread \ {t} : ~Inside(u) /\ pc'[u] = pc[u]
  BY <1>1 DEF Alone, Steps
<1>3. QED
  BY <1>1, <1>2 DEF PairInv, Alone, Inside

LEMMA PairStores ==
    ASSUME ObjectOK, ThreadsOK, NEW t \in Thread, Steps(t), SocketInv, ApartInv, OwnInv, PairInv, Stores(t)
    PROVE  PairInv' /\ raced' = raced
<1>1. /\ fd' = call[t].fd /\ connected' = connected /\ pc'[t] = "idle" /\ pc[t] = "store" /\ raced' = raced
  BY DEF Stores
<1>2. call[t].fd # -1
  BY <1>1, OpenNumbers DEF WithSocket, Walking
<1>3. \A u \in Thread \ {t} : ~Inside(u) /\ pc'[u] = pc[u]
  BY <1>1 DEF PairInv, Alone, Steps
<1>4. QED
  BY <1>1, <1>2, <1>3 DEF PairInv, Alone, Inside

\* The statements of disconnect.
LEMMA PairDisconnect ==
    ASSUME ThreadsOK, NEW t \in Thread, Steps(t), MutexInv, ~raced => PairInv, Disconnects(t)
    PROVE  ~raced' => PairInv'
<1> SUFFICES ASSUME ~raced' PROVE PairInv'
  OBVIOUS
<1> USE DEF ThreadsOK
<1>0. \A u \in Thread \ {t} : pc'[u] = pc[u]
  BY DEF Steps
<1>1. ~raced /\ PairInv
  <2>1. raced' = raced \/ raced' = (raced \/ \E u \in Thread : pc[u] = "store")
    BY Zenon DEF Disconnects, Disconnect, TestConnected, CloseFd, ClearFd, ClearConnected, historyVars
  <2>2. ~raced
    BY <2>1
  <2>3. QED
    BY <2>2
<1>2. ASSUME pc[t] \in Disconnecting
      PROVE  \A u \in Thread \ {t} : ~Inside(u)
  <2>1. \A u \in Thread \ {t} : pc[u] \notin Disconnecting
    BY <1>2, OneDisconnects
  <2>2. \A u \in Thread \ {t} : pc[u] # "store"
    BY <1>1, <1>2 DEF PairInv, Alone, Inside, Disconnecting
  <2>3. QED
    BY <2>1, <2>2, InsidePoints
<1>3. CASE Disconnect(t)
  <2>1. pc'[t] = "test" /\ pc[t] = "idle" /\ connected' = connected /\ fd' = fd
    BY <1>3 DEF Disconnect, Set
  <2>2. \A u \in Thread : pc[u] # "store"
    BY <1>3 DEF Disconnect
  <2>3. QED
    BY <1>0, <1>1, <2>1, <2>2 DEF PairInv, Alone, Inside
<1>4. CASE TestConnected(t)
  <2>1. /\ pc[t] = "test" /\ UNCHANGED <<connected, fd>>
        /\ pc'[t] = IF connected THEN "close" ELSE "idle"
    BY <1>4 DEF TestConnected, Set
  <2>2. \A u \in Thread \ {t} : ~Inside(u)
    BY <1>2, <2>1 DEF Disconnecting
  <2>3. connected => fd # -1
    BY <1>1, <2>1, <2>2 DEF PairInv, Inside
  <2>4. QED
    BY <1>0, <1>1, <2>1, <2>2, <2>3 DEF PairInv, Alone, Inside
<1>5. CASE CloseFd(t)
  <2>1. pc[t] = "close" /\ pc'[t] = "clear" /\ UNCHANGED <<connected, fd>>
    BY <1>5 DEF CloseFd, Set, objectVars
  <2>2. \A u \in Thread \ {t} : ~Inside(u)
    BY <1>2, <2>1 DEF Disconnecting
  <2>3. QED
    BY <1>0, <1>1, <2>1, <2>2 DEF PairInv, Alone, Inside
<1>6. CASE ClearFd(t)
  <2>1. pc[t] = "clear" /\ pc'[t] = "cleared" /\ fd' = -1 /\ connected' = connected
    BY <1>6 DEF ClearFd, Set
  <2>2. \A u \in Thread \ {t} : ~Inside(u)
    BY <1>2, <2>1 DEF Disconnecting
  <2>3. QED
    BY <1>0, <1>1, <2>1, <2>2 DEF PairInv, Alone, Inside
<1>7. CASE ClearConnected(t)
  <2>1. pc[t] = "cleared" /\ pc'[t] = "idle" /\ fd' = fd /\ connected' = FALSE
    BY <1>7 DEF ClearConnected, Set
  <2>2. \A u \in Thread \ {t} : ~Inside(u)
    BY <1>2, <2>1 DEF Disconnecting
  <2>3. QED
    BY <1>0, <1>1, <2>1, <2>2 DEF PairInv, Alone, Inside
<1>8. QED
  BY <1>3, <1>4, <1>5, <1>6, <1>7 DEF Disconnects

\* A step of a thread.
LEMMA UsableStep ==
    ASSUME ObjectOK, HistoryOK, ThreadsOK, ListsInv, DescriptorInv, UsableInv, NEW t \in Thread, Step(t)
    PROVE  UsableInv'
<1>1. /\ Steps(t) /\ ~Stopped /\ ~Stopped'
      /\ MutexInv /\ SocketInv /\ ApartInv /\ OwnInv
  BY DescriptorStep
<1>2. KindInv /\ ModeInv /\ (~raced => PairInv)
  BY <1>1 DEF UsableInv
<1>3. \/ Rests(t) \/ Opens(t) \/ Passes(t) \/ Advances(t) \/ Abandons(t)
      \/ Publishes(t) \/ Stores(t) \/ Disconnects(t)
  BY StepKinds
<1>4. KindInv' /\ ModeInv'
  BY <1>1, <1>2, <1>3, ModeSteps, ModeDisconnect
<1>5. ~raced' => PairInv'
  <2>1. CASE \/ Rests(t) \/ Opens(t) \/ Passes(t) \/ Advances(t) \/ Abandons(t)
    <3>1. raced' = raced
      BY <2>1 DEF Rests, Opens, Passes, Advances, Abandons
    <3>2. QED
      BY <1>1, <1>2, <2>1, <3>1, PairOutside
  <2>2. CASE Stores(t)
    <3>1. raced' = raced
      BY <2>2 DEF Stores
    <3>2. QED
      BY <1>1, <1>2, <2>2, <3>1, PairStores
  <2>3. QED
    BY <1>1, <1>2, <1>3, <2>1, <2>2, PairPublishes, PairDisconnect
<1>6. QED
  BY <1>4, <1>5 DEF UsableInv

LEMMA UsableInit == Init => UsableInv
<1> SUFFICES ASSUME Init PROVE UsableInv
  OBVIOUS
<1>1. \A t \in Thread : pc[t] = "idle"
  BY DEF Init
<1>2. QED
  BY <1>1 DEF Init, UsableInv, KindInv, ModeInv, PairInv, Good, Whole

LEMMA UsableNext ==
    ConnectTypeOK /\ ListsInv /\ DescriptorInv /\ UsableInv /\ [Next]_connectVars => UsableInv'
<1> SUFFICES ASSUME ConnectTypeOK, ListsInv, DescriptorInv, UsableInv, [Next]_connectVars
             PROVE  UsableInv'
  OBVIOUS
<1>1. ObjectOK /\ HistoryOK /\ ThreadsOK
  BY TypeParts
<1>2. CASE UNCHANGED connectVars
  BY <1>2 DEF connectVars, rigidVars, objectVars, kernelVars, historyVars, UsableInv, Stopped,
              KindInv, ModeInv, PairInv, Good, Whole, Alone, Inside
<1>3. ASSUME NEW t \in Thread, Undefined(t) PROVE UsableInv'
  BY <1>3, DescriptorUndefined DEF UsableInv
<1>4. Next => \E t \in Thread : Step(t) \/ Undefined(t)
  BY DEF Next, Step
<1>5. QED
  BY <1>1, <1>2, <1>3, <1>4, UsableStep

\* While no thread stands between the two assignments of connect or inside
\* disconnect, a connected object has an open descriptor, and a blocking one
\* only if a client connected without a time limit.
THEOREM UsableWhenConnected == Spec => []ConnectedUsable
<1>1. Init => ConnectTypeOK /\ ListsInv /\ DescriptorInv /\ UsableInv
  BY TypeInit, DescriptorInit, UsableInit
<1>2. ConnectTypeOK /\ ListsInv /\ DescriptorInv /\ UsableInv /\ [Next]_connectVars
      => ConnectTypeOK' /\ ListsInv' /\ DescriptorInv' /\ UsableInv'
  BY TypeNext, DescriptorNext, UsableNext
<1>3. DescriptorInv /\ UsableInv => ConnectedUsable
  <2> SUFFICES ASSUME DescriptorInv, UsableInv, ~raced, connected, AtRest
               PROVE  fd \in open /\ Good(fd)
    BY DEF ConnectedUsable, Good
  <2>1. ~Stopped /\ \A t \in Thread : pc[t] \notin Disconnecting \cup {"store"}
    BY InsidePoints DEF AtRest, Stopped
  <2>2. fd # -1 /\ Whole
    BY <2>1 DEF UsableInv, PairInv, Whole, Disconnecting
  <2>3. QED
    BY <2>1, <2>2 DEF DescriptorInv, OwnInv, UsableInv, ModeInv
<1>4. QED
  BY <1>1, <1>2, <1>3, PTL DEF Spec
------------------------------------------------------------------------------
\* A lost descriptor is open, no connect's, and not the object's.
LEMMA StrayIs ==
    ASSUME NEW d
    PROVE  /\ d \in Strays <=> /\ d \in open /\ \A t \in Thread : call[t].fd # d
                              /\ ~(connected /\ (\A t \in Thread : pc[t] # "clear") /\ fd = d)
           /\ d \in Strays' <=> /\ d \in open' /\ \A t \in Thread : call'[t].fd # d
                               /\ ~(connected' /\ (\A t \in Thread : pc'[t] # "clear") /\ fd' = d)
<1>1. d \in Strays <=> /\ d \in open /\ \A t \in Thread : call[t].fd # d
                     /\ ~(connected /\ (\A t \in Thread : pc[t] # "clear") /\ fd = d)
  BY DEF Strays, Held
<1>2. d \in Strays' <=> /\ d \in open' /\ \A t \in Thread : call'[t].fd # d
                      /\ ~(connected' /\ (\A t \in Thread : pc'[t] # "clear") /\ fd' = d)
  BY DEF Strays, Held
<1>3. QED
  BY <1>1, <1>2

\* They are finitely many, so that one more counts as one.
LEMMA StraysGrow ==
    ASSUME ObjectOK, NEW d, d \notin Strays, Strays' = Strays \cup {d}
    PROVE  Cardinality(Strays') = Cardinality(Strays) + 1
<1>1. Strays \subseteq Fd
  BY DEF Strays, ObjectOK
<1>2. IsFiniteSet(Strays)
  BY <1>1, ConnectAssumption, FS_Subset
<1>3. QED
  BY <1>2, FS_AddElement

\* The steps of a connect that lose no descriptor.
LEMMA StraysSame ==
    ASSUME ObjectOK, ThreadsOK, NEW t \in Thread, Steps(t), SocketInv, ApartInv, OwnInv,
           Rests(t) \/ Opens(t) \/ Passes(t) \/ Advances(t)
    PROVE  Strays' = Strays
<1> USE DEF ThreadsOK
<1>0. /\ -1 \notin open
      /\ \A u \in Thread : pc[u] \in WithSocket => call[u].fd \in open /\ call[u].fd # -1
      /\ \A u \in Thread : pc[u] \notin WithSocket => call[u].fd = -1
  BY OpenNumbers
<1>1. /\ UNCHANGED <<connected, fd>>
      /\ pc[t] # "clear" /\ pc'[t] # "clear"
  BY DEF Rests, Opens, Passes, Advances, objectVars
<1>2. (\A u \in Thread : pc'[u] # "clear") <=> (\A u \in Thread : pc[u] # "clear")
  BY <1>1 DEF Steps
<1>3. \A u \in Thread \ {t} : call'[u] = call[u]
  BY DEF Steps
<1>4. ASSUME NEW d
      PROVE  d \in Strays' <=> d \in Strays
  <2>1. CASE Rests(t)
    <3>1. call[t].fd = -1 /\ call'[t].fd = -1 /\ open' = open
      BY <1>0, <2>1 DEF Rests, WithSocket, Walking, kernelVars
    <3>2. QED
      BY <1>0, <1>1, <1>2, <1>3, <3>1, StrayIs
  <2>2. CASE Opens(t)
    <3>1. call[t].fd = -1 /\ open' = open \cup {call'[t].fd} /\ call'[t].fd \notin open
      BY <1>0, <2>2 DEF Opens, Free, WithSocket, Walking
    <3>2. CASE d = call'[t].fd
      BY <3>1, <3>2, StrayIs
    <3>3. CASE d # call'[t].fd
      <4>1. d \in open' <=> d \in open
        BY <3>1, <3>3
      <4>2. d \in open => ((\A u \in Thread : call'[u].fd # d) <=> (\A u \in Thread : call[u].fd # d))
        BY <1>0, <1>3, <3>1, <3>3
      <4>3. QED
        BY <1>1, <1>2, <4>1, <4>2, StrayIs
    <3>4. QED
      BY <3>2, <3>3
  <2>3. CASE Passes(t)
    <3>1. call'[t].fd = -1 /\ open' = open \ {call[t].fd}
      BY <2>3 DEF Passes
    <3>2. QED
      BY <1>0, <1>1, <1>2, <1>3, <3>1, StrayIs
  <2>4. CASE Advances(t)
    <3>1. call'[t] = call[t] /\ open' = open
      BY <2>4 DEF Advances
    <3>2. QED
      BY <1>1, <1>2, <1>3, <3>1, StrayIs
  <2>5. QED
    BY <2>1, <2>2, <2>3, <2>4
<1>5. QED
  BY <1>4

\* A server's connect that throws loses its socket.
LEMMA StraysAbandons ==
    ASSUME ObjectOK, ThreadsOK, NEW t \in Thread, Steps(t), SocketInv, ApartInv, OwnInv, Abandons(t)
    PROVE  call[t].fd \notin Strays /\ Strays' = Strays \cup {call[t].fd}
<1> USE DEF ThreadsOK
<1>1. /\ UNCHANGED <<connected, fd>> /\ pc[t] # "clear" /\ pc'[t] # "clear"
      /\ call'[t].fd = -1 /\ open' = open /\ pc[t] \in WithSocket
  BY DEF Abandons, objectVars, WithSocket, Walking
<1>2. (\A u \in Thread : pc'[u] # "clear") <=> (\A u \in Thread : pc[u] # "clear")
  BY <1>1 DEF Steps
<1>3. \A u \in Thread \ {t} : call'[u] = call[u] /\ call[u].fd # call[t].fd
  BY <1>1, OpenNumbers DEF Steps, ApartInv
<1>4. -1 \notin open /\ call[t].fd \in open /\ call[t].fd # -1
  BY <1>1, OpenNumbers
<1>5. ~((\A u \in Thread : pc[u] # "clear") /\ fd = call[t].fd)
  BY <1>4 DEF OwnInv, Whole
<1>6. ASSUME NEW d
      PROVE  d \in Strays' <=> d \in Strays \/ d = call[t].fd
  BY <1>1, <1>2, <1>3, <1>4, <1>5, StrayIs
<1>7. QED
  BY <1>6, StrayIs

\* The first assignment loses none.
LEMMA StraysPublishes ==
    ASSUME ObjectOK, ThreadsOK, NEW t \in Thread, Steps(t), ~raced', PairInv, Publishes(t)
    PROVE  Strays' = Strays
<1>1. Alone(t) /\ UNCHANGED <<fd, open>> /\ call'[t] = call[t] /\ connected' = TRUE
      /\ pc[t] = "publish" /\ pc'[t] = "store"
  BY DEF Publishes, kernelVars
<1>2. (\A u \in Thread : pc[u] # "clear") /\ (\A u \in Thread : pc'[u] # "clear" /\ call'[u] = call[u])
  BY <1>1 DEF Alone, Inside, Steps
<1>3. -1 \notin open /\ (~connected => fd = -1)
  BY ConnectAssumption DEF ObjectOK, PairInv
<1>4. ASSUME NEW d PROVE d \in Strays' <=> d \in Strays
  BY <1>1, <1>2, <1>3, StrayIs
<1>5. QED
  BY <1>4

\* The second one loses what the object had.
LEMMA StraysStores ==
    ASSUME ObjectOK, ThreadsOK, NEW t \in Thread, Steps(t), SocketInv, ApartInv, OwnInv, PairInv, Stores(t)
    PROVE  /\ fd = -1 => Strays' = Strays
           /\ fd # -1 => fd \notin Strays /\ Strays' = Strays \cup {fd}
<1>1. /\ Alone(t) /\ connected /\ connected' = connected /\ open' = open
      /\ fd' = call[t].fd /\ call'[t].fd = -1 /\ pc[t] = "store" /\ pc'[t] = "idle"
  BY DEF Stores, PairInv, kernelVars
<1>2. (\A u \in Thread : pc[u] # "clear") /\ (\A u \in Thread : pc'[u] # "clear")
  BY <1>1 DEF Alone, Inside, Steps
<1>3. \A u \in Thread \ {t} : call'[u] = call[u]
  BY DEF Steps
<1>4. -1 \notin open /\ call[t].fd \in open /\ call[t].fd # -1
  BY <1>1, OpenNumbers DEF WithSocket, Walking
<1>5. fd # -1 => fd \in open /\ \A u \in Thread : call[u].fd # fd
  BY <1>2 DEF OwnInv, Whole
<1>6. \A d : /\ d \in Strays <=> d \in open /\ (\A u \in Thread : call[u].fd # d) /\ fd # d
             /\ d \in Strays' <=> d \in open /\ (\A u \in Thread \ {t} : call[u].fd # d) /\ d # -1 /\ call[t].fd # d
  BY <1>1, <1>2, <1>3, StrayIs
<1>7. CASE fd = -1
  BY <1>4, <1>6, <1>7
<1>8. CASE fd # -1
  <2>1. ASSUME NEW d PROVE d \in Strays' <=> d \in Strays \/ d = fd
    BY <1>4, <1>5, <1>6, <1>8
  <2>2. QED
    BY <1>6, <1>8, <2>1
<1>9. QED
  BY <1>7, <1>8

\* disconnect loses none.
LEMMA StraysDisconnects ==
    ASSUME ObjectOK, ThreadsOK, NEW t \in Thread, Steps(t), MutexInv, PairInv, Disconnects(t)
    PROVE  Strays' = Strays
<1> USE DEF ThreadsOK
<1>0. -1 \notin open /\ call' = call
  BY ConnectAssumption DEF ObjectOK, Disconnects, Disconnect, TestConnected, CloseFd, ClearFd, ClearConnected
<1>1. \A u \in Thread \ {t} : pc'[u] = pc[u] /\ (pc[t] \in Disconnecting => pc[u] # "clear")
  BY OneDisconnects DEF Steps, Disconnecting
<1>2. CASE Disconnect(t) \/ TestConnected(t)
  <2>1. UNCHANGED <<connected, fd, open>> /\ pc[t] # "clear" /\ pc'[t] # "clear"
    BY <1>2 DEF Disconnect, TestConnected, Set, kernelVars
  <2>2. (\A u \in Thread : pc'[u] # "clear") <=> (\A u \in Thread : pc[u] # "clear")
    BY <1>1, <2>1
  <2>3. ASSUME NEW d PROVE d \in Strays' <=> d \in Strays
    BY <1>0, <2>1, <2>2, StrayIs
  <2>4. QED
    BY <2>3
<1>3. CASE CloseFd(t)
  <2>1. /\ pc[t] = "close" /\ pc'[t] = "clear" /\ open' = open \ {fd} /\ connected
    BY <1>3 DEF CloseFd, Set, PairInv
  <2>2. \A u \in Thread : pc[u] # "clear"
    BY <1>1, <2>1 DEF Disconnecting
  <2>3. ASSUME NEW d PROVE d \in Strays' <=> d \in Strays
    BY <1>0, <2>1, <2>2, StrayIs
  <2>4. QED
    BY <2>3
<1>4. CASE ClearFd(t)
  <2>1. pc[t] = "clear" /\ fd' = -1 /\ open' = open
    BY <1>4 DEF ClearFd, kernelVars
  <2>2. ASSUME NEW d PROVE d \in Strays' <=> d \in Strays
    BY <1>0, <2>1, StrayIs
  <2>3. QED
    BY <2>2
<1>5. CASE ClearConnected(t)
  <2>1. pc[t] = "cleared" /\ fd = -1 /\ connected' = FALSE /\ open' = open
    BY <1>5 DEF ClearConnected, PairInv, kernelVars
  <2>2. ASSUME NEW d PROVE d \in Strays' <=> d \in Strays
    BY <1>0, <2>1, StrayIs
  <2>3. QED
    BY <2>2
<1>6. QED
  BY <1>2, <1>3, <1>4, <1>5 DEF Disconnects

\* A step of a thread: the two losses are counted.
LEMMA StraysStep ==
    ASSUME ObjectOK, HistoryOK, ThreadsOK, ListsInv, DescriptorInv, UsableInv, StraysCounted,
           NEW t \in Thread, Step(t)
    PROVE  StraysCounted'
<1> SUFFICES ASSUME ~raced' PROVE Cardinality(Strays') = replaced' + abandoned'
  BY DEF StraysCounted
<1>1. /\ Steps(t) /\ ~Stopped
      /\ MutexInv /\ SocketInv /\ ApartInv /\ OwnInv
  BY DescriptorStep
<1>2. \/ Rests(t) \/ Opens(t) \/ Passes(t) \/ Advances(t) \/ Abandons(t)
      \/ Publishes(t) \/ Stores(t) \/ Disconnects(t)
  BY StepKinds
<1>3. ~raced
  <2>1. ASSUME Disconnects(t) PROVE ~raced
    <3>1. raced' = raced \/ raced' = (raced \/ \E u \in Thread : pc[u] = "store")
      BY <2>1, Zenon DEF Disconnects, Disconnect, TestConnected, CloseFd, ClearFd, ClearConnected, historyVars
    <3>2. QED
      BY <3>1
  <2>2. ASSUME Publishes(t) PROVE ~raced
    BY <2>2 DEF Publishes
  <2>3. QED
    BY <1>2, <2>1, <2>2 DEF Rests, Opens, Passes, Advances, Abandons, Stores
<1>4. PairInv /\ Cardinality(Strays) = replaced + abandoned
  BY <1>1, <1>3 DEF UsableInv, StraysCounted, Stopped
<1>5. replaced \in Nat /\ abandoned \in Nat
  BY DEF ObjectOK
<1>6. CASE \/ Rests(t) \/ Opens(t) \/ Passes(t) \/ Advances(t) \/ Publishes(t) \/ Disconnects(t)
  <2>1. Strays' = Strays
    BY <1>1, <1>4, <1>6, StraysSame, StraysPublishes, StraysDisconnects
  <2>2. UNCHANGED <<replaced, abandoned>>
    BY <1>6 DEF Rests, Opens, Passes, Advances, Publishes, Disconnects,
                Disconnect, TestConnected, CloseFd, ClearFd, ClearConnected, historyVars
  <2>3. QED
    BY <1>4, <2>1, <2>2
<1>7. CASE Abandons(t)
  <2>1. Cardinality(Strays') = Cardinality(Strays) + 1
    BY <1>1, <1>7, StraysAbandons, StraysGrow
  <2>2. replaced' = replaced /\ abandoned' = abandoned + 1
    BY <1>7 DEF Abandons
  <2>3. QED
    BY <1>4, <1>5, <2>1, <2>2
<1>8. CASE Stores(t)
  <2>1. abandoned' = abandoned /\ replaced' = replaced + (IF fd = -1 THEN 0 ELSE 1)
    BY <1>8 DEF Stores
  <2>2. CASE fd = -1
    <3>1. Strays' = Strays
      BY <1>1, <1>4, <1>8, <2>2, StraysStores
    <3>2. QED
      BY <1>4, <1>5, <2>1, <2>2, <3>1
  <2>3. CASE fd # -1
    <3>1. Cardinality(Strays') = Cardinality(Strays) + 1
      BY <1>1, <1>4, <1>8, <2>3, StraysStores, StraysGrow
    <3>2. QED
      BY <1>4, <1>5, <2>1, <2>3, <3>1
  <2>4. QED
    BY <2>2, <2>3
<1>9. QED
  BY <1>2, <1>6, <1>7, <1>8

LEMMA StraysInit == Init => StraysCounted
<1> SUFFICES ASSUME Init PROVE Cardinality(Strays) = replaced + abandoned
  BY DEF StraysCounted
<1>1. Strays = {}
  BY DEF Init, Strays
<1>2. QED
  BY <1>1, FS_EmptySet DEF Init

LEMMA StraysNext ==
    ConnectTypeOK /\ ListsInv /\ DescriptorInv /\ UsableInv /\ StraysCounted /\ [Next]_connectVars
    => StraysCounted'
<1> SUFFICES ASSUME ConnectTypeOK, ListsInv, DescriptorInv, UsableInv, StraysCounted, [Next]_connectVars
             PROVE  StraysCounted'
  OBVIOUS
<1>1. ObjectOK /\ HistoryOK /\ ThreadsOK
  BY TypeParts
<1>2. CASE UNCHANGED connectVars
  BY <1>2 DEF connectVars, objectVars, kernelVars, historyVars, StraysCounted, Strays, Held
<1>3. ASSUME NEW t \in Thread, Undefined(t) PROVE StraysCounted'
  BY <1>3, DescriptorUndefined DEF StraysCounted, Stopped
<1>4. Next => \E t \in Thread : Step(t) \/ Undefined(t)
  BY DEF Next, Step
<1>5. QED
  BY <1>1, <1>2, <1>3, <1>4, StraysStep

\* connect loses a descriptor in two ways and no other: it ends on an object
\* that was connected, or it is a server's and throws after bind.
THEOREM LossesCounted == Spec => []StraysCounted
<1>1. Init => ConnectTypeOK /\ ListsInv /\ DescriptorInv /\ UsableInv /\ StraysCounted
  BY TypeInit, DescriptorInit, UsableInit, StraysInit
<1>2. ConnectTypeOK /\ ListsInv /\ DescriptorInv /\ UsableInv /\ StraysCounted /\ [Next]_connectVars
      => ConnectTypeOK' /\ ListsInv' /\ DescriptorInv' /\ UsableInv' /\ StraysCounted'
  BY TypeNext, DescriptorNext, UsableNext, StraysNext
<1>3. QED
  BY <1>1, <1>2, PTL DEF Spec
=============================================================================

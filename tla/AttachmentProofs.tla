--------------------------- MODULE AttachmentProofs ---------------------------
(***************************************************************************)
(* Theorems about Attachment, for any number of threads, listeners,        *)
(* consumers, elements and names: the types of the variables, and, for the *)
(* objects that no two calls use at once, that both ends of every tie      *)
(* agree, that a name has one owner and that joins wait for their threads. *)
(* The argument rests on Exclusive: a step on an object that a call in     *)
(* progress uses makes it a shared one, so what a call has tested of an    *)
(* object that is not shared holds until the call ends.                    *)
(***************************************************************************)
EXTENDS Attachment, FiniteSetTheorems, TLAPS

------------------------------------------------------------------------------
(* Types *)

\* The links that clear_consumer_links leaves.
LEMMA ClearedType ==
    /\ Cleared \in [Name -> Consumer \cup {Null, Absent}]
    /\ \A n \in Special : Cleared[n] = Null
  BY AttachmentAssumption DEF Cleared

\* The links that run_init leaves.
LEMMA LinkedType ==
    ASSUME ObjectsOK, LinksOK, NEW l \in Listener
    PROVE  /\ Linked(l) \in [Name -> Consumer \cup {Null, Absent}]
           /\ \A n \in Special : Linked(l)[n] # Absent
<1>1. ASSUME NEW n \in Name
      PROVE  Linked(l)[n] \in Owners(l, n) \cup {Null, links[l][n]}
  BY DEF Linked
<1>2. \A n \in Name : Owners(l, n) \subseteq Consumer
  BY DEF Owners, ObjectsOK
<1>3. QED
  BY <1>1, <1>2, AttachmentAssumption DEF Linked, LinksOK

\* What is known of a call from the point it has reached.
LEMMA CallTypes ==
    ASSUME CallsOK, NEW a \in Actor
    PROVE  /\ pc[a] \in Calls /\ pc[a].uses \subseteq Object
           /\ pc[a].of # Null => pc[a].of \in pc[a].uses
           /\ pc[a].with # Null => pc[a].with \in pc[a].uses
           /\ pc[a].at \in ElementPoints => pc[a].of \in Listener /\ pc[a].with \in Element
           /\ pc[a].at \in {"remove", "unset"} => pc[a].of \in Consumer /\ pc[a].with \in Listener \cup {Null}
           /\ pc[a].at \in {"add", "assign"} => pc[a].of \in Consumer /\ pc[a].with \in Listener
           /\ pc[a].at \in ThreadPoints => pc[a].of \in Threaded /\ pc[a].with = Null
           /\ pc[a].at = "idle" <=> pc[a] = Idle
           /\ pc[a].at \notin ElementPoints => pc[a].uses \subseteq Threaded
<1>1. pc[a] \in Calls
  BY DEF CallsOK
<1>2. QED
  BY <1>1 DEF CallsOK, Calls, Idle, ElementPoints, ThreadPoints, Object

\* The calls behind a step of one of them.
LEMMA CallIs ==
    ASSUME CallsOK, NEW a \in Actor, NEW at, NEW x, NEW y, NEW xs, Call(a, at, x, y, xs)
    PROVE  \A b \in Actor : pc'[b] = IF b = a THEN [at |-> at, of |-> x, with |-> y, uses |-> xs] ELSE pc[b]
  BY DEF CallsOK, Call

LEMMA ThenIs ==
    ASSUME CallsOK, NEW a \in Actor, NEW at, NEW xs, Then(a, at, xs)
    PROVE  /\ \A b \in Actor \ {a} : pc'[b] = pc[b]
           /\ pc'[a].at = at /\ pc'[a].of = pc[a].of /\ pc'[a].with = pc[a].with
           /\ pc'[a].uses = pc[a].uses \cup xs
  BY DEF CallsOK, Then, Call

LEMMA ReturnIs ==
    ASSUME CallsOK, NEW a \in Actor, Return(a)
    PROVE  \A b \in Actor : pc'[b] = IF b = a THEN Idle ELSE pc[b]
  BY DEF CallsOK, Return

\* Where a step may lead the call of one thread.
LEMMA ActsAlone ==
    ASSUME CallsOK, NEW a \in Actor, NEW S,
           \/ \E at \in S : \E x, y, xs : Call(a, at, x, y, xs)
           \/ Return(a)
           \/ UNCHANGED pc
    PROVE  \A b \in Actor : pc'[b] = pc[b] \/ (b = a /\ pc'[b].at \in S \cup {"idle"})
<1>1. ASSUME NEW at \in S, NEW x, NEW y, NEW xs, Call(a, at, x, y, xs)
      PROVE  \A b \in Actor : pc'[b] = pc[b] \/ (b = a /\ pc'[b].at \in S \cup {"idle"})
  BY <1>1 DEF CallsOK, Call
<1>2. CASE Return(a)
  BY <1>2, ReturnIs DEF Idle
<1>3. QED
  BY <1>1, <1>2

\* A call begins.
LEMMA CallBegins ==
    ASSUME CallsOK, NEW a \in Actor, NEW at, NEW x, NEW y, NEW xs, Call(a, at, x, y, xs),
           [at |-> at, of |-> x, with |-> y, uses |-> xs] \in Calls, {x, y} \ {Null} \subseteq xs
    PROVE  /\ CallsOK'
           /\ pc'[a] = [at |-> at, of |-> x, with |-> y, uses |-> xs]
           /\ \A b \in Actor \ {a} : pc'[b] = pc[b]
  BY DEF CallsOK, Call

\* A call takes its next step.
LEMMA CallGoesOn ==
    ASSUME CallsOK, NEW a \in Actor, NEW at, NEW xs, Then(a, at, xs),
           [at |-> at, of |-> pc[a].of, with |-> pc[a].with, uses |-> pc[a].uses \cup xs] \in Calls
    PROVE  /\ CallsOK'
           /\ pc'[a] = [at |-> at, of |-> pc[a].of, with |-> pc[a].with, uses |-> pc[a].uses \cup xs]
           /\ \A b \in Actor \ {a} : pc'[b] = pc[b]
  BY CallBegins DEF Then, CallsOK

\* A call ends.
LEMMA CallReturns ==
    ASSUME CallsOK, NEW a \in Actor, Return(a)
    PROVE  CallsOK' /\ pc'[a] = Idle /\ \A b \in Actor \ {a} : pc'[b] = pc[b]
  BY DEF CallsOK, Calls, Return, Idle

\* How a step moves the calls: that of one thread, which comes to some objects.
Moves(a, xs) ==
    /\ CallsOK' /\ xs \subseteq Object
    /\ \A b \in Actor \ {a} : pc'[b] = pc[b]
    /\ pc'[a].uses \subseteq pc[a].uses \cup xs
    /\ Touch(a, xs)

\* A step that comes to no new object shares none.
LEMMA TouchNothing == ASSUME NEW a, UNCHANGED shared PROVE Touch(a, {})
  BY DEF Touch

\* A step of a call already in progress.
LEMMA MovesOn ==
    ASSUME AttachmentTypeOK, NEW u \in Actor, UNCHANGED shared,
           \/ Return(u)
           \/ \E at : /\ Then(u, at, {})
                      /\ \/ pc[u].at \in {"adopt", "orphan"} /\ at \in {"list", "erase"}
                         \/ pc[u].at = "unset" /\ pc[u].with # Null /\ at = "add"
                         \/ pc[u].at \in ThreadPoints /\ at \in ThreadPoints
    PROVE  Moves(u, {})
<1>1. CallsOK
  BY DEF AttachmentTypeOK
<1>2. CASE Return(u)
  BY <1>1, <1>2, CallReturns, TouchNothing DEF Moves, Idle
<1>3. ASSUME NEW at, Then(u, at, {}),
             \/ pc[u].at \in {"adopt", "orphan"} /\ at \in {"list", "erase"}
             \/ pc[u].at = "unset" /\ pc[u].with # Null /\ at = "add"
             \/ pc[u].at \in ThreadPoints /\ at \in ThreadPoints
      PROVE  Moves(u, {})
  <2>1. pc[u].uses \cup {} = pc[u].uses /\ pc[u].uses \subseteq Object
    BY <1>1, CallTypes
  <2>2. [at |-> at, of |-> pc[u].of, with |-> pc[u].with, uses |-> pc[u].uses] \in Calls
    BY <1>1, <1>3, <2>1, CallTypes DEF Calls, ElementPoints, ThreadPoints
  <2>3. QED
    BY <1>1, <1>3, <2>1, <2>2, CallGoesOn, TouchNothing DEF Moves
<1>4. QED
  BY <1>2, <1>3

\* A step of nobody's call.
LEMMA MovesNot ==
    ASSUME AttachmentTypeOK, NEW a \in Actor, NEW xs \in SUBSET Object, UNCHANGED pc, Touch(a, xs)
    PROVE  Moves(a, xs)
  BY DEF Moves, AttachmentTypeOK, CallsOK

\* What is shared stays shared, and is an object.
LEMMA SharesMore ==
    ASSUME NEW a \in Actor, NEW xs, Moves(a, xs)
    PROVE  shared \subseteq shared' /\ (shared \subseteq Object => shared' \subseteq Object)
  BY DEF Moves, Touch

\* The first step of attach and detach.
LEMMA MovesTie ==
    ASSUME AttachmentTypeOK, NEW u \in Actor, NEW l \in Listener, NEW e \in Element,
           Attach(u, l, e) \/ Detach(u, l, e)
    PROVE  Moves(u, {l, e})
<1>1. PICK at \in {"adopt", "orphan"} : Call(u, at, l, e, {l, e}) /\ Touch(u, {l, e})
  BY DEF Attach, Detach
<1>2. {l, e} \subseteq Object
  BY DEF Object, Threaded
<1>3. [at |-> at, of |-> l, with |-> e, uses |-> {l, e}] \in Calls
  BY <1>2 DEF Calls, ElementPoints
<1>4. QED
  BY <1>1, <1>2, <1>3, CallBegins DEF Moves, AttachmentTypeOK

\* The first step of set_producer.
LEMMA MovesSetProducer ==
    ASSUME AttachmentTypeOK, NEW u \in Actor, NEW c \in Consumer, NEW l \in Listener \cup {Null},
           SetProducer(u, c, l)
    PROVE  Moves(u, {c, l} \ {Null})
<1>1. {c, l} \ {Null} \subseteq Threaded /\ Threaded \subseteq Object
  BY DEF Object, Threaded
<1>2. Touch(u, {c, l} \ {Null})
  BY DEF SetProducer
<1>3. CASE UNCHANGED pc
  BY <1>1, <1>2, <1>3, MovesNot
<1>4. CASE /\ l # Null \/ producer[c] # Null
           /\ Call(u, IF producer[c] = Null THEN "add" ELSE "remove", c, l, {c, l} \ {Null})
  <2>1. PICK at : /\ at = (IF producer[c] = Null THEN "add" ELSE "remove")
                  /\ Call(u, at, c, l, {c, l} \ {Null})
    BY <1>4
  <2>2. [at |-> at, of |-> c, with |-> l, uses |-> {c, l} \ {Null}] \in Calls
    BY <1>1, <1>4, <2>1 DEF Calls
  <2>3. QED
    BY <1>1, <1>2, <2>1, <2>2, CallBegins DEF Moves, AttachmentTypeOK
<1>5. QED
  BY <1>3, <1>4 DEF SetProducer

\* remove_consumer and add_consumer.
LEMMA MovesEnlists ==
    ASSUME AttachmentTypeOK, NEW u \in Actor, NEW l \in Listener \cup {Null}, NEW to, NEW at,
           \/ pc[u].at = "remove" /\ at = "unset"
           \/ pc[u].at = "add" /\ at = "assign",
           Enlists(u, l, to, at)
    PROVE  Moves(u, {l} \ {Null})
<1>1. {l} \ {Null} \subseteq Threaded /\ Threaded \subseteq Object
  BY DEF Object, Threaded
<1>2. Touch(u, {l} \ {Null})
  BY DEF Enlists
<1>3. CASE UNCHANGED pc
  BY <1>1, <1>2, <1>3, MovesNot
<1>4. CASE l \in alive /\ Then(u, at, {l})
  <2>1. l \in Threaded /\ Null \notin Threaded /\ CallsOK
    BY <1>4, AttachmentAssumption DEF AttachmentTypeOK, ObjectsOK, Threaded
  <2>2. [at |-> at, of |-> pc[u].of, with |-> pc[u].with, uses |-> pc[u].uses \cup {l}] \in Calls
    BY <2>1, CallTypes DEF Calls, ElementPoints, ThreadPoints
  <2>3. QED
    BY <1>1, <1>2, <1>4, <2>1, <2>2, CallGoesOn DEF Moves
<1>5. QED
  BY <1>3, <1>4 DEF Enlists

\* The first step of run.
LEMMA MovesRun ==
    ASSUME AttachmentTypeOK, NEW u \in Actor, NEW x \in Threaded, Run(u, x)
    PROVE  Moves(u, {x})
<1>1. Call(u, "init", x, Null, {x}) /\ Touch(u, {x}) /\ {x} \subseteq Threaded /\ {x} \subseteq Object
  BY DEF Run, Object
<1>2. [at |-> "init", of |-> x, with |-> Null, uses |-> {x}] \in Calls
  BY <1>1 DEF Calls, ThreadPoints
<1>3. QED
  BY <1>1, <1>2, CallBegins DEF Moves, AttachmentTypeOK

\* run_init of a listener comes to its consumers.
LEMMA MovesInitListener ==
    ASSUME AttachmentTypeOK, NEW u \in Actor, InitListener(u)
    PROVE  pc[u].of \in Listener /\ Moves(u, consumers[pc[u].of])
<1>1. pc[u].of \in Listener /\ pc[u].at = "init" /\ Touch(u, consumers[pc[u].of]) /\ CallsOK
  BY DEF InitListener, Goes, AttachmentTypeOK
<1>2. consumers[pc[u].of] \subseteq Threaded /\ consumers[pc[u].of] \subseteq Object
  BY <1>1 DEF AttachmentTypeOK, ObjectsOK, Object, Threaded
<1>3. CASE UNCHANGED pc
  BY <1>1, <1>2, <1>3, MovesNot
<1>4. CASE Return(u)
  BY <1>1, <1>2, <1>4, CallReturns DEF Moves, Idle
<1>5. CASE Then(u, "set", consumers[pc[u].of])
  <2>1. [at |-> "set", of |-> pc[u].of, with |-> pc[u].with, uses |-> pc[u].uses \cup consumers[pc[u].of]] \in Calls
    BY <1>1, <1>2, CallTypes DEF Calls, ElementPoints, ThreadPoints
  <2>2. QED
    BY <1>1, <1>2, <1>5, <2>1, CallGoesOn DEF Moves
<1>6. QED
  BY <1>1, <1>3, <1>4, <1>5 DEF InitListener

\* The first step of join.
LEMMA MovesJoin ==
    ASSUME AttachmentTypeOK, NEW a \in Actor, NEW x \in Threaded, Join(a, x)
    PROVE  Moves(a, {x})
<1>1. Touch(a, {x}) /\ {x} \subseteq Threaded /\ {x} \subseteq Object
  BY DEF Join, Object
<1>2. CASE UNCHANGED pc
  BY <1>1, <1>2, MovesNot
<1>3. CASE Call(a, "clear", x, Null, {x})
  <2>1. [at |-> "clear", of |-> x, with |-> Null, uses |-> {x}] \in Calls
    BY <1>1 DEF Calls, ThreadPoints
  <2>2. QED
    BY <1>1, <1>3, <2>1, CallBegins DEF Moves, AttachmentTypeOK
<1>4. QED
  BY <1>2, <1>3 DEF Join
\* Attach keeps the types.
LEMMA TypeAttach ==
    ASSUME AttachmentTypeOK, NEW u \in Actor, NEW l \in Listener, NEW e \in Element, Attach(u, l, e)
    PROVE  AttachmentTypeOK' /\ Moves(u, {l, e})
<1>1. Moves(u, {l, e})
  BY MovesTie
<1>2. ObjectsOK' /\ LinksOK' /\ ThreadsOK'
  BY AttachmentAssumption DEF AttachmentTypeOK, ObjectsOK, LinksOK, ThreadsOK, Attach, Counted, objects, ends, threads
<1>3. HistoryOK'
  BY <1>1, SharesMore, AttachmentAssumption DEF AttachmentTypeOK, HistoryOK, Attach, Counted, ghosts
<1>4. QED
  BY <1>1, <1>2, <1>3 DEF AttachmentTypeOK, Moves

\* Adopt keeps the types.
LEMMA TypeAdopt ==
    ASSUME AttachmentTypeOK, NEW u \in Actor, Adopt(u)
    PROVE  AttachmentTypeOK' /\ Moves(u, {})
<1>1. Moves(u, {})
  BY MovesOn DEF Adopt, Goes
<1>2. ObjectsOK' /\ LinksOK' /\ ThreadsOK'
  BY AttachmentAssumption, CallTypes DEF AttachmentTypeOK, ObjectsOK, LinksOK, ThreadsOK, Adopt, Goes,
     ElementPoints, ThreadPoints, objects, ends, threads
<1>3. HistoryOK'
  BY <1>1, SharesMore DEF AttachmentTypeOK, HistoryOK, Adopt, Goes, ghosts
<1>4. QED
  BY <1>1, <1>2, <1>3 DEF AttachmentTypeOK, Moves

\* List keeps the types.
LEMMA TypeList ==
    ASSUME AttachmentTypeOK, NEW u \in Actor, List(u)
    PROVE  AttachmentTypeOK' /\ Moves(u, {})
<1>1. Moves(u, {})
  BY MovesOn DEF List, Goes
<1>2. ObjectsOK' /\ LinksOK' /\ ThreadsOK'
  BY AttachmentAssumption, CallTypes DEF AttachmentTypeOK, ObjectsOK, LinksOK, ThreadsOK, List, Goes,
     ElementPoints, ThreadPoints, objects, ends, threads
<1>3. HistoryOK'
  BY <1>1, SharesMore DEF AttachmentTypeOK, HistoryOK, List, Goes, ghosts
<1>4. QED
  BY <1>1, <1>2, <1>3 DEF AttachmentTypeOK, Moves

\* Detach keeps the types.
LEMMA TypeDetach ==
    ASSUME AttachmentTypeOK, NEW u \in Actor, NEW l \in Listener, NEW e \in Element, Detach(u, l, e)
    PROVE  AttachmentTypeOK' /\ Moves(u, {l, e})
<1>1. Moves(u, {l, e})
  BY MovesTie
<1>2. ObjectsOK' /\ LinksOK' /\ ThreadsOK'
  BY AttachmentAssumption DEF AttachmentTypeOK, ObjectsOK, LinksOK, ThreadsOK, Detach, Counted, objects, ends, threads
<1>3. HistoryOK'
  BY <1>1, SharesMore, AttachmentAssumption DEF AttachmentTypeOK, HistoryOK, Detach, Counted, ghosts
<1>4. QED
  BY <1>1, <1>2, <1>3 DEF AttachmentTypeOK, Moves

\* Orphan keeps the types.
LEMMA TypeOrphan ==
    ASSUME AttachmentTypeOK, NEW u \in Actor, Orphan(u)
    PROVE  AttachmentTypeOK' /\ Moves(u, {})
<1>1. Moves(u, {})
  BY MovesOn DEF Orphan, Goes
<1>2. ObjectsOK' /\ LinksOK' /\ ThreadsOK'
  BY AttachmentAssumption, CallTypes DEF AttachmentTypeOK, ObjectsOK, LinksOK, ThreadsOK, Orphan, Goes,
     ElementPoints, ThreadPoints, objects, ends, threads
<1>3. HistoryOK'
  BY <1>1, SharesMore DEF AttachmentTypeOK, HistoryOK, Orphan, Goes, ghosts
<1>4. QED
  BY <1>1, <1>2, <1>3 DEF AttachmentTypeOK, Moves

\* Erase keeps the types.
LEMMA TypeErase ==
    ASSUME AttachmentTypeOK, NEW u \in Actor, Erase(u)
    PROVE  AttachmentTypeOK' /\ Moves(u, {})
<1>1. Moves(u, {})
  BY MovesOn DEF Erase, Goes
<1>2. ObjectsOK' /\ LinksOK' /\ ThreadsOK'
  BY AttachmentAssumption, CallTypes DEF AttachmentTypeOK, ObjectsOK, LinksOK, ThreadsOK, Erase, Goes,
     ElementPoints, ThreadPoints, objects, ends, threads
<1>3. HistoryOK'
  BY <1>1, SharesMore DEF AttachmentTypeOK, HistoryOK, Erase, Goes, ghosts
<1>4. QED
  BY <1>1, <1>2, <1>3 DEF AttachmentTypeOK, Moves

\* SetProducer keeps the types.
LEMMA TypeSetProducer ==
    ASSUME AttachmentTypeOK, NEW u \in Actor, NEW c \in Consumer, NEW l \in Listener \cup {Null}, SetProducer(u, c, l)
    PROVE  AttachmentTypeOK' /\ Moves(u, {c, l} \ {Null})
<1>1. Moves(u, {c, l} \ {Null})
  BY MovesSetProducer
<1>2. ObjectsOK' /\ LinksOK' /\ ThreadsOK'
  BY AttachmentAssumption DEF AttachmentTypeOK, ObjectsOK, LinksOK, ThreadsOK, SetProducer, Counted, objects,
     ends, threads
<1>3. HistoryOK'
  BY <1>1, SharesMore, AttachmentAssumption DEF AttachmentTypeOK, HistoryOK, SetProducer, Counted, ghosts
<1>4. QED
  BY <1>1, <1>2, <1>3 DEF AttachmentTypeOK, Moves

\* Unset keeps the types.
LEMMA TypeUnset ==
    ASSUME AttachmentTypeOK, NEW u \in Actor, Unset(u)
    PROVE  AttachmentTypeOK' /\ Moves(u, {})
<1>1. Moves(u, {})
  BY MovesOn DEF Unset, Goes
<1>2. ObjectsOK' /\ LinksOK' /\ ThreadsOK'
  BY AttachmentAssumption, CallTypes DEF AttachmentTypeOK, ObjectsOK, LinksOK, ThreadsOK, Unset, Goes,
     ElementPoints, ThreadPoints, objects, ends, threads
<1>3. HistoryOK'
  BY <1>1, SharesMore DEF AttachmentTypeOK, HistoryOK, Unset, Goes, ghosts
<1>4. QED
  BY <1>1, <1>2, <1>3 DEF AttachmentTypeOK, Moves

\* Assign keeps the types.
LEMMA TypeAssign ==
    ASSUME AttachmentTypeOK, NEW u \in Actor, Assign(u)
    PROVE  AttachmentTypeOK' /\ Moves(u, {})
<1>1. Moves(u, {})
  BY MovesOn DEF Assign, Goes
<1>2. ObjectsOK' /\ LinksOK' /\ ThreadsOK'
  BY AttachmentAssumption, CallTypes DEF AttachmentTypeOK, ObjectsOK, LinksOK, ThreadsOK, Assign, Goes,
     ElementPoints, ThreadPoints, objects, ends, threads
<1>3. HistoryOK'
  BY <1>1, SharesMore DEF AttachmentTypeOK, HistoryOK, Assign, Goes, ghosts
<1>4. QED
  BY <1>1, <1>2, <1>3 DEF AttachmentTypeOK, Moves

\* Bind keeps the types.
LEMMA TypeBind ==
    ASSUME AttachmentTypeOK, NEW u \in Actor, NEW c \in Consumer, NEW n \in Name, NEW slot \in {"empty", "set"}, Bind(u, c, n, slot)
    PROVE  AttachmentTypeOK' /\ Moves(u, {c})
<1>1. Moves(u, {c})
  BY MovesNot DEF Bind, Counted, Object, Threaded
<1>2. ObjectsOK' /\ LinksOK' /\ ThreadsOK'
  BY AttachmentAssumption DEF AttachmentTypeOK, ObjectsOK, LinksOK, ThreadsOK, Bind, Counted, objects, ends, threads
<1>3. HistoryOK'
  BY <1>1, SharesMore, AttachmentAssumption DEF AttachmentTypeOK, HistoryOK, Bind, Counted, ghosts
<1>4. QED
  BY <1>1, <1>2, <1>3 DEF AttachmentTypeOK, Moves

\* Run keeps the types.
LEMMA TypeRun ==
    ASSUME AttachmentTypeOK, NEW u \in Actor, NEW x \in Threaded, Run(u, x)
    PROVE  AttachmentTypeOK' /\ Moves(u, {x})
<1>1. Moves(u, {x})
  BY MovesRun
<1>2. ObjectsOK' /\ LinksOK' /\ ThreadsOK'
  BY AttachmentAssumption DEF AttachmentTypeOK, ObjectsOK, LinksOK, ThreadsOK, Run, Counted, objects, ends, threads
<1>3. HistoryOK'
  BY <1>1, SharesMore, AttachmentAssumption DEF AttachmentTypeOK, HistoryOK, Run, Counted, ghosts
<1>4. QED
  BY <1>1, <1>2, <1>3 DEF AttachmentTypeOK, Moves

\* InitConsumer keeps the types.
LEMMA TypeInitConsumer ==
    ASSUME AttachmentTypeOK, NEW u \in Actor, InitConsumer(u)
    PROVE  AttachmentTypeOK' /\ Moves(u, {})
<1>1. Moves(u, {})
  BY MovesOn DEF InitConsumer, Goes, Cleaned, ThreadPoints
<1>2. ObjectsOK' /\ LinksOK' /\ ThreadsOK'
  BY AttachmentAssumption, CallTypes DEF AttachmentTypeOK, ObjectsOK, LinksOK, ThreadsOK, InitConsumer, Goes,
     Cleaned, ElementPoints, ThreadPoints, objects, ends, threads
<1>3. HistoryOK'
  BY <1>1, SharesMore DEF AttachmentTypeOK, HistoryOK, InitConsumer, Goes, Cleaned, ghosts
<1>4. QED
  BY <1>1, <1>2, <1>3 DEF AttachmentTypeOK, Moves

\* Set keeps the types.
LEMMA TypeSet ==
    ASSUME AttachmentTypeOK, NEW u \in Actor, Set(u)
    PROVE  AttachmentTypeOK' /\ Moves(u, {})
<1>1. Moves(u, {})
  BY MovesOn DEF Set, Goes, ThreadPoints
<1>2. ObjectsOK' /\ LinksOK' /\ ThreadsOK'
  BY AttachmentAssumption, CallTypes DEF AttachmentTypeOK, ObjectsOK, LinksOK, ThreadsOK, Set, Goes,
     ElementPoints, ThreadPoints, objects, ends, threads
<1>3. HistoryOK'
  BY <1>1, SharesMore DEF AttachmentTypeOK, HistoryOK, Set, Goes, ghosts
<1>4. QED
  BY <1>1, <1>2, <1>3 DEF AttachmentTypeOK, Moves

\* Start keeps the types.
LEMMA TypeStart ==
    ASSUME AttachmentTypeOK, NEW u \in Actor, Start(u)
    PROVE  AttachmentTypeOK' /\ Moves(u, {})
<1>1. Moves(u, {})
  BY MovesOn DEF Start, Goes, ThreadPoints
<1>2. ObjectsOK' /\ LinksOK' /\ ThreadsOK'
  BY AttachmentAssumption, CallTypes DEF AttachmentTypeOK, ObjectsOK, LinksOK, ThreadsOK, Start, Goes,
     ElementPoints, ThreadPoints, objects, ends, threads
<1>3. HistoryOK'
  BY <1>1, SharesMore, CallTypes DEF AttachmentTypeOK, HistoryOK, Start, Goes, ghosts, ThreadPoints
<1>4. QED
  BY <1>1, <1>2, <1>3 DEF AttachmentTypeOK, Moves

\* JoinClear keeps the types.
LEMMA TypeJoinClear ==
    ASSUME AttachmentTypeOK, NEW a \in Actor, JoinClear(a)
    PROVE  AttachmentTypeOK' /\ Moves(a, {})
<1>1. Moves(a, {})
  BY MovesOn DEF JoinClear, Goes, ThreadPoints
<1>2. ObjectsOK' /\ LinksOK' /\ ThreadsOK'
  BY AttachmentAssumption, CallTypes DEF AttachmentTypeOK, ObjectsOK, LinksOK, ThreadsOK, JoinClear, Goes,
     ElementPoints, ThreadPoints, objects, ends, threads
<1>3. HistoryOK'
  BY <1>1, SharesMore DEF AttachmentTypeOK, HistoryOK, JoinClear, Goes, ghosts
<1>4. QED
  BY <1>1, <1>2, <1>3 DEF AttachmentTypeOK, Moves
\* remove_consumer and add_consumer keep the types.
LEMMA TypeEnlists ==
    ASSUME AttachmentTypeOK, NEW u \in Actor, NEW l \in Listener \cup {Null}, NEW to \in SUBSET Consumer, NEW at,
           \/ pc[u].at = "remove" /\ at = "unset"
           \/ pc[u].at = "add" /\ at = "assign",
           Enlists(u, l, to, at)
    PROVE  AttachmentTypeOK' /\ Moves(u, {l} \ {Null})
<1>1. Moves(u, {l} \ {Null})
  BY MovesEnlists
<1>2. ObjectsOK' /\ LinksOK' /\ ThreadsOK'
  BY AttachmentAssumption DEF AttachmentTypeOK, ObjectsOK, LinksOK, ThreadsOK, Enlists, Dangles, objects, ends,
     threads
<1>3. HistoryOK'
  BY <1>1, SharesMore DEF AttachmentTypeOK, HistoryOK, Enlists, Dangles, ghosts
<1>4. QED
  BY <1>1, <1>2, <1>3 DEF AttachmentTypeOK, Moves

\* Remove keeps the types.
LEMMA TypeRemove ==
    ASSUME AttachmentTypeOK, NEW u \in Actor, Remove(u)
    PROVE  /\ AttachmentTypeOK' /\ Moves(u, {producer[pc[u].of]} \ {Null})
           /\ pc[u].of \in Consumer /\ producer[pc[u].of] \in Listener \cup {Null}
<1>1. pc[u].at = "remove" /\ CallsOK
  BY DEF Remove, Goes, AttachmentTypeOK
<1>2. pc[u].of \in Consumer /\ producer[pc[u].of] \in Listener \cup {Null}
  BY <1>1, CallTypes DEF AttachmentTypeOK, ObjectsOK
<1>3. PICK l \in Listener \cup {Null} : l = producer[pc[u].of]
  BY <1>2
<1>4. Enlists(u, l, consumers[l] \ {pc[u].of}, "unset")
  BY <1>3 DEF Remove
<1>5. CASE l = Null
  <2>1. l \notin alive
    BY <1>5, AttachmentAssumption DEF AttachmentTypeOK, ObjectsOK, Threaded
  <2>2. Enlists(u, l, {}, "unset")
    BY <1>4, <2>1 DEF Enlists
  <2>3. QED
    BY <1>1, <1>2, <1>3, <2>2, TypeEnlists
<1>6. CASE l \in Listener
  <2>1. consumers[l] \ {pc[u].of} \in SUBSET Consumer
    BY <1>6 DEF AttachmentTypeOK, ObjectsOK
  <2>2. QED
    BY <1>1, <1>2, <1>3, <1>4, <2>1, TypeEnlists
<1>7. QED
  BY <1>5, <1>6

\* Add keeps the types.
LEMMA TypeAdd ==
    ASSUME AttachmentTypeOK, NEW u \in Actor, Add(u)
    PROVE  /\ AttachmentTypeOK' /\ Moves(u, {pc[u].with})
           /\ pc[u].of \in Consumer /\ pc[u].with \in Listener
<1>1. pc[u].at = "add" /\ CallsOK
  BY DEF Add, Goes, AttachmentTypeOK
<1>2. pc[u].of \in Consumer /\ pc[u].with \in Listener
  BY <1>1, CallTypes
<1>3. consumers[pc[u].with] \cup {pc[u].of} \in SUBSET Consumer
  BY <1>2 DEF AttachmentTypeOK, ObjectsOK
<1>4. Enlists(u, pc[u].with, consumers[pc[u].with] \cup {pc[u].of}, "assign")
  BY DEF Add
<1>5. {pc[u].with} \ {Null} = {pc[u].with}
  BY <1>2, AttachmentAssumption
<1>6. AttachmentTypeOK' /\ Moves(u, {pc[u].with} \ {Null})
  BY <1>1, <1>2, <1>3, <1>4, TypeEnlists
<1>7. QED
  BY <1>2, <1>5, <1>6

\* InitListener keeps the types.
LEMMA TypeInitListener ==
    ASSUME AttachmentTypeOK, NEW u \in Actor, InitListener(u)
    PROVE  AttachmentTypeOK' /\ pc[u].of \in Listener /\ Moves(u, consumers[pc[u].of])
<1>1. pc[u].of \in Listener /\ Moves(u, consumers[pc[u].of])
  BY MovesInitListener
<1>2. ObjectsOK' /\ ThreadsOK'
  BY DEF AttachmentTypeOK, ObjectsOK, ThreadsOK, InitListener, objects, ends, threads
<1>3. LinksOK'
  <2>1. links' \in {links, [links EXCEPT ![pc[u].of] = Cleared], [links EXCEPT ![pc[u].of] = Linked(pc[u].of)]}
    BY DEF InitListener
  <2>2. ASSUME NEW new \in [Name -> Consumer \cup {Null, Absent}], \A n \in Special : new[n] # Absent,
               links' = [links EXCEPT ![pc[u].of] = new]
        PROVE  LinksOK'
    BY <1>1, <2>2 DEF AttachmentTypeOK, LinksOK
  <2>3. \A n \in Special : Cleared[n] # Absent
    BY ClearedType, AttachmentAssumption
  <2>4. QED
    BY <1>1, <2>1, <2>2, <2>3, ClearedType, LinkedType DEF AttachmentTypeOK, LinksOK
<1>4. HistoryOK'
  <2>1. late' \in {late, [late EXCEPT ![pc[u].of] = {}]} /\ spurious' \in {spurious, spurious \cup {pc[u].of}}
    BY DEF InitListener
  <2>2. stopped' \in {stopped, "dangling"} /\ UNCHANGED <<calls, misused>>
    BY DEF InitListener, Dangles
  <2>3. QED
    BY <1>1, <2>1, <2>2, SharesMore DEF AttachmentTypeOK, HistoryOK
<1>5. QED
  BY <1>1, <1>2, <1>3, <1>4 DEF AttachmentTypeOK, Moves

\* Join keeps the types, in both of its callers.
LEMMA TypeJoin ==
    ASSUME AttachmentTypeOK, NEW a \in Actor, NEW x \in Threaded, Join(a, x),
           toJoin' \in [Listener -> SUBSET Consumer]
    PROVE  AttachmentTypeOK' /\ Moves(a, {x})
<1>1. Moves(a, {x})
  BY MovesJoin
<1>2. ObjectsOK' /\ LinksOK' /\ ThreadsOK'
  BY DEF AttachmentTypeOK, ObjectsOK, LinksOK, ThreadsOK, Join, objects, ends
<1>3. HistoryOK'
  BY <1>1, SharesMore DEF AttachmentTypeOK, HistoryOK, Join
<1>4. QED
  BY <1>1, <1>2, <1>3 DEF AttachmentTypeOK, Moves

\* JoinWait keeps the types.
LEMMA TypeJoinWait ==
    ASSUME AttachmentTypeOK, NEW a \in Actor, JoinWait(a)
    PROVE  AttachmentTypeOK' /\ Moves(a, {})
<1>1. Return(a) \/ UNCHANGED pc
  BY DEF JoinWait
<1>2. Moves(a, {})
  BY <1>1, MovesOn, MovesNot, TouchNothing DEF JoinWait
<1>3. pc[a].of \in Threaded
  BY CallTypes DEF JoinWait, Goes, AttachmentTypeOK, ThreadPoints
<1>4. ObjectsOK' /\ LinksOK' /\ ThreadsOK'
  BY DEF AttachmentTypeOK, ObjectsOK, LinksOK, ThreadsOK, JoinWait, objects, ends
<1>5. HistoryOK'
  BY <1>2, <1>3, SharesMore DEF AttachmentTypeOK, HistoryOK, JoinWait
<1>6. QED
  BY <1>2, <1>4, <1>5 DEF AttachmentTypeOK, Moves

\* Destroy keeps the types.
LEMMA TypeDestroy ==
    ASSUME AttachmentTypeOK, NEW u \in Actor, NEW x \in Threaded, Destroy(u, x)
    PROVE  AttachmentTypeOK' /\ Moves(u, {x})
<1>1. Moves(u, {x})
  BY MovesNot DEF Destroy, Object
<1>2. ObjectsOK' /\ LinksOK' /\ ThreadsOK'
  BY DEF AttachmentTypeOK, ObjectsOK, LinksOK, ThreadsOK, Destroy, ends, threads
<1>3. HistoryOK'
  BY <1>1, SharesMore, AttachmentAssumption DEF AttachmentTypeOK, HistoryOK, Destroy, Counted
<1>4. QED
  BY <1>1, <1>2, <1>3 DEF AttachmentTypeOK, Moves

\* The process stops over what was destroyed: the rest stays as it is.
LEMMA TypeDangles ==
    ASSUME AttachmentTypeOK, Dangles, UNCHANGED <<objects, links, running, thread, pc, shared, ghosts>>,
           toJoin' \in [Listener -> SUBSET Consumer]
    PROVE  AttachmentTypeOK'
  BY DEF AttachmentTypeOK, ObjectsOK, LinksOK, ThreadsOK, CallsOK, HistoryOK, Dangles, objects, ends, ghosts

\* The steps of a thread of its own keep the types.
LEMMA TypeThread ==
    ASSUME AttachmentTypeOK,
           \/ \E l \in Listener : Leave(l) \/ Finish(l)
           \/ \E c \in Consumer : Consume(c)
    PROVE  AttachmentTypeOK' /\ UNCHANGED <<pc, shared>>
<1>1. UNCHANGED <<pc, shared>>
  BY DEF Leave, Finish, Consume
<1>2. ObjectsOK' /\ CallsOK'
  BY <1>1 DEF AttachmentTypeOK, ObjectsOK, CallsOK, Leave, Finish, Consume, objects, ends
<1>3. LinksOK'
  BY ClearedType, AttachmentAssumption DEF AttachmentTypeOK, LinksOK, Leave, Finish, Consume
<1>4. ThreadsOK'
  <2>1. CASE \E l \in Listener : Leave(l)
    BY <2>1 DEF AttachmentTypeOK, ObjectsOK, ThreadsOK, Threaded, Leave
  <2>2. CASE \E l \in Listener : Finish(l)
    BY <2>2 DEF AttachmentTypeOK, ThreadsOK, Finish
  <2>3. CASE \E c \in Consumer : Consume(c)
    BY <2>3 DEF AttachmentTypeOK, ThreadsOK, Consume
  <2>4. QED
    BY <2>1, <2>2, <2>3
<1>5. HistoryOK'
  BY <1>1 DEF AttachmentTypeOK, HistoryOK, Leave, Finish, Consume, Dangles, ghosts
<1>6. QED
  BY <1>1, <1>2, <1>3, <1>4, <1>5 DEF AttachmentTypeOK

\* JoinNext keeps the types.
LEMMA TypeJoinNext ==
    ASSUME AttachmentTypeOK, NEW l \in Listener, JoinNext(l)
    PROVE  AttachmentTypeOK' /\ \E xs : Moves(l, xs)
<1>1. PICK c \in toJoin[l] :
         /\ toJoin' = [toJoin EXCEPT ![l] = @ \ {c}]
         /\ IF c \in alive THEN Join(l, c)
            ELSE Dangles /\ UNCHANGED <<objects, links, running, thread, pc, shared, ghosts>>
  BY DEF JoinNext
<1>2. toJoin' \in [Listener -> SUBSET Consumer] /\ c \in Threaded /\ l \in Actor
  BY <1>1 DEF AttachmentTypeOK, ThreadsOK, Threaded, Actor
<1>3. CASE c \in alive
  BY <1>1, <1>2, <1>3, TypeJoin
<1>4. CASE c \notin alive
  BY <1>1, <1>2, <1>4, TypeDangles, MovesNot, TouchNothing
<1>5. QED
  BY <1>3, <1>4

\* Init gives every variable its type.
LEMMA TypeInit == Init => AttachmentTypeOK
<1> SUFFICES ASSUME Init PROVE AttachmentTypeOK
  OBVIOUS
<1> USE AttachmentAssumption DEF Init
<1>1. ObjectsOK
  BY DEF ObjectsOK
<1>2. LinksOK
  BY ClearedType DEF LinksOK
<1>3. ThreadsOK
  BY DEF ThreadsOK
<1>4. CallsOK
  BY DEF CallsOK, Calls, Idle
<1>5. HistoryOK
  BY DEF HistoryOK
<1>6. QED
  BY <1>1, <1>2, <1>3, <1>4, <1>5 DEF AttachmentTypeOK

\* Every step keeps the types, and moves at most one call.
LEMMA TypeStep ==
    ASSUME AttachmentTypeOK, [Next]_vars
    PROVE  /\ AttachmentTypeOK'
           /\ (\E a \in Actor : \E xs : Moves(a, xs)) \/ UNCHANGED <<pc, shared>>
<1>1. ASSUME NEW u \in User, Begin(u)
      PROVE  AttachmentTypeOK' /\ \E xs : Moves(u, xs)
  <2>1. u \in Actor /\ alive \subseteq Threaded
    BY DEF Actor, AttachmentTypeOK, ObjectsOK
  <2>2. CASE \E l \in Listener, e \in Element : Attach(u, l, e) \/ Detach(u, l, e)
    BY <2>1, <2>2, TypeAttach, TypeDetach
  <2>3. CASE \E e \in Element : Disconnect(e)
    <3>1. Dangles /\ UNCHANGED <<objects, links, threads, pc, shared, ghosts>>
      BY <2>3 DEF Disconnect
    <3>2. UNCHANGED <<objects, links, running, thread, pc, shared, ghosts>>
          /\ toJoin' \in [Listener -> SUBSET Consumer]
      BY <3>1 DEF threads, AttachmentTypeOK, ThreadsOK
    <3>3. QED
      BY <2>1, <3>1, <3>2, TypeDangles, MovesNot, TouchNothing
  <2>4. CASE \E c \in Consumer, l \in Listener \cup {Null} : SetProducer(u, c, l)
    BY <2>1, <2>4, TypeSetProducer
  <2>5. CASE \E c \in Consumer, n \in Name, slot \in {"empty", "set"} : Bind(u, c, n, slot)
    BY <2>1, <2>5, TypeBind
  <2>6. CASE \E x \in alive : Run(u, x) \/ Destroy(u, x)
    BY <2>1, <2>6, TypeRun, TypeDestroy
  <2>7. CASE \E x \in alive : Join(u, x) /\ UNCHANGED toJoin
    <3>1. toJoin \in [Listener -> SUBSET Consumer]
      BY DEF AttachmentTypeOK, ThreadsOK
    <3>2. QED
      BY <2>1, <2>7, <3>1, TypeJoin
  <2>8. QED
    BY <1>1, <2>2, <2>3, <2>4, <2>5, <2>6, <2>7 DEF Begin
<1>2. ASSUME NEW u \in User, Continue(u)
      PROVE  AttachmentTypeOK' /\ \E xs : Moves(u, xs)
  <2>1. u \in Actor
    BY DEF Actor
  <2>2. CASE Adopt(u) \/ List(u) \/ Orphan(u) \/ Erase(u)
    BY <2>1, <2>2, TypeAdopt, TypeList, TypeOrphan, TypeErase
  <2>3. CASE Remove(u) \/ Unset(u) \/ Add(u) \/ Assign(u)
    BY <2>1, <2>3, TypeRemove, TypeUnset, TypeAdd, TypeAssign
  <2>4. CASE InitListener(u) \/ InitConsumer(u) \/ Set(u) \/ Start(u)
    BY <2>1, <2>4, TypeInitListener, TypeInitConsumer, TypeSet, TypeStart
  <2>5. QED
    BY <1>2, <2>2, <2>3, <2>4 DEF Continue
<1>3. ASSUME NEW a \in Actor, JoinClear(a) \/ JoinWait(a) \/ Stray(a)
      PROVE  AttachmentTypeOK' /\ \E xs : Moves(a, xs)
  <2>1. CASE Stray(a)
    <3>1. Dangles /\ UNCHANGED <<objects, links, threads, pc, shared, ghosts>>
      BY <2>1 DEF Stray
    <3>2. UNCHANGED <<objects, links, running, thread, pc, shared, ghosts>>
          /\ toJoin' \in [Listener -> SUBSET Consumer]
      BY <3>1 DEF threads, AttachmentTypeOK, ThreadsOK
    <3>3. QED
      BY <3>1, <3>2, TypeDangles, MovesNot, TouchNothing
  <2>2. QED
    BY <1>3, <2>1, TypeJoinClear, TypeJoinWait
<1>4. ASSUME NEW l \in Listener, JoinNext(l)
      PROVE  AttachmentTypeOK' /\ l \in Actor /\ \E xs : Moves(l, xs)
  BY <1>4, TypeJoinNext DEF Actor
<1>5. CASE UNCHANGED vars
  BY <1>5 DEF vars, objects, ends, threads, ghosts,
              AttachmentTypeOK, ObjectsOK, LinksOK, ThreadsOK, CallsOK, HistoryOK
<1>6. QED
  BY <1>1, <1>2, <1>3, <1>4, <1>5, TypeThread DEF Next, Actor

\* Every variable of the objects, threads and calls keeps its type, in every
\* interleaving of any number of threads: m_links never loses an unnamed link.
THEOREM AttachmentTypeCorrect == Spec => []AttachmentTypeOK
<1>1. AttachmentTypeOK /\ [Next]_vars => AttachmentTypeOK'
  BY TypeStep
<1>2. QED
  BY TypeInit, <1>1, PTL DEF Spec

------------------------------------------------------------------------------
(* Who uses what *)

\* An object that two calls use was used by two calls at once.
Exclusive ==
    \A a, b \in Actor : \A x \in Object :
        a # b /\ x \in pc[a].uses /\ x \in pc[b].uses => x \in shared

\* A call that comes to an object in use shares it.
LEMMA ExclusiveStep ==
    ASSUME AttachmentTypeOK, Exclusive, [Next]_vars
    PROVE  Exclusive' /\ shared \subseteq shared'
<1>1. CASE UNCHANGED <<pc, shared>>
  BY <1>1 DEF Exclusive
<1>2. ASSUME NEW a \in Actor, NEW xs, Moves(a, xs)
      PROVE  Exclusive' /\ shared \subseteq shared'
  <2>1. shared \subseteq shared'
    BY <1>2, SharesMore
  <2>2. ASSUME NEW b \in Actor \ {a}, NEW x \in Object, x \in pc'[a].uses, x \in pc'[b].uses
        PROVE  x \in shared'
    <3>1. x \in pc[b].uses /\ x \in pc[a].uses \cup xs
      BY <1>2, <2>2 DEF Moves
    <3>2. CASE x \in xs
      BY <1>2, <3>1, <3>2 DEF Moves, Touch
    <3>3. CASE x \in pc[a].uses
      BY <2>1, <3>1, <3>3 DEF Exclusive
    <3>4. QED
      BY <3>1, <3>2, <3>3
  <2>3. ASSUME NEW b \in Actor \ {a}, NEW d \in Actor \ {a}, NEW x \in Object, b # d,
               x \in pc'[b].uses, x \in pc'[d].uses
        PROVE  x \in shared'
    BY <1>2, <2>1, <2>3 DEF Moves, Exclusive
  <2>4. QED
    BY <2>1, <2>2, <2>3 DEF Exclusive
<1>3. QED
  BY <1>1, <1>2, TypeStep

\* Only one call is about an object that is not shared.
LEMMA Alone ==
    ASSUME AttachmentTypeOK, Exclusive, NEW x \in Object \ shared, NEW a \in Actor, NEW b \in Actor,
           x \in pc[a].uses, x \in {pc[b].of, pc[b].with}
    PROVE  a = b
<1>1. x # Null
  BY AttachmentAssumption DEF Object, Threaded
<1>2. x \in pc[b].uses
  BY <1>1, CallTypes DEF AttachmentTypeOK
<1>3. QED
  BY <1>2 DEF Exclusive

\* Nobody else uses an object that a step comes to and does not share.
LEMMA Untouched ==
    ASSUME AttachmentTypeOK, NEW a \in Actor, NEW xs, Touch(a, xs), NEW x \in xs \ shared',
           NEW b \in Actor \ {a}
    PROVE  x \notin pc[b].uses /\ (x # Null => pc[b].of # x /\ pc[b].with # x)
<1>1. x \notin pc[b].uses
  BY DEF Touch
<1>2. QED
  BY <1>1, CallTypes DEF AttachmentTypeOK

------------------------------------------------------------------------------
(* Threads and joins *)

\* What a call of run or join knows of its object's thread.
CallKnows ==
    \A a \in Actor : pc[a].of \notin shared =>
        /\ pc[a].at \in {"init", "set"} => pc[a].of \notin running /\ thread[pc[a].of] = "none"
        /\ pc[a].at = "start" => pc[a].of \in running /\ thread[pc[a].of] = "none"
        /\ pc[a].at = "clear" => pc[a].of \in running /\ thread[pc[a].of] = "running"
        /\ pc[a].at = "wait" => pc[a].of \notin running /\ thread[pc[a].of] # "none"

\* A thread is told to end only by somebody who waits for it, and missing only
\* where somebody is about to start it.
ThreadsAwaited ==
    \A x \in Threaded \ shared :
        IF x \in running
        THEN thread[x] = "running" \/ \E a \in Actor : pc[a].of = x /\ pc[a].at = "start"
        ELSE thread[x] = "none" \/ \E a \in Actor : pc[a].of = x /\ pc[a].at = "wait"

\* The consumers that a listener still has to join are its own.
JoinsOwn == \A l \in Listener \ shared : thread[l] = "leaving" => toJoin[l] \subseteq consumers[l]

ThreadInv == CallKnows /\ ThreadsAwaited /\ JoinsOwn /\ misused \subseteq shared

\* A step that touches nothing of it keeps the invariant.
LEMMA ThreadKept ==
    ASSUME ThreadInv, shared \subseteq shared', UNCHANGED <<running, thread, toJoin, consumers, misused>>,
           \A a \in Actor : pc'[a] = pc[a] \/ {pc[a].at, pc'[a].at} \cap ThreadPoints = {}
    PROVE  ThreadInv'
<1>1. CallKnows'
  BY DEF ThreadInv, CallKnows, ThreadPoints
<1>2. ThreadsAwaited'
  <2>1. ASSUME NEW x \in Threaded \ shared', NEW a \in Actor, pc[a].of = x, pc[a].at \in {"start", "wait"}
        PROVE  pc'[a] = pc[a]
    BY <2>1 DEF ThreadPoints
  <2>2. QED
    BY <2>1 DEF ThreadInv, ThreadsAwaited
<1>3. JoinsOwn' /\ misused' \subseteq shared'
  BY DEF ThreadInv, JoinsOwn
<1>4. QED
  BY <1>1, <1>2, <1>3 DEF ThreadInv

\* The steps of attach and detach.
LEMMA ThreadElement ==
    ASSUME AttachmentTypeOK, ThreadInv, shared \subseteq shared', NEW u \in Actor, pc[u].at \in {"idle"} \cup ElementPoints,
           \/ \E l \in Listener, e \in Element : Attach(u, l, e) \/ Detach(u, l, e)
           \/ Adopt(u) \/ List(u) \/ Orphan(u) \/ Erase(u)
    PROVE  ThreadInv'
<1>1. UNCHANGED <<running, thread, toJoin, consumers, misused>>
  BY DEF Attach, Detach, Adopt, List, Orphan, Erase, objects, ends, threads, ghosts
<1>2. \/ \E at \in ElementPoints : \E x, y, xs : Call(u, at, x, y, xs)
      \/ Return(u)
  BY DEF Attach, Detach, Adopt, List, Orphan, Erase, Then, ElementPoints
<1>3. \A b \in Actor : pc'[b] = pc[b] \/ (b = u /\ pc'[b].at \in {"idle"} \cup ElementPoints)
  BY <1>2, ActsAlone DEF AttachmentTypeOK
<1>4. QED
  BY <1>1, <1>3, ThreadKept DEF ElementPoints, ThreadPoints

\* The steps of set_producer but for the lists.
LEMMA ThreadProducer ==
    ASSUME AttachmentTypeOK, ThreadInv, shared \subseteq shared', NEW u \in Actor,
           \/ pc[u] = Idle /\ \E c \in Consumer, l \in Listener \cup {Null} : SetProducer(u, c, l)
           \/ Unset(u) \/ Assign(u)
    PROVE  ThreadInv'
<1>1. UNCHANGED <<running, thread, toJoin, consumers, misused>> /\ pc[u].at \in {"idle", "unset", "assign"}
  <2>1. CASE pc[u] = Idle /\ \E c \in Consumer, l \in Listener \cup {Null} : SetProducer(u, c, l)
    BY <2>1 DEF SetProducer, Idle, objects, ends, threads
  <2>2. CASE Unset(u) \/ Assign(u)
    BY <2>2 DEF Unset, Assign, Goes, threads, ghosts
  <2>3. QED
    BY <2>1, <2>2
<1>2. \/ \E at \in {"remove", "add"} : \E x, y, xs : Call(u, at, x, y, xs)
      \/ Return(u) \/ UNCHANGED pc
  BY DEF SetProducer, Unset, Assign, Then
<1>3. \A b \in Actor : pc'[b] = pc[b] \/ (b = u /\ pc'[b].at \in {"idle", "remove", "add"})
  BY <1>2, ActsAlone DEF AttachmentTypeOK
<1>4. QED
  BY <1>1, <1>3, ThreadKept DEF ThreadPoints

\* The lists of a listener change only while nobody is about to end it.
LEMMA ThreadEnlists ==
    ASSUME AttachmentTypeOK, ThreadInv, shared \subseteq shared', NEW u \in Actor, NEW l \in Listener, NEW to, NEW at,
           pc[u].at \in {"remove", "add"}, at \in {"unset", "assign"}, Enlists(u, l, to, at)
    PROVE  ThreadInv'
<1>1. UNCHANGED <<running, thread, toJoin, misused>> /\ Touch(u, {l} \ {Null}) /\ l # Null
  BY AttachmentAssumption DEF Enlists, threads, ghosts
<1>2. \A b \in Actor : pc'[b] = pc[b] \/ (b = u /\ pc'[b].at \in {"unset", "assign"})
  BY ThenIs DEF Enlists, AttachmentTypeOK
<1>3. CASE UNCHANGED consumers
  BY <1>1, <1>2, <1>3, ThreadKept DEF ThreadPoints
<1>4. CASE l \notin running /\ consumers' = [consumers EXCEPT ![l] = to]
  <2>1. CallKnows' /\ ThreadsAwaited' /\ misused' \subseteq shared'
    BY <1>1, <1>2 DEF ThreadInv, CallKnows, ThreadsAwaited, ThreadPoints
  <2>2. thread[l] = "leaving" => l \in shared'
    <3>1. SUFFICES ASSUME thread[l] = "leaving", l \notin shared' PROVE FALSE
      OBVIOUS
    <3>2. l \in Threaded \ shared
      BY <3>1 DEF Threaded
    <3>3. PICK b \in Actor : pc[b].of = l /\ pc[b].at = "wait"
      BY <1>4, <3>1, <3>2 DEF ThreadInv, ThreadsAwaited
    <3>4. b # u
      BY <3>3
    <3>5. QED
      BY <1>1, <3>1, <3>3, <3>4, Untouched
  <2>3. JoinsOwn'
    BY <1>1, <1>4, <2>2 DEF ThreadInv, JoinsOwn, AttachmentTypeOK, ObjectsOK
  <2>4. QED
    BY <2>1, <2>3 DEF ThreadInv
<1>5. QED
  BY <1>3, <1>4 DEF Enlists

\* The destructor of an object whose thread is still there was called while a
\* join of it goes on.
LEMMA ThreadDestroy ==
    ASSUME AttachmentTypeOK, ThreadInv, shared \subseteq shared', NEW u \in Actor, pc[u] = Idle,
           NEW x \in Threaded, Destroy(u, x)
    PROVE  ThreadInv'
<1>1. UNCHANGED <<running, thread, toJoin, consumers, pc>> /\ Touch(u, {x}) /\ x \notin running
  BY DEF Destroy, ends, threads
<1>2. thread[x] # "none" => x \in shared'
  <2>1. SUFFICES ASSUME thread[x] # "none", x \notin shared' PROVE FALSE
    OBVIOUS
  <2>2. PICK b \in Actor : pc[b].of = x /\ pc[b].at = "wait"
    BY <1>1, <2>1 DEF ThreadInv, ThreadsAwaited
  <2>3. b # u /\ x # Null
    BY <2>2, AttachmentAssumption DEF Idle, Threaded
  <2>4. QED
    BY <1>1, <2>1, <2>2, <2>3, Untouched
<1>3. misused' \subseteq shared'
  BY <1>2 DEF ThreadInv, Destroy
<1>4. CallKnows' /\ ThreadsAwaited' /\ JoinsOwn'
  BY <1>1 DEF ThreadInv, CallKnows, ThreadsAwaited, JoinsOwn
<1>5. QED
  BY <1>3, <1>4 DEF ThreadInv

\* The first step of run: an object that is not shared has no thread.
LEMMA ThreadRun ==
    ASSUME AttachmentTypeOK, ThreadInv, shared \subseteq shared', NEW u \in Actor, pc[u] = Idle,
           NEW x \in Threaded, Run(u, x)
    PROVE  ThreadInv'
<1>1. /\ UNCHANGED <<running, thread, toJoin, consumers, misused>> /\ Touch(u, {x}) /\ x \notin running
      /\ Call(u, "init", x, Null, {x})
  BY DEF Run, objects, ends, threads
<1>2. \A b \in Actor : pc'[b] = IF b = u THEN [at |-> "init", of |-> x, with |-> Null, uses |-> {x}] ELSE pc[b]
  BY <1>1, CallIs DEF AttachmentTypeOK
<1>3. x \notin shared' => thread[x] = "none"
  <2>1. SUFFICES ASSUME thread[x] # "none", x \notin shared' PROVE FALSE
    OBVIOUS
  <2>2. PICK b \in Actor : pc[b].of = x /\ pc[b].at = "wait"
    BY <1>1, <2>1 DEF ThreadInv, ThreadsAwaited
  <2>3. b # u /\ x # Null
    BY <2>2, AttachmentAssumption DEF Idle, Threaded
  <2>4. QED
    BY <1>1, <2>1, <2>2, <2>3, Untouched
<1>4. CallKnows'
  BY <1>1, <1>2, <1>3 DEF ThreadInv, CallKnows
<1>5. ThreadsAwaited'
  <2>1. \A b \in Actor : pc[b].at \in {"start", "wait"} => pc'[b] = pc[b]
    BY <1>2 DEF Idle
  <2>2. QED
    BY <1>1, <2>1 DEF ThreadInv, ThreadsAwaited
<1>6. JoinsOwn' /\ misused' \subseteq shared'
  BY <1>1 DEF ThreadInv, JoinsOwn
<1>7. QED
  BY <1>4, <1>5, <1>6 DEF ThreadInv

\* run_init, which may be the end of the call.
LEMMA ThreadInit ==
    ASSUME AttachmentTypeOK, ThreadInv, shared \subseteq shared', NEW u \in Actor,
           InitListener(u) \/ InitConsumer(u)
    PROVE  ThreadInv'
<1>1. UNCHANGED <<running, thread, toJoin, consumers, misused>> /\ pc[u].at = "init"
  BY DEF InitListener, InitConsumer, Goes, objects, ends, threads, ghosts
<1>2. \/ UNCHANGED pc
      \/ Return(u)
      \/ \E xs : Then(u, "set", xs)
  BY DEF InitListener, InitConsumer
<1>3. \A b \in Actor : \/ pc'[b] = pc[b]
                       \/ b = u /\ pc'[b].at = "idle"
                       \/ b = u /\ pc'[b].at = "set" /\ pc'[b].of = pc[b].of
  <2>1. CASE Return(u)
    BY <2>1, ReturnIs DEF AttachmentTypeOK, Idle
  <2>2. ASSUME NEW xs, Then(u, "set", xs)
        PROVE  (\A b \in Actor \ {u} : pc'[b] = pc[b]) /\ pc'[u].at = "set" /\ pc'[u].of = pc[u].of
    BY <2>2, ThenIs DEF AttachmentTypeOK
  <2>3. QED
    BY <1>2, <2>1, <2>2
<1>4. CallKnows'
  BY <1>1, <1>3 DEF ThreadInv, CallKnows
<1>5. ThreadsAwaited'
  <2>1. \A b \in Actor : pc[b].at \in {"start", "wait"} => pc'[b] = pc[b]
    BY <1>1, <1>3
  <2>2. QED
    BY <1>1, <2>1 DEF ThreadInv, ThreadsAwaited
<1>6. JoinsOwn' /\ misused' \subseteq shared'
  BY <1>1 DEF ThreadInv, JoinsOwn
<1>7. QED
  BY <1>4, <1>5, <1>6 DEF ThreadInv

\* Of two calls about one object that is not shared both are the same.
LEMMA OfOne ==
    ASSUME AttachmentTypeOK, Exclusive, NEW u \in Actor, pc[u].at \in ThreadPoints, pc[u].of \notin shared,
           NEW b \in Actor, pc[b].of = pc[u].of
    PROVE  b = u
<1>1. pc[u].of \in Object /\ pc[u].of # Null
  BY CallTypes, AttachmentAssumption DEF AttachmentTypeOK, Object, Threaded
<1>2. pc[u].of \in pc[u].uses
  BY <1>1, CallTypes DEF AttachmentTypeOK
<1>3. QED
  BY <1>1, <1>2, Alone

\* run sets m_running,
LEMMA ThreadSet ==
    ASSUME AttachmentTypeOK, Exclusive, ThreadInv, NEW u \in Actor, Set(u)
    PROVE  ThreadInv'
<1>1. /\ UNCHANGED <<thread, toJoin, consumers, misused, shared>> /\ pc[u].at = "set"
      /\ running' = running \cup {pc[u].of} /\ Then(u, "start", {})
  BY DEF Set, Goes, objects, ends, ghosts
<1>2. (\A b \in Actor \ {u} : pc'[b] = pc[b]) /\ pc'[u].at = "start" /\ pc'[u].of = pc[u].of
  BY <1>1, ThenIs DEF AttachmentTypeOK
<1>3. pc[u].of \notin shared => \A b \in Actor \ {u} : pc[b].of # pc[u].of
  BY <1>1, OfOne DEF ThreadPoints
<1>4. CallKnows'
  BY <1>1, <1>2, <1>3 DEF ThreadInv, CallKnows
<1>5. ThreadsAwaited'
  <2>1. ASSUME NEW x \in Threaded \ shared, x # pc[u].of, NEW b \in Actor, pc[b].of = x
        PROVE  pc'[b] = pc[b]
    BY <1>2, <2>1
  <2>2. QED
    BY <1>1, <1>2, <2>1 DEF ThreadInv, ThreadsAwaited
<1>6. JoinsOwn' /\ misused' \subseteq shared'
  BY <1>1 DEF ThreadInv, JoinsOwn
<1>7. QED
  BY <1>4, <1>5, <1>6 DEF ThreadInv

\* and starts the thread of an object that has none, if it is not shared.
LEMMA ThreadStart ==
    ASSUME AttachmentTypeOK, Exclusive, ThreadInv, NEW u \in Actor, Start(u)
    PROVE  ThreadInv'
<1>1. /\ UNCHANGED <<running, toJoin, consumers, shared>> /\ pc[u].at = "start" /\ Return(u)
      /\ IF thread[pc[u].of] = "none"
         THEN thread' = [thread EXCEPT ![pc[u].of] = "running"] /\ UNCHANGED misused
         ELSE misused' = misused \cup {pc[u].of} /\ UNCHANGED thread
  BY DEF Start, Goes, objects, ends
<1>2. \A b \in Actor : pc'[b] = IF b = u THEN Idle ELSE pc[b]
  BY <1>1, ReturnIs DEF AttachmentTypeOK
<1>3. pc[u].of \notin shared => \A b \in Actor \ {u} : pc[b].of # pc[u].of
  BY <1>1, OfOne DEF ThreadPoints
<1>4. pc[u].of \notin shared => pc[u].of \in running /\ thread[pc[u].of] = "none"
  BY <1>1 DEF ThreadInv, CallKnows
<1>5. pc[u].of \in Threaded
  BY <1>1, CallTypes DEF AttachmentTypeOK, ThreadPoints
<1>6. /\ \A y \in Threaded : y # pc[u].of => thread'[y] = thread[y]
      /\ pc[u].of \notin shared => thread'[pc[u].of] = "running"
  BY <1>1, <1>4, <1>5 DEF AttachmentTypeOK, ThreadsOK
<1>7. CallKnows'
  <2>1. ASSUME NEW b \in Actor, pc'[b].of \notin shared', pc'[b].at \in ThreadPoints
        PROVE  /\ b # u /\ pc'[b] = pc[b] /\ pc[b].of \in Threaded
               /\ thread'[pc[b].of] = thread[pc[b].of]
    <3>1. b # u /\ pc'[b] = pc[b]
      BY <1>2, <2>1 DEF Idle, ThreadPoints
    <3>2. pc[b].of \in Threaded
      BY <2>1, <3>1, CallTypes DEF AttachmentTypeOK
    <3>3. QED
      BY <1>1, <1>3, <1>6, <2>1, <3>1, <3>2
  <2>2. QED
    BY <1>1, <2>1 DEF ThreadInv, CallKnows, ThreadPoints
<1>8. ThreadsAwaited'
  <2>1. ASSUME NEW x \in Threaded \ shared, x # pc[u].of, NEW b \in Actor, pc[b].of = x
        PROVE  pc'[b] = pc[b]
    BY <1>2, <2>1
  <2>2. QED
    BY <1>1, <1>4, <1>6, <2>1 DEF ThreadInv, ThreadsAwaited
<1>9. JoinsOwn'
  BY <1>1, <1>5, <1>6 DEF ThreadInv, JoinsOwn, Threaded
<1>10. misused' \subseteq shared'
  BY <1>1, <1>4 DEF ThreadInv
<1>11. QED
  BY <1>7, <1>8, <1>9, <1>10 DEF ThreadInv

\* The test of join: it returns early only where another join goes on.
LEMMA ThreadJoin ==
    ASSUME AttachmentTypeOK, ThreadInv, shared \subseteq shared', NEW a \in Actor, pc[a] = Idle,
           NEW x \in Threaded, Join(a, x),
           \A l \in Listener : toJoin'[l] \subseteq toJoin[l]
    PROVE  ThreadInv'
<1>1. UNCHANGED <<running, thread, consumers>> /\ Touch(a, {x}) /\ x # Null
  BY AttachmentAssumption DEF Join, objects, ends, Threaded
<1>2. \/ x \in running /\ Call(a, "clear", x, Null, {x}) /\ UNCHANGED misused
      \/ /\ x \notin running /\ UNCHANGED pc
         /\ misused' = IF thread[x] = "none" THEN misused ELSE misused \cup {x}
  BY DEF Join
<1>3. x \notin shared' => \A b \in Actor : pc[b].of # x
  BY <1>1, Untouched DEF Idle
<1>4. \A b \in Actor : \/ pc'[b] = pc[b]
                       \/ b = a /\ x \in running /\ pc'[b].at = "clear" /\ pc'[b].of = x
  <2>1. CASE x \in running /\ Call(a, "clear", x, Null, {x})
    BY <2>1 DEF AttachmentTypeOK, CallsOK, Call
  <2>2. QED
    BY <1>2, <2>1
<1>5. x \notin shared' => thread[x] = IF x \in running THEN "running" ELSE "none"
  BY <1>3 DEF ThreadInv, ThreadsAwaited
<1>6. CallKnows'
  <2>1. ASSUME NEW b \in Actor, pc'[b] # pc[b], pc'[b].of \notin shared'
        PROVE  pc'[b].at = "clear" /\ pc'[b].of \in running' /\ thread'[pc'[b].of] = "running"
    BY <1>1, <1>4, <1>5, <2>1
  <2>2. QED
    BY <1>1, <2>1 DEF ThreadInv, CallKnows
<1>7. ThreadsAwaited'
  <2>1. \A b \in Actor : pc[b].at \in {"start", "wait"} => pc'[b] = pc[b]
    BY <1>4 DEF Idle
  <2>2. QED
    BY <1>1, <2>1 DEF ThreadInv, ThreadsAwaited
<1>8. JoinsOwn'
  BY <1>1 DEF ThreadInv, JoinsOwn
<1>9. misused' \subseteq shared'
  BY <1>2, <1>5 DEF ThreadInv
<1>10. QED
  BY <1>6, <1>7, <1>8, <1>9 DEF ThreadInv

\* join clears m_running of an object that only this thread joins.
LEMMA ThreadJoinClear ==
    ASSUME AttachmentTypeOK, Exclusive, ThreadInv, NEW a \in Actor, JoinClear(a)
    PROVE  ThreadInv'
<1>1. /\ UNCHANGED <<thread, toJoin, consumers, misused, shared>> /\ pc[a].at = "clear"
      /\ running' = running \ {pc[a].of}
      /\ IF thread[pc[a].of] = "none" THEN Return(a) ELSE Then(a, "wait", {})
  BY DEF JoinClear, Goes, objects, ends, ghosts
<1>2. /\ \A b \in Actor \ {a} : pc'[b] = pc[b]
      /\ \/ thread[pc[a].of] = "none" /\ pc'[a].at = "idle"
         \/ thread[pc[a].of] # "none" /\ pc'[a].at = "wait" /\ pc'[a].of = pc[a].of
  BY <1>1, ReturnIs, ThenIs DEF AttachmentTypeOK, Idle
<1>3. pc[a].of \notin shared => \A b \in Actor \ {a} : pc[b].of # pc[a].of
  BY <1>1, OfOne DEF ThreadPoints
<1>4. CallKnows'
  BY <1>1, <1>2, <1>3 DEF ThreadInv, CallKnows
<1>5. ThreadsAwaited'
  <2>1. ASSUME NEW x \in Threaded \ shared, x # pc[a].of, NEW b \in Actor, pc[b].of = x
        PROVE  pc'[b] = pc[b]
    BY <1>2, <2>1
  <2>2. QED
    BY <1>1, <1>2, <2>1 DEF ThreadInv, ThreadsAwaited
<1>6. JoinsOwn' /\ misused' \subseteq shared'
  BY <1>1 DEF ThreadInv, JoinsOwn
<1>7. QED
  BY <1>4, <1>5, <1>6 DEF ThreadInv

\* The thread has ended, or another one joins the same object.
LEMMA ThreadJoinWait ==
    ASSUME AttachmentTypeOK, Exclusive, ThreadInv, NEW a \in Actor, JoinWait(a)
    PROVE  ThreadInv'
<1>1. UNCHANGED <<running, toJoin, consumers, shared>> /\ pc[a].at = "wait"
  BY DEF JoinWait, Goes, objects, ends
<1>2. pc[a].of \notin shared => \A b \in Actor \ {a} : pc[b].of # pc[a].of
  BY <1>1, OfOne DEF ThreadPoints
<1>3. pc[a].of \in Threaded
  BY <1>1, CallTypes DEF AttachmentTypeOK, ThreadPoints
<1>4. pc[a].of \notin shared => pc[a].of \notin running /\ thread[pc[a].of] # "none"
  BY <1>1 DEF ThreadInv, CallKnows
<1>5. CASE /\ thread[pc[a].of] = "ended"
           /\ thread' = [thread EXCEPT ![pc[a].of] = "none"]
           /\ Return(a) /\ UNCHANGED misused
  <2>1. \A b \in Actor : pc'[b] = IF b = a THEN Idle ELSE pc[b]
    BY <1>5, ReturnIs DEF AttachmentTypeOK
  <2>2. \A y \in Threaded : thread'[y] = IF y = pc[a].of THEN "none" ELSE thread[y]
    BY <1>5 DEF AttachmentTypeOK, ThreadsOK
  <2>3. CallKnows'
    <3>1. ASSUME NEW b \in Actor, pc'[b].of \notin shared', pc'[b].at \in ThreadPoints
          PROVE  pc'[b] = pc[b] /\ thread'[pc[b].of] = thread[pc[b].of]
      <4>1. b # a /\ pc'[b] = pc[b]
        BY <2>1, <3>1 DEF Idle, ThreadPoints
      <4>2. pc[b].of \in Threaded
        BY <3>1, <4>1, CallTypes DEF AttachmentTypeOK
      <4>3. QED
        BY <1>1, <1>2, <2>2, <3>1, <4>1, <4>2
    <3>2. QED
      BY <1>1, <3>1 DEF ThreadInv, CallKnows, ThreadPoints
  <2>4. ThreadsAwaited'
    <3>1. ASSUME NEW x \in Threaded \ shared, x # pc[a].of, NEW b \in Actor, pc[b].of = x
          PROVE  pc'[b] = pc[b]
      BY <2>1, <3>1
    <3>2. QED
      BY <1>1, <1>4, <2>2, <3>1 DEF ThreadInv, ThreadsAwaited
  <2>5. JoinsOwn' /\ misused' \subseteq shared'
    BY <1>1, <1>5, <2>2 DEF ThreadInv, JoinsOwn, Threaded
  <2>6. QED
    BY <2>3, <2>4, <2>5 DEF ThreadInv
<1>6. CASE /\ thread[pc[a].of] = "none" \/ \E b \in Actor \ {a} : pc[b].at = "wait" /\ pc[b].of = pc[a].of
           /\ misused' = misused \cup {pc[a].of} /\ UNCHANGED <<thread, pc>>
  <2>1. misused' \subseteq shared'
    BY <1>1, <1>2, <1>4, <1>6 DEF ThreadInv
  <2>2. CallKnows' /\ ThreadsAwaited' /\ JoinsOwn'
    BY <1>1, <1>6 DEF ThreadInv, CallKnows, ThreadsAwaited, JoinsOwn
  <2>3. QED
    BY <2>1, <2>2 DEF ThreadInv
<1>7. QED
  BY <1>5, <1>6 DEF JoinWait

\* A thread that ends or is about to was told so.
LEMMA ThreadEnds ==
    ASSUME AttachmentTypeOK, ThreadInv,
           \/ \E l \in Listener : Leave(l) \/ Finish(l)
           \/ \E c \in Consumer : Consume(c)
    PROVE  ThreadInv'
<1>1. UNCHANGED <<running, pc, consumers, misused, shared>>
  BY DEF Leave, Finish, Consume, objects, ends, ghosts
<1>2. CASE UNCHANGED <<thread, toJoin>>
  BY <1>1, <1>2, ThreadKept
<1>3. ASSUME NEW x \in Threaded, thread[x] \in {"running", "leaving"}, thread[x] = "running" => x \notin running,
             NEW next \in {"leaving", "ended"}, thread' = [thread EXCEPT ![x] = next],
             next = "leaving" => x \in Listener /\ toJoin' = [toJoin EXCEPT ![x] = consumers[x]],
             next = "ended" => UNCHANGED toJoin
      PROVE  ThreadInv'
  <2>1. \A y \in Threaded : thread'[y] = IF y = x THEN next ELSE thread[y]
    BY <1>3 DEF AttachmentTypeOK, ThreadsOK
  <2>2. x \notin shared => x \notin running
    BY <1>3 DEF ThreadInv, ThreadsAwaited, CallKnows
  <2>3. CallKnows'
    <3>1. \A a \in Actor : pc[a].at \in ThreadPoints => pc[a].of \in Threaded
      BY CallTypes DEF AttachmentTypeOK
    <3>2. QED
      BY <1>1, <1>3, <2>1, <2>2, <3>1 DEF ThreadInv, CallKnows, ThreadPoints
  <2>4. ThreadsAwaited'
    BY <1>1, <1>3, <2>1, <2>2 DEF ThreadInv, ThreadsAwaited
  <2>5. JoinsOwn'
    BY <1>1, <1>3, <2>1 DEF ThreadInv, JoinsOwn, AttachmentTypeOK, ThreadsOK, Threaded
  <2>6. QED
    BY <1>1, <2>3, <2>4, <2>5 DEF ThreadInv
<1>4. CASE \E l \in Listener : Leave(l)
  BY <1>3, <1>4 DEF Leave, Threaded
<1>5. CASE \E l \in Listener : Finish(l)
  BY <1>3, <1>5 DEF Finish, Threaded
<1>6. CASE \E c \in Consumer : Consume(c)
  BY <1>2, <1>3, <1>6 DEF Consume, Threaded
<1>7. QED
  BY <1>4, <1>5, <1>6

\* A listener joins the next of its consumers, or stumbles over it.
LEMMA ThreadJoinNext ==
    ASSUME AttachmentTypeOK, ThreadInv, shared \subseteq shared', NEW l \in Listener, JoinNext(l)
    PROVE  ThreadInv'
<1>1. PICK c \in toJoin[l] :
         /\ toJoin' = [toJoin EXCEPT ![l] = @ \ {c}]
         /\ IF c \in alive THEN Join(l, c)
            ELSE Dangles /\ UNCHANGED <<objects, links, running, thread, pc, shared, ghosts>>
  BY DEF JoinNext
<1>2. pc[l] = Idle /\ l \in Actor
  BY DEF JoinNext, Ready, Actor
<1>3. c \in Threaded /\ \A k \in Listener : toJoin'[k] \subseteq toJoin[k]
  BY <1>1 DEF AttachmentTypeOK, ThreadsOK, Threaded
<1>4. CASE c \in alive
  BY <1>1, <1>2, <1>3, <1>4, ThreadJoin
<1>5. CASE c \notin alive
  BY <1>1, <1>3, <1>5 DEF ThreadInv, CallKnows, ThreadsAwaited, JoinsOwn, objects, ends, ghosts
<1>6. QED
  BY <1>4, <1>5

\* Every step keeps the invariant.
LEMMA ThreadStep ==
    ASSUME AttachmentTypeOK, Exclusive, ThreadInv, [Next]_vars
    PROVE  ThreadInv'
<1>1. shared \subseteq shared'
  BY ExclusiveStep
<1>2. ASSUME UNCHANGED <<running, thread, toJoin, consumers, misused, pc>> PROVE ThreadInv'
  BY <1>1, <1>2, ThreadKept
<1>3. ASSUME NEW u \in User, Begin(u) PROVE ThreadInv'
  <2>1. u \in Actor /\ pc[u] = Idle /\ pc[u].at = "idle" /\ alive \subseteq Threaded
    BY <1>3 DEF Actor, AttachmentTypeOK, ObjectsOK, Begin, Ready, Idle
  <2>2. CASE \E l \in Listener, e \in Element : Attach(u, l, e) \/ Detach(u, l, e)
    BY <1>1, <2>1, <2>2, ThreadElement
  <2>3. CASE \E e \in Element : Disconnect(e)
    BY <1>2, <2>3 DEF Disconnect, objects, ends, threads, ghosts
  <2>4. CASE \E c \in Consumer, l \in Listener \cup {Null} : SetProducer(u, c, l)
    BY <1>1, <2>1, <2>4, ThreadProducer
  <2>5. CASE \E c \in Consumer, n \in Name, slot \in {"empty", "set"} : Bind(u, c, n, slot)
    BY <1>2, <2>5 DEF Bind, ends, threads
  <2>6. CASE \E x \in alive : Run(u, x) \/ Destroy(u, x)
    BY <1>1, <2>1, <2>6, ThreadRun, ThreadDestroy
  <2>7. CASE \E x \in alive : Join(u, x) /\ UNCHANGED toJoin
    BY <1>1, <2>1, <2>7, ThreadJoin
  <2>8. QED
    BY <1>3, <2>2, <2>3, <2>4, <2>5, <2>6, <2>7 DEF Begin
<1>4. ASSUME NEW u \in User, Continue(u) PROVE ThreadInv'
  <2>1. u \in Actor
    BY DEF Actor
  <2>2. CASE Adopt(u) \/ List(u) \/ Orphan(u) \/ Erase(u)
    <3>1. pc[u].at \in ElementPoints
      BY <2>2 DEF Adopt, List, Orphan, Erase, Goes, ElementPoints
    <3>2. QED
      BY <1>1, <2>1, <2>2, <3>1, ThreadElement
  <2>3. CASE Unset(u) \/ Assign(u)
    BY <1>1, <2>1, <2>3, ThreadProducer
  <2>4. CASE Remove(u)
    <3>1. pc[u].at = "remove"
      BY <2>4 DEF Remove, Goes
    <3>2. CASE producer[pc[u].of] \in Listener
      BY <1>1, <2>1, <2>4, <3>1, <3>2, ThreadEnlists DEF Remove
    <3>3. CASE producer[pc[u].of] = Null
      <4>1. Null \notin alive
        BY AttachmentAssumption DEF AttachmentTypeOK, ObjectsOK, Threaded
      <4>2. QED
        BY <1>2, <2>4, <3>3, <4>1 DEF Remove, Enlists, threads, ghosts
    <3>4. QED
      BY <2>1, <2>4, <3>2, <3>3, TypeRemove
  <2>5. CASE Add(u)
    <3>1. pc[u].at = "add" /\ pc[u].with \in Listener
      BY <2>1, <2>5, TypeAdd DEF Add, Goes
    <3>2. QED
      BY <1>1, <2>1, <2>5, <3>1, ThreadEnlists DEF Add
  <2>6. CASE InitListener(u) \/ InitConsumer(u)
    BY <1>1, <2>1, <2>6, ThreadInit
  <2>7. CASE Set(u) \/ Start(u)
    BY <2>1, <2>7, ThreadSet, ThreadStart
  <2>8. QED
    BY <1>4, <2>2, <2>3, <2>4, <2>5, <2>6, <2>7 DEF Continue
<1>5. ASSUME NEW a \in Actor, JoinClear(a) \/ JoinWait(a) \/ Stray(a) PROVE ThreadInv'
  <2>1. CASE Stray(a)
    BY <1>2, <2>1 DEF Stray, objects, ends, threads, ghosts
  <2>2. QED
    BY <1>5, <2>1, ThreadJoinClear, ThreadJoinWait
<1>6. CASE \E l \in Listener : JoinNext(l)
  BY <1>1, <1>6, ThreadJoinNext
<1>7. CASE UNCHANGED vars
  BY <1>2, <1>7 DEF vars, objects, ends, threads, ghosts
<1>8. QED
  BY <1>3, <1>4, <1>5, <1>6, <1>7, ThreadEnds DEF Next

\* Initially there are no threads.
LEMMA ThreadFirst == Init => ThreadInv
  BY DEF Init, ThreadInv, CallKnows, ThreadsAwaited, JoinsOwn, Threaded, Idle

------------------------------------------------------------------------------
(* Both ends of a tie *)

ProducerPoints == {"remove", "unset", "add", "assign"}

\* Between attach and detach the two ends agree; a call knows how far it is.
Ties(a, e) == pc[a].with = e /\ pc[a].at \in ElementPoints

ElementTied(e) ==
    /\ (\E a \in Actor : Ties(a, e)) \/ \A l \in Listener : e \in listened[l] <=> parent[e] = l
    /\ \A a \in Actor : Ties(a, e) =>
         /\ pc[a].at \in {"adopt", "erase"} => parent[e] = Null
         /\ pc[a].at \in {"list", "orphan"} => parent[e] = pc[a].of
         /\ pc[a].at \in {"adopt", "list"} => \A l \in Listener : e \notin listened[l]
         /\ pc[a].at \in {"orphan", "erase"} => \A l \in Listener : e \in listened[l] <=> l = pc[a].of

\* The same for set_producer and remove_producer.
Moving(a, c) == pc[a].of = c /\ pc[a].at \in ProducerPoints

ConsumerTied(c) ==
    /\ (\E a \in Actor : Moving(a, c)) \/ \A l \in Listener : c \in consumers[l] <=> producer[c] = l
    /\ \A a \in Actor : Moving(a, c) =>
         /\ pc[a].at = "remove" => producer[c] # Null /\ \A l \in Listener : c \in consumers[l] <=> producer[c] = l
         /\ pc[a].at \in {"unset", "add"} => \A l \in Listener : c \notin consumers[l]
         /\ pc[a].at \in {"add", "assign"} => producer[c] = Null
         /\ pc[a].at = "assign" => \A l \in Listener : c \in consumers[l] <=> l = pc[a].with

TieInv == (\A e \in Element \ shared : ElementTied(e)) /\ (\A c \in Consumer \ shared : ConsumerTied(c))

\* What no call is using has ends that agree.
LEMMA TieInvAgrees == ASSUME AttachmentTypeOK, TieInv PROVE ListsAgree
<1>1. ASSUME NEW x \in Object, AtRest(x), NEW a \in Actor
      PROVE  pc[a].of # x /\ pc[a].with # x
  <2>1. x # Null
    BY AttachmentAssumption DEF Object, Threaded
  <2>2. QED
    BY <1>1, <2>1, CallTypes DEF AtRest, AttachmentTypeOK
<1>2. QED
  BY <1>1 DEF ListsAgree, TieInv, ElementTied, ConsumerTied, Ties, Moving, Object, Threaded

\* Initially no element is attached, and each consumer is its producer's.
LEMMA TieFirst == ASSUME Init PROVE TieInv
<1>1. ASSUME NEW e \in Element PROVE ElementTied(e)
  BY <1>1, AttachmentAssumption DEF Init, ElementTied, Ties, ElementPoints, Idle
<1>2. ASSUME NEW c \in Consumer PROVE ConsumerTied(c)
  BY <1>2 DEF Init, ConsumerTied, Moving, ProducerPoints, Idle
<1>3. QED
  BY <1>1, <1>2 DEF TieInv

\* An element that a step is not about.
LEMMA ElementKept ==
    ASSUME NEW e \in Element, ElementTied(e), parent'[e] = parent[e],
           \A l \in Listener : e \in listened'[l] <=> e \in listened[l],
           \A a \in Actor : pc'[a] = pc[a] \/ (~Ties(a, e) /\ ~Ties(a, e)')
    PROVE  ElementTied(e)'
<1>1. \A a \in Actor : Ties(a, e)' => Ties(a, e) /\ pc'[a] = pc[a]
  BY DEF Ties
<1>2. \A a \in Actor : Ties(a, e) => Ties(a, e)'
  BY DEF Ties
<1>3. QED
  BY <1>1, <1>2 DEF ElementTied

\* A consumer that a step is not about.
LEMMA ConsumerKept ==
    ASSUME NEW c \in Consumer, ConsumerTied(c), producer'[c] = producer[c],
           \A l \in Listener : c \in consumers'[l] <=> c \in consumers[l],
           \A a \in Actor : pc'[a] = pc[a] \/ (~Moving(a, c) /\ ~Moving(a, c)')
    PROVE  ConsumerTied(c)'
<1>1. \A a \in Actor : Moving(a, c)' => Moving(a, c) /\ pc'[a] = pc[a]
  BY DEF Moving
<1>2. \A a \in Actor : Moving(a, c) => Moving(a, c)'
  BY DEF Moving
<1>3. QED
  BY <1>1, <1>2 DEF ConsumerTied

\* A step that is not about ties.
LEMMA TiesKept ==
    ASSUME TieInv, shared \subseteq shared', UNCHANGED ends,
           \A a \in Actor : pc'[a] = pc[a] \/ {pc[a].at, pc'[a].at} \subseteq {"idle"} \cup ThreadPoints
    PROVE  TieInv'
<1>1. \A a \in Actor : \A x : pc'[a] = pc[a] \/ (~Ties(a, x) /\ ~Ties(a, x)' /\ ~Moving(a, x) /\ ~Moving(a, x)')
  BY DEF Ties, Moving, ThreadPoints, ElementPoints, ProducerPoints
<1>2. UNCHANGED <<listened, parent, consumers, producer>>
  BY DEF ends
<1>3. QED
  BY <1>1, <1>2, ElementKept, ConsumerKept DEF TieInv

\* The steps of runs and joins, and of threads that end.
LEMMA TiesThread ==
    ASSUME AttachmentTypeOK, TieInv, shared \subseteq shared', NEW a \in Actor,
           \/ pc[a] = Idle /\ \E x \in Threaded : Run(a, x) \/ Join(a, x) \/ Destroy(a, x)
           \/ InitListener(a) \/ InitConsumer(a) \/ Set(a) \/ Start(a) \/ JoinClear(a) \/ JoinWait(a)
    PROVE  TieInv'
<1>1. UNCHANGED ends
  BY DEF Run, Join, Destroy, InitListener, InitConsumer, Set, Start, JoinClear, JoinWait, objects
<1>2. pc[a].at \in {"idle"} \cup ThreadPoints
  BY DEF InitListener, InitConsumer, Set, Start, JoinClear, JoinWait, Goes, Idle, ThreadPoints
<1>3. \/ \E at \in ThreadPoints : \E x, y, xs : Call(a, at, x, y, xs)
      \/ Return(a) \/ UNCHANGED pc
  BY DEF Run, Join, Destroy, InitListener, InitConsumer, Set, Start, JoinClear, JoinWait, Then, ThreadPoints
<1>4. \A b \in Actor : pc'[b] = pc[b] \/ (b = a /\ pc'[b].at \in ThreadPoints \cup {"idle"})
  BY <1>3, ActsAlone DEF AttachmentTypeOK
<1>5. QED
  BY <1>1, <1>2, <1>4, TiesKept

\* A step of attach or detach about one element.
LEMMA TiesElement ==
    ASSUME AttachmentTypeOK, TieInv, shared \subseteq shared', NEW u \in Actor, NEW e \in Element,
           UNCHANGED <<consumers, producer>>,
           \A f \in Element \ {e} : /\ parent'[f] = parent[f]
                                    /\ \A l \in Listener : f \in listened'[l] <=> f \in listened[l],
           \A b \in Actor \ {u} : pc'[b] = pc[b],
           {pc[u].at, pc'[u].at} \subseteq {"idle"} \cup ElementPoints,
           pc[u].at \in ElementPoints => pc[u].with = e,
           pc'[u].at \in ElementPoints => pc'[u].with = e,
           e \notin shared' => ElementTied(e)'
    PROVE  TieInv'
<1>1. \A b \in Actor, c \in Consumer : pc'[b] = pc[b] \/ (~Moving(b, c) /\ ~Moving(b, c)')
  BY DEF Moving, ElementPoints, ProducerPoints
<1>2. \A b \in Actor, f \in Element \ {e} : pc'[b] = pc[b] \/ (~Ties(b, f) /\ ~Ties(b, f)')
  BY DEF Ties, ElementPoints
<1>3. ASSUME NEW c \in Consumer \ shared' PROVE ConsumerTied(c)'
  BY <1>1, <1>3, ConsumerKept DEF TieInv
<1>4. ASSUME NEW f \in Element \ shared' PROVE ElementTied(f)'
  <2>1. CASE f = e
    BY <1>4, <2>1
  <2>2. CASE f # e
    BY <1>2, <1>4, <2>2, ElementKept DEF TieInv
  <2>3. QED
    BY <2>1, <2>2
<1>5. QED
  BY <1>3, <1>4 DEF TieInv

\* A step of set_producer about one consumer.
LEMMA TiesConsumer ==
    ASSUME AttachmentTypeOK, TieInv, shared \subseteq shared', NEW u \in Actor, NEW c \in Consumer,
           UNCHANGED <<listened, parent>>,
           \A d \in Consumer \ {c} : /\ producer'[d] = producer[d]
                                     /\ \A l \in Listener : d \in consumers'[l] <=> d \in consumers[l],
           \A b \in Actor \ {u} : pc'[b] = pc[b],
           {pc[u].at, pc'[u].at} \subseteq {"idle"} \cup ProducerPoints,
           pc[u].at \in ProducerPoints => pc[u].of = c,
           pc'[u].at \in ProducerPoints => pc'[u].of = c,
           c \notin shared' => ConsumerTied(c)'
    PROVE  TieInv'
<1>1. \A b \in Actor, e \in Element : pc'[b] = pc[b] \/ (~Ties(b, e) /\ ~Ties(b, e)')
  BY DEF Ties, ElementPoints, ProducerPoints
<1>2. \A b \in Actor, d \in Consumer \ {c} : pc'[b] = pc[b] \/ (~Moving(b, d) /\ ~Moving(b, d)')
  BY DEF Moving, ProducerPoints
<1>3. ASSUME NEW e \in Element \ shared' PROVE ElementTied(e)'
  BY <1>1, <1>3, ElementKept DEF TieInv
<1>4. ASSUME NEW d \in Consumer \ shared' PROVE ConsumerTied(d)'
  <2>1. CASE d = c
    BY <1>4, <2>1
  <2>2. CASE d # c
    BY <1>2, <1>4, <2>2, ConsumerKept DEF TieInv
  <2>3. QED
    BY <2>1, <2>2
<1>5. QED
  BY <1>3, <1>4 DEF TieInv

\* A call of attach or detach begins, about an element that no other call uses.
LEMMA TiesBegin ==
    ASSUME AttachmentTypeOK, TieInv, shared \subseteq shared', NEW u \in Actor, pc[u] = Idle,
           NEW l \in Listener, NEW e \in Element, Attach(u, l, e) \/ Detach(u, l, e)
    PROVE  TieInv'
<1>1. UNCHANGED <<listened, parent, consumers, producer>> /\ Touch(u, {l, e}) /\ e # Null
  BY AttachmentAssumption DEF Attach, Detach, objects, ends
<1>2. PICK at \in {"adopt", "orphan"} :
        /\ Call(u, at, l, e, {l, e})
        /\ at = "adopt" => e \notin listened[l] /\ parent[e] \in {Null, l}
        /\ at = "orphan" => e \in listened[l] /\ parent[e] = l
  BY DEF Attach, Detach
<1>3. /\ \A b \in Actor \ {u} : pc'[b] = pc[b]
      /\ pc'[u].at = at /\ pc'[u].of = l /\ pc'[u].with = e
  BY <1>2 DEF AttachmentTypeOK, CallsOK, Call
<1>4. ASSUME e \notin shared' PROVE ElementTied(e)'
  <2>1. \A b \in Actor : ~Ties(b, e)
    BY <1>1, <1>4, Untouched DEF Ties, Idle, ElementPoints
  <2>2. \A k \in Listener : e \in listened[k] <=> parent[e] = k
    BY <1>4, <2>1 DEF TieInv, ElementTied
  <2>3. \A b \in Actor : Ties(b, e)' <=> b = u
    BY <1>2, <1>3, <2>1 DEF Ties, ElementPoints
  <2>4. at = "adopt" => parent[e] = Null /\ \A k \in Listener : e \notin listened[k]
    BY <1>2, <2>2, AttachmentAssumption
  <2>5. QED
    BY <1>1, <1>2, <1>3, <2>2, <2>3, <2>4 DEF ElementTied
<1>5. pc[u].at \notin ElementPoints
  BY DEF Idle, ElementPoints
<1>6. QED
  BY <1>1, <1>2, <1>3, <1>4, <1>5, TiesElement DEF Idle, ElementPoints

\* m_listener changes, then the list.
LEMMA TiesGo ==
    ASSUME AttachmentTypeOK, Exclusive, TieInv, shared \subseteq shared', NEW u \in Actor,
           Adopt(u) \/ List(u) \/ Orphan(u) \/ Erase(u)
    PROVE  TieInv'
<1>1. pc[u].at \in ElementPoints /\ UNCHANGED <<consumers, producer, shared>>
  BY DEF Adopt, List, Orphan, Erase, Goes, ElementPoints
<1>2. PICK l \in Listener, e \in Element : pc[u].of = l /\ pc[u].with = e
  BY <1>1, CallTypes DEF AttachmentTypeOK
<1>3. \/ Then(u, "list", {}) \/ Then(u, "erase", {}) \/ Return(u)
  BY DEF Adopt, List, Orphan, Erase
<1>4. /\ \A b \in Actor \ {u} : pc'[b] = pc[b]
      /\ pc'[u].at \in {"idle", "list", "erase"}
      /\ pc'[u].at \in ElementPoints => pc'[u].of = l /\ pc'[u].with = e
  <2>1. CASE Return(u)
    BY <2>1, ReturnIs DEF AttachmentTypeOK, Idle, ElementPoints
  <2>2. CASE Then(u, "list", {}) \/ Then(u, "erase", {})
    BY <1>2, <2>2, ThenIs DEF AttachmentTypeOK
  <2>3. QED
    BY <1>3, <2>1, <2>2
<1>5. \A f \in Element \ {e} : /\ parent'[f] = parent[f]
                               /\ \A k \in Listener : f \in listened'[k] <=> f \in listened[k]
  BY <1>2 DEF Adopt, List, Orphan, Erase, AttachmentTypeOK, ObjectsOK
<1>6. ASSUME e \notin shared' PROVE ElementTied(e)'
  <2>1. \A b \in Actor : Ties(b, e) <=> b = u
    <3>1. e \in Object /\ e # Null
      BY AttachmentAssumption DEF Object
    <3>2. e \in pc[u].uses
      BY <1>2, <3>1, CallTypes DEF AttachmentTypeOK
    <3>3. QED
      BY <1>1, <1>2, <1>6, <3>1, <3>2, Alone DEF Ties
  <2>2. \A b \in Actor : Ties(b, e)' => b = u
    BY <1>4, <2>1 DEF Ties
  <2>3. ElementTied(e)
    BY <1>1, <1>6 DEF TieInv
  <2>4. CASE Adopt(u)
    <3>1. /\ UNCHANGED listened /\ pc[u].at = "adopt" /\ parent'[e] = l
          /\ pc'[u].at = "list" /\ pc'[u].of = l /\ pc'[u].with = e
      BY <1>2, <2>4, ThenIs DEF Adopt, Goes, AttachmentTypeOK, ObjectsOK
    <3>2. Ties(u, e)' /\ \A k \in Listener : e \notin listened[k]
      BY <2>1, <2>3, <3>1 DEF Ties, ElementTied, ElementPoints
    <3>3. QED
      BY <2>2, <3>1, <3>2 DEF ElementTied
  <2>5. CASE List(u)
    <3>1. /\ UNCHANGED parent /\ pc[u].at = "list" /\ listened'[l] = listened[l] \cup {e}
          /\ \A k \in Listener \ {l} : listened'[k] = listened[k]
          /\ pc'[u].at = "idle"
      BY <1>2, <2>5, ReturnIs DEF List, Goes, AttachmentTypeOK, ObjectsOK, Idle
    <3>2. (\A b \in Actor : ~Ties(b, e)') /\ parent[e] = l /\ \A k \in Listener : e \notin listened[k]
      BY <1>2, <2>1, <2>2, <2>3, <3>1 DEF Ties, ElementTied, ElementPoints
    <3>3. QED
      BY <3>1, <3>2 DEF ElementTied
  <2>6. CASE Orphan(u)
    <3>1. /\ UNCHANGED listened /\ pc[u].at = "orphan" /\ parent'[e] = Null
          /\ pc'[u].at = "erase" /\ pc'[u].of = l /\ pc'[u].with = e
      BY <1>2, <2>6, ThenIs DEF Orphan, Goes, AttachmentTypeOK, ObjectsOK
    <3>2. Ties(u, e)' /\ \A k \in Listener : e \in listened[k] <=> k = l
      BY <1>2, <2>1, <2>3, <3>1 DEF Ties, ElementTied, ElementPoints
    <3>3. QED
      BY <2>2, <3>1, <3>2 DEF ElementTied
  <2>7. CASE Erase(u)
    <3>1. /\ UNCHANGED parent /\ pc[u].at = "erase" /\ listened'[l] = listened[l] \ {e}
          /\ \A k \in Listener \ {l} : listened'[k] = listened[k]
          /\ pc'[u].at = "idle"
      BY <1>2, <2>7, ReturnIs DEF Erase, Goes, AttachmentTypeOK, ObjectsOK, Idle
    <3>2. /\ \A b \in Actor : ~Ties(b, e)'
          /\ parent[e] = Null /\ \A k \in Listener : e \in listened[k] <=> k = l
      BY <1>2, <2>1, <2>2, <2>3, <3>1 DEF Ties, ElementTied, ElementPoints
    <3>3. QED
      BY <3>1, <3>2, AttachmentAssumption DEF ElementTied
  <2>8. QED
    BY <2>4, <2>5, <2>6, <2>7
<1>7. QED
  BY <1>1, <1>2, <1>4, <1>5, <1>6, TiesElement DEF ElementPoints

\* set_producer begins, about a consumer that no other call uses.
LEMMA TiesSetProducer ==
    ASSUME AttachmentTypeOK, TieInv, shared \subseteq shared', NEW u \in Actor, pc[u] = Idle,
           NEW c \in Consumer, NEW l \in Listener \cup {Null}, SetProducer(u, c, l)
    PROVE  TieInv'
<1>1. UNCHANGED <<listened, parent, consumers, producer>> /\ Touch(u, {c, l} \ {Null}) /\ c # Null
  BY AttachmentAssumption DEF SetProducer, objects, ends
<1>2. CASE UNCHANGED pc
  BY <1>1, <1>2, TiesKept DEF ends
<1>3. CASE /\ l # Null \/ producer[c] # Null
           /\ Call(u, IF producer[c] = Null THEN "add" ELSE "remove", c, l, {c, l} \ {Null})
  <2>1. /\ \A b \in Actor \ {u} : pc'[b] = pc[b]
        /\ pc'[u].at = (IF producer[c] = Null THEN "add" ELSE "remove") /\ pc'[u].of = c /\ pc'[u].with = l
    BY <1>3 DEF AttachmentTypeOK, CallsOK, Call
  <2>2. ASSUME c \notin shared' PROVE ConsumerTied(c)'
    <3>1. \A b \in Actor : ~Moving(b, c)
      BY <1>1, <2>2, Untouched DEF Moving, Idle, ProducerPoints
    <3>2. \A k \in Listener : c \in consumers[k] <=> producer[c] = k
      BY <2>2, <3>1 DEF TieInv, ConsumerTied
    <3>3. \A b \in Actor : Moving(b, c)' <=> b = u
      BY <2>1, <3>1 DEF Moving, ProducerPoints
    <3>4. producer[c] = Null => \A k \in Listener : c \notin consumers[k]
      BY <3>2, AttachmentAssumption
    <3>5. QED
      BY <1>1, <2>1, <3>2, <3>3, <3>4 DEF ConsumerTied
  <2>3. pc[u].at = "idle" /\ pc[u].at \notin ProducerPoints
    BY DEF Idle, ProducerPoints
  <2>4. QED
    BY <1>1, <2>1, <2>2, <2>3, TiesConsumer DEF ProducerPoints
<1>4. QED
  BY <1>2, <1>3 DEF SetProducer

\* What a step of set_producer does to a consumer that is not shared.
LEMMA MovingAlone ==
    ASSUME AttachmentTypeOK, Exclusive, NEW u \in Actor, pc[u].at \in ProducerPoints, pc[u].of \notin shared
    PROVE  \A b \in Actor : Moving(b, pc[u].of) <=> b = u
<1>1. pc[u].of \in Consumer
  BY CallTypes DEF AttachmentTypeOK, ProducerPoints
<1>2. pc[u].of \in Object /\ pc[u].of # Null
  BY <1>1, AttachmentAssumption DEF Object, Threaded
<1>3. pc[u].of \in pc[u].uses
  BY <1>2, CallTypes DEF AttachmentTypeOK
<1>4. QED
  BY <1>2, <1>3, Alone DEF Moving

\* remove_consumer and add_consumer of the listener in question.
LEMMA TiesEnlists ==
    ASSUME AttachmentTypeOK, Exclusive, TieInv, shared \subseteq shared', NEW u \in Actor, Remove(u) \/ Add(u)
    PROVE  TieInv'
<1>1. PICK c \in Consumer, l \in Listener \cup {Null}, at \in {"unset", "assign"} :
        /\ pc[u].of = c /\ pc[u].at \in {"remove", "add"} /\ at = (IF pc[u].at = "remove" THEN "unset" ELSE "assign")
        /\ pc[u].at = "remove" => l = producer[c] /\ Enlists(u, l, consumers[l] \ {c}, at)
        /\ pc[u].at = "add" => l = pc[u].with /\ Enlists(u, l, consumers[l] \cup {c}, at)
  <2>1. pc[u].at \in {"remove", "add"} /\ pc[u].of \in Consumer
    BY CallTypes DEF Remove, Add, Goes, AttachmentTypeOK
  <2>2. CASE Remove(u)
    BY <2>1, <2>2 DEF Remove, Goes, AttachmentTypeOK, ObjectsOK
  <2>3. CASE Add(u)
    BY <2>1, <2>3, CallTypes DEF Add, Goes, AttachmentTypeOK
  <2>4. QED
    BY <2>2, <2>3
<1>2. UNCHANGED <<listened, parent, producer>>
  BY <1>1 DEF Enlists
<1>3. CASE UNCHANGED <<consumers, pc>>
  BY <1>2, <1>3, TiesKept DEF ends
<1>4. CASE /\ l \in alive /\ Then(u, at, {l})
           /\ consumers' = [consumers EXCEPT ![l] = IF pc[u].at = "remove" THEN consumers[l] \ {c} ELSE consumers[l] \cup {c}]
  <2>1. l \in Listener
    BY <1>4, AttachmentAssumption DEF AttachmentTypeOK, ObjectsOK, Threaded
  <2>2. /\ \A b \in Actor \ {u} : pc'[b] = pc[b]
        /\ pc'[u].at = at /\ pc'[u].of = c /\ pc'[u].with = pc[u].with
    BY <1>1, <1>4, ThenIs DEF AttachmentTypeOK
  <2>3. /\ \A k \in Listener \ {l} : consumers'[k] = consumers[k]
        /\ consumers'[l] = IF pc[u].at = "remove" THEN consumers[l] \ {c} ELSE consumers[l] \cup {c}
    BY <1>4, <2>1 DEF AttachmentTypeOK, ObjectsOK
  <2>4. \A d \in Consumer \ {c} : /\ producer'[d] = producer[d]
                                  /\ \A k \in Listener : d \in consumers'[k] <=> d \in consumers[k]
    BY <1>2, <2>3
  <2>5. ASSUME c \notin shared' PROVE ConsumerTied(c)'
    <3>1. c \notin shared /\ ConsumerTied(c)
      BY <2>5 DEF TieInv
    <3>2. \A b \in Actor : Moving(b, c) <=> b = u
      BY <1>1, <3>1, MovingAlone DEF ProducerPoints
    <3>3. \A b \in Actor : Moving(b, c)' <=> b = u
      BY <1>1, <2>2, <3>2 DEF Moving, ProducerPoints
    <3>4. CASE pc[u].at = "remove"
      <4>1. \A k \in Listener : c \in consumers[k] <=> producer[c] = k
        BY <3>1, <3>2, <3>4 DEF ConsumerTied
      <4>2. \A k \in Listener : c \notin consumers'[k]
        BY <1>1, <2>3, <3>4, <4>1
      <4>3. QED
        BY <1>1, <2>2, <3>3, <3>4, <4>2 DEF ConsumerTied
    <3>5. CASE pc[u].at = "add"
      <4>1. producer[c] = Null /\ \A k \in Listener : c \notin consumers[k]
        BY <3>1, <3>2, <3>5 DEF ConsumerTied
      <4>2. \A k \in Listener : c \in consumers'[k] <=> k = pc[u].with
        BY <1>1, <2>1, <2>3, <3>5, <4>1
      <4>3. QED
        BY <1>1, <1>2, <2>2, <3>3, <3>5, <4>1, <4>2 DEF ConsumerTied
    <3>6. QED
      BY <1>1, <3>4, <3>5
  <2>6. QED
    BY <1>1, <1>2, <2>2, <2>4, <2>5, TiesConsumer DEF ProducerPoints
<1>5. QED
  BY <1>1, <1>3, <1>4 DEF Enlists

\* m_producer is null, or the new one.
LEMMA TiesAssign ==
    ASSUME AttachmentTypeOK, Exclusive, TieInv, shared \subseteq shared', NEW u \in Actor, Unset(u) \/ Assign(u)
    PROVE  TieInv'
<1>1. PICK c \in Consumer : pc[u].of = c /\ pc[u].at \in {"unset", "assign"}
  BY CallTypes DEF Unset, Assign, Goes, AttachmentTypeOK
<1>2. /\ UNCHANGED <<listened, parent, consumers, shared>>
      /\ producer' = [producer EXCEPT ![c] = IF pc[u].at = "unset" THEN Null ELSE pc[u].with]
      /\ \/ Return(u) /\ (pc[u].at = "unset" => pc[u].with = Null)
         \/ pc[u].at = "unset" /\ Then(u, "add", {})
  BY <1>1 DEF Unset, Assign, Goes
<1>3. /\ \A b \in Actor \ {u} : pc'[b] = pc[b]
      /\ \/ pc'[u].at = "idle"
         \/ pc[u].at = "unset" /\ pc'[u].at = "add" /\ pc'[u].of = c
  <2>1. CASE Return(u)
    BY <2>1, ReturnIs DEF AttachmentTypeOK, Idle
  <2>2. CASE pc[u].at = "unset" /\ Then(u, "add", {})
    BY <1>1, <2>2, ThenIs DEF AttachmentTypeOK
  <2>3. QED
    BY <1>2, <2>1, <2>2
<1>4. /\ \A d \in Consumer \ {c} : producer'[d] = producer[d]
      /\ producer'[c] = IF pc[u].at = "unset" THEN Null ELSE pc[u].with
  BY <1>2 DEF AttachmentTypeOK, ObjectsOK
<1>5. ASSUME c \notin shared' PROVE ConsumerTied(c)'
  <2>1. c \notin shared /\ ConsumerTied(c)
    BY <1>2, <1>5 DEF TieInv
  <2>2. \A b \in Actor : Moving(b, c) <=> b = u
    BY <1>1, <2>1, MovingAlone DEF ProducerPoints
  <2>3. \A b \in Actor : Moving(b, c)' => b = u /\ pc'[u].at = "add"
    BY <1>3, <2>2 DEF Moving, ProducerPoints
  <2>4. CASE pc[u].at = "unset"
    <3>1. producer'[c] = Null /\ \A k \in Listener : c \notin consumers'[k]
      BY <1>2, <1>4, <2>1, <2>2, <2>4 DEF ConsumerTied
    <3>2. QED
      BY <2>3, <3>1, AttachmentAssumption DEF ConsumerTied
  <2>5. CASE pc[u].at = "assign"
    <3>1. \A k \in Listener : c \in consumers'[k] <=> producer'[c] = k
      BY <1>2, <1>4, <2>1, <2>2, <2>5 DEF ConsumerTied
    <3>2. \A b \in Actor : ~Moving(b, c)'
      BY <1>3, <2>3, <2>5
    <3>3. QED
      BY <3>1, <3>2 DEF ConsumerTied
  <2>6. QED
    BY <1>1, <2>4, <2>5
<1>6. QED
  BY <1>1, <1>2, <1>3, <1>4, <1>5, TiesConsumer DEF ProducerPoints

\* Every step keeps the invariant.
LEMMA TieStep ==
    ASSUME AttachmentTypeOK, Exclusive, TieInv, [Next]_vars
    PROVE  TieInv'
<1>1. shared \subseteq shared'
  BY ExclusiveStep
<1>2. ASSUME UNCHANGED <<ends, pc>> PROVE TieInv'
  BY <1>1, <1>2, TiesKept
<1>3. ASSUME NEW u \in User, Begin(u) PROVE TieInv'
  <2>1. u \in Actor /\ pc[u] = Idle /\ alive \subseteq Threaded
    BY <1>3 DEF Actor, AttachmentTypeOK, ObjectsOK, Begin, Ready
  <2>2. CASE \E l \in Listener, e \in Element : Attach(u, l, e) \/ Detach(u, l, e)
    BY <1>1, <2>1, <2>2, TiesBegin
  <2>3. CASE \E c \in Consumer, l \in Listener \cup {Null} : SetProducer(u, c, l)
    BY <1>1, <2>1, <2>3, TiesSetProducer
  <2>4. CASE \/ \E e \in Element : Disconnect(e)
             \/ \E c \in Consumer, n \in Name, slot \in {"empty", "set"} : Bind(u, c, n, slot)
    BY <1>2, <2>4 DEF Disconnect, Bind, objects
  <2>5. CASE \/ \E x \in alive : Run(u, x) \/ Destroy(u, x)
             \/ \E x \in alive : Join(u, x) /\ UNCHANGED toJoin
    BY <1>1, <2>1, <2>5, TiesThread
  <2>6. QED
    BY <1>3, <2>2, <2>3, <2>4, <2>5 DEF Begin
<1>4. ASSUME NEW u \in User, Continue(u) PROVE TieInv'
  <2>1. u \in Actor
    BY DEF Actor
  <2>2. QED
    BY <1>1, <1>4, <2>1, TiesGo, TiesEnlists, TiesAssign, TiesThread DEF Continue
<1>5. ASSUME NEW a \in Actor, JoinClear(a) \/ JoinWait(a) \/ Stray(a) PROVE TieInv'
  <2>1. CASE Stray(a)
    BY <1>2, <2>1 DEF Stray, objects
  <2>2. QED
    BY <1>1, <1>5, <2>1, TiesThread
<1>6. ASSUME NEW l \in Listener, JoinNext(l) PROVE TieInv'
  <2>1. PICK c \in toJoin[l] : IF c \in alive THEN Join(l, c) ELSE UNCHANGED <<objects, pc>>
    BY <1>6 DEF JoinNext
  <2>2. c \in Threaded /\ l \in Actor /\ pc[l] = Idle
    BY <1>6 DEF JoinNext, Ready, Actor, AttachmentTypeOK, ThreadsOK, Threaded
  <2>3. QED
    BY <1>1, <1>2, <2>1, <2>2, TiesThread DEF objects
<1>7. CASE (\E l \in Listener : Leave(l) \/ Finish(l)) \/ \E c \in Consumer : Consume(c)
  BY <1>2, <1>7 DEF Leave, Finish, Consume, objects
<1>8. CASE UNCHANGED vars
  BY <1>2, <1>8 DEF vars, objects
<1>9. QED
  BY <1>3, <1>4, <1>5, <1>6, <1>7, <1>8 DEF Next

\* Initially no call is in progress.
LEMMA ExclusiveFirst == Init => Exclusive
  BY DEF Init, Exclusive, Idle

\* An element or consumer and a listener that no two calls used at once, and
\* none is using now, agree on who belongs to whom, whatever all the other
\* calls of any number of threads do between the steps of attach, detach and
\* set_producer.
THEOREM TiesAgree == Spec => []ListsAgree
<1>1. Init => Exclusive /\ TieInv
  BY ExclusiveFirst, TieFirst
<1>2. AttachmentTypeOK /\ Exclusive /\ TieInv /\ [Next]_vars => Exclusive' /\ TieInv'
  BY ExclusiveStep, TieStep
<1>3. QED
  BY <1>1, <1>2, AttachmentTypeCorrect, TieInvAgrees, PTL DEF Spec

------------------------------------------------------------------------------
(* A name has one owner *)

\* The links of a listener lead to the callbacks of its consumers.
Lead(l) ==
    \A n \in Name \ late[l] :
        Owners(l, n) = IF links[l][n] \in Consumer THEN {links[l][n]} ELSE {}

\* A call of run is between run_init and the start of the thread.
Runs(a, l) == pc[a].of = l /\ pc[a].at \in {"set", "start"}

\* Links are there from run_init to the end of the thread, and they lead.
LinksLead(l) ==
    /\ thread[l] \in {"none", "ended"} => links[l] = Cleared \/ \E a \in Actor : Runs(a, l)
    /\ (l \in running /\ thread[l] = "running") \/ (\E a \in Actor : Runs(a, l)) => Lead(l)
    /\ l \notin spurious

OwnerInv == \A l \in Listener \ shared : LinksLead(l)

\* A listener that no call is using has no run in progress.
LEMMA OwnerInvOneOwner == ASSUME AttachmentTypeOK, OwnerInv PROVE OneOwner
<1>1. ASSUME NEW l \in Listener, AtRest(l), NEW a \in Actor
      PROVE  ~Runs(a, l)
  <2>1. l # Null
    BY AttachmentAssumption
  <2>2. QED
    BY <1>1, <2>1, CallTypes DEF AtRest, AttachmentTypeOK, Runs
<1>2. QED
  BY <1>1 DEF OwnerInv, LinksLead, Lead, OneOwner

\* Initially there are no links and no threads.
LEMMA OwnerFirst == Init => OwnerInv
  BY AttachmentAssumption DEF Init, OwnerInv, LinksLead, Runs, Idle, Threaded

\* A set with at most one member, of those that can be counted.
LEMMA AtMostOne ==
    ASSUME NEW S, IsFiniteSet(S), ~(Cardinality(S) > 1), NEW x \in S
    PROVE  S = {x}
<1>1. /\ IsFiniteSet(S \ {x})
      /\ Cardinality(S \ {x}) = Cardinality(S) - 1
  BY FS_RemoveElement
<1>2. Cardinality(S) \in Nat /\ Cardinality(S \ {x}) \in Nat
  BY <1>1, FS_CardinalityType
<1>3. Cardinality(S \ {x}) = 0
  BY <1>1, <1>2
<1>4. S \ {x} = {}
  BY <1>1, <1>3, FS_EmptySet
<1>5. QED
  BY <1>4

\* The callbacks for a name can be counted.
LEMMA OwnersCount ==
    ASSUME AttachmentTypeOK, NEW l \in Listener, NEW n \in Name
    PROVE  IsFiniteSet(Owners(l, n)) /\ Cardinality(Owners(l, n)) \in Nat
<1>1. Owners(l, n) \subseteq Consumer
  BY DEF Owners, AttachmentTypeOK, ObjectsOK
<1>2. QED
  BY <1>1, AttachmentAssumption, FS_Subset, FS_CardinalityType

\* The links of run_init lead to the callbacks, when the ones before were
\* cleared and nothing collides.
LEMMA LinkedLead ==
    ASSUME AttachmentTypeOK, NEW l \in Listener, NEW n \in Name,
           links[l] = Cleared, ~Collides(l)
    PROVE  Owners(l, n) = IF Linked(l)[n] \in Consumer THEN {Linked(l)[n]} ELSE {}
<1>1. IsFiniteSet(Owners(l, n))
  BY OwnersCount
<1>2. CASE Owners(l, n) = {}
  <2>1. Linked(l)[n] \in {Null, Absent}
    BY <1>2 DEF Linked, Cleared
  <2>2. QED
    BY <1>2, <2>1, AttachmentAssumption
<1>3. CASE Owners(l, n) # {}
  <2>1. Linked(l)[n] \in Owners(l, n)
    BY <1>3 DEF Linked
  <2>2. ~(Cardinality(Owners(l, n)) > 1)
    BY DEF Collides
  <2>3. Owners(l, n) = {Linked(l)[n]}
    BY <1>1, <2>1, <2>2, AtMostOne
  <2>4. Linked(l)[n] \in Consumer
    BY <2>1 DEF Owners, AttachmentTypeOK, ObjectsOK
  <2>5. QED
    BY <2>3, <2>4
<1>4. QED
  BY <1>2, <1>3

\* A listener whose run a step is not about.
LEMMA LinksKept ==
    ASSUME NEW l \in Listener, LinksLead(l),
           links'[l] = links[l], l \in spurious' => l \in spurious, late[l] \subseteq late'[l],
           \A n \in Name \ late'[l] : Owners(l, n)' = Owners(l, n),
           l \in running' => l \in running,
           thread'[l] \in {"none", "ended"} => thread[l] \in {"none", "ended"},
           thread'[l] = "running" => thread[l] = "running",
           \A a \in Actor : Runs(a, l)' <=> Runs(a, l)
    PROVE  LinksLead(l)'
<1>1. Lead(l) => Lead(l)'
  BY DEF Lead
<1>2. (\E a \in Actor : Runs(a, l)') <=> \E a \in Actor : Runs(a, l)
  OBVIOUS
<1>3. Cleared' = Cleared
  BY DEF Cleared
<1>4. QED
  BY <1>1, <1>2, <1>3 DEF LinksLead

\* A step that starts no run and ends no thread of a listener.
LEMMA OwnerKept ==
    ASSUME OwnerInv, shared \subseteq shared', UNCHANGED <<links, slots, consumers, late, spurious>>,
           running' \subseteq running,
           \A l \in Listener : /\ thread'[l] \in {"none", "ended"} => thread[l] \in {"none", "ended"}
                               /\ thread'[l] = "running" => thread[l] = "running",
           \A a \in Actor : pc'[a] = pc[a] \/ {pc[a].at, pc'[a].at} \cap {"set", "start"} = {}
    PROVE  OwnerInv'
<1>1. \A a \in Actor, l \in Listener : Runs(a, l)' <=> Runs(a, l)
  BY DEF Runs
<1>2. \A l \in Listener, n \in Name : Owners(l, n)' = Owners(l, n)
  BY DEF Owners
<1>3. ASSUME NEW l \in Listener \ shared' PROVE LinksLead(l)'
  BY <1>1, <1>2, <1>3, LinksKept DEF OwnerInv
<1>4. QED
  BY <1>3 DEF OwnerInv

\* The steps of attach, detach and set_producer but for the lists of consumers,
\* of joins and destructors, and the tests of run and join.
LEMMA OwnerCalls ==
    ASSUME AttachmentTypeOK, OwnerInv, shared \subseteq shared', NEW a \in Actor,
           \/ /\ pc[a] = Idle
              /\ \/ \E l \in Listener, e \in Element : Attach(a, l, e) \/ Detach(a, l, e)
                 \/ \E c \in Consumer, l \in Listener \cup {Null} : SetProducer(a, c, l)
                 \/ \E x \in Threaded : Run(a, x) \/ Join(a, x) \/ Destroy(a, x)
           \/ Adopt(a) \/ List(a) \/ Orphan(a) \/ Erase(a) \/ Unset(a) \/ Assign(a)
           \/ JoinClear(a) \/ JoinWait(a)
    PROVE  OwnerInv'
<1>1. UNCHANGED <<links, slots, consumers, late, spurious>>
  BY DEF Attach, Detach, SetProducer, Run, Join, Destroy, Adopt, List, Orphan, Erase, Unset, Assign,
         JoinClear, JoinWait, objects, ends, ghosts
<1>2. running' \subseteq running
  BY DEF Attach, Detach, SetProducer, Run, Join, Destroy, Adopt, List, Orphan, Erase, Unset, Assign,
         JoinClear, JoinWait, threads
<1>3. \A l \in Listener : /\ thread'[l] \in {"none", "ended"} => thread[l] \in {"none", "ended"}
                          /\ thread'[l] = "running" => thread[l] = "running"
  <2>1. CASE UNCHANGED thread
    BY <2>1
  <2>2. ASSUME NEW x, thread[x] = "ended", thread' = [thread EXCEPT ![x] = "none"]
        PROVE  \A l \in Listener : /\ thread'[l] \in {"none", "ended"} => thread[l] \in {"none", "ended"}
                                   /\ thread'[l] = "running" => thread[l] = "running"
    BY <2>2 DEF AttachmentTypeOK, ThreadsOK, Threaded
  <2>3. QED
    BY <2>1, <2>2 DEF Attach, Detach, SetProducer, Run, Join, Destroy, Adopt, List, Orphan, Erase, Unset, Assign,
         JoinClear, JoinWait, threads
<1>4. pc[a].at \notin {"set", "start"}
  BY DEF Idle, Adopt, List, Orphan, Erase, Unset, Assign, JoinClear, JoinWait, Goes
<1>5. \/ \E at \in ElementPoints \cup {"remove", "add", "init", "clear", "wait"} : \E x, y, xs : Call(a, at, x, y, xs)
      \/ Return(a) \/ UNCHANGED pc
  BY DEF Attach, Detach, SetProducer, Run, Join, Destroy, Adopt, List, Orphan, Erase, Unset, Assign,
         JoinClear, JoinWait, Then, ElementPoints
<1>6. \A b \in Actor : \/ pc'[b] = pc[b]
                       \/ b = a /\ pc'[b].at \in ElementPoints \cup {"remove", "add", "init", "clear", "wait"} \cup {"idle"}
  BY <1>5, ActsAlone DEF AttachmentTypeOK
<1>7. QED
  BY <1>1, <1>2, <1>3, <1>4, <1>6, OwnerKept DEF ElementPoints

\* bind: the names it changes are late ones.
LEMMA OwnerBind ==
    ASSUME AttachmentTypeOK, OwnerInv, shared \subseteq shared', NEW u \in Actor,
           NEW c \in Consumer, NEW n \in Name, NEW slot, Bind(u, c, n, slot)
    PROVE  OwnerInv'
<1>1. /\ UNCHANGED <<links, consumers, running, thread, pc, spurious>>
      /\ slots' = [slots EXCEPT ![c][n] = slot]
      /\ late' = [l \in Listener |-> IF c \in consumers[l] THEN late[l] \cup {n} ELSE late[l]]
  BY DEF Bind, ends, threads
<1>2. \A d \in Consumer, m \in Name : d # c \/ m # n => slots'[d][m] = slots[d][m]
  BY <1>1 DEF AttachmentTypeOK, ObjectsOK
<1>3. ASSUME NEW l \in Listener, NEW m \in Name \ late'[l]
      PROVE  Owners(l, m)' = Owners(l, m)
  <2>1. m # n \/ c \notin consumers[l]
    BY <1>1, <1>3
  <2>2. consumers[l] \subseteq Consumer
    BY DEF AttachmentTypeOK, ObjectsOK
  <2>3. QED
    BY <1>1, <1>2, <1>3, <2>1, <2>2 DEF Owners
<1>4. \A a \in Actor, l \in Listener : Runs(a, l)' <=> Runs(a, l)
  BY <1>1 DEF Runs
<1>5. ASSUME NEW l \in Listener \ shared' PROVE LinksLead(l)'
  BY <1>1, <1>3, <1>4, <1>5, LinksKept DEF OwnerInv
<1>6. QED
  BY <1>5 DEF OwnerInv

\* clean_slots takes no callback away.
LEMMA OwnerInitConsumer ==
    ASSUME AttachmentTypeOK, OwnerInv, shared \subseteq shared', NEW u \in Actor, InitConsumer(u)
    PROVE  OwnerInv'
<1>1. /\ UNCHANGED <<links, consumers, running, thread, late, spurious>>
      /\ pc[u].of \in Consumer /\ pc[u].at = "init" /\ Then(u, "set", {})
      /\ slots' = [slots EXCEPT ![pc[u].of] = Cleaned(@)]
  BY DEF InitConsumer, Goes, ends, threads, ghosts
<1>2. \A d \in Consumer, m \in Name : slots'[d][m] = "set" <=> slots[d][m] = "set"
  BY <1>1 DEF AttachmentTypeOK, ObjectsOK, Cleaned
<1>3. \A l \in Listener, m \in Name : Owners(l, m)' = Owners(l, m)
  BY <1>1, <1>2 DEF Owners, AttachmentTypeOK, ObjectsOK
<1>4. \A a \in Actor, l \in Listener : Runs(a, l)' <=> Runs(a, l)
  BY <1>1, ThenIs, AttachmentAssumption DEF Runs, AttachmentTypeOK
<1>5. ASSUME NEW l \in Listener \ shared' PROVE LinksLead(l)'
  BY <1>1, <1>3, <1>4, <1>5, LinksKept DEF OwnerInv
<1>6. QED
  BY <1>5 DEF OwnerInv

\* run_init of a listener whose links were cleared: it is refused for two
\* callbacks of one name only, and its links lead.
LEMMA OwnerInitListener ==
    ASSUME AttachmentTypeOK, Exclusive, ThreadInv, OwnerInv, shared \subseteq shared', NEW u \in Actor, InitListener(u)
    PROVE  OwnerInv'
<1>1. PICK l \in Listener : pc[u].of = l /\ pc[u].at = "init"
  BY DEF InitListener, Goes
<1>2. UNCHANGED <<slots, consumers, running, thread>>
  BY DEF InitListener, objects, ends, threads
<1>3. /\ \A b \in Actor \ {u} : pc'[b] = pc[b]
      /\ pc'[u] = pc[u] \/ pc'[u].at = "idle" \/ (pc'[u].at = "set" /\ pc'[u].of = l)
  BY <1>1, MovesInitListener, ReturnIs, ThenIs DEF InitListener, Moves, AttachmentTypeOK, CallsOK, Idle
<1>4. \A k \in Listener, n \in Name : Owners(k, n)' = Owners(k, n)
  BY <1>2 DEF Owners
<1>5. ASSUME NEW k \in Listener \ shared', k # l PROVE LinksLead(k)'
  <2>1. links'[k] = links[k] /\ late'[k] = late[k] /\ (k \in spurious' => k \in spurious)
    BY <1>1, <1>5 DEF InitListener, AttachmentTypeOK, LinksOK, HistoryOK
  <2>2. \A a \in Actor : Runs(a, k)' <=> Runs(a, k)
    BY <1>1, <1>3, <1>5 DEF Runs
  <2>3. QED
    BY <1>2, <1>4, <1>5, <2>1, <2>2, LinksKept DEF OwnerInv
<1>6. ASSUME l \notin shared' PROVE LinksLead(l)'
  <2>1. /\ l \notin running /\ thread[l] = "none" /\ LinksLead(l)
        /\ \A b \in Actor : pc[b].of = l => b = u
    BY <1>1, <1>6, OfOne DEF ThreadInv, CallKnows, OwnerInv, ThreadPoints
  <2>2. links[l] = Cleared /\ (\A a \in Actor : ~Runs(a, l)) /\ l \notin spurious
    BY <1>1, <2>1 DEF LinksLead, Runs
  <2>3. \A n \in Name : ~(links[l][n] \in Consumer)
    BY <2>2, AttachmentAssumption DEF Cleared
  <2>4. Cleared' = Cleared
    BY DEF Cleared
  <2>5. CASE UNCHANGED <<links, pc, late, spurious>>
    BY <1>2, <1>4, <2>1, <2>2, <2>4, <2>5 DEF LinksLead, Runs
  <2>6. CASE /\ Collides(l) /\ links' = [links EXCEPT ![l] = Cleared] /\ Return(u)
             /\ spurious' = IF \A n \in Name : Cardinality(Owners(l, n)) < 2
                            THEN spurious \cup {l} ELSE spurious
    <3>1. links'[l] = Cleared
      BY <2>6 DEF AttachmentTypeOK, LinksOK
    <3>2. \E n \in Name : Cardinality(Owners(l, n)) > 1
      BY <2>3, <2>6 DEF Collides
    <3>3. l \notin spurious'
      BY <2>2, <2>6, <3>2, OwnersCount
    <3>4. \A a \in Actor : ~Runs(a, l)'
      BY <2>2, <2>6, ReturnIs DEF Runs, Idle, AttachmentTypeOK
    <3>5. QED
      BY <1>2, <2>1, <2>4, <3>1, <3>3, <3>4 DEF LinksLead
  <2>7. CASE /\ ~Collides(l) /\ links' = [links EXCEPT ![l] = Linked(l)] /\ UNCHANGED spurious
             /\ Then(u, "set", consumers[l])
    <3>1. links'[l] = Linked(l)
      BY <2>7 DEF AttachmentTypeOK, LinksOK
    <3>2. Lead(l)'
      BY <1>4, <2>2, <2>7, <3>1, LinkedLead DEF Lead
    <3>3. Runs(u, l)'
      BY <1>1, <2>7, ThenIs DEF Runs, AttachmentTypeOK
    <3>4. QED
      BY <2>2, <2>7, <3>2, <3>3 DEF LinksLead
  <2>8. QED
    BY <1>1, <2>5, <2>6, <2>7 DEF InitListener
<1>7. QED
  BY <1>5, <1>6 DEF OwnerInv

\* m_running, and the thread of a listener that has none, if it is not shared.
LEMMA OwnerStart ==
    ASSUME AttachmentTypeOK, Exclusive, ThreadInv, OwnerInv, shared \subseteq shared', NEW u \in Actor,
           Set(u) \/ Start(u)
    PROVE  OwnerInv'
<1>1. /\ pc[u].at \in {"set", "start"} /\ UNCHANGED <<links, slots, consumers, late, spurious>>
      /\ running' \subseteq running \cup {pc[u].of}
  BY DEF Set, Start, Goes, objects, ends, ghosts
<1>2. pc[u].of \in Threaded
  BY <1>1, CallTypes DEF AttachmentTypeOK, ThreadPoints
<1>3. \A x \in Threaded \ {pc[u].of} : thread'[x] = thread[x]
  BY <1>2 DEF Set, Start, AttachmentTypeOK, ThreadsOK
<1>4. \A b \in Actor \ {u} : pc'[b] = pc[b]
  BY ThenIs, ReturnIs DEF Set, Start, AttachmentTypeOK
<1>5. pc'[u].of = pc[u].of \/ pc'[u].at = "idle"
  BY ThenIs, ReturnIs DEF Set, Start, AttachmentTypeOK, Idle
<1>6. \A k \in Listener, n \in Name : Owners(k, n)' = Owners(k, n)
  BY <1>1 DEF Owners
<1>7. ASSUME NEW k \in Listener \ shared', k # pc[u].of PROVE LinksLead(k)'
  <2>1. \A a \in Actor : Runs(a, k)' <=> Runs(a, k)
    BY <1>4, <1>5, <1>7 DEF Runs
  <2>2. QED
    BY <1>1, <1>3, <1>6, <1>7, <2>1, LinksKept DEF OwnerInv, Threaded
<1>8. ASSUME NEW l \in Listener \ shared', pc[u].of = l PROVE LinksLead(l)'
  <2>1. LinksLead(l) /\ Runs(u, l)
    BY <1>1, <1>8 DEF OwnerInv, Runs
  <2>2. Lead(l)' /\ l \notin spurious'
    BY <1>1, <1>6, <1>8, <2>1 DEF LinksLead, Lead
  <2>3. CASE Set(u)
    <3>1. pc'[u].at = "start" /\ pc'[u].of = l
      BY <1>8, <2>3, ThenIs DEF Set, AttachmentTypeOK
    <3>2. QED
      BY <2>2, <3>1 DEF LinksLead, Runs
  <2>4. CASE Start(u)
    <3>1. thread[l] = "none"
      BY <1>8, <2>4 DEF ThreadInv, CallKnows, Start, Goes
    <3>2. thread'[l] = "running"
      BY <1>2, <1>8, <2>4, <3>1 DEF Start, AttachmentTypeOK, ThreadsOK
    <3>3. QED
      BY <2>2, <3>2 DEF LinksLead
  <2>5. QED
    BY <2>3, <2>4
<1>9. QED
  BY <1>7, <1>8 DEF OwnerInv

\* Nobody adds or removes a consumer between run_init and the thread of a
\* listener that is not shared, and m_running forbids it later.
LEMMA OwnerEnlists ==
    ASSUME AttachmentTypeOK, OwnerInv, shared \subseteq shared', NEW u \in Actor,
           NEW l \in Listener \cup {Null}, NEW to, NEW at \in {"unset", "assign"},
           pc[u].at \in {"remove", "add"}, Enlists(u, l, to, at)
    PROVE  OwnerInv'
<1>1. UNCHANGED <<links, slots, running, thread, late, spurious>> /\ Touch(u, {l} \ {Null})
  BY DEF Enlists, threads, ghosts
<1>2. \A b \in Actor : pc'[b] = pc[b] \/ (b = u /\ pc'[b].at \in {"unset", "assign"})
  BY ThenIs DEF Enlists, AttachmentTypeOK
<1>3. CASE UNCHANGED consumers
  BY <1>1, <1>2, <1>3, OwnerKept
<1>4. CASE l \notin running /\ consumers' = [consumers EXCEPT ![l] = to]
  <2>1. \A a \in Actor, k \in Listener : Runs(a, k)' <=> Runs(a, k)
    BY <1>2 DEF Runs
  <2>2. ASSUME NEW k \in Listener \ shared' PROVE LinksLead(k)'
    <3>1. CASE k = l
      <4>1. \A a \in Actor : ~Runs(a, k)
        BY <1>1, <2>2, <3>1, AttachmentAssumption, Untouched DEF Runs
      <4>2. QED
        BY <1>1, <1>4, <2>1, <2>2, <3>1, <4>1 DEF OwnerInv, LinksLead, Cleared
    <3>2. CASE k # l
      <4>1. \A n \in Name : Owners(k, n)' = Owners(k, n)
        BY <1>1, <1>4, <2>2, <3>2 DEF Owners, AttachmentTypeOK, ObjectsOK
      <4>2. QED
        BY <1>1, <2>1, <2>2, <4>1, LinksKept DEF OwnerInv
    <3>3. QED
      BY <3>1, <3>2
  <2>3. QED
    BY <2>2 DEF OwnerInv
<1>5. QED
  BY <1>3, <1>4 DEF Enlists

\* The thread of a listener clears the links before it ends.
LEMMA OwnerEnds ==
    ASSUME AttachmentTypeOK, ThreadInv, OwnerInv, shared \subseteq shared',
           \/ \E l \in Listener : Leave(l) \/ Finish(l)
           \/ \E c \in Consumer : Consume(c)
    PROVE  OwnerInv'
<1>1. UNCHANGED <<slots, consumers, running, pc, late, spurious>>
  BY DEF Leave, Finish, Consume, objects, ends, threads, ghosts
<1>2. ASSUME NEW l \in Listener, Leave(l) PROVE OwnerInv'
  BY <1>1, <1>2, OwnerKept DEF Leave, AttachmentTypeOK, ThreadsOK, Threaded
<1>3. ASSUME NEW c \in Consumer, Consume(c) PROVE OwnerInv'
  <2>1. \A l \in Listener : thread'[l] = thread[l]
    BY <1>3, AttachmentAssumption DEF Consume, AttachmentTypeOK, ThreadsOK, Threaded
  <2>2. UNCHANGED links
    BY <1>3 DEF Consume
  <2>3. QED
    BY <1>1, <2>1, <2>2, OwnerKept
<1>4. ASSUME NEW l \in Listener, Finish(l) PROVE OwnerInv'
  <2>1. /\ links'[l] = Cleared /\ thread'[l] = "ended" /\ thread[l] = "leaving"
        /\ \A k \in Listener \ {l} : links'[k] = links[k] /\ thread'[k] = thread[k]
    BY <1>4 DEF Finish, AttachmentTypeOK, LinksOK, ThreadsOK, Threaded
  <2>2. Cleared' = Cleared /\ \A k \in Listener, n \in Name : Owners(k, n)' = Owners(k, n)
    BY <1>1 DEF Cleared, Owners
  <2>3. \A a \in Actor, k \in Listener : Runs(a, k)' <=> Runs(a, k)
    BY <1>1 DEF Runs
  <2>4. ASSUME NEW k \in Listener \ shared', k # l PROVE LinksLead(k)'
    BY <1>1, <2>1, <2>2, <2>3, <2>4, LinksKept DEF OwnerInv
  <2>5. ASSUME l \notin shared' PROVE LinksLead(l)'
    <3>1. \A a \in Actor : ~Runs(a, l)
      BY <2>1, <2>5 DEF ThreadInv, CallKnows, Runs
    <3>2. QED
      BY <1>1, <2>1, <2>2, <2>3, <2>5, <3>1 DEF LinksLead, OwnerInv
  <2>6. QED
    BY <2>4, <2>5 DEF OwnerInv
<1>5. QED
  BY <1>2, <1>3, <1>4

\* Every step keeps the invariant.
LEMMA OwnerStep ==
    ASSUME AttachmentTypeOK, Exclusive, ThreadInv, OwnerInv, [Next]_vars
    PROVE  OwnerInv'
<1>1. shared \subseteq shared'
  BY ExclusiveStep
<1>2. ASSUME UNCHANGED <<links, slots, consumers, late, spurious, running, thread, pc>> PROVE OwnerInv'
  BY <1>1, <1>2, OwnerKept
<1>3. ASSUME NEW u \in User, Begin(u) PROVE OwnerInv'
  <2>1. u \in Actor /\ pc[u] = Idle /\ alive \subseteq Threaded
    BY <1>3 DEF Actor, AttachmentTypeOK, ObjectsOK, Begin, Ready
  <2>2. CASE \E e \in Element : Disconnect(e)
    BY <1>2, <2>2 DEF Disconnect, objects, ends, threads, ghosts
  <2>3. CASE \E c \in Consumer, n \in Name, slot \in {"empty", "set"} : Bind(u, c, n, slot)
    BY <1>1, <2>1, <2>3, OwnerBind
  <2>4. QED
    BY <1>1, <1>3, <2>1, <2>2, <2>3, OwnerCalls DEF Begin
<1>4. ASSUME NEW u \in User, Continue(u) PROVE OwnerInv'
  <2>1. u \in Actor
    BY DEF Actor
  <2>2. CASE Remove(u)
    <3>1. pc[u].at = "remove" /\ producer[pc[u].of] \in Listener \cup {Null}
      BY <2>1, <2>2, CallTypes DEF Remove, Goes, AttachmentTypeOK, ObjectsOK
    <3>2. QED
      BY <1>1, <2>1, <2>2, <3>1, OwnerEnlists DEF Remove
  <2>3. CASE Add(u)
    <3>1. pc[u].at = "add" /\ pc[u].with \in Listener \cup {Null}
      BY <2>1, <2>3, CallTypes DEF Add, Goes, AttachmentTypeOK
    <3>2. QED
      BY <1>1, <2>1, <2>3, <3>1, OwnerEnlists DEF Add
  <2>4. QED
    BY <1>1, <1>4, <2>1, <2>2, <2>3, OwnerCalls, OwnerInitListener, OwnerInitConsumer, OwnerStart DEF Continue
<1>5. ASSUME NEW a \in Actor, JoinClear(a) \/ JoinWait(a) \/ Stray(a) PROVE OwnerInv'
  <2>1. CASE Stray(a)
    BY <1>2, <2>1 DEF Stray, objects, ends, threads, ghosts
  <2>2. QED
    BY <1>1, <1>5, <2>1, OwnerCalls
<1>6. ASSUME NEW l \in Listener, JoinNext(l) PROVE OwnerInv'
  <2>1. PICK c \in toJoin[l] : IF c \in alive THEN Join(l, c)
                               ELSE UNCHANGED <<objects, links, running, thread, pc, shared, ghosts>>
    BY <1>6 DEF JoinNext
  <2>2. c \in Threaded /\ l \in Actor /\ pc[l] = Idle
    BY <1>6 DEF JoinNext, Ready, Actor, AttachmentTypeOK, ThreadsOK, Threaded
  <2>3. CASE c \in alive
    BY <1>1, <2>1, <2>2, <2>3, OwnerCalls
  <2>4. CASE c \notin alive
    BY <1>2, <2>1, <2>4 DEF objects, ends, ghosts
  <2>5. QED
    BY <2>3, <2>4
<1>7. CASE UNCHANGED vars
  BY <1>2, <1>7 DEF vars, objects, ends, threads, ghosts
<1>8. QED
  BY <1>1, <1>3, <1>4, <1>5, <1>6, <1>7, OwnerEnds DEF Next

\* For a listener that no two calls used at once: while it runs, a name belongs
\* to one callback at most and its link leads there, but for names bound later;
\* between the runs no link is left, and a run is refused for EventCollision
\* only where two consumers bind one name.
THEOREM NamesHaveOneOwner == Spec => []OneOwner
<1>1. Init => Exclusive /\ ThreadInv /\ OwnerInv
  BY ExclusiveFirst, ThreadFirst, OwnerFirst
<1>2. AttachmentTypeOK /\ Exclusive /\ ThreadInv /\ OwnerInv /\ [Next]_vars
        => Exclusive' /\ ThreadInv' /\ OwnerInv'
  BY ExclusiveStep, ThreadStep, OwnerStep
<1>3. QED
  BY <1>1, <1>2, AttachmentTypeCorrect, OwnerInvOneOwner, PTL DEF Spec

------------------------------------------------------------------------------
(* Why the process stops *)

\* What a call uses is there, unless another call destroyed it.
UsesLive == \A a \in Actor : pc[a].uses \cap Threaded \subseteq alive \cup shared

\* A listener outlives its consumers.
ProducersLive == \A c \in alive \cap Consumer : producer[c] \in alive \cup {Null}

\* A step that comes to objects which are there.
LEMMA UsesKept ==
    ASSUME UsesLive, UNCHANGED alive, NEW a \in Actor, NEW xs, Moves(a, xs),
           xs \cap Threaded \subseteq alive \/ pc'[a].uses \subseteq pc[a].uses
    PROVE  UsesLive'
<1>1. shared \subseteq shared'
  BY SharesMore
<1>2. ASSUME NEW b \in Actor, NEW x \in Threaded, x \in pc'[b].uses, x \notin shared' PROVE x \in alive'
  <2>1. x \in pc[b].uses \/ (b = a /\ x \in xs /\ xs \cap Threaded \subseteq alive)
    BY <1>2 DEF Moves
  <2>2. QED
    BY <1>1, <1>2, <2>1 DEF UsesLive
<1>3. QED
  BY <1>2 DEF UsesLive

\* The steps of calls that come to an object or go on without one.
LEMMA UsesCalls ==
    ASSUME AttachmentTypeOK, UsesLive, NEW a \in Actor,
           \/ \E l \in Listener, e \in Element : Attach(a, l, e) \/ Detach(a, l, e)
           \/ \E x \in alive : Run(a, x) \/ Join(a, x)
           \/ Adopt(a) \/ List(a) \/ Orphan(a) \/ Erase(a) \/ Unset(a) \/ Assign(a)
           \/ InitConsumer(a) \/ Set(a) \/ Start(a) \/ JoinClear(a) \/ JoinWait(a)
    PROVE  UsesLive'
<1>1. UNCHANGED alive
  BY DEF Attach, Detach, Run, Join, Adopt, List, Orphan, Erase, Unset, Assign, InitConsumer, Set, Start,
         JoinClear, JoinWait, objects
<1>2. alive \subseteq Threaded
  BY DEF AttachmentTypeOK, ObjectsOK
<1>3. ASSUME NEW l \in Listener, NEW e \in Element, Attach(a, l, e) \/ Detach(a, l, e) PROVE UsesLive'
  <2>1. Moves(a, {l, e})
    BY <1>3, MovesTie
  <2>2. l \in alive /\ e \notin Threaded
    BY <1>3, AttachmentAssumption DEF Attach, Detach, Threaded
  <2>3. QED
    BY <1>1, <2>1, <2>2, UsesKept
<1>4. ASSUME NEW x \in alive, Run(a, x) \/ Join(a, x) PROVE UsesLive'
  <2>1. Moves(a, {x})
    BY <1>2, <1>4, MovesRun, MovesJoin
  <2>2. QED
    BY <1>1, <1>4, <2>1, UsesKept
<1>5. CASE \/ Adopt(a) \/ List(a) \/ Orphan(a) \/ Erase(a) \/ Unset(a) \/ Assign(a)
           \/ InitConsumer(a) \/ Set(a) \/ Start(a) \/ JoinClear(a) \/ JoinWait(a)
  <2>1. Moves(a, {})
    BY <1>5, TypeAdopt, TypeList, TypeOrphan, TypeErase, TypeUnset, TypeAssign, TypeInitConsumer, TypeSet,
       TypeStart, TypeJoinClear, TypeJoinWait
  <2>2. QED
    BY <1>1, <2>1, UsesKept
<1>6. QED
  BY <1>3, <1>4, <1>5

\* The steps of calls that fail where an object is missing.
LEMMA UsesMore ==
    ASSUME AttachmentTypeOK, UsesLive, NEW u \in Actor,
           \/ \E c \in Consumer, l \in Listener \cup {Null} : SetProducer(u, c, l)
           \/ Remove(u) \/ Add(u) \/ InitListener(u)
    PROVE  UsesLive'
<1>1. UNCHANGED alive
  BY DEF SetProducer, Remove, Add, Enlists, InitListener, objects
<1>2. ASSUME NEW c \in Consumer, NEW l \in Listener \cup {Null}, SetProducer(u, c, l) PROVE UsesLive'
  <2>1. Moves(u, {c, l} \ {Null})
    BY <1>2, MovesSetProducer
  <2>2. {c, l} \ {Null} \subseteq alive
    BY <1>2 DEF SetProducer
  <2>3. QED
    BY <1>1, <2>1, <2>2, UsesKept
<1>3. CASE Remove(u)
  <2>1. Moves(u, {producer[pc[u].of]} \ {Null})
    BY <1>3, TypeRemove
  <2>2. UNCHANGED pc \/ producer[pc[u].of] \in alive
    BY <1>3 DEF Remove, Enlists
  <2>3. QED
    BY <1>1, <2>1, <2>2, UsesKept
<1>4. CASE Add(u)
  <2>1. Moves(u, {pc[u].with})
    BY <1>4, TypeAdd
  <2>2. UNCHANGED pc \/ pc[u].with \in alive
    BY <1>4 DEF Add, Enlists
  <2>3. QED
    BY <1>1, <2>1, <2>2, UsesKept
<1>5. CASE InitListener(u)
  <2>1. Moves(u, consumers[pc[u].of])
    BY <1>5, MovesInitListener
  <2>2. UNCHANGED pc \/ Return(u) \/ consumers[pc[u].of] \subseteq alive
    BY <1>5 DEF InitListener
  <2>3. Return(u) => pc'[u].uses = {}
    BY ReturnIs DEF AttachmentTypeOK, Idle
  <2>4. QED
    BY <1>1, <2>1, <2>2, <2>3, UsesKept
<1>6. QED
  BY <1>2, <1>3, <1>4, <1>5

\* A destructor shares what a call is using.
LEMMA UsesDestroy ==
    ASSUME AttachmentTypeOK, UsesLive, NEW u \in Actor, pc[u] = Idle, NEW x \in Threaded, Destroy(u, x)
    PROVE  UsesLive'
<1>1. alive' = alive \ {x} /\ UNCHANGED pc /\ Touch(u, {x})
  BY DEF Destroy
<1>2. pc[u].uses = {}
  BY DEF Idle
<1>3. shared \subseteq shared' /\ \A b \in Actor : x \in pc[b].uses => x \in shared'
  BY <1>1, <1>2 DEF Touch
<1>4. QED
  BY <1>1, <1>3 DEF UsesLive

\* Every step keeps it.
LEMMA UsesStep ==
    ASSUME AttachmentTypeOK, UsesLive, [Next]_vars
    PROVE  UsesLive'
<1>1. ASSUME UNCHANGED <<alive, pc, shared>> PROVE UsesLive'
  BY <1>1 DEF UsesLive
<1>2. ASSUME NEW u \in User, Begin(u) PROVE UsesLive'
  <2>1. u \in Actor /\ pc[u] = Idle /\ alive \subseteq Threaded
    BY <1>2 DEF Actor, AttachmentTypeOK, ObjectsOK, Begin, Ready
  <2>2. CASE \E e \in Element : Disconnect(e)
    BY <1>1, <2>2 DEF Disconnect, objects
  <2>3. ASSUME NEW c \in Consumer, NEW n \in Name, NEW slot \in {"empty", "set"}, Bind(u, c, n, slot)
        PROVE  UsesLive'
    <3>1. Moves(u, {c}) /\ UNCHANGED <<alive, pc>>
      BY <2>1, <2>3, TypeBind DEF Bind
    <3>2. QED
      BY <2>1, <3>1, UsesKept
  <2>4. CASE \E x \in alive : Destroy(u, x)
    BY <2>1, <2>4, UsesDestroy
  <2>5. QED
    BY <1>2, <2>1, <2>2, <2>3, <2>4, UsesCalls, UsesMore DEF Begin
<1>3. ASSUME NEW u \in User, Continue(u) PROVE UsesLive'
  <2>1. u \in Actor
    BY DEF Actor
  <2>2. QED
    BY <1>3, <2>1, UsesCalls, UsesMore DEF Continue
<1>4. ASSUME NEW a \in Actor, JoinClear(a) \/ JoinWait(a) \/ Stray(a) PROVE UsesLive'
  <2>1. CASE Stray(a)
    BY <1>1, <2>1 DEF Stray, objects
  <2>2. QED
    BY <1>4, <2>1, UsesCalls
<1>5. ASSUME NEW l \in Listener, JoinNext(l) PROVE UsesLive'
  <2>1. (\E c \in alive : Join(l, c)) \/ UNCHANGED <<objects, pc, shared>>
    BY <1>5 DEF JoinNext
  <2>2. l \in Actor
    BY DEF Actor
  <2>3. QED
    BY <1>1, <2>1, <2>2, UsesCalls DEF objects
<1>6. CASE (\E l \in Listener : Leave(l) \/ Finish(l)) \/ \E c \in Consumer : Consume(c)
  BY <1>1, <1>6 DEF Leave, Finish, Consume, objects
<1>7. CASE UNCHANGED vars
  BY <1>1, <1>7 DEF vars, objects
<1>8. QED
  BY <1>2, <1>3, <1>4, <1>5, <1>6, <1>7 DEF Next

\* A producer is a listener that is there: only Assign writes one, and the
\* destructor of a listener waits for its consumers.
LEMMA ProducersStep ==
    ASSUME AttachmentTypeOK, ProducersLive, [Next]_vars
    PROVE  ProducersLive'
<1>1. ASSUME UNCHANGED <<alive, producer>> PROVE ProducersLive'
  BY <1>1 DEF ProducersLive
<1>2. ASSUME NEW u \in User, NEW x, Destroy(u, x) PROVE ProducersLive'
  <2>1. /\ alive' = alive \ {x} /\ UNCHANGED producer
        /\ x \in Listener => \A c \in alive \cap Consumer : producer[c] # x
    BY <1>2 DEF Destroy, ends
  <2>2. \A c \in alive \cap Consumer : producer[c] \in Listener \cup {Null}
    BY DEF AttachmentTypeOK, ObjectsOK
  <2>3. x \notin Listener => \A c \in alive \cap Consumer : producer[c] # x \/ producer[c] = Null
    BY <2>2
  <2>4. QED
    BY <2>1, <2>3 DEF ProducersLive
<1>3. ASSUME NEW u \in User, Begin(u) PROVE ProducersLive'
  <2>1. CASE \E x \in alive : Destroy(u, x)
    BY <1>2, <2>1
  <2>2. CASE ~\E x \in alive : Destroy(u, x)
    BY <1>1, <1>3, <2>2 DEF Begin, Attach, Detach, Disconnect, SetProducer, Bind, Run, Join, objects, ends
  <2>3. QED
    BY <2>1, <2>2
<1>4. ASSUME NEW u \in User, Continue(u) PROVE ProducersLive'
  <2>1. u \in Actor
    BY DEF Actor
  <2>2. CASE Unset(u)
    BY <2>2 DEF Unset, ProducersLive, AttachmentTypeOK, ObjectsOK
  <2>3. CASE Assign(u)
    <3>1. pc[u].with \in Listener
      BY <2>1, <2>3, CallTypes DEF Assign, Goes, AttachmentTypeOK
    <3>2. pc[u].with \in pc[u].uses
      BY <2>1, <3>1, CallTypes, AttachmentAssumption DEF AttachmentTypeOK
    <3>3. pc[u].with \in alive
      BY <2>3, <3>1, <3>2 DEF Assign, Goes, Threaded
    <3>4. QED
      BY <2>3, <3>3 DEF Assign, ProducersLive, AttachmentTypeOK, ObjectsOK
  <2>4. CASE ~Unset(u) /\ ~Assign(u)
    BY <1>1, <1>4, <2>4 DEF Continue, Adopt, List, Orphan, Erase, Remove, Add, Enlists, InitListener, InitConsumer,
                            Set, Start, objects, ends
  <2>5. QED
    BY <2>2, <2>3, <2>4
<1>5. ASSUME NEW a \in Actor, JoinClear(a) \/ JoinWait(a) \/ Stray(a) PROVE ProducersLive'
  BY <1>1, <1>5 DEF JoinClear, JoinWait, Stray, objects, ends
<1>6. CASE \E l \in Listener : Leave(l) \/ JoinNext(l) \/ Finish(l)
  BY <1>1, <1>6 DEF Leave, JoinNext, Join, Finish, objects, ends
<1>7. CASE (\E c \in Consumer : Consume(c)) \/ UNCHANGED vars
  BY <1>1, <1>7 DEF Consume, vars, objects, ends
<1>8. QED
  BY <1>3, <1>4, <1>5, <1>6, <1>7 DEF Next

\* What EndsExplained says of a process that has stopped.
Explained ==
    /\ stopped = "terminated" => misused # {}
    /\ stopped = "dangling" =>
         \/ shared # {}
         \/ \E l \in Listener : ~(consumers[l] \subseteq alive)
         \/ \E e \in Element : parent[e] \in Listener \ alive
         \/ \E c \in Consumer : thread[c] = "running" /\ producer[c] = Null
    /\ stopped = "noexcept" => running # {}

\* A process that has stopped takes no step.
LEMMA StoppedStays == ASSUME stopped # "no", [Next]_vars PROVE UNCHANGED vars
<1>1. \A u \in User : ~Begin(u) /\ ~Continue(u)
  BY DEF Begin, Continue, Ready, Adopt, List, Orphan, Erase, Remove, Unset, Add, Assign, InitListener, InitConsumer,
         Set, Start, Goes
<1>2. \A a \in Actor : ~JoinClear(a) /\ ~JoinWait(a) /\ ~Stray(a)
  BY DEF JoinClear, JoinWait, Stray, Goes
<1>3. \A l \in Listener : ~Leave(l) /\ ~JoinNext(l) /\ ~Finish(l)
  BY DEF Leave, JoinNext, Finish, Ready
<1>4. \A c \in Consumer : ~Consume(c)
  BY DEF Consume
<1>5. QED
  BY <1>1, <1>2, <1>3, <1>4 DEF Next

\* The end of a call by noexcept or by an object that is not there.
LEMMA ExplainedEnlists ==
    ASSUME AttachmentTypeOK, ProducersLive, TieInv, stopped = "no", shared \subseteq shared', NEW u \in Actor,
           Remove(u) \/ Add(u)
    PROVE  Explained'
<1>1. pc[u].of \in Consumer /\ pc[u].of \in pc[u].uses
  BY CallTypes, AttachmentAssumption DEF Remove, Add, Goes, AttachmentTypeOK
<1>2. PICK l :
        /\ UNCHANGED running
        /\ \/ stopped' = "dangling" /\ l \notin alive
           \/ stopped' = "noexcept" /\ l \in running
           \/ stopped' = "no"
        /\ Add(u) => l = pc[u].with
        /\ Remove(u) => l = producer[pc[u].of]
  <2>1. CASE Remove(u)
    BY <2>1 DEF Remove, Add, Goes, Enlists, Dangles, threads
  <2>2. CASE Add(u)
    BY <2>2 DEF Remove, Add, Goes, Enlists, Dangles, threads
  <2>3. QED
    BY <2>1, <2>2
<1>3. CASE Add(u)
  <2>1. pc[u].with \in Listener /\ pc[u].with \in pc[u].uses
    BY <1>3, CallTypes, AttachmentAssumption DEF Add, Goes, AttachmentTypeOK
  <2>2. pc[u].with \in alive
    BY <1>3, <2>1 DEF Add, Goes, Threaded
  <2>3. QED
    BY <1>2, <1>3, <2>2 DEF Explained
<1>4. CASE Remove(u)
  <2>1. pc[u].of \in alive
    BY <1>1, <1>4 DEF Remove, Goes, Threaded
  <2>2. pc[u].of \notin shared => producer[pc[u].of] # Null
    <3>1. Moving(u, pc[u].of) /\ pc[u].at = "remove"
      BY <1>4 DEF Remove, Goes, Moving, ProducerPoints
    <3>2. QED
      BY <1>1, <3>1 DEF TieInv, ConsumerTied
  <2>3. pc[u].of \notin shared => producer[pc[u].of] \in alive
    BY <1>1, <2>1, <2>2 DEF ProducersLive
  <2>4. QED
    BY <1>2, <1>4, <2>3 DEF Explained
<1>5. QED
  BY <1>3, <1>4

\* The end of a listener's thread that stumbles over a consumer.
LEMMA ExplainedJoinNext ==
    ASSUME AttachmentTypeOK, ThreadInv, stopped = "no", shared \subseteq shared', NEW l \in Listener, JoinNext(l)
    PROVE  Explained'
<1>1. PICK c \in toJoin[l] : IF c \in alive THEN Join(l, c)
                             ELSE Dangles /\ UNCHANGED <<objects, links, running, thread, pc, shared, ghosts>>
  BY DEF JoinNext
<1>2. CASE c \in alive
  BY <1>1, <1>2 DEF Join, Explained
<1>3. CASE c \notin alive
  <2>1. thread[l] = "leaving" /\ stopped' = "dangling" /\ UNCHANGED <<consumers, alive, shared>>
    BY <1>1, <1>3 DEF JoinNext, Dangles, objects, ends
  <2>2. l \in shared \/ ~(consumers[l] \subseteq alive)
    BY <1>1, <1>3, <2>1 DEF ThreadInv, JoinsOwn
  <2>3. QED
    BY <2>1, <2>2 DEF Explained
<1>4. QED
  BY <1>2, <1>3

\* Every step that stops the process has its reason.
LEMMA ExplainedStep ==
    ASSUME AttachmentTypeOK, Exclusive, ThreadInv, TieInv, UsesLive, ProducersLive, Explained, [Next]_vars
    PROVE  Explained'
<1>1. shared \subseteq shared'
  BY ExclusiveStep
<1>2. CASE stopped # "no"
  <2>1. UNCHANGED vars
    BY <1>2, StoppedStays
  <2>2. QED
    BY <2>1 DEF vars, objects, ends, threads, ghosts, Explained
<1>3. CASE stopped = "no"
  <2>1. ASSUME stopped' = "no" PROVE Explained'
    BY <2>1 DEF Explained
  <2>2. ASSUME NEW u \in User, Begin(u) PROVE Explained'
    <3>1. CASE \E e \in Element : Disconnect(e)
      BY <3>1 DEF Disconnect, Dangles, objects, ends, Explained, AttachmentTypeOK, ObjectsOK
    <3>2. CASE \E c \in Consumer, l \in Listener \cup {Null} : SetProducer(u, c, l)
      BY <1>3, <3>2 DEF SetProducer, threads, Explained
    <3>3. CASE \E x \in alive : Destroy(u, x)
      BY <1>3, <3>3 DEF Destroy, Explained
    <3>4. CASE \/ \E l \in Listener, e \in Element : Attach(u, l, e) \/ Detach(u, l, e)
               \/ \E c \in Consumer, n \in Name, slot \in {"empty", "set"} : Bind(u, c, n, slot)
               \/ \E x \in alive : Run(u, x) \/ Join(u, x)
      BY <1>3, <2>1, <3>4 DEF Attach, Detach, Bind, Run, Join
    <3>5. QED
      BY <2>2, <3>1, <3>2, <3>3, <3>4 DEF Begin
  <2>3. ASSUME NEW u \in User, Continue(u) PROVE Explained'
    <3>1. u \in Actor
      BY DEF Actor
    <3>2. CASE InitListener(u)
      <4>1. CASE stopped' = "no"
        BY <2>1, <4>1
      <4>2. CASE stopped' # "no"
        <5>1. /\ stopped' = "dangling" /\ UNCHANGED <<consumers, alive>>
              /\ pc[u].of \in Listener /\ ~(consumers[pc[u].of] \subseteq alive)
          BY <1>3, <3>2, <4>2 DEF InitListener, Dangles, objects, ends
        <5>2. QED
          BY <5>1 DEF Explained
      <4>3. QED
        BY <4>1, <4>2
    <3>3. CASE Start(u)
      BY <1>3, <3>3 DEF Start, Explained
    <3>4. CASE Adopt(u) \/ List(u) \/ Orphan(u) \/ Erase(u) \/ Unset(u) \/ Assign(u) \/ InitConsumer(u) \/ Set(u)
      BY <1>3, <2>1, <3>4 DEF Adopt, List, Orphan, Erase, Unset, Assign, InitConsumer, Set
    <3>5. QED
      BY <1>1, <1>3, <2>3, <3>1, <3>2, <3>3, <3>4, ExplainedEnlists DEF Continue
  <2>4. ASSUME NEW a \in Actor, JoinClear(a) \/ JoinWait(a) \/ Stray(a) PROVE Explained'
    <3>1. CASE JoinClear(a) \/ JoinWait(a)
      BY <1>3, <3>1 DEF JoinClear, JoinWait, Explained
    <3>2. CASE Stray(a)
      <4>1. shared # {}
        BY <3>2 DEF Stray, UsesLive
      <4>2. QED
        BY <3>2, <4>1 DEF Stray, Dangles, Explained
    <3>3. QED
      BY <2>4, <3>1, <3>2
  <2>5. ASSUME NEW l \in Listener, Leave(l) \/ JoinNext(l) \/ Finish(l) PROVE Explained'
    BY <1>1, <1>3, <2>1, <2>5, ExplainedJoinNext DEF Leave, Finish
  <2>6. ASSUME NEW c \in Consumer, Consume(c) PROVE Explained'
    BY <1>3, <2>6 DEF Consume, Dangles, objects, ends, Explained
  <2>7. CASE UNCHANGED vars
    BY <1>3, <2>1, <2>7 DEF vars
  <2>8. QED
    BY <2>2, <2>3, <2>4, <2>5, <2>6, <2>7 DEF Next
<1>4. QED
  BY <1>2, <1>3

\* Initially everything is there, nothing is used and the process goes on.
LEMMA EndsFirst == Init => UsesLive /\ ProducersLive /\ Explained
  BY DEF Init, UsesLive, ProducersLive, Explained, Idle, Threaded

\* A join comes back too early, or a std::thread is misused, only for an object
\* that two calls used at once.  The process ends in std::terminate only for
\* that, or by an exception through noexcept of an object that runs, and goes
\* through what is not there only where two calls used an object at once, a
\* listener still has what was destroyed, or a consumer runs without producer.
THEOREM EndsAreExplained == Spec => []EndsExplained
<1>1. Init => Exclusive /\ ThreadInv /\ TieInv /\ UsesLive /\ ProducersLive /\ Explained
  BY ExclusiveFirst, ThreadFirst, TieFirst, EndsFirst
<1>2. AttachmentTypeOK /\ Exclusive /\ ThreadInv /\ TieInv /\ UsesLive /\ ProducersLive /\ Explained /\ [Next]_vars
        => Exclusive' /\ ThreadInv' /\ TieInv' /\ UsesLive' /\ ProducersLive' /\ Explained'
  BY ExclusiveStep, ThreadStep, TieStep, UsesStep, ProducersStep, ExplainedStep
<1>3. ThreadInv /\ Explained => EndsExplained
  BY DEF ThreadInv, Explained, EndsExplained
<1>4. QED
  BY <1>1, <1>2, <1>3, AttachmentTypeCorrect, PTL DEF Spec
==============================================================================

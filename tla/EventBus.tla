------------------------------ MODULE EventBus ------------------------------
(***************************************************************************)
(* What a listener and its consumers promise for the events with a name:   *)
(* a bus with one channel for each name. An event that was received is     *)
(* published or dropped in one step, with the test of the limit. The owner *)
(* of a name calls back for the events published under it, in their order. *)
(* Nothing is left for a consumer that was joined.                         *)
(***************************************************************************)
EXTENDS Integers, Sequences

CONSTANTS Conn,     \* where the events come from
          Name,     \* what they are published under
          Consumer,
          OwnerOf,  \* [Name -> the consumer with a callback for it, or None]
          None,     \* is no name
          Limit     \* of the events that wait under a name, 0 for none

VARIABLES taken,    \* [Conn -> Nat]: how many events the bus has taken
          sent,     \* [Name -> Seq([cn : Conn, seq : Nat])]: what was published
          served,   \* [Name -> Nat]: for how many of these it has called back
          lost,     \* what was dropped: a name and an event each
          calling,  \* [Consumer -> Name \cup {None}]: who is called back, for what
          joined,   \* the consumers that ended with the bus
          open

bus == <<taken, sent, served, lost, calling, joined, open>>

Init ==
    /\ taken = [cn \in Conn |-> 0]
    /\ sent = [q \in Name |-> <<>>]
    /\ served = [q \in Name |-> 0]
    /\ lost = {}
    /\ calling = [c \in Consumer |-> None]
    /\ joined = {}
    /\ open = TRUE

Backlog(q) == Len(sent[q]) - served[q]
Full(q) == Limit > 0 /\ Backlog(q) > Limit

Event(cn) == [cn |-> cn, seq |-> taken[cn] + 1]

\* The next event of cn. Nothing comes in once a consumer was joined.
Take(cn) ==
    /\ open /\ joined = {}
    /\ taken' = [taken EXCEPT ![cn] = @ + 1]

Publish(cn, q) ==
    /\ Take(cn)
    /\ ~ Full(q)
    /\ sent' = [sent EXCEPT ![q] = Append(@, Event(cn))]
    /\ UNCHANGED <<served, lost, calling, joined, open>>

Drop(cn, q) ==
    /\ Take(cn)
    /\ Full(q)
    /\ lost' = lost \cup {<<q, Event(cn)>>}
    /\ UNCHANGED <<sent, served, calling, joined, open>>

\* The callback of c for the oldest event that waits under q.
Call(c, q) ==
    /\ calling[c] = None
    /\ Backlog(q) > 0
    /\ open => OwnerOf[q] = c
    /\ served' = [served EXCEPT ![q] = @ + 1]
    /\ calling' = [calling EXCEPT ![c] = q]
    /\ UNCHANGED <<taken, sent, lost, joined, open>>

Return(c) ==
    /\ calling[c] # None
    /\ calling' = [calling EXCEPT ![c] = None]
    /\ UNCHANGED <<taken, sent, served, lost, joined, open>>

Join(c) ==
    /\ open
    /\ calling[c] = None
    /\ \A q \in Name : OwnerOf[q] = c => Backlog(q) = 0
    /\ joined' = joined \cup {c}
    /\ UNCHANGED <<taken, sent, served, lost, calling, open>>

\* After the joins the bus is closed; or the process ends, and its callbacks with it.
Close ==
    /\ open /\ open' = FALSE
    /\ calling' \in {calling, [c \in Consumer |-> None]}
    /\ UNCHANGED <<taken, sent, served, lost, joined>>

Next ==
    \/ \E cn \in Conn, q \in Name : Publish(cn, q) \/ Drop(cn, q)
    \/ \E c \in Consumer, q \in Name : Call(c, q)
    \/ \E c \in Consumer : Return(c) \/ Join(c)
    \/ Close

Spec == Init /\ [][Next]_bus
------------------------------------------------------------------------------
(* Safety *)

\* Where an event is under a name: at a position, or at 0 if it was dropped.
At(q, e) == {i \in 0 .. Len(sent[q]) : IF i = 0 THEN <<q, e>> \in lost ELSE sent[q][i] = e}

Places(e) == UNION {{q} \X At(q, e) : q \in Name}

\* Every event that was taken is in one place, and what was not is nowhere: no event
\* is published twice, under two names, or published and dropped.
OneFate ==
    \A cn \in Conn :
        /\ \A n \in 1 .. taken[cn] :
               LET places == Places([cn |-> cn, seq |-> n])
               IN  \E p \in places : places = {p}
        /\ Places([cn |-> cn, seq |-> taken[cn] + 1]) = {}
=============================================================================

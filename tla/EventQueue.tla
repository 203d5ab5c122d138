----------------------------- MODULE EventQueue -----------------------------
(***************************************************************************)
(* The pull side of the daemon's events: EventQueue, the tail of           *)
(* EventRouter::route, and the handler of "next".  Every event the daemon  *)
(* emits is kept for clients that ask for the next one; a client that asks *)
(* when none is kept becomes a waiter.  What route pushes to providers and *)
(* subscribers leaves this state alone.                                    *)
(*                                                                         *)
(* Events are numbered in the order they are emitted.  A socket is Closing *)
(* from the moment its peer is gone until the daemon handles the           *)
(* disconnect: requests it sent are still read, but what is sent to it is  *)
(* lost.  The disconnect may be raised from within sendJson; the drain has *)
(* no further round then (WaitersAreServable), so here it is a step that    *)
(* follows.  Further requests of the read that it ends are left out.       *)
(***************************************************************************)
EXTENDS Sequences, Integers, FiniteSets

CONSTANTS
    Sockets,    \* client connections of the daemon
    MaxSize,    \* m_maxSize
    MaxEvents,  \* bound: events the daemon emits in a run
    MaxAsks     \* bound: requests one client leaves waiting

\* With no room at all enqueue would dequeue from an empty queue.
ASSUME MaxSizeAssumption == MaxSize \in Nat \ {0}
ASSUME BoundsAssumption  == MaxEvents \in Nat /\ MaxAsks \in Nat

VARIABLES
    socketState,  \* QLocalSocket::state() of every connection
    queue,        \* m_eventQueue
    waiters,      \* m_nextWaiters
    emitted,      \* number of the last event
    given,        \* given[e]: the socket event e was sent to
    lost          \* events dropped from the full queue, or sent to nobody

vars == <<socketState, queue, waiters, emitted, given, lost>>

Events == 1..MaxEvents

Elements(seq) == {seq[i] : i \in DOMAIN seq}

TypeOK ==
    /\ socketState \in [Sockets -> {"Unconnected", "Connected", "Closing"}]
    /\ queue \in Seq(Events)
    /\ Len(queue) <= MaxSize
    /\ waiters \in Seq(Sockets)
    /\ emitted \in 0..MaxEvents
    /\ DOMAIN given \subseteq Events
    /\ \A e \in DOMAIN given : given[e] \in Sockets
    /\ lost \subseteq Events

Init ==
    /\ socketState = [s \in Sockets |-> "Unconnected"]
    /\ queue = <<>>
    /\ waiters = <<>>
    /\ emitted = 0
    /\ given = [e \in {} |-> {}]
    /\ lost = {}

-----------------------------------------------------------------------------
(* Pieces of the handlers.                                                 *)

\* Mutant: the newest event is refused when the queue is full.
enqueueIfRoom(q, e) == IF Len(q) >= MaxSize THEN q ELSE Append(q, e)

\* Mutant: the limit is one short.
enqueueEarly(q, e) == Append(IF Len(q) + 1 >= MaxSize /\ q # <<>> THEN Tail(q) ELSE q, e)

\* The oldest event makes room.
enqueue(q, e) == Append(IF Len(q) >= MaxSize THEN Tail(q) ELSE q, e)

\* What is sent to sockets, a function from events to sockets, and what left
\* without a reader.
sendJson(sent, dropped) ==
    LET read == {e \in DOMAIN sent : socketState[sent[e]] = "Connected"}
    IN  /\ given' = [e \in DOMAIN given \cup read |->
                        IF e \in read THEN sent[e] ELSE given[e]]
        /\ lost' = lost \cup dropped \cup (DOMAIN sent \ read)

\* The waiter at position i gets the event at position i.
Round(q, n) ==
    [e \in {q[i] : i \in 1..n} |-> waiters[CHOOSE i \in 1..n : q[i] = e]]

\* Mutant: an event that was handed out stays in the queue.
drainKeeping(q, dropped) ==
    LET n == IF Len(q) < Len(waiters) THEN Len(q) ELSE Len(waiters)
    IN  /\ queue' = q
        /\ waiters' = SubSeq(waiters, n + 1, Len(waiters))
        /\ sendJson(Round(q, n), dropped)

\* The rounds of the loop are one step: nothing in it adds to either list.
drainToWaiters(q, dropped) ==
    LET n == IF Len(q) < Len(waiters) THEN Len(q) ELSE Len(waiters)
    IN  /\ queue' = SubSeq(q, n + 1, Len(q))
        /\ waiters' = SubSeq(waiters, n + 1, Len(waiters))
        /\ sendJson(Round(q, n), dropped)

-----------------------------------------------------------------------------
(* Handlers.                                                               *)

Connect(s) ==
    /\ socketState[s] = "Unconnected"
    /\ socketState' = [socketState EXCEPT ![s] = "Connected"]
    /\ UNCHANGED <<queue, waiters, emitted, given, lost>>

StartClosing(s) ==
    /\ socketState[s] = "Connected"
    /\ socketState' = [socketState EXCEPT ![s] = "Closing"]
    /\ UNCHANGED <<queue, waiters, emitted, given, lost>>

Asks(s) == Cardinality({i \in DOMAIN waiters : waiters[i] = s})

\* The rank of a position among those of a set.
Rank(i, places) == Cardinality({j \in places : j <= i})

\* SelectSeq(seq, LAMBDA t : t # s), in a form that proofs can use.
Without(seq, s) ==
    LET kept == {i \in DOMAIN seq : seq[i] # s}
    IN  [k \in 1..Cardinality(kept) |-> seq[CHOOSE i \in kept : Rank(i, kept) = k]]

removeWaiter(s) == waiters' = Without(waiters, s)

\* Events that closing the socket's requests emits are Emit steps after this.
onClientDisconnected(s) ==
    /\ socketState[s] # "Unconnected"
    /\ socketState' = [socketState EXCEPT ![s] = "Unconnected"]
    /\ removeWaiter(s)
    /\ UNCHANGED <<queue, emitted, given, lost>>

\* Mutant: the request waits although an event is kept.
handleNextLater(s) ==
    /\ socketState[s] # "Unconnected"
    /\ Asks(s) < MaxAsks
    /\ waiters' = Append(waiters, s)
    /\ UNCHANGED <<socketState, queue, emitted, given, lost>>

\* An event taken for a peer that is gone is lost.
handleNext(s) ==
    /\ socketState[s] # "Unconnected"
    /\ IF queue = <<>>
       THEN /\ Asks(s) < MaxAsks
            /\ waiters' = Append(waiters, s)
            /\ UNCHANGED <<queue, given, lost>>
       ELSE /\ queue' = Tail(queue)
            /\ sendJson([e \in {Head(queue)} |-> s], {})
            /\ UNCHANGED waiters
    /\ UNCHANGED <<socketState, emitted>>

\* emitSessionEvent: EventRouter::route after its pushes.
Emit ==
    LET e == emitted + 1 IN
    /\ emitted < MaxEvents
    /\ emitted' = e
    /\ drainToWaiters(enqueue(queue, e), Elements(queue) \ Elements(enqueue(queue, e)))
    /\ UNCHANGED socketState

Next ==
    \/ \E s \in Sockets :
          \/ Connect(s)
          \/ StartClosing(s)
          \/ onClientDisconnected(s)
          \/ handleNext(s)
    \/ Emit

Spec == Init /\ [][Next]_vars

-----------------------------------------------------------------------------
(* What the queue promises.                                                *)

\* No client waits while an event is kept, and those that wait still exist: a
\* waiter is served by the very next event, whoever came and went in between
\* (EventQueue.hpp:24-29, Agent.cpp:163, 178-185).
WaitersAreServable ==
    /\ queue = <<>> \/ waiters = <<>>
    /\ \A s \in Elements(waiters) : socketState[s] # "Unconnected"

\* What is kept is the unbroken run of the latest events, so a reader that
\* falls behind misses the oldest events only (EventQueue.cpp:19-24).
QueueIsLatest ==
    \A i \in DOMAIN queue : queue[i] = emitted - Len(queue) + i

\* Every event is kept, or was handed to one client, or is lost: never two of
\* these, and never none (EventQueue.hpp:24-29, Agent.cpp:178-185).
EachEventOnce ==
    /\ Elements(queue) \cup DOMAIN given \cup lost = 1..emitted
    /\ Elements(queue) \cap (DOMAIN given \cup lost) = {}
    /\ DOMAIN given \cap lost = {}

\* An event is lost only behind MaxSize newer ones, or to a client whose
\* disconnect is not handled yet: one that waits, or asks while e is kept.
LossNeedsReason ==
    [][\A e \in lost' \ lost :
          \/ emitted' - e >= MaxSize
          \/ \E s \in Sockets :
                socketState[s] = "Closing" /\ (s \in Elements(waiters) \/ queue # <<>>)]_vars

\* The stream that the queue, its waiters and the router implement together.
Stream == INSTANCE EventStream WITH
    Readers <- Sockets, Capacity <- MaxSize,
    first <- emitted - Len(queue) + 1, last <- emitted

\* Clients that poll get the events of one stream, each once, the oldest first,
\* and for good; a full queue gives up its oldest and nothing else
\* (EventQueue.cpp:15-24, EventQueue.hpp:24-29).
ImplementsStream == Stream!Spec
=============================================================================

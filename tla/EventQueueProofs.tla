-------------------------- MODULE EventQueueProofs --------------------------
(***************************************************************************)
(* The promises of EventQueue for any clients, any size of the queue and   *)
(* any number of events and requests.  What the queue keeps is the run of  *)
(* the latest events, hence no number twice, and that is what makes a      *)
(* round of the drain hand out each event once.                            *)
(***************************************************************************)
EXTENDS EventQueue, FiniteSetTheorems, SequenceTheorems, TLAPS

IInv ==
    /\ TypeOK
    /\ WaitersAreServable
    /\ QueueIsLatest
    /\ EachEventOnce

-----------------------------------------------------------------------------
(* Who is left when a waiter goes.                                         *)

\* Among n numbers, one has each rank from 1 to n.
LEMMA RanksAreTaken ==
    ASSUME NEW K \in SUBSET Nat, IsFiniteSet(K), NEW k \in 1..Cardinality(K)
    PROVE  \E i \in K : Rank(i, K) = k
<1> DEFINE n == Cardinality(K)
           Upto(i) == {j \in K : j <= i}
           f == [i \in K |-> Rank(i, K)]
<1>1. n \in Nat
  BY FS_CardinalityType
<1>2. ASSUME NEW i \in K
      PROVE  /\ IsFiniteSet(Upto(i))
             /\ Rank(i, K) = Cardinality(Upto(i))
             /\ Rank(i, K) \in 1..n
  <2>1. IsFiniteSet(Upto(i)) /\ Cardinality(Upto(i)) <= n
    BY FS_Subset
  <2>2. IsFiniteSet({i}) /\ Cardinality({i}) = 1
    BY FS_Singleton
  <2>3. {i} \in SUBSET Upto(i)
    OBVIOUS
  <2>4. Cardinality({i}) <= Cardinality(Upto(i))
    BY <2>1, <2>3, FS_Subset
  <2>5. Cardinality(Upto(i)) \in Nat
    BY <2>1, FS_CardinalityType
  <2>6. Rank(i, K) = Cardinality(Upto(i))
    BY DEF Rank
  <2> HIDE DEF Upto, n
  <2>7. Cardinality(Upto(i)) \in 1..n
    BY <1>1, <2>1, <2>2, <2>4, <2>5
  <2> QED
    BY <2>1, <2>6, <2>7
<1>3. ASSUME NEW i \in K, NEW j \in K, i < j
      PROVE  Rank(i, K) # Rank(j, K)
  <2>1. j <= j /\ ~ (j <= i) /\ \A m \in K : m <= i => m <= j
    BY <1>3
  <2>2. Upto(i) \in SUBSET Upto(j) /\ j \in Upto(j) /\ j \notin Upto(i)
    BY <2>1
  <2>3. Upto(i) # Upto(j)
    BY <2>2
  <2>4. IsFiniteSet(Upto(j))
    BY <1>2
  <2>5. Rank(i, K) = Cardinality(Upto(i)) /\ Rank(j, K) = Cardinality(Upto(j))
    BY <1>2
  <2> HIDE DEF Upto
  <2>6. Cardinality(Upto(i)) # Cardinality(Upto(j))
    BY <2>2, <2>3, <2>4, FS_Subset
  <2> QED
    BY <2>5, <2>6
<1>4. f \in Injection(K, 1..n)
  <2>1. f \in [K -> 1..n]
    BY <1>2
  <2>2. \A i, j \in K : f[i] = f[j] => i = j
    BY <1>3
  <2> QED
    BY <2>1, <2>2 DEF Injection, IsInjective
<1>5. IsFiniteSet(1..n) /\ Cardinality(1..n) = n
  BY <1>1, FS_Interval
<1>6. f \in Surjection(K, 1..n)
  BY <1>4, <1>5, FS_Injection
<1> QED
  BY <1>6 DEF Surjection

\* Without keeps a sequence one, of nothing but the other elements.
LEMMA WithoutElements ==
    ASSUME NEW S, NEW seq \in Seq(S), NEW s
    PROVE  /\ Without(seq, s) \in Seq(S)
           /\ Elements(Without(seq, s)) \subseteq Elements(seq) \ {s}
           /\ seq = <<>> => Without(seq, s) = <<>>
<1> DEFINE kept == {i \in DOMAIN seq : seq[i] # s}
           place(k) == CHOOSE i \in kept : Rank(i, kept) = k
<1>1. DOMAIN seq = 1..Len(seq) /\ Len(seq) \in Nat
  OBVIOUS
<1>2. IsFiniteSet(1..Len(seq))
  BY <1>1, FS_Interval
<1>3. kept \in SUBSET (1..Len(seq)) /\ kept \in SUBSET Nat
  BY <1>1
<1>4. IsFiniteSet(kept)
  BY <1>2, <1>3, FS_Subset
<1>5. Cardinality(kept) \in Nat
  BY <1>4, FS_CardinalityType
<1>6. ASSUME NEW k \in 1..Cardinality(kept)
      PROVE  place(k) \in kept
  <2>1. \E i \in kept : Rank(i, kept) = k
    BY <1>3, <1>4, RanksAreTaken
  <2> QED
    BY <2>1
<1>7. Without(seq, s) = [k \in 1..Cardinality(kept) |-> seq[place(k)]]
  BY DEF Without
<1>8. \A i \in kept : seq[i] \in S /\ seq[i] \in Elements(seq) \ {s}
  BY DEF Elements
<1> DEFINE m == Cardinality(kept)
           rest == Without(seq, s)
<1> HIDE DEF kept, place
<1>9. /\ rest \in [1..m -> S]
      /\ \A k \in 1..m : rest[k] \in Elements(seq) \ {s}
  BY <1>6, <1>7, <1>8
<1> HIDE DEF m, rest
<1>10. rest \in Seq(S) /\ Len(rest) = m /\ DOMAIN rest = 1..m
  BY <1>5, <1>9 DEF m
<1>11. Elements(rest) \subseteq Elements(seq) \ {s}
  BY <1>9, <1>10 DEF Elements
<1>12. ASSUME seq = <<>> PROVE rest = <<>>
  <2>1. kept = {}
    BY <1>12 DEF kept
  <2>2. m = 0
    BY <2>1, FS_EmptySet DEF m
  <2> QED
    BY <1>10, <2>2
<1> QED
  BY <1>10, <1>11, <1>12 DEF rest
-----------------------------------------------------------------------------
(* What a handler does to the events.                                      *)

\* The events that q hands to n waiters.
Front(q, n) == {q[i] : i \in 1..n}

\* The consecutive numbers q from b + 1 on.
Run(q, b) == q \in Seq(Events) /\ \A i \in DOMAIN q : q[i] = b + i

\* What is left of a list when its first n elements are gone.
LEMMA Rest ==
    ASSUME NEW S, NEW q \in Seq(S), NEW n \in 0..Len(q),
           NEW t, t = SubSeq(q, n + 1, Len(q))
    PROVE  /\ t \in Seq(S)
           /\ Len(t) = Len(q) - n
           /\ DOMAIN t = 1..(Len(q) - n)
           /\ \A i \in 1..(Len(q) - n) : n + i \in 1..Len(q) /\ t[i] = q[n + i]
<1>1. Len(q) \in Nat /\ \A i \in 1..Len(q) : q[i] \in S
  OBVIOUS
<1>2. n \in Nat /\ n <= Len(q)
  BY <1>1
<1>3. n + 1 \in Int /\ Len(q) \in Int /\ \A i \in (n + 1)..Len(q) : q[i] \in S
  BY <1>1, <1>2
<1>4. /\ t \in Seq(S)
      /\ Len(t) = IF n + 1 <= Len(q) THEN Len(q) - (n + 1) + 1 ELSE 0
      /\ \A i \in 1..(Len(q) - (n + 1) + 1) : t[i] = q[(n + 1) + i - 1]
  BY <1>3, SubSeqProperties
<1>5. Len(q) - (n + 1) + 1 = Len(q) - n
  BY <1>1, <1>2
<1>6. Len(t) = Len(q) - n
  BY <1>1, <1>2, <1>4
<1>7. ASSUME NEW i \in 1..(Len(q) - n)
      PROVE  n + i \in 1..Len(q) /\ t[i] = q[n + i]
  <2>1. n + i \in 1..Len(q) /\ (n + 1) + i - 1 = n + i
    BY <1>1, <1>2
  <2>2. t[i] = q[(n + 1) + i - 1]
    BY <1>4, <1>5
  <2> QED
    BY <2>1, <2>2
<1> QED
  BY <1>4, <1>6, <1>7

\* Taking n events from a run leaves a run of other events.
LEMMA SplitRun ==
    ASSUME NEW q, NEW b \in Int, Run(q, b), NEW n \in 0..Len(q),
           NEW t, t = SubSeq(q, n + 1, Len(q))
    PROVE  /\ Run(t, b + n)
           /\ Len(t) = Len(q) - n
           /\ Elements(q) = Front(q, n) \cup Elements(t)
           /\ Front(q, n) \cap Elements(t) = {}
<1>1. q \in Seq(Events) /\ Len(q) \in Nat /\ DOMAIN q = 1..Len(q)
  BY DEF Run
<1>2. \A i \in 1..Len(q) : q[i] = b + i
  BY <1>1 DEF Run
<1>3. t \in Seq(Events) /\ Len(t) = Len(q) - n /\ DOMAIN t = 1..(Len(q) - n)
  BY <1>1, Rest
<1>4. \A i \in 1..(Len(q) - n) : n + i \in 1..Len(q) /\ t[i] = q[n + i]
  BY <1>1, Rest
<1>5. \A i \in 1..(Len(q) - n) : t[i] = b + n + i
  BY <1>1, <1>2, <1>4
<1>6. Run(t, b + n)
  BY <1>3, <1>5 DEF Run
<1>7. Elements(q) \subseteq Front(q, n) \cup Elements(t)
  <2> SUFFICES ASSUME NEW i \in 1..Len(q), i \notin 1..n
               PROVE  q[i] \in Elements(t)
    BY <1>1 DEF Elements, Front
  <2>1. i - n \in 1..(Len(q) - n) /\ n + (i - n) = i
    BY <1>1
  <2>2. t[i - n] = q[i]
    BY <1>4, <2>1
  <2> QED
    BY <1>3, <2>1, <2>2 DEF Elements
<1>8. Front(q, n) \subseteq Elements(q)
  BY <1>1 DEF Elements, Front
<1>9. Elements(t) \subseteq Elements(q)
  <2> SUFFICES ASSUME NEW i \in 1..(Len(q) - n)
               PROVE  t[i] \in Elements(q)
    BY <1>3 DEF Elements
  <2>1. n + i \in 1..Len(q)
    BY <1>1
  <2> QED
    BY <1>1, <1>4, <2>1 DEF Elements
<1>10. Front(q, n) \cap Elements(t) = {}
  <2> SUFFICES ASSUME NEW i \in 1..n, NEW j \in 1..(Len(q) - n)
               PROVE  q[i] # t[j]
    BY <1>3 DEF Elements, Front
  <2> QED
    BY <1>1, <1>2, <1>5
<1> QED
  BY <1>3, <1>6, <1>7, <1>8, <1>9, <1>10

\* What is sent, or dropped, is settled once.
LEMMA SentOrLost ==
    ASSUME TypeOK, DOMAIN given \cap lost = {},
           NEW sent, DOMAIN sent \subseteq Events,
           \A e \in DOMAIN sent : sent[e] \in Sockets,
           NEW dropped \in SUBSET Events, dropped \cap DOMAIN sent = {},
           (dropped \cup DOMAIN sent) \cap (DOMAIN given \cup lost) = {},
           sendJson(sent, dropped)
    PROVE  /\ DOMAIN given' \subseteq Events /\ lost' \subseteq Events
           /\ \A e \in DOMAIN given' : given'[e] \in Sockets
           /\ DOMAIN given' \cup lost' = DOMAIN given \cup lost \cup dropped \cup DOMAIN sent
           /\ DOMAIN given' \cap lost' = {}
           /\ \A e \in lost' \ lost :
                 e \in dropped \/ (e \in DOMAIN sent /\ socketState[sent[e]] # "Connected")
<1> DEFINE read == {e \in DOMAIN sent : socketState[sent[e]] = "Connected"}
<1>1. given' = [e \in DOMAIN given \cup read |-> IF e \in read THEN sent[e] ELSE given[e]]
  BY DEF sendJson
<1>2. lost' = lost \cup dropped \cup (DOMAIN sent \ read)
  BY DEF sendJson
<1>3. /\ read \subseteq DOMAIN sent
      /\ \A e \in DOMAIN sent \ read : socketState[sent[e]] # "Connected"
  OBVIOUS
<1> HIDE DEF read
<1>4. DOMAIN given' = DOMAIN given \cup read
  BY <1>1
<1>5. \A e \in DOMAIN given' : given'[e] \in Sockets
  BY <1>1, <1>3 DEF TypeOK
<1>6. \A e \in lost' \ lost :
         e \in dropped \/ (e \in DOMAIN sent /\ socketState[sent[e]] # "Connected")
  <2> SUFFICES ASSUME NEW e \in lost' \ lost, e \notin dropped
               PROVE  e \in DOMAIN sent /\ socketState[sent[e]] # "Connected"
    OBVIOUS
  <2>1. e \in DOMAIN sent \ read
    BY <1>2
  <2> QED
    BY <1>3, <2>1
<1>7. read \subseteq DOMAIN sent
  BY <1>3
<1>8. DOMAIN given \subseteq Events /\ lost \subseteq Events
  BY DEF TypeOK
<1>9. /\ DOMAIN given' \subseteq Events /\ lost' \subseteq Events
      /\ DOMAIN given' \cup lost' = DOMAIN given \cup lost \cup dropped \cup DOMAIN sent
      /\ DOMAIN given' \cap lost' = {}
  BY <1>2, <1>4, <1>7, <1>8
<1> QED
  BY <1>5, <1>6, <1>9

\* As many waiters as there are events are served, and only one of the two
\* lists is left.
LEMMA Drained ==
    ASSUME TypeOK, DOMAIN given \cap lost = {},
           NEW q, NEW b \in Int, Run(q, b),
           NEW dropped \in SUBSET Events, dropped \cap Elements(q) = {},
           (dropped \cup Elements(q)) \cap (DOMAIN given \cup lost) = {},
           drainToWaiters(q, dropped)
    PROVE  /\ \E n \in 0..Len(q) : Run(queue', b + n) /\ Len(queue') = Len(q) - n
           /\ waiters' \in Seq(Sockets) /\ Elements(waiters') \subseteq Elements(waiters)
           /\ queue' = <<>> \/ waiters' = <<>>
           /\ DOMAIN given' \subseteq Events /\ lost' \subseteq Events
           /\ \A e \in DOMAIN given' : given'[e] \in Sockets
           /\ Elements(queue') \cup DOMAIN given' \cup lost'
                 = DOMAIN given \cup lost \cup dropped \cup Elements(q)
           /\ Elements(queue') \cap (DOMAIN given' \cup lost') = {}
           /\ DOMAIN given' \cap lost' = {}
           /\ \A e \in lost' \ lost :
                 e \in dropped \/ \E s \in Elements(waiters) : socketState[s] # "Connected"
<1>1. q \in Seq(Events) /\ Len(q) \in Nat
  BY DEF Run
<1>2. waiters \in Seq(Sockets) /\ Len(waiters) \in Nat
  BY DEF TypeOK
<1>3. PICK n \in Nat :
         /\ n <= Len(q) /\ n <= Len(waiters)
         /\ n = Len(q) \/ n = Len(waiters)
         /\ queue' = SubSeq(q, n + 1, Len(q))
         /\ waiters' = SubSeq(waiters, n + 1, Len(waiters))
         /\ sendJson(Round(q, n), dropped)
  <2> DEFINE lesser == IF Len(q) < Len(waiters) THEN Len(q) ELSE Len(waiters)
  <2>1. /\ lesser \in Nat /\ lesser <= Len(q) /\ lesser <= Len(waiters)
        /\ lesser = Len(q) \/ lesser = Len(waiters)
    BY <1>1, <1>2
  <2>2. /\ queue' = SubSeq(q, lesser + 1, Len(q))
        /\ waiters' = SubSeq(waiters, lesser + 1, Len(waiters))
        /\ sendJson(Round(q, lesser), dropped)
    BY DEF drainToWaiters
  <2> QED
    BY <2>1, <2>2, Zenon
<1>4. n <= Len(q) /\ n <= Len(waiters) /\ (n = Len(q) \/ n = Len(waiters))
  BY <1>3
<1>5. n \in 0..Len(q) /\ n \in 0..Len(waiters)
  BY <1>1, <1>2, <1>4
<1>6. queue' = SubSeq(q, n + 1, Len(q)) /\ waiters' = SubSeq(waiters, n + 1, Len(waiters))
  BY <1>3
<1> DEFINE sent == Round(q, n)
<1>7. DOMAIN sent = Front(q, n)
  BY DEF Round, Front
<1>8. \A e \in DOMAIN sent : sent[e] \in Elements(waiters) /\ sent[e] \in Sockets
  <2> SUFFICES ASSUME NEW e \in Front(q, n)
               PROVE  sent[e] \in Elements(waiters) /\ sent[e] \in Sockets
    BY <1>7
  <2> DEFINE i == CHOOSE i \in 1..n : q[i] = e
  <2>1. i \in 1..n
    BY DEF Front
  <2>2. sent[e] = waiters[i]
    BY DEF Round, Front
  <2> HIDE DEF i, sent
  <2>3. i \in 1..Len(waiters)
    BY <1>2, <1>5, <2>1
  <2> QED
    BY <1>2, <2>2, <2>3 DEF Elements
<1> HIDE DEF sent
<1>9. /\ Run(queue', b + n)
      /\ Len(queue') = Len(q) - n
      /\ Elements(q) = Front(q, n) \cup Elements(queue')
      /\ Front(q, n) \cap Elements(queue') = {}
  <2> DEFINE t == SubSeq(q, n + 1, Len(q))
  <2>1. n \in 0..Len(q)
    BY <1>5
  <2>2. /\ Run(t, b + n)
        /\ Len(t) = Len(q) - n
        /\ Elements(q) = Front(q, n) \cup Elements(t)
        /\ Front(q, n) \cap Elements(t) = {}
    BY <2>1, SplitRun, Zenon
  <2>3. queue' = t
    BY <1>6
  <2> QED
    BY <2>2, <2>3, Zenon
<1>10. /\ waiters' \in Seq(Sockets)
      /\ Len(waiters') = Len(waiters) - n
      /\ DOMAIN waiters' = 1..(Len(waiters) - n)
      /\ \A i \in 1..(Len(waiters) - n) :
            n + i \in 1..Len(waiters) /\ waiters'[i] = waiters[n + i]
  BY <1>2, <1>5, <1>6, Rest
<1>11. Elements(waiters') \subseteq Elements(waiters)
  <2>1. DOMAIN waiters = 1..Len(waiters)
    BY <1>2
  <2> QED
    BY <1>10, <2>1 DEF Elements
<1>12. queue' = <<>> \/ waiters' = <<>>
  <2>1. queue' \in Seq(Events)
    BY <1>9 DEF Run
  <2>2. Len(queue') = 0 \/ Len(waiters') = 0
    BY <1>1, <1>2, <1>4, <1>9, <1>10
  <2> QED
    BY <1>10, <2>1, <2>2
<1>13. Elements(q) \subseteq Events
  BY <1>1 DEF Elements
<1>14. /\ DOMAIN given' \subseteq Events /\ lost' \subseteq Events
       /\ \A e \in DOMAIN given' : given'[e] \in Sockets
       /\ DOMAIN given' \cup lost' = DOMAIN given \cup lost \cup dropped \cup DOMAIN sent
       /\ DOMAIN given' \cap lost' = {}
       /\ \A e \in lost' \ lost :
             e \in dropped \/ (e \in DOMAIN sent /\ socketState[sent[e]] # "Connected")
  <2>1. DOMAIN sent \subseteq Elements(q)
    BY <1>7, <1>9
  <2>2. /\ DOMAIN sent \subseteq Events
        /\ dropped \cap DOMAIN sent = {}
        /\ (dropped \cup DOMAIN sent) \cap (DOMAIN given \cup lost) = {}
    BY <1>13, <2>1
  <2> QED
    BY <1>3, <1>8, <2>2, SentOrLost DEF sent
<1>15. /\ Elements(queue') \cup DOMAIN given' \cup lost'
             = DOMAIN given \cup lost \cup dropped \cup Elements(q)
       /\ Elements(queue') \cap (DOMAIN given' \cup lost') = {}
  BY <1>7, <1>9, <1>14
<1>16. \A e \in lost' \ lost :
          e \in dropped \/ \E s \in Elements(waiters) : socketState[s] # "Connected"
  BY <1>8, <1>14
<1> QED
  BY <1>9, <1>5, <1>10, <1>11, <1>12, <1>14, <1>15, <1>16

\* A run grows by its next number.
LEMMA AppendRun ==
    ASSUME NEW q, NEW b \in Int, Run(q, b), NEW e \in Events, e = b + Len(q) + 1
    PROVE  /\ Run(Append(q, e), b)
           /\ Len(Append(q, e)) = Len(q) + 1
           /\ Elements(Append(q, e)) = Elements(q) \cup {e}
<1>1. q \in Seq(Events) /\ Len(q) \in Nat
  BY DEF Run
<1>2. /\ Append(q, e) \in Seq(Events)
      /\ Len(Append(q, e)) = Len(q) + 1
      /\ \A i \in 1..Len(q) : Append(q, e)[i] = q[i]
      /\ Append(q, e)[Len(q) + 1] = e
  BY <1>1
<1>3. /\ DOMAIN q = 1..Len(q)
      /\ DOMAIN Append(q, e) = 1..(Len(q) + 1)
      /\ 1..(Len(q) + 1) = (1..Len(q)) \cup {Len(q) + 1}
  BY <1>1
<1>4. \A i \in 1..Len(q) : q[i] = b + i
  BY <1>3 DEF Run
<1>5. Run(Append(q, e), b)
  <2>1. \A i \in 1..Len(q) : Append(q, e)[i] = b + i
    BY <1>2, <1>4
  <2>2. Append(q, e)[Len(q) + 1] = b + (Len(q) + 1)
    BY <1>1, <1>2
  <2>3. \A i \in DOMAIN Append(q, e) : Append(q, e)[i] = b + i
    BY <1>3, <2>1, <2>2
  <2> QED
    BY <1>2, <2>3 DEF Run
<1>6. Elements(Append(q, e)) = Elements(q) \cup {e}
  BY <1>2, <1>3 DEF Elements
<1> QED
  BY <1>2, <1>5, <1>6

\* The queue with one more event is again the run of the latest ones, and an
\* event that it dropped is MaxSize behind.
LEMMA Enqueued ==
    ASSUME TypeOK, QueueIsLatest, emitted < MaxEvents,
           NEW q, q = enqueue(queue, emitted + 1),
           NEW dropped, dropped = Elements(queue) \ Elements(q)
    PROVE  /\ Run(q, emitted + 1 - Len(q)) /\ Len(q) <= MaxSize
           /\ dropped \cup Elements(q) = Elements(queue) \cup {emitted + 1}
           /\ dropped \in SUBSET Events /\ dropped \cap Elements(q) = {}
           /\ \A e \in dropped : emitted + 1 - e >= MaxSize
<1>1. MaxSize \in Nat \ {0} /\ MaxEvents \in Nat /\ emitted \in Nat
  BY MaxSizeAssumption, BoundsAssumption DEF TypeOK
<1>2. emitted + 1 \in Events
  BY <1>1 DEF Events
<1>3. queue \in Seq(Events) /\ Len(queue) \in Nat /\ Len(queue) <= MaxSize
  BY DEF TypeOK
<1>4. emitted - Len(queue) \in Int /\ Run(queue, emitted - Len(queue))
  BY <1>1, <1>3 DEF Run, QueueIsLatest
<1> DEFINE full == Len(queue) >= MaxSize
           kept == IF full THEN Tail(queue) ELSE queue
<1>5. /\ Run(kept, emitted - Len(kept))
      /\ Len(kept) \in Nat /\ Len(kept) + 1 <= MaxSize
      /\ Elements(kept) \subseteq Elements(queue)
      /\ \A e \in Elements(queue) \ Elements(kept) : emitted + 1 - e >= MaxSize
  <2>1. CASE full
    <3>1. Len(queue) = MaxSize /\ queue # <<>> /\ 1 \in 0..Len(queue)
      BY <1>1, <1>3, <2>1
    <3>2. kept = SubSeq(queue, 1 + 1, Len(queue))
      BY <1>3, <2>1, <3>1, TailIsSubSeq
    <3>3. /\ Run(kept, emitted - Len(queue) + 1)
          /\ Len(kept) = Len(queue) - 1
          /\ Elements(queue) = Front(queue, 1) \cup Elements(kept)
      BY <1>4, <3>1, <3>2, SplitRun
    <3>4. Front(queue, 1) = {queue[1]}
      BY DEF Front
    <3>5. queue[1] = emitted - Len(queue) + 1
      <4>1. 1 \in DOMAIN queue
        BY <1>1, <1>3, <3>1
      <4> QED
        BY <1>4, <4>1 DEF Run
    <3>6. emitted - Len(queue) + 1 = emitted - (Len(queue) - 1)
      BY <1>1, <1>3
    <3>7. emitted + 1 - queue[1] >= MaxSize
      BY <1>1, <1>3, <3>1, <3>5
    <3>8. Len(queue) - 1 \in Nat /\ Len(queue) - 1 + 1 <= MaxSize
      BY <1>1, <1>3, <3>1
    <3> HIDE DEF kept
    <3> QED
      BY <3>3, <3>4, <3>6, <3>7, <3>8
  <2>2. CASE ~ full
    <3>1. kept = queue
      BY <2>2
    <3>2. Len(queue) + 1 <= MaxSize
      BY <1>1, <1>3, <2>2
    <3> HIDE DEF kept
    <3> QED
      BY <1>3, <1>4, <3>1, <3>2
  <2> QED
    BY <2>1, <2>2
<1>6. q = Append(kept, emitted + 1)
  BY DEF enqueue
<1> HIDE DEF full, kept
<1>7. /\ emitted - Len(kept) \in Int
      /\ emitted + 1 = emitted - Len(kept) + Len(kept) + 1
      /\ emitted + 1 - (Len(kept) + 1) = emitted - Len(kept)
  BY <1>1, <1>5
<1>8. /\ Run(q, emitted - Len(kept))
      /\ Len(q) = Len(kept) + 1
      /\ Elements(q) = Elements(kept) \cup {emitted + 1}
  BY <1>2, <1>5, <1>6, <1>7, AppendRun
<1>9. Elements(queue) \subseteq Events
  BY <1>3 DEF Elements
<1>10. Run(q, emitted + 1 - Len(q)) /\ Len(q) <= MaxSize
  BY <1>5, <1>7, <1>8
<1>11. \A e \in dropped : emitted + 1 - e >= MaxSize
  BY <1>5, <1>8
<1> QED
  BY <1>5, <1>8, <1>9, <1>10, <1>11

-----------------------------------------------------------------------------
(* The invariant.                                                          *)

LEMMA InvariantInit == Init => IInv
<1> SUFFICES ASSUME Init PROVE IInv
  OBVIOUS
<1>1. DOMAIN given = {}
  BY DEF Init
<1>2. Elements(queue) = {} /\ Elements(waiters) = {}
  BY DEF Init, Elements
<1>3. MaxSize \in Nat \ {0} /\ MaxEvents \in Nat
  BY MaxSizeAssumption, BoundsAssumption
<1>4. TypeOK
  <2>1. queue \in Seq(Events) /\ waiters \in Seq(Sockets) /\ Len(queue) = 0
    BY DEF Init
  <2> QED
    BY <1>1, <1>3, <2>1 DEF Init, TypeOK
<1>5. WaitersAreServable
  BY <1>2 DEF Init, WaitersAreServable
<1>6. QueueIsLatest
  BY DEF Init, QueueIsLatest
<1>7. EachEventOnce
  BY <1>1, <1>2 DEF Init, EachEventOnce
<1> QED
  BY <1>4, <1>5, <1>6, <1>7 DEF IInv

LEMMA EmitKeepsInvariant ==
    ASSUME IInv, Emit
    PROVE  /\ IInv'
           /\ \A e \in lost' \ lost :
                 \/ emitted' - e >= MaxSize
                 \/ \E s \in Elements(waiters) : socketState[s] # "Connected"
<1> DEFINE q == enqueue(queue, emitted + 1)
           dropped == Elements(queue) \ Elements(q)
<1>1. TypeOK /\ WaitersAreServable /\ QueueIsLatest /\ EachEventOnce
  BY DEF IInv
<1>2. /\ emitted < MaxEvents /\ emitted' = emitted + 1
      /\ UNCHANGED socketState
      /\ drainToWaiters(q, dropped)
  BY DEF Emit
<1>3. emitted \in Nat /\ MaxEvents \in Nat
  BY <1>1, BoundsAssumption DEF TypeOK
<1>4. /\ Run(q, emitted + 1 - Len(q)) /\ Len(q) <= MaxSize
      /\ dropped \cup Elements(q) = Elements(queue) \cup {emitted + 1}
      /\ dropped \in SUBSET Events /\ dropped \cap Elements(q) = {}
      /\ \A e \in dropped : emitted + 1 - e >= MaxSize
  <2>1. q = enqueue(queue, emitted + 1) /\ dropped = Elements(queue) \ Elements(q)
    OBVIOUS
  <2>2. emitted < MaxEvents
    BY <1>2
  <2> HIDE DEF q, dropped
  <2> QED
    BY <1>1, <2>1, <2>2, Enqueued
<1> HIDE DEF q, dropped
<1>5. Len(q) \in Nat /\ emitted + 1 - Len(q) \in Int
  BY <1>3, <1>4 DEF Run
<1>6. /\ Elements(queue) \cup DOMAIN given \cup lost = 1..emitted
      /\ Elements(queue) \cap (DOMAIN given \cup lost) = {}
      /\ DOMAIN given \cap lost = {}
  BY <1>1 DEF EachEventOnce
<1>7. (dropped \cup Elements(q)) \cap (DOMAIN given \cup lost) = {}
  <2>1. emitted + 1 \notin 1..emitted
    BY <1>3
  <2> QED
    BY <1>4, <1>6, <2>1
<1>8. /\ \E n \in 0..Len(q) :
            Run(queue', emitted + 1 - Len(q) + n) /\ Len(queue') = Len(q) - n
      /\ waiters' \in Seq(Sockets) /\ Elements(waiters') \subseteq Elements(waiters)
      /\ queue' = <<>> \/ waiters' = <<>>
      /\ DOMAIN given' \subseteq Events /\ lost' \subseteq Events
      /\ \A e \in DOMAIN given' : given'[e] \in Sockets
      /\ Elements(queue') \cup DOMAIN given' \cup lost'
            = DOMAIN given \cup lost \cup dropped \cup Elements(q)
      /\ Elements(queue') \cap (DOMAIN given' \cup lost') = {}
      /\ DOMAIN given' \cap lost' = {}
      /\ \A e \in lost' \ lost :
            e \in dropped \/ \E s \in Elements(waiters) : socketState[s] # "Connected"
  BY <1>1, <1>2, <1>4, <1>5, <1>6, <1>7, Drained
<1>9. Run(queue', emitted' - Len(queue')) /\ Len(queue') <= MaxSize
  <2>1. PICK n \in 0..Len(q) :
           Run(queue', emitted + 1 - Len(q) + n) /\ Len(queue') = Len(q) - n
    BY <1>8
  <2>2. emitted + 1 - Len(q) + n = emitted' - Len(queue')
    BY <1>2, <1>3, <1>5, <2>1
  <2>3. MaxSize \in Nat
    BY MaxSizeAssumption
  <2>4. Len(q) - n <= MaxSize
    BY <1>4, <1>5, <2>3
  <2> QED
    BY <2>1, <2>2, <2>4
<1>10. emitted' \in 0..MaxEvents
  BY <1>2, <1>3
<1>11. TypeOK'
  BY <1>1, <1>2, <1>8, <1>9, <1>10 DEF TypeOK, Run
<1>12. WaitersAreServable'
  BY <1>1, <1>2, <1>8 DEF WaitersAreServable
<1>13. QueueIsLatest'
  BY <1>9 DEF Run, QueueIsLatest
<1>14. EachEventOnce'
  <2>1. 1..(emitted + 1) = (1..emitted) \cup {emitted + 1}
    BY <1>3
  <2> QED
    BY <1>2, <1>4, <1>6, <1>8, <2>1 DEF EachEventOnce
<1>15. IInv'
  BY <1>11, <1>12, <1>13, <1>14 DEF IInv
<1>16. \A e \in dropped : emitted' - e >= MaxSize
  <2>1. emitted' = emitted + 1
    BY <1>2
  <2> SUFFICES ASSUME NEW e \in dropped PROVE emitted' - e >= MaxSize
    OBVIOUS
  <2>2. emitted + 1 - e >= MaxSize /\ e \in Int
    BY <1>4 DEF Events
  <2> QED
    BY <1>3, <2>1, <2>2
<1> QED
  BY <1>8, <1>15, <1>16

LEMMA HandleNextKeepsInvariant ==
    ASSUME IInv, NEW s \in Sockets, handleNext(s)
    PROVE  /\ IInv'
           /\ \A e \in lost' \ lost : queue # <<>> /\ socketState[s] = "Closing"
<1>1. TypeOK /\ WaitersAreServable /\ QueueIsLatest /\ EachEventOnce
  BY DEF IInv
<1>2. socketState[s] # "Unconnected" /\ UNCHANGED <<socketState, emitted>>
  BY DEF handleNext
<1>3. emitted \in Nat /\ MaxEvents \in Nat
  BY <1>1, BoundsAssumption DEF TypeOK
<1>4. CASE queue = <<>>
  <2>1. waiters' = Append(waiters, s) /\ UNCHANGED <<queue, given, lost>>
    BY <1>4 DEF handleNext
  <2>2. /\ waiters \in Seq(Sockets)
        /\ Append(waiters, s) \in Seq(Sockets)
        /\ DOMAIN Append(waiters, s) = (DOMAIN waiters) \cup {Len(waiters) + 1}
        /\ \A i \in DOMAIN waiters : Append(waiters, s)[i] = waiters[i]
        /\ Append(waiters, s)[Len(waiters) + 1] = s
    BY <1>1 DEF TypeOK
  <2>3. Elements(waiters') \subseteq Elements(waiters) \cup {s}
    BY <2>1, <2>2 DEF Elements
  <2>4. TypeOK'
    BY <1>1, <1>2, <2>1, <2>2 DEF TypeOK
  <2>5. WaitersAreServable'
    BY <1>1, <1>2, <1>4, <2>1, <2>3 DEF WaitersAreServable
  <2>6. QueueIsLatest' /\ EachEventOnce'
    BY <1>1, <1>2, <2>1 DEF QueueIsLatest, EachEventOnce
  <2> QED
    BY <2>1, <2>4, <2>5, <2>6 DEF IInv
<1>5. CASE queue # <<>>
  <2> DEFINE sent == [e \in {Head(queue)} |-> s]
  <2>1. queue' = Tail(queue) /\ sendJson(sent, {}) /\ UNCHANGED waiters
    BY <1>5 DEF handleNext
  <2>2. queue \in Seq(Events) /\ Len(queue) \in Nat /\ Len(queue) <= MaxSize
    BY <1>1 DEF TypeOK
  <2>3. MaxSize \in Nat
    BY MaxSizeAssumption
  <2>4. 1 \in 0..Len(queue) /\ emitted - Len(queue) \in Int
    BY <1>3, <1>5, <2>2
  <2>5. Tail(queue) = SubSeq(queue, 1 + 1, Len(queue)) /\ Head(queue) = queue[1]
    BY <1>5, <2>2, TailIsSubSeq
  <2>6. Run(queue, emitted - Len(queue))
    BY <1>1, <2>2 DEF Run, QueueIsLatest
  <2>7. /\ Run(Tail(queue), emitted - Len(queue) + 1)
        /\ Len(Tail(queue)) = Len(queue) - 1
        /\ Elements(queue) = Front(queue, 1) \cup Elements(Tail(queue))
        /\ Front(queue, 1) \cap Elements(Tail(queue)) = {}
    BY <2>4, <2>5, <2>6, SplitRun
  <2>8. Front(queue, 1) = {Head(queue)} /\ DOMAIN sent = {Head(queue)}
    BY <2>5 DEF Front
  <2>9. \A e \in DOMAIN sent : sent[e] = s
    OBVIOUS
  <2> HIDE DEF sent
  <2>10. /\ Elements(queue) \cup DOMAIN given \cup lost = 1..emitted
         /\ Elements(queue) \cap (DOMAIN given \cup lost) = {}
         /\ DOMAIN given \cap lost = {}
    BY <1>1 DEF EachEventOnce
  <2>11. Elements(queue) \subseteq Events
    BY <2>2 DEF Elements
  <2>12. /\ DOMAIN sent \subseteq Events
         /\ ({} \cup DOMAIN sent) \cap (DOMAIN given \cup lost) = {}
    BY <2>7, <2>8, <2>10, <2>11
  <2>13. /\ DOMAIN given' \subseteq Events /\ lost' \subseteq Events
         /\ \A e \in DOMAIN given' : given'[e] \in Sockets
         /\ DOMAIN given' \cup lost' = DOMAIN given \cup lost \cup {} \cup DOMAIN sent
         /\ DOMAIN given' \cap lost' = {}
         /\ \A e \in lost' \ lost :
               e \in {} \/ (e \in DOMAIN sent /\ socketState[sent[e]] # "Connected")
    BY <1>1, <2>1, <2>9, <2>10, <2>12, SentOrLost
  <2>14. emitted - Len(queue) + 1 = emitted - (Len(queue) - 1)
    BY <1>3, <2>2
  <2>15. Run(queue', emitted' - Len(queue')) /\ Len(queue') <= MaxSize
    <3>1. emitted' = emitted /\ queue' = Tail(queue)
      BY <1>2, <2>1
    <3>2. Len(queue) - 1 <= MaxSize
      BY <2>2, <2>3
    <3> QED
      BY <2>7, <2>14, <3>1, <3>2
  <2>16. TypeOK'
    BY <1>1, <1>2, <2>1, <2>13, <2>15 DEF TypeOK, Run
  <2>17. WaitersAreServable'
    BY <1>1, <1>2, <1>5, <2>1 DEF WaitersAreServable, Elements
  <2>18. QueueIsLatest'
    BY <2>15 DEF Run, QueueIsLatest
  <2>19. EachEventOnce'
    BY <1>2, <2>1, <2>7, <2>8, <2>10, <2>13 DEF EachEventOnce
  <2>20. \A e \in lost' \ lost : socketState[s] = "Closing"
    <3>1. socketState[s] \in {"Unconnected", "Connected", "Closing"}
      BY <1>1 DEF TypeOK
    <3> QED
      BY <1>2, <2>9, <2>13, <3>1
  <2> QED
    BY <1>5, <2>16, <2>17, <2>18, <2>19, <2>20 DEF IInv
<1> QED
  BY <1>4, <1>5

LEMMA DisconnectKeepsInvariant ==
    ASSUME IInv, NEW s \in Sockets, onClientDisconnected(s)
    PROVE  IInv'
<1>1. TypeOK /\ WaitersAreServable /\ QueueIsLatest /\ EachEventOnce
  BY DEF IInv
<1>2. /\ socketState' = [socketState EXCEPT ![s] = "Unconnected"]
      /\ waiters' = Without(waiters, s)
      /\ UNCHANGED <<queue, emitted, given, lost>>
  BY DEF onClientDisconnected, removeWaiter
<1>3. waiters \in Seq(Sockets)
  BY <1>1 DEF TypeOK
<1>4. /\ waiters' \in Seq(Sockets)
      /\ Elements(waiters') \subseteq Elements(waiters) \ {s}
      /\ waiters = <<>> => waiters' = <<>>
  <2>1. /\ Without(waiters, s) \in Seq(Sockets)
        /\ Elements(Without(waiters, s)) \subseteq Elements(waiters) \ {s}
        /\ waiters = <<>> => Without(waiters, s) = <<>>
    BY <1>3, WithoutElements, Zenon
  <2> QED
    BY <1>2, <2>1, Zenon
<1>5. Elements(waiters) \subseteq Sockets
  BY <1>3 DEF Elements
<1>6. TypeOK'
  BY <1>1, <1>2, <1>4 DEF TypeOK
<1>7. WaitersAreServable'
  BY <1>1, <1>2, <1>4, <1>5 DEF TypeOK, WaitersAreServable
<1> QED
  BY <1>1, <1>2, <1>6, <1>7 DEF IInv, QueueIsLatest, EachEventOnce

LEMMA StepKeepsInvariant == IInv /\ [Next]_vars => IInv'
<1> SUFFICES ASSUME IInv, [Next]_vars PROVE IInv'
  OBVIOUS
<1>1. TypeOK /\ WaitersAreServable /\ QueueIsLatest /\ EachEventOnce
  BY DEF IInv
<1>2. Elements(waiters) \subseteq Sockets
  BY <1>1 DEF TypeOK, Elements
<1>3. ASSUME NEW s \in Sockets, Connect(s) PROVE IInv'
  <2>1. TypeOK'
    BY <1>1, <1>3 DEF Connect, TypeOK
  <2>2. WaitersAreServable'
    BY <1>1, <1>2, <1>3 DEF Connect, TypeOK, WaitersAreServable
  <2> QED
    BY <1>1, <1>3, <2>1, <2>2 DEF Connect, IInv, QueueIsLatest, EachEventOnce
<1>4. ASSUME NEW s \in Sockets, StartClosing(s) PROVE IInv'
  <2>1. TypeOK'
    BY <1>1, <1>4 DEF StartClosing, TypeOK
  <2>2. WaitersAreServable'
    BY <1>1, <1>2, <1>4 DEF StartClosing, TypeOK, WaitersAreServable
  <2> QED
    BY <1>1, <1>4, <2>1, <2>2 DEF StartClosing, IInv, QueueIsLatest, EachEventOnce
<1>5. ASSUME NEW s \in Sockets, onClientDisconnected(s) PROVE IInv'
  BY <1>5, DisconnectKeepsInvariant
<1>6. ASSUME NEW s \in Sockets, handleNext(s) PROVE IInv'
  BY <1>6, HandleNextKeepsInvariant
<1>7. CASE Emit
  BY <1>7, EmitKeepsInvariant
<1>8. CASE UNCHANGED vars
  BY <1>1, <1>8 DEF vars, IInv, TypeOK, WaitersAreServable, QueueIsLatest, EachEventOnce
<1> QED
  BY <1>3, <1>4, <1>5, <1>6, <1>7, <1>8 DEF Next

LEMMA Invariant == Spec => []IInv
BY InvariantInit, StepKeepsInvariant, PTL DEF Spec

-----------------------------------------------------------------------------
(* The theorems.                                                           *)

\* The variables of the pull side have their types, and the queue never holds
\* more than m_maxSize events (EventQueue.cpp:20).
THEOREM TypeCorrect == Spec => []TypeOK
<1>1. IInv => TypeOK
  BY DEF IInv
<1> QED
  BY <1>1, Invariant, PTL

\* No client waits while an event is kept for it, and each one that waits is
\* still there (EventQueue.hpp:24-29, Agent.cpp:163).
THEOREM NobodyWaitsInVain == Spec => []WaitersAreServable
<1>1. IInv => WaitersAreServable
  BY DEF IInv
<1> QED
  BY <1>1, Invariant, PTL

\* The queue keeps the latest events, without a gap and in order
\* (EventQueue.cpp:19-24).
THEOREM LatestAreKept == Spec => []QueueIsLatest
<1>1. IInv => QueueIsLatest
  BY DEF IInv
<1> QED
  BY <1>1, Invariant, PTL

\* Each event is in one place: kept, handed to one client, or lost
\* (EventQueue.hpp:24-29).
THEOREM EventsAreHandedOutOnce == Spec => []EachEventOnce
<1>1. IInv => EachEventOnce
  BY DEF IInv
<1> QED
  BY <1>1, Invariant, PTL

\* An event is lost only behind MaxSize newer ones, or to a client that is
\* going and waits, or asks, for it (EventQueue.cpp:20-22, Agent.cpp:178-185).
THEOREM LossHasReason == Spec => LossNeedsReason
<1> DEFINE Reason(e) ==
             \/ emitted' - e >= MaxSize
             \/ \E s \in Sockets :
                   socketState[s] = "Closing" /\ (s \in Elements(waiters) \/ queue # <<>>)
           Reasonable == \A e \in lost' \ lost : Reason(e)
<1>1. IInv /\ [Next]_vars => [Reasonable]_vars
  <2> SUFFICES ASSUME IInv, Next PROVE Reasonable
    OBVIOUS
  <2>1. TypeOK /\ WaitersAreServable
    BY DEF IInv
  <2>2. \A s \in Elements(waiters) : s \in Sockets
    BY <2>1 DEF TypeOK, Elements
  <2>3. \A s \in Elements(waiters) : socketState[s] # "Connected" => socketState[s] = "Closing"
    BY <2>1, <2>2 DEF TypeOK, WaitersAreServable
  <2>4. CASE Emit
    <3>1. \A e \in lost' \ lost :
             \/ emitted' - e >= MaxSize
             \/ \E s \in Elements(waiters) : socketState[s] # "Connected"
      BY <2>4, EmitKeepsInvariant
    <3> QED
      BY <2>2, <2>3, <3>1, Zenon
  <2>5. ASSUME NEW s \in Sockets, handleNext(s) PROVE Reasonable
    <3>1. \A e \in lost' \ lost : queue # <<>> /\ socketState[s] = "Closing"
      BY <2>5, HandleNextKeepsInvariant
    <3> QED
      BY <3>1, Zenon
  <2>6. ASSUME NEW s \in Sockets, Connect(s) \/ StartClosing(s) \/ onClientDisconnected(s)
        PROVE  Reasonable
    BY <2>6 DEF Connect, StartClosing, onClientDisconnected
  <2> QED
    BY <2>4, <2>5, <2>6 DEF Next
<1> QED
  BY <1>1, Invariant, PTL DEF Spec, LossNeedsReason

-----------------------------------------------------------------------------
(* The stream.                                                             *)

\* A domain and values determine given: a step that sends nothing leaves it as
\* it is.
GivenIsFunction == given = [e \in DOMAIN given |-> given[e]]

LEMMA SentFunction ==
    ASSUME NEW sent, NEW dropped, sendJson(sent, dropped)
    PROVE  GivenIsFunction'
<1> DEFINE read == {e \in DOMAIN sent : socketState[sent[e]] = "Connected"}
<1>1. given' = [e \in DOMAIN given \cup read |-> IF e \in read THEN sent[e] ELSE given[e]]
  BY DEF sendJson
<1> HIDE DEF read
<1> QED
  BY <1>1 DEF GivenIsFunction

LEMMA FunctionStep == GivenIsFunction /\ [Next]_vars => GivenIsFunction'
<1> SUFFICES ASSUME GivenIsFunction, [Next]_vars PROVE GivenIsFunction'
  OBVIOUS
<1>1. given' = given \/ \E sent, dropped : sendJson(sent, dropped)
  BY DEF Next, vars, Connect, StartClosing, onClientDisconnected, handleNext, Emit, drainToWaiters
<1> QED
  BY <1>1, SentFunction DEF GivenIsFunction

\* One event is sent to one client.
LEMMA SentOne ==
    ASSUME NEW e, NEW s \in Sockets, NEW sent, DOMAIN sent = {e}, sent[e] = s,
           sendJson(sent, {}), GivenIsFunction
    PROVE  \/ /\ given' = [d \in DOMAIN given \cup {e} |-> IF d = e THEN s ELSE given[d]]
              /\ lost' = lost
           \/ /\ given' = given
              /\ lost' = lost \cup {e}
<1> DEFINE read == {d \in DOMAIN sent : socketState[sent[d]] = "Connected"}
<1>1. /\ given' = [d \in DOMAIN given \cup read |-> IF d \in read THEN sent[d] ELSE given[d]]
      /\ lost' = lost \cup {} \cup (DOMAIN sent \ read)
  BY DEF sendJson
<1>2. CASE socketState[s] = "Connected"
  <2>1. read = {e}
    BY <1>2
  <2> HIDE DEF read
  <2>2. given' = [d \in DOMAIN given \cup {e} |-> IF d \in {e} THEN sent[d] ELSE given[d]]
    BY <1>1, <2>1
  <2>3. given' = [d \in DOMAIN given \cup {e} |-> IF d = e THEN s ELSE given[d]]
    BY <2>2
  <2>4. lost' = lost
    BY <1>1, <2>1
  <2> QED
    BY <2>3, <2>4
<1>3. CASE socketState[s] # "Connected"
  <2>1. read = {}
    BY <1>3
  <2> HIDE DEF read
  <2>2. given' = [d \in DOMAIN given |-> given[d]]
    BY <1>1, <2>1
  <2>3. lost' = lost \cup {e}
    BY <1>1, <2>1
  <2> QED
    BY <2>2, <2>3 DEF GivenIsFunction
<1> QED
  BY <1>2, <1>3

\* Nothing is sent, and some events are dropped.
LEMMA SentNothing ==
    ASSUME NEW sent, DOMAIN sent = {}, NEW dropped, sendJson(sent, dropped), GivenIsFunction
    PROVE  given' = given /\ lost' = lost \cup dropped
<1> DEFINE read == {d \in DOMAIN sent : socketState[sent[d]] = "Connected"}
<1>1. /\ given' = [d \in DOMAIN given \cup read |-> IF d \in read THEN sent[d] ELSE given[d]]
      /\ lost' = lost \cup dropped \cup (DOMAIN sent \ read)
  BY DEF sendJson
<1>2. read = {}
  OBVIOUS
<1> HIDE DEF read
<1>3. given' = [d \in DOMAIN given |-> given[d]]
  BY <1>1, <1>2
<1> QED
  BY <1>1, <1>2, <1>3 DEF GivenIsFunction

\* The event that leaves first.
LEMMA HeadIsFirst ==
    ASSUME TypeOK, QueueIsLatest, queue # <<>>
    PROVE  /\ Len(queue) \in Nat \ {0} /\ emitted \in Nat
           /\ Head(queue) = emitted - Len(queue) + 1
           /\ Head(queue) = queue[1]
           /\ Tail(queue) = SubSeq(queue, 1 + 1, Len(queue))
           /\ Len(Tail(queue)) = Len(queue) - 1
           /\ Elements(queue) = {Head(queue)} \cup Elements(Tail(queue))
           /\ Head(queue) \notin Elements(Tail(queue))
<1>1. queue \in Seq(Events) /\ emitted \in Nat /\ Len(queue) \in Nat
  BY BoundsAssumption DEF TypeOK
<1>2. Len(queue) # 0 /\ 1 \in DOMAIN queue /\ 1 \in 0..Len(queue)
  BY <1>1
<1>3. Head(queue) = queue[1] /\ Tail(queue) = SubSeq(queue, 1 + 1, Len(queue))
  BY <1>1, TailIsSubSeq
<1>4. queue[1] = emitted - Len(queue) + 1
  BY <1>2 DEF QueueIsLatest
<1>5. Run(queue, emitted - Len(queue)) /\ emitted - Len(queue) \in Int
  BY <1>1 DEF Run, QueueIsLatest
<1>6. /\ Len(Tail(queue)) = Len(queue) - 1
      /\ Elements(queue) = Front(queue, 1) \cup Elements(Tail(queue))
      /\ Front(queue, 1) \cap Elements(Tail(queue)) = {}
  BY <1>2, <1>3, <1>5, SplitRun
<1>7. Front(queue, 1) = {Head(queue)}
  BY <1>3 DEF Front
<1> QED
  BY <1>1, <1>2, <1>3, <1>4, <1>6, <1>7

LEMMA TakeStep ==
    ASSUME IInv, GivenIsFunction, NEW s \in Sockets, handleNext(s), queue # <<>>
    PROVE  Stream!Take
<1> DEFINE sent == [e \in {Head(queue)} |-> s]
<1>1. /\ queue' = Tail(queue) /\ emitted' = emitted
      /\ sendJson(sent, {})
  BY DEF handleNext
<1>2. DOMAIN sent = {Head(queue)} /\ sent[Head(queue)] = s
  OBVIOUS
<1> HIDE DEF sent
<1>3. /\ Len(queue) \in Nat \ {0} /\ emitted \in Nat
      /\ Head(queue) = emitted - Len(queue) + 1
      /\ Len(queue') = Len(queue) - 1
  BY <1>1, HeadIsFirst DEF IInv
<1>4. emitted' - Len(queue') + 1 = emitted - Len(queue) + 1 + 1 /\ emitted - Len(queue) + 1 <= emitted
  BY <1>1, <1>3
<1>5. (\E r \in Sockets : Stream!Give(r)) \/ Stream!Lose
  BY <1>1, <1>2, <1>3, SentOne DEF Stream!Give, Stream!Lose
<1> QED
  BY <1>1, <1>4, <1>5 DEF Stream!Take, Stream!Leave

\* With no waiter an event is kept; with one, nothing is, and it goes to the
\* first that waits.
LEMMA ArriveStep ==
    ASSUME IInv, GivenIsFunction, Emit
    PROVE  Stream!Arrive
<1> DEFINE e == emitted + 1
           q == enqueue(queue, e)
           dropped == Elements(queue) \ Elements(q)
           n == IF Len(q) < Len(waiters) THEN Len(q) ELSE Len(waiters)
<1>0. TypeOK /\ WaitersAreServable /\ QueueIsLatest
  BY DEF IInv
<1>1. /\ emitted' = e
      /\ queue' = SubSeq(q, n + 1, Len(q))
      /\ sendJson(Round(q, n), dropped)
  BY DEF Emit, drainToWaiters
<1>2. /\ emitted \in Nat /\ e \in Nat /\ e \in Events /\ emitted < MaxEvents
      /\ queue \in Seq(Events) /\ Len(queue) \in Nat /\ Len(queue) <= MaxSize
      /\ waiters \in Seq(Sockets) /\ Len(waiters) \in Nat
      /\ MaxSize \in Nat \ {0}
  BY <1>0, MaxSizeAssumption, BoundsAssumption DEF TypeOK, Emit, Events
<1>3. q = Append(IF Len(queue) >= MaxSize THEN Tail(queue) ELSE queue, e)
  BY DEF enqueue
<1>4. q \in Seq(Events) /\ Len(q) \in Nat \ {0}
  <2> DEFINE kept == IF Len(queue) >= MaxSize THEN Tail(queue) ELSE queue
  <2>1. kept \in Seq(Events)
    <3>1. Len(queue) >= MaxSize => queue # <<>>
      BY <1>2
    <3> QED
      BY <1>2, <3>1
  <2>2. q = Append(kept, e)
    BY <1>3
  <2> HIDE DEF kept, q
  <2>3. /\ Append(kept, e) \in Seq(Events)
        /\ Len(Append(kept, e)) = Len(kept) + 1
        /\ Len(kept) \in Nat
    BY <1>2, <2>1, AppendProperties
  <2> QED
    BY <2>2, <2>3
<1>5. e \notin Elements(queue)
  BY <1>0, <1>2 DEF QueueIsLatest, Elements
<1>6. CASE waiters = <<>>
  <2>1. n = 0
    BY <1>4, <1>6
  <2>2. queue' = q
    <3> HIDE DEF q, n, dropped
    <3>1. SubSeq(q, 1, Len(q)) = q
      BY <1>4, SubSeqFull
    <3> QED
      BY <1>1, <2>1, <3>1
  <2>3. DOMAIN Round(q, 0) = {}
    BY DEF Round
  <2>4. given' = given /\ lost' = lost \cup dropped
    <3> HIDE DEF q, dropped, n
    <3> QED
      BY <1>1, <2>1, <2>3, SentNothing
  <2>5. CASE Len(queue) < MaxSize
    <3>1. q = Append(queue, e)
      BY <1>2, <1>3, <2>5
    <3>2. Len(q) = Len(queue) + 1 /\ DOMAIN q = DOMAIN queue \cup {Len(queue) + 1}
          /\ \A i \in DOMAIN queue : q[i] = queue[i]
      <4>1. /\ Len(Append(queue, e)) = Len(queue) + 1
            /\ DOMAIN Append(queue, e) = 1..(Len(queue) + 1)
            /\ DOMAIN queue = 1..Len(queue)
            /\ \A i \in 1..Len(queue) : Append(queue, e)[i] = queue[i]
        BY <1>2, AppendProperties
      <4> HIDE DEF q
      <4> QED
        BY <1>2, <3>1, <4>1
    <3>3. dropped = {}
      <4> HIDE DEF q
      <4> QED
        BY <3>2 DEF Elements
    <3>4. lost' = lost
      BY <2>4, <3>3
    <3>5. /\ emitted' - Len(queue') + 1 = emitted - Len(queue) + 1
          /\ emitted - (emitted - Len(queue) + 1) + 1 < MaxSize
      <4> HIDE DEF q
      <4>1. emitted' = emitted + 1 /\ Len(queue') = Len(queue) + 1
        BY <1>1, <2>2, <3>2
      <4> QED
        BY <1>2, <2>5, <4>1
    <3> HIDE DEF q, dropped, n
    <3> QED
      BY <1>1, <2>4, <3>4, <3>5 DEF Stream!Arrive
  <2>6. CASE ~(Len(queue) < MaxSize)
    <3>1. Len(queue) = MaxSize /\ queue # <<>>
      BY <1>2, <2>6
    <3>2. q = Append(Tail(queue), e)
      BY <1>2, <1>3, <3>1
    <3>3. /\ Head(queue) = emitted - Len(queue) + 1
          /\ Len(Tail(queue)) = Len(queue) - 1
          /\ Elements(queue) = {Head(queue)} \cup Elements(Tail(queue))
          /\ Head(queue) \notin Elements(Tail(queue))
      BY <1>0, <3>1, HeadIsFirst
    <3>4. Len(q) = Len(queue) /\ Elements(q) = Elements(Tail(queue)) \cup {e}
      <4> DEFINE t == Tail(queue)
      <4>1. t \in Seq(Events) /\ Len(t) = Len(queue) - 1
        BY <1>2, <3>1, <3>3
      <4> HIDE DEF t
      <4>2. /\ Len(Append(t, e)) = Len(t) + 1
            /\ DOMAIN Append(t, e) = DOMAIN t \cup {Len(t) + 1}
            /\ \A i \in DOMAIN t : Append(t, e)[i] = t[i]
            /\ Append(t, e)[Len(t) + 1] = e
            /\ Len(t) + 1 \notin DOMAIN t
        BY <1>2, <4>1
      <4>3. q = Append(t, e)
        BY <3>2 DEF t
      <4>4. Len(q) = Len(queue)
        BY <1>2, <4>1, <4>2, <4>3
      <4>5. Elements(Append(t, e)) = Elements(t) \cup {e}
        BY <4>2 DEF Elements
      <4> HIDE DEF q
      <4> QED
        BY <4>3, <4>4, <4>5 DEF t
    <3>5. dropped = {Head(queue)}
      <4> HIDE DEF q
      <4> QED
        BY <1>5, <3>3, <3>4
    <3> HIDE DEF q, dropped, n
    <3>6. /\ emitted' - Len(queue') + 1 = emitted - Len(queue) + 1 + 1
          /\ emitted - (emitted - Len(queue) + 1) + 1 = MaxSize
      <4>1. emitted' = emitted + 1 /\ Len(queue') = Len(queue)
        BY <1>1, <2>2, <3>4
      <4> QED
        BY <1>2, <3>1, <4>1
    <3>7. Stream!Lose
      BY <2>4, <3>3, <3>5 DEF Stream!Lose
    <3> QED
      BY <1>1, <3>6, <3>7 DEF Stream!Arrive
  <2> QED
    BY <2>5, <2>6
<1>7. CASE waiters # <<>>
  <2>1. queue = <<>> /\ Len(queue) = 0
    BY <1>0, <1>7 DEF WaitersAreServable
  <2>2. q = Append(<<>>, e) /\ Len(waiters) >= 1
    BY <1>2, <1>3, <1>7, <2>1
  <2>3. q = <<e>> /\ Len(q) = 1 /\ q[1] = e
    BY <2>2
  <2>4. n = 1
    BY <1>2, <2>2, <2>3
  <2>5. queue' = SubSeq(<<e>>, 2, 1)
    <3> HIDE DEF q, n, dropped
    <3> QED
      BY <1>1, <2>3, <2>4
  <2>6. queue' = <<>> /\ Len(queue') = 0
    BY <2>5
  <2>7. /\ Elements(queue) = {}
        /\ dropped = {}
    BY <2>1 DEF Elements
  <2>8. DOMAIN Round(q, 1) = {e} /\ Round(q, 1)[e] = waiters[1]
    <3>1. \A i \in 1..1 : i = 1
      OBVIOUS
    <3>2. {q[i] : i \in 1..1} = {e}
      BY <2>3, <3>1
    <3>3. (CHOOSE i \in 1..1 : q[i] = e) = 1
      BY <2>3, <3>1
    <3> HIDE DEF q
    <3> QED
      BY <3>2, <3>3 DEF Round
  <2>9. waiters[1] \in Sockets
    BY <1>2, <2>2
  <2>10. sendJson(Round(q, 1), {})
    <3> HIDE DEF q, n, dropped
    <3> QED
      BY <1>1, <2>4, <2>7
  <2>11. /\ emitted' - Len(queue') + 1 = emitted - Len(queue) + 1 + 1
         /\ emitted - Len(queue) + 1 = emitted + 1
         /\ e = emitted - Len(queue) + 1
    <3>1. emitted' = emitted + 1
      BY <1>1
    <3> QED
      BY <1>2, <2>1, <2>6, <3>1
  <2> HIDE DEF q, n, dropped, e
  <2>12. (\E r \in Sockets : Stream!Give(r)) \/ Stream!Lose
    BY <2>8, <2>9, <2>10, <2>11, SentOne DEF Stream!Give, Stream!Lose
  <2>13. emitted' = emitted + 1
    BY <1>1 DEF e
  <2> QED
    BY <2>11, <2>12, <2>13 DEF Stream!Arrive, Stream!Leave
<1> QED
  BY <1>6, <1>7

\* The queue, the waiters and the router are one stream of events for their
\* readers (EventQueue.cpp:15-24, EventQueue.hpp:24-29, Agent.cpp:178-185).
THEOREM QueueImplementsStream == Spec => ImplementsStream
<1>1. Init => Stream!Init
  BY DEF Init, Stream!Init
<1>2. Init => GivenIsFunction
  BY DEF Init, GivenIsFunction
<1>3. IInv /\ GivenIsFunction /\ [Next]_vars
        => [Stream!Next]_<<emitted - Len(queue) + 1, emitted, given, lost>>
  <2> SUFFICES ASSUME IInv, GivenIsFunction, [Next]_vars,
                      ~ UNCHANGED <<queue, emitted, given, lost>>
               PROVE  Stream!Next
    OBVIOUS
  <2>1. ASSUME NEW s \in Sockets,
               Connect(s) \/ StartClosing(s) \/ onClientDisconnected(s)
        PROVE  FALSE
    BY <2>1 DEF Connect, StartClosing, onClientDisconnected
  <2>2. ASSUME NEW s \in Sockets, handleNext(s) PROVE Stream!Take
    BY <2>2, TakeStep DEF handleNext
  <2>3. CASE Emit
    BY <2>3, ArriveStep DEF Stream!Next
  <2> QED
    BY <2>1, <2>2, <2>3 DEF Next, vars, Stream!Next
<1> QED
  BY <1>1, <1>2, <1>3, Invariant, FunctionStep, PTL DEF Spec, ImplementsStream, Stream!Spec
=============================================================================

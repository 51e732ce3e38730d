--------------------------- MODULE StreamsProofs ---------------------------
(***************************************************************************)
(* Proofs about Streams, for every set of agents, pollers and observers    *)
(* and every size of the ring.                                             *)
(***************************************************************************)
EXTENDS Streams, FiniteSetTheorems, SequenceTheorems, WellFoundedInduction, TLAPS

(***************************************************************************)
(* Numbers in order                                                        *)
(***************************************************************************)

\* A set of naturals that has a member has a least one.
LEMMA LeastNatural ==
  ASSUME NEW T, T \subseteq Nat, T # {}
  PROVE  \E x \in T : \A y \in T : x <= y
<1>1. PICK x \in T : \A y \in T : ~(<<y, x>> \in OpToRel(<, Nat))
  BY NatLessThanWellFounded, WFMin
<1>2. \A y \in T : ~(y < x)
  BY <1>1 DEF OpToRel
<1> QED
  BY <1>2

\* A set of naturals that has 0 and every successor is all of them.
LEMMA SetInduction ==
  ASSUME NEW S, S \subseteq Nat, 0 \in S, \A n \in S : n + 1 \in S
  PROVE  \A n \in Nat : n \in S
<1> SUFFICES ASSUME NEW n \in Nat, n \notin S
             PROVE  FALSE
  OBVIOUS
<1>1. PICK x \in Nat \ S : \A y \in Nat \ S : x <= y
  <2>1. Nat \ S # {} /\ Nat \ S \subseteq Nat
    OBVIOUS
  <2> QED
    BY <2>1, LeastNatural
<1>2. x - 1 \in S
  BY <1>1
<1> QED
  BY <1>1, <1>2

\* A set of positions that is closed downwards is an interval.
LEMMA DownwardClosed ==
  ASSUME NEW n \in Nat, NEW S, S \subseteq 1..n,
         \A j, k \in 1..n : j < k /\ k \in S => j \in S
  PROVE  S = 1..Cardinality(S) /\ Cardinality(S) \in Nat /\ Cardinality(S) <= n
<1> DEFINE T == {k \in Nat : k >= 1 /\ k \notin S}
<1>1. n + 1 \in T
  OBVIOUS
<1>2. T \subseteq Nat /\ T # {}
  BY <1>1
<1> HIDE DEF T
<1>3. PICK x \in T : \A y \in T : x <= y
  BY <1>2, LeastNatural
<1>4. x \in Nat /\ x >= 1 /\ x \notin S /\ x <= n + 1
  BY <1>1, <1>3 DEF T
<1>5. S = 1..x - 1
  <2>1. \A k \in 1..x - 1 : k \in S
    BY <1>3, <1>4 DEF T
  <2>2. \A k \in S : k \in 1..x - 1
    BY <1>4
  <2> QED
    BY <2>1, <2>2
<1>6. Cardinality(S) = x - 1
  <2>1. Cardinality(1..x - 1) = IF 1 > x - 1 THEN 0 ELSE (x - 1) - 1 + 1
    BY <1>4, FS_Interval
  <2> QED
    BY <1>4, <1>5, <2>1
<1> QED
  BY <1>4, <1>5, <1>6

Ascending(s) == \A i, j \in DOMAIN s : i < j => s[i] < s[j]

\* Every set of positions can be put in order.
LEMMA OrderExists ==
  ASSUME NEW n \in Nat, NEW ks, ks \subseteq 1..n
  PROVE  \E s \in SetToSeqs(ks) : Ascending(s)
<1> DEFINE Sortable(P) == \E s \in SetToSeqs(P) : Ascending(s)
           S == {m \in Nat : \A P \in SUBSET (1..m) : Sortable(P)}
<1>1. 0 \in S
  <2>1. Cardinality({}) = 0
    BY FS_EmptySet
  <2>2. << >> \in SetToSeqs({}) /\ Ascending(<< >>)
    BY <2>1 DEF SetToSeqs, Ascending
  <2>3. \A P \in SUBSET (1..0) : P = {}
    OBVIOUS
  <2> QED
    BY <2>2, <2>3
<1>2. ASSUME NEW m \in S PROVE m + 1 \in S
  <2>1. m \in Nat
    BY <1>2
  <2>2. ASSUME NEW P \in SUBSET (1..m + 1) PROVE Sortable(P)
    <3>1. CASE m + 1 \notin P
      <4>1. P \in SUBSET (1..m)
        BY <2>1, <3>1
      <4> QED
        BY <1>2, <4>1
    <3>2. CASE m + 1 \in P
      <4> DEFINE Q == P \ {m + 1}
                 c == Cardinality(Q)
      <4>1. Q \in SUBSET (1..m)
        BY <2>1
      <4>2. PICK t \in SetToSeqs(Q) : Ascending(t)
        BY <1>2, <4>1
      <4>3. IsFiniteSet(Q)
        <5>1. IsFiniteSet(1..m)
          BY <2>1, FS_Interval
        <5> QED
          BY <4>1, <5>1, FS_Subset
      <4>4. c \in Nat
        BY <4>3, FS_CardinalityType
      <4>5. Cardinality(P) = c + 1
        <5>1. P = Q \cup {m + 1} /\ m + 1 \notin Q
          BY <3>2
        <5> QED
          BY <4>3, <5>1, FS_AddElement
      <4>6. t \in [1..c -> Q] /\ \A i, j \in 1..c : i # j => t[i] # t[j]
        BY <4>2 DEF SetToSeqs
      <4> DEFINE s == [i \in 1..c + 1 |-> IF i = c + 1 THEN m + 1 ELSE t[i]]
      <4> HIDE DEF c
      <4>7. \A i \in 1..c + 1 : i # c + 1 => i \in 1..c /\ s[i] = t[i] /\ s[i] \in Q
        BY <4>4, <4>6
      <4>8. s[c + 1] = m + 1
        BY <4>4
      <4>9. s \in [1..c + 1 -> P]
        BY <3>2, <4>7, <4>8
      <4>10. \A i \in 1..c : s[i] < m + 1 /\ s[i] \in Nat
        <5>1. \A q \in Q : q \in Nat /\ q < m + 1
          BY <2>1, <4>1
        <5>2. \A i \in 1..c : i \in 1..c + 1 /\ i # c + 1
          BY <4>4
        <5> QED
          BY <4>7, <5>1, <5>2
      <4> HIDE DEF s
      <4>11. \A i, j \in 1..c + 1 : i # j => s[i] # s[j]
        BY <2>1, <4>4, <4>6, <4>7, <4>8, <4>10
      <4>12. Ascending(s)
        <5> SUFFICES ASSUME NEW i \in 1..c + 1, NEW j \in 1..c + 1, i < j
                     PROVE  s[i] < s[j]
          BY <4>9 DEF Ascending
        <5>1. i \in 1..c
          BY <4>4
        <5>2. CASE j = c + 1
          BY <4>8, <4>10, <5>1, <5>2
        <5>3. CASE j # c + 1
          BY <4>2, <4>6, <4>7, <5>1, <5>3 DEF Ascending
        <5> QED
          BY <5>2, <5>3
      <4> QED
        BY <4>5, <4>9, <4>11, <4>12 DEF SetToSeqs
    <3> QED
      BY <3>1, <3>2
  <2> QED
    BY <2>1, <2>2
<1>3. S \subseteq Nat
  OBVIOUS
<1> HIDE DEF S
<1>4. n \in S
  BY <1>1, <1>2, <1>3, SetInduction
<1> QED
  BY <1>4 DEF S

\* What InOrder returns: every position, once, in ascending order.
LEMMA InOrderSpec ==
  ASSUME NEW n \in Nat, NEW ks, ks \subseteq 1..n
  PROVE  /\ InOrder(ks) \in Seq(ks)
         /\ Ascending(InOrder(ks))
         /\ \A k \in ks : \E i \in DOMAIN InOrder(ks) : InOrder(ks)[i] = k
<1> DEFINE s == InOrder(ks)
           c == Cardinality(ks)
<1>1. s \in SetToSeqs(ks) /\ Ascending(s)
  BY OrderExists DEF InOrder, Ascending
<1>2. IsFiniteSet(ks)
  <2>1. IsFiniteSet(1..n)
    BY FS_Interval
  <2> QED
    BY <2>1, FS_Subset
<1>3. c \in Nat
  BY <1>2, FS_CardinalityType
<1>4. s \in [1..c -> ks] /\ \A i, j \in 1..c : i # j => s[i] # s[j]
  BY <1>1 DEF SetToSeqs
<1>5. s \in Seq(ks)
  BY <1>3, <1>4, SeqDef
<1>6. \A k \in ks : \E i \in DOMAIN s : s[i] = k
  <2>1. IsFiniteSet(1..c) /\ Cardinality(1..c) = c
    BY <1>3, FS_Interval
  <2> HIDE DEF s, c
  <2>2. s \in Injection(1..c, ks)
    BY <1>4 DEF Injection, IsInjective
  <2>3. s \in Surjection(1..c, ks)
    BY <1>2, <2>1, <2>2, FS_Injection DEF c
  <2>4. \A k \in ks : \E i \in 1..c : s[i] = k
    BY <2>3 DEF Surjection
  <2> QED
    BY <1>4, <2>4
<1> QED
  BY <1>1, <1>5, <1>6

(***************************************************************************)
(* The ring                                                                *)
(***************************************************************************)

\* The numbers that bound the model are naturals.
LEMMA StreamsBounds ==
  /\ MaxRows \in Nat /\ MaxObserveID \in Nat /\ MaxRestarts \in Nat
  /\ None \notin Channels /\ Agents \subseteq Names
  /\ \E a \in Agents : TRUE
BY StreamsAssumption

\* The events of a sequence and their ids.
LEMMA EventIds ==
  ASSUME NEW R \in Seq(Event)
  PROVE  /\ Len(R) \in Nat /\ DOMAIN R = 1..Len(R)
         /\ \A k \in DOMAIN R : R[k] \in Event /\ R[k].id \in Nat /\ R[k].id >= 1
<1>1. Len(R) \in Nat /\ DOMAIN R = 1..Len(R)
  BY LenProperties
<1>2. \A k \in DOMAIN R : R[k] \in Event
  BY <1>1, ElementOfSeq
<1>3. \A evt \in Event : evt.id \in Nat /\ evt.id >= 1
  BY StreamsBounds DEF Event
<1> QED
  BY <1>1, <1>2, <1>3

\* trimObserveLocked drops a prefix of the events.
LEMMA TrimSpec ==
  ASSUME NEW events \in Seq(Event)
  PROVE  /\ trimObserve(events) \in Seq(Event)
         /\ \E d \in Nat : \A k \in DOMAIN trimObserve(events) :
              k + d \in DOMAIN events /\ trimObserve(events)[k] = events[k + d]
<1> DEFINE D == {d \in 0..Len(events) - 2 : RingOver(events, d)}
           n == Cardinality(D)
           new == SubSeq(events, n + 1, Len(events))
<1>1. Len(events) \in Nat /\ DOMAIN events = 1..Len(events)
  BY LenProperties
<1>2. IsFiniteSet(D)
  <2>1. IsFiniteSet(0..Len(events) - 2)
    BY <1>1, FS_Interval
  <2> QED
    BY <2>1, FS_Subset
<1>3. n \in Nat
  BY <1>2, FS_CardinalityType
<1> HIDE DEF n
<1>4. \A i \in n + 1..Len(events) : events[i] \in Event
  BY <1>1, <1>3, ElementOfSeq
<1>5. /\ new \in Seq(Event)
      /\ Len(new) = IF n + 1 <= Len(events) THEN Len(events) - (n + 1) + 1 ELSE 0
      /\ \A i \in 1..Len(events) - (n + 1) + 1 : new[i] = events[(n + 1) + i - 1]
  BY <1>1, <1>3, <1>4, SubSeqProperties
<1>6. DOMAIN new = 1..Len(new)
  BY <1>5, LenProperties
<1>7. trimObserve(events) = new
  BY DEF trimObserve, n
<1> HIDE DEF new
<1>8. \A k \in DOMAIN new : k + n \in DOMAIN events /\ new[k] = events[k + n]
  BY <1>1, <1>3, <1>5, <1>6
<1> QED
  BY <1>3, <1>5, <1>7, <1>8

\* The ring lists events in the order of their ids, all handed out.
Ordered(R, n) ==
  /\ \A j, k \in DOMAIN R : j < k => R[j].id < R[k].id
  /\ \A k \in DOMAIN R : R[k].id <= n

\* A publication keeps the ring in order and adds only its own event.
LEMMA PublishRing ==
  ASSUME NEW R \in Seq(Event), NEW n \in Nat, NEW evt \in Event, evt.id = n + 1,
         Ordered(R, n)
  PROVE  /\ trimObserve(Append(R, evt)) \in Seq(Event)
         /\ Ordered(trimObserve(Append(R, evt)), n + 1)
         /\ \A k \in DOMAIN trimObserve(Append(R, evt)) :
              \/ trimObserve(Append(R, evt))[k] = evt
              \/ \E j \in DOMAIN R : trimObserve(Append(R, evt))[k] = R[j]
<1> DEFINE all == Append(R, evt)
           new == trimObserve(all)
<1>1. Len(R) \in Nat /\ DOMAIN R = 1..Len(R) /\ \A k \in DOMAIN R : R[k].id \in Nat
  BY EventIds
<1>2. /\ all \in Seq(Event) /\ Len(all) = Len(R) + 1
      /\ \A i \in 1..Len(R) : all[i] = R[i]
      /\ all[Len(R) + 1] = evt
  BY AppendProperties
<1>3. DOMAIN all = 1..Len(R) + 1
  BY <1>2, LenProperties
<1> HIDE DEF all
<1>4. \A i \in DOMAIN all : \/ i \in DOMAIN R /\ all[i] = R[i]
                            \/ i = Len(R) + 1 /\ all[i] = evt
  BY <1>1, <1>2, <1>3
<1>5. Ordered(all, n + 1)
  <2>1. \A k \in DOMAIN all : all[k].id <= n + 1
    BY <1>1, <1>4 DEF Ordered
  <2>2. ASSUME NEW j \in DOMAIN all, NEW k \in DOMAIN all, j < k
        PROVE  all[j].id < all[k].id
    <3>1. j \in DOMAIN R /\ all[j] = R[j]
      BY <1>1, <1>2, <1>3, <2>2
    <3>2. CASE k \in DOMAIN R /\ all[k] = R[k]
      BY <2>2, <3>1, <3>2 DEF Ordered
    <3>3. CASE k = Len(R) + 1 /\ all[k] = evt
      BY <1>1, <3>1, <3>3 DEF Ordered
    <3> QED
      BY <1>4, <3>2, <3>3
  <2> QED
    BY <2>1, <2>2 DEF Ordered
<1>6. /\ new \in Seq(Event)
      /\ \E d \in Nat : \A k \in DOMAIN new :
           k + d \in DOMAIN all /\ new[k] = all[k + d]
  BY <1>2, TrimSpec
<1>7. PICK d \in Nat : \A k \in DOMAIN new :
                         k + d \in DOMAIN all /\ new[k] = all[k + d]
  BY <1>6
<1>8. DOMAIN new \subseteq Nat
  BY <1>6, LenProperties
<1> HIDE DEF new
<1>9. Ordered(new, n + 1)
  BY <1>5, <1>7, <1>8 DEF Ordered
<1>10. \A k \in DOMAIN new : new[k] = evt \/ \E j \in DOMAIN R : new[k] = R[j]
  BY <1>4, <1>7
<1> QED
  BY <1>6, <1>9, <1>10 DEF new, all

(* What one pass of ObserveSince finds: the binary search lands on the     *)
(* first event past the cursor, and the events of the filter that lie past *)
(* it are all there, in the order of their ids.                            *)
LEMMA FoundSpec ==
  ASSUME ring \in Seq(Event), Ordered(ring, nextObserveID), NEW o \in Observers,
         streams[o].cursor \in Nat
  PROVE  /\ Found(o) \in Seq(Event)
         /\ \A i, j \in DOMAIN Found(o) : i < j => Found(o)[i].id < Found(o)[j].id
         /\ \A i \in DOMAIN Found(o) :
              /\ Found(o)[i].id > streams[o].cursor
              /\ \E k \in DOMAIN ring : Found(o)[i] = ring[k]
         /\ \A k \in DOMAIN ring :
              ring[k].id > streams[o].cursor /\ eventMatchesFilter(ring[k], o) =>
                \E i \in DOMAIN Found(o) : Found(o)[i] = ring[k]
<1> DEFINE cursor == streams[o].cursor
           old == {k \in DOMAIN ring : ring[k].id <= cursor}
           first == FirstPast(cursor)
           ks == InOrder(Matching(o))
<1>1. /\ Len(ring) \in Nat /\ DOMAIN ring = 1..Len(ring)
      /\ \A k \in DOMAIN ring : ring[k] \in Event /\ ring[k].id \in Nat
  BY EventIds
<1>2. \A j, k \in 1..Len(ring) : j < k /\ k \in old => j \in old
  BY <1>1 DEF Ordered
<1>3. old = 1..Cardinality(old) /\ Cardinality(old) \in Nat
      /\ Cardinality(old) <= Len(ring)
  <2>1. old \subseteq 1..Len(ring)
    BY <1>1
  <2> HIDE DEF old
  <2> QED
    BY <1>1, <1>2, <2>1, DownwardClosed
<1>4. first = Cardinality(old) + 1
  BY DEF FirstPast
<1>5. /\ first \in Nat /\ first >= 1
      /\ \A k \in DOMAIN ring : k >= first <=> ring[k].id > cursor
  <2>1. first \in Nat /\ first >= 1
    BY <1>3, <1>4
  <2>2. \A k \in DOMAIN ring : k \in 1..Cardinality(old) <=> k < first
    BY <1>1, <1>3, <1>4
  <2>3. \A k \in DOMAIN ring : k \in old <=> ring[k].id <= cursor
    OBVIOUS
  <2> HIDE DEF first, old
  <2>4. \A k \in DOMAIN ring : k < first <=> ring[k].id <= cursor
    BY <1>3, <2>2, <2>3
  <2>5. \A k \in DOMAIN ring : (k >= first <=> ~(k < first)) /\ k \in Nat
    BY <1>1, <2>1
  <2> QED
    BY <1>1, <2>1, <2>4, <2>5
<1> HIDE DEF first
<1>6. /\ Matching(o) \subseteq 1..Len(ring)
      /\ \A k \in Matching(o) : k \in DOMAIN ring /\ ring[k].id > cursor
      /\ \A k \in DOMAIN ring : ring[k].id > cursor /\ eventMatchesFilter(ring[k], o)
           => k \in Matching(o)
  <2>1. Matching(o) = {k \in first..Len(ring) : eventMatchesFilter(ring[k], o)}
    BY DEF Matching, first
  <2> QED
    BY <1>1, <1>5, <2>1
<1>7. /\ ks \in Seq(Matching(o))
      /\ \A i, j \in DOMAIN ks : i < j => ks[i] < ks[j]
      /\ \A k \in Matching(o) : \E i \in DOMAIN ks : ks[i] = k
  BY <1>1, <1>6, InOrderSpec DEF Ascending
<1>8. Found(o) = [i \in DOMAIN ks |-> ring[ks[i]]]
  BY DEF Found
<1> HIDE DEF ks
<1>9. /\ Len(ks) \in Nat /\ DOMAIN ks = 1..Len(ks)
      /\ \A i \in DOMAIN ks : ks[i] \in Matching(o)
  BY <1>7, LenProperties, ElementOfSeq
<1>10. Found(o) \in Seq(Event)
  <2>1. Found(o) \in [1..Len(ks) -> Event]
    BY <1>1, <1>6, <1>8, <1>9
  <2> QED
    BY <1>9, <2>1, SeqDef
<1>11. \A i \in DOMAIN ks : ks[i] \in DOMAIN ring /\ ring[ks[i]].id > cursor
  BY <1>6, <1>9
<1>12. \A i, j \in DOMAIN ks : i < j => ring[ks[i]].id < ring[ks[j]].id
  BY <1>7, <1>11 DEF Ordered
<1>13. \A k \in DOMAIN ring :
         ring[k].id > cursor /\ eventMatchesFilter(ring[k], o) =>
           \E i \in DOMAIN ks : ring[ks[i]] = ring[k]
  BY <1>6, <1>7
<1> QED
  BY <1>8, <1>10, <1>11, <1>12, <1>13

(***************************************************************************)
(* Type correctness of the event stream                                    *)
(***************************************************************************)

\* The two halves of the type invariant.
InboxType ==
  /\ status \in [Agents -> {"none", "active", "expired"}]
  /\ rows \in [Agents -> Seq(Row)]
  /\ acked \in [Agents -> Nat]
  /\ got \in [Agents -> Nat]
  /\ notify \in [Agents -> Channels \cup {None}]
  /\ closed \subseteq Channels
  /\ polls \in [Pollers -> Poll]

ObserveType ==
  /\ ring \in Seq(Event)
  /\ nextObserveID \in 0..MaxObserveID
  /\ observeNotify \in 0..MaxObserveID
  /\ observeClosed \subseteq 0..MaxObserveID
  /\ streams \in [Observers -> Stream]
  /\ clients \in [Observers -> Client]
  /\ restarts \in 0..MaxRestarts

\* Steps of one connection of the event stream.
Streaming(o) ==
  \/ Connect(o) \/ Disconnect(o) \/ ObserveSince(o) \/ SendEvent(o)
  \/ WakeStream(o) \/ KeepAlive(o)

Publishes == \E name \in Names, size \in Sizes : publish(name, size)

\* The ways in which a step treats ring and connections.
LEMMA ObserveKinds ==
  ASSUME [StreamsNext]_streamsVars
  PROVE  \/ UNCHANGED <<observeVars, connections, restarts>>
         \/ Publishes
         \/ \E o \in Observers : Streaming(o)
         \/ RestartProcess
<1>1. CASE \E a \in Agents, size \in Sizes :
             \/ RegisterAgent(a, size)
             \/ ExpireAgent(a, size)
             \/ AcceptActive(a, size)
             \/ \E row \in {"queued", "held"} : AcceptQueued(a, row, size)
  BY <1>1, StreamsBounds
  DEF RegisterAgent, ExpireAgent, AcceptActive, AcceptQueued, Publishes
<1>2. CASE \E name \in Names, size \in Sizes : PublishOnly(name, size)
  BY <1>2 DEF PublishOnly, Publishes
<1>3. CASE \E a \in Agents : PruneAgent(a) \/ ReleaseQueued(a)
  BY <1>3 DEF PruneAgent, ReleaseQueued
<1>4. CASE \E p \in Pollers :
             \/ \E a \in Agents : \E cursor \in 0..got[a] : BeginPoll(p, a, cursor)
             \/ WakePoll(p)
             \/ \E arrives \in BOOLEAN :
                  ReadPoll(p, arrives) \/ TimeoutPoll(p, arrives)
  BY <1>4 DEF BeginPoll, TakeChannel, WakePoll, ReadPoll, TimeoutPoll
<1>5. CASE UNCHANGED streamsVars
  BY <1>5 DEF streamsVars
<1> QED
  BY <1>1, <1>2, <1>3, <1>4, <1>5 DEF StreamsNext, Streaming

\* The event of a publication, and what a publication does to the ring.
LEMMA PublishStep ==
  ASSUME ObserveType, Ordered(ring, nextObserveID), Publishes
  PROVE  /\ ring' \in Seq(Event)
         /\ nextObserveID \in Nat /\ nextObserveID' = nextObserveID + 1
         /\ nextObserveID + 1 <= MaxObserveID
         /\ Ordered(ring', nextObserveID + 1)
         /\ \A k \in DOMAIN ring' : \/ ring'[k].id > nextObserveID
                                    \/ \E j \in DOMAIN ring : ring'[k] = ring[j]
         /\ observeNotify' = nextObserveID + 1
         /\ observeClosed' = observeClosed \cup {observeNotify}
         /\ UNCHANGED <<streams, clients, restarts>>
<1>1. PICK name \in Names, size \in Sizes : publish(name, size)
  BY DEF Publishes
<1> DEFINE evt == [id |-> nextObserveID + 1, who |-> name, size |-> size]
<1>2. /\ nextObserveID \in Nat /\ nextObserveID' = nextObserveID + 1
      /\ nextObserveID + 1 <= MaxObserveID
      /\ ring' = trimObserve(Append(ring, evt))
      /\ observeNotify' = nextObserveID + 1
      /\ observeClosed' = observeClosed \cup {observeNotify}
      /\ UNCHANGED <<streams, clients, restarts>>
  BY <1>1, StreamsBounds DEF publish, signalObserve, connections, ObserveType
<1>3. evt \in Event /\ evt.id = nextObserveID + 1
  BY <1>2, StreamsBounds DEF Event
<1>4. ring \in Seq(Event)
  BY DEF ObserveType
<1> HIDE DEF evt
<1>5. /\ ring' \in Seq(Event)
      /\ Ordered(ring', nextObserveID + 1)
      /\ \A k \in DOMAIN ring' : ring'[k] = evt \/ \E j \in DOMAIN ring : ring'[k] = ring[j]
  BY <1>2, <1>3, <1>4, PublishRing
<1>6. \A k \in DOMAIN ring' : ring'[k] = evt => ring'[k].id > nextObserveID
  BY <1>2, <1>3
<1> QED
  BY <1>2, <1>5, <1>6

\* The connection and the client of one observer after a step of it.
LEMMA StreamingFrame ==
  ASSUME ObserveType, NEW o \in Observers, Streaming(o)
  PROVE  /\ UNCHANGED <<ring, nextObserveID, observeNotify, observeClosed, restarts>>
         /\ streams' = [streams EXCEPT ![o] = streams'[o]]
         /\ clients' = [clients EXCEPT ![o] = clients'[o]]
<1>1. UNCHANGED <<ring, nextObserveID, observeNotify, observeClosed, restarts>>
  BY DEF Streaming, Connect, Disconnect, ObserveSince, SendEvent, WakeStream,
         KeepAlive, Reread, SetStream, observeVars
<1>2. streams \in [Observers -> Stream] /\ clients \in [Observers -> Client]
  BY DEF ObserveType
<1>3. \E s : streams' = [streams EXCEPT ![o] = s]
  BY DEF Streaming, Connect, Disconnect, ObserveSince, SendEvent, WakeStream,
         KeepAlive, Reread, SetStream
<1>4. \E c : clients' = [clients EXCEPT ![o] = c]
  <2>1. CASE Connect(o)
    BY <2>1 DEF Connect
  <2>2. CASE SendEvent(o)
    BY <2>2 DEF SendEvent
  <2>3. CASE clients' = clients
    <3>1. clients' = [clients EXCEPT ![o] = clients[o]]
      BY <1>2, <2>3
    <3> QED
      BY <3>1
  <2> QED
    BY <2>1, <2>2, <2>3
    DEF Streaming, Disconnect, ObserveSince, WakeStream, KeepAlive, Reread, SetStream
<1> QED
  BY <1>1, <1>2, <1>3, <1>4

(***************************************************************************)
(* What an observer has received                                           *)
(***************************************************************************)
Received(id, seen) == \E j \in DOMAIN seen : seen[j] = id

\* Everything of the observer's filter that the ring has up to an id.
Complete(o, R, seen, upto) ==
  \A k \in DOMAIN R :
    R[k].id <= upto /\ eventMatchesFilter(R[k], o) => Received(R[k].id, seen)

(* A client of this epoch may come back with the last id it has seen:      *)
(* nothing below it is missing.                                            *)
Resumable(o, c, R, n) ==
  ~c.stale => \A j \in DOMAIN c.seen :
                c.seen[j] <= n /\ Complete(o, R, c.seen, c.seen[j])

\* The cursor of a connection passes nothing that the client has not got.
Reading(o, s, c, R, n) ==
  s.pc # "closed" =>
    /\ ~c.stale
    /\ s.cursor <= n
    /\ Complete(o, R, c.seen, s.cursor)
    /\ s.pc # "send" => \A j \in DOMAIN c.seen : c.seen[j] <= s.cursor

(* The rest of a batch comes after all the client has, and with it up to   *)
(* the last event of the batch nothing is missing.                         *)
Sending(o, s, c, R, n) ==
  s.pc = "send" =>
    /\ s.batch # << >>
    /\ Ordered(s.batch, n)
    /\ \A i \in DOMAIN s.batch, j \in DOMAIN c.seen : c.seen[j] < s.batch[i].id
    /\ \A k \in DOMAIN R : eventMatchesFilter(R[k], o) =>
         \/ Received(R[k].id, c.seen)
         \/ \E i \in DOMAIN s.batch : s.batch[i].id = R[k].id
         \/ \A i \in DOMAIN s.batch : s.batch[i].id < R[k].id

Follows(o, s, c, R, n) ==
  /\ Ascending(c.seen)
  /\ Resumable(o, c, R, n)
  /\ Reading(o, s, c, R, n)
  /\ Sending(o, s, c, R, n)

(* The inductive invariant of the event stream.  What the observers must   *)
(* not miss or get twice says nothing of a broken connection's client nor  *)
(* of a batch that is half sent, which decide what comes next.             *)
ObserveInv ==
  /\ Ordered(ring, nextObserveID)
  /\ \A o \in Observers : Follows(o, streams[o], clients[o], ring, nextObserveID)

\* The types that the argument computes with.
LEMMA ObserverTypes ==
  ASSUME ObserveType, NEW o \in Observers
  PROVE  /\ streams[o] \in Stream /\ clients[o] \in Client
         /\ streams[o].cursor \in Nat /\ streams[o].batch \in Seq(Event)
         /\ clients[o].seen \in Seq(Nat)
         /\ Len(clients[o].seen) \in Nat
         /\ DOMAIN clients[o].seen = 1..Len(clients[o].seen)
         /\ \A j \in DOMAIN clients[o].seen : clients[o].seen[j] \in Nat
         /\ nextObserveID \in Nat /\ ring \in Seq(Event)
<1>1. /\ streams[o] \in Stream /\ clients[o] \in Client
      /\ streams[o].cursor \in Nat /\ streams[o].batch \in Seq(Event)
      /\ clients[o].seen \in Seq(Nat)
      /\ nextObserveID \in Nat /\ ring \in Seq(Event)
  BY StreamsBounds DEF ObserveType, Stream, Client
<1> QED
  BY <1>1, LenProperties, ElementOfSeq

\* A publication may evict events and adds only a newer one.
LEMMA PublishFollows ==
  ASSUME ObserveType, NEW o \in Observers, NEW R \in Seq(Event),
         Follows(o, streams[o], clients[o], ring, nextObserveID),
         \A k \in DOMAIN R : R[k].id > nextObserveID \/ \E j \in DOMAIN ring : R[k] = ring[j]
  PROVE  Follows(o, streams[o], clients[o], R, nextObserveID + 1)
<1> DEFINE s == streams[o]
           c == clients[o]
           n == nextObserveID
<1>1. /\ s.cursor \in Nat /\ s.batch \in Seq(Event)
      /\ \A j \in DOMAIN c.seen : c.seen[j] \in Nat
      /\ n \in Nat
  BY ObserverTypes
<1>2. \A k \in DOMAIN R : R[k].id \in Nat
  BY EventIds
<1>3. \A i \in DOMAIN s.batch : s.batch[i].id \in Nat
  BY <1>1, EventIds
<1> HIDE DEF s, c, n
<1>4. Follows(o, s, c, ring, n)
  BY DEF s, c, n
<1>5. \A k \in DOMAIN R : R[k].id > n \/ \E j \in DOMAIN ring : R[k] = ring[j]
  BY DEF n
<1>6. ASSUME NEW upto \in Nat, upto <= n, Complete(o, ring, c.seen, upto)
      PROVE  Complete(o, R, c.seen, upto)
  BY <1>1, <1>2, <1>5, <1>6 DEF Complete
<1>7. Resumable(o, c, R, n + 1)
  BY <1>1, <1>4, <1>6 DEF Follows, Resumable
<1>8. Reading(o, s, c, R, n + 1)
  BY <1>1, <1>4, <1>6 DEF Follows, Reading
<1>9. Sending(o, s, c, R, n + 1)
  <2> SUFFICES ASSUME s.pc = "send"
               PROVE  /\ s.batch # << >>
                      /\ Ordered(s.batch, n + 1)
                      /\ \A i \in DOMAIN s.batch, j \in DOMAIN c.seen :
                           c.seen[j] < s.batch[i].id
                      /\ \A k \in DOMAIN R : eventMatchesFilter(R[k], o) =>
                           \/ Received(R[k].id, c.seen)
                           \/ \E i \in DOMAIN s.batch : s.batch[i].id = R[k].id
                           \/ \A i \in DOMAIN s.batch : s.batch[i].id < R[k].id
    BY DEF Sending
  <2>1. /\ s.batch # << >>
        /\ Ordered(s.batch, n)
        /\ \A i \in DOMAIN s.batch, j \in DOMAIN c.seen : c.seen[j] < s.batch[i].id
        /\ \A k \in DOMAIN ring : eventMatchesFilter(ring[k], o) =>
             \/ Received(ring[k].id, c.seen)
             \/ \E i \in DOMAIN s.batch : s.batch[i].id = ring[k].id
             \/ \A i \in DOMAIN s.batch : s.batch[i].id < ring[k].id
    BY <1>4 DEF Follows, Sending
  <2>2. Ordered(s.batch, n + 1)
    BY <1>1, <1>3, <2>1 DEF Ordered
  <2>3. \A k \in DOMAIN R : R[k].id > n =>
          \A i \in DOMAIN s.batch : s.batch[i].id < R[k].id
    BY <1>1, <1>2, <1>3, <2>1 DEF Ordered
  <2> QED
    BY <1>5, <2>1, <2>2, <2>3
<1>10. Ascending(c.seen)
  BY <1>4 DEF Follows
<1>11. Follows(o, s, c, R, n + 1)
  BY <1>7, <1>8, <1>9, <1>10 DEF Follows
<1> QED
  BY <1>11 DEF s, c, n

\* A client that comes back resumes where nothing is missing.
LEMMA ConnectFollows ==
  ASSUME ObserveType, ObserveInv, NEW o \in Observers, Connect(o)
  PROVE  Follows(o, streams'[o], clients'[o], ring, nextObserveID)
<1> DEFINE c == clients[o]
           cursor == IF c.stale THEN 0 ELSE LastSeen(o)
           seen == IF c.stale THEN << >> ELSE c.seen
<1>1. /\ clients[o] \in Client /\ c.seen \in Seq(Nat)
      /\ Len(c.seen) \in Nat /\ DOMAIN c.seen = 1..Len(c.seen)
      /\ \A j \in DOMAIN c.seen : c.seen[j] \in Nat
      /\ nextObserveID \in Nat
      /\ streams \in [Observers -> Stream] /\ clients \in [Observers -> Client]
  BY ObserverTypes DEF ObserveType
<1>2. /\ streams'[o].pc = "read" /\ streams'[o].cursor = cursor
      /\ clients'[o].stale = FALSE /\ clients'[o].seen = seen
  BY <1>1 DEF Connect, Client
<1>3. \A k \in DOMAIN ring : ring[k].id \in Nat /\ ring[k].id >= 1
  BY EventIds DEF ObserveType
<1>4. Ascending(c.seen) /\ Resumable(o, c, ring, nextObserveID)
  BY DEF ObserveInv, Follows
<1>5. CASE c.stale \/ c.seen = << >>
  <2>1. cursor = 0 /\ seen = << >>
    BY <1>5 DEF LastSeen
  <2> HIDE DEF cursor, seen
  <2>2. Complete(o, ring, << >>, 0)
    BY <1>3 DEF Complete
  <2> QED
    BY <1>1, <1>2, <2>1, <2>2
    DEF Follows, Ascending, Resumable, Reading, Sending
<1>6. CASE ~c.stale /\ c.seen # << >>
  <2>1. cursor = c.seen[Len(c.seen)] /\ seen = c.seen
    BY <1>6 DEF LastSeen
  <2>2. Len(c.seen) \in DOMAIN c.seen
    BY <1>1, <1>6, EmptySeq
  <2>3. \A j \in DOMAIN c.seen : c.seen[j] <= cursor
    <3> TAKE j \in DOMAIN c.seen
    <3>1. j = Len(c.seen) \/ j < Len(c.seen)
      BY <1>1
    <3> QED
      BY <1>1, <1>4, <2>1, <2>2, <3>1 DEF Ascending
  <2>4. cursor <= nextObserveID /\ Complete(o, ring, c.seen, cursor)
    BY <1>4, <1>6, <2>1, <2>2 DEF Resumable
  <2> HIDE DEF cursor, seen
  <2> QED
    BY <1>2, <1>4, <1>6, <2>1, <2>3, <2>4
    DEF Follows, Resumable, Reading, Sending
<1> QED
  BY <1>5, <1>6

\* A pass over the ring puts all that is past the cursor into the batch.
LEMMA ObserveFollows ==
  ASSUME ObserveType, ObserveInv, NEW o \in Observers, ObserveSince(o)
  PROVE  Follows(o, streams'[o], clients'[o], ring, nextObserveID)
<1> DEFINE s == streams[o]
           c == clients[o]
           batch == Found(o)
<1>1. /\ s \in Stream /\ s.cursor \in Nat
      /\ \A j \in DOMAIN c.seen : c.seen[j] \in Nat
      /\ nextObserveID \in Nat /\ ring \in Seq(Event)
      /\ streams \in [Observers -> Stream]
  BY ObserverTypes DEF ObserveType
<1>2. s.pc = "read" /\ clients' = clients
  BY DEF ObserveSince, SetStream
<1>3. Follows(o, s, c, ring, nextObserveID)
  BY DEF ObserveInv
<1>4. /\ streams'[o].cursor = s.cursor
      /\ \/ batch = << >> /\ streams'[o].pc = "waiting"
         \/ batch # << >> /\ streams'[o].pc = "send" /\ streams'[o].batch = batch
  BY <1>1 DEF ObserveSince, SetStream, Stream
<1>5. /\ batch \in Seq(Event)
      /\ \A i, j \in DOMAIN batch : i < j => batch[i].id < batch[j].id
      /\ \A i \in DOMAIN batch :
           batch[i].id > s.cursor /\ \E k \in DOMAIN ring : batch[i] = ring[k]
      /\ \A k \in DOMAIN ring :
           ring[k].id > s.cursor /\ eventMatchesFilter(ring[k], o) =>
             \E i \in DOMAIN batch : batch[i] = ring[k]
  BY <1>1, FoundSpec DEF ObserveInv
<1>6. \A k \in DOMAIN ring : ring[k].id \in Nat
  BY <1>1, EventIds
<1> HIDE DEF batch
<1>7. /\ ~c.stale /\ s.cursor <= nextObserveID
      /\ Complete(o, ring, c.seen, s.cursor)
      /\ \A j \in DOMAIN c.seen : c.seen[j] <= s.cursor
  BY <1>2, <1>3 DEF Follows, Reading
<1>8. Reading(o, streams'[o], c, ring, nextObserveID)
  BY <1>4, <1>7 DEF Reading
<1>9. Sending(o, streams'[o], c, ring, nextObserveID)
  <2>1. Ordered(batch, nextObserveID)
    BY <1>5 DEF Ordered, ObserveInv
  <2>2. \A i \in DOMAIN batch, j \in DOMAIN c.seen : c.seen[j] < batch[i].id
    BY <1>1, <1>5, <1>6, <1>7
  <2>3. \A k \in DOMAIN ring : eventMatchesFilter(ring[k], o) =>
          Received(ring[k].id, c.seen) \/ \E i \in DOMAIN batch : batch[i].id = ring[k].id
    <3> TAKE k \in DOMAIN ring
    <3>1. CASE ring[k].id <= s.cursor
      BY <1>7, <3>1 DEF Complete
    <3>2. CASE ring[k].id > s.cursor
      BY <1>5, <3>2
    <3> QED
      BY <1>1, <1>6, <3>1, <3>2
  <2> QED
    BY <1>4, <2>1, <2>2, <2>3 DEF Sending
<1> QED
  BY <1>2, <1>3, <1>8, <1>9 DEF Follows

\* A woken stream reads again from its cursor; a lost one leaves its client.
LEMMA RereadFollows ==
  ASSUME ObserveType, ObserveInv, NEW o \in Observers,
         WakeStream(o) \/ KeepAlive(o) \/ Disconnect(o)
  PROVE  Follows(o, streams'[o], clients'[o], ring, nextObserveID)
<1> DEFINE s == streams[o]
           c == clients[o]
<1>1. s \in Stream /\ streams \in [Observers -> Stream]
  BY ObserverTypes DEF ObserveType
<1>2. Follows(o, s, c, ring, nextObserveID)
  BY DEF ObserveInv
<1>3. clients' = clients
  BY DEF WakeStream, KeepAlive, Disconnect, Reread, SetStream
<1>4. CASE Disconnect(o)
  <2>1. streams'[o].pc = "closed"
    BY <1>1, <1>4 DEF Disconnect, SetStream, ClosedStream
  <2> QED
    BY <1>2, <1>3, <2>1 DEF Follows, Reading, Sending
<1>5. CASE WakeStream(o) \/ KeepAlive(o)
  <2>1. s.pc = "waiting" /\ streams' = [streams EXCEPT
                              ![o] = [streams[o] EXCEPT !.pc = "read", !.chan = 0]]
    BY <1>5 DEF WakeStream, KeepAlive, Reread, SetStream
  <2>2. streams'[o].pc = "read" /\ streams'[o].cursor = s.cursor
    BY <1>1, <2>1 DEF Stream
  <2> QED
    BY <1>2, <1>3, <2>1, <2>2 DEF Follows, Reading, Sending
<1> QED
  BY <1>4, <1>5

\* The next event of the batch reaches the client.
LEMMA SendFollows ==
  ASSUME ObserveType, ObserveInv, NEW o \in Observers, SendEvent(o)
  PROVE  Follows(o, streams'[o], clients'[o], ring, nextObserveID)
<1> DEFINE s == streams[o]
           c == clients[o]
           batch == s.batch
           id == Head(batch).id
           seen == Append(c.seen, id)
           n == nextObserveID
<1>1. /\ s \in Stream /\ c \in Client
      /\ s.cursor \in Nat /\ batch \in Seq(Event)
      /\ c.seen \in Seq(Nat) /\ Len(c.seen) \in Nat
      /\ DOMAIN c.seen = 1..Len(c.seen)
      /\ \A j \in DOMAIN c.seen : c.seen[j] \in Nat
      /\ n \in Nat /\ ring \in Seq(Event)
      /\ streams \in [Observers -> Stream] /\ clients \in [Observers -> Client]
  BY ObserverTypes DEF ObserveType
<1>2. s.pc = "send" /\ Follows(o, s, c, ring, n)
  BY DEF SendEvent, ObserveInv
<1>3. /\ batch # << >> /\ Ordered(batch, n)
      /\ \A i \in DOMAIN batch, j \in DOMAIN c.seen : c.seen[j] < batch[i].id
      /\ \A k \in DOMAIN ring : eventMatchesFilter(ring[k], o) =>
           \/ Received(ring[k].id, c.seen)
           \/ \E i \in DOMAIN batch : batch[i].id = ring[k].id
           \/ \A i \in DOMAIN batch : batch[i].id < ring[k].id
  BY <1>2 DEF Follows, Sending
<1>4. /\ ~c.stale /\ s.cursor <= n /\ Complete(o, ring, c.seen, s.cursor)
      /\ Ascending(c.seen)
      /\ \A j \in DOMAIN c.seen : c.seen[j] <= n /\ Complete(o, ring, c.seen, c.seen[j])
  BY <1>2 DEF Follows, Reading, Resumable
<1>5. /\ Len(batch) \in Nat /\ DOMAIN batch = 1..Len(batch)
      /\ \A i \in DOMAIN batch : batch[i].id \in Nat
      /\ \A k \in DOMAIN ring : ring[k].id \in Nat
  BY <1>1, EventIds
<1>6. Len(batch) >= 1 /\ 1 \in DOMAIN batch /\ id = batch[1].id
  BY <1>1, <1>3, <1>5, EmptySeq
<1>7. /\ id \in Nat /\ id <= n /\ \A i \in DOMAIN batch : i = 1 \/ id < batch[i].id
  BY <1>3, <1>5, <1>6 DEF Ordered
<1>8. clients'[o].seen = seen /\ clients'[o].stale = c.stale
  BY <1>1 DEF SendEvent, Client
<1>9. streams'[o] = IF Len(batch) > 1 THEN [s EXCEPT !.batch = Tail(batch)]
                    ELSE [s EXCEPT !.pc = "read", !.batch = << >>,
                                   !.cursor = CursorAfter(batch)]
  BY <1>1 DEF SendEvent
<1> HIDE DEF id
<1>10. /\ DOMAIN seen = 1..Len(c.seen) + 1
       /\ \A j \in DOMAIN c.seen : j \in DOMAIN seen /\ seen[j] = c.seen[j]
       /\ seen[Len(c.seen) + 1] = id
       /\ Len(c.seen) + 1 \in DOMAIN seen
       /\ \A j \in DOMAIN seen : j \in DOMAIN c.seen \/ j = Len(c.seen) + 1
  BY <1>1, <1>7, AppendProperties, LenProperties
<1> HIDE DEF seen
<1>11. Ascending(seen)
  <2> SUFFICES ASSUME NEW i \in DOMAIN seen, NEW j \in DOMAIN seen, i < j
               PROVE  seen[i] < seen[j]
    BY DEF Ascending
  <2>1. i \in DOMAIN c.seen
    BY <1>1, <1>10
  <2>2. CASE j \in DOMAIN c.seen
    BY <1>4, <1>10, <2>1, <2>2 DEF Ascending
  <2>3. CASE j = Len(c.seen) + 1
    BY <1>3, <1>6, <1>10, <2>1, <2>3
  <2> QED
    BY <1>10, <2>2, <2>3
<1>12. \A x : Received(x, c.seen) \/ x = id => Received(x, seen)
  BY <1>10 DEF Received
<1>13. Complete(o, ring, seen, id)
  <2> SUFFICES ASSUME NEW k \in DOMAIN ring, ring[k].id <= id,
                      eventMatchesFilter(ring[k], o)
               PROVE  Received(ring[k].id, seen)
    BY DEF Complete
  <2>1. CASE Received(ring[k].id, c.seen)
    BY <1>12, <2>1
  <2>2. CASE \E i \in DOMAIN batch : batch[i].id = ring[k].id
    <3>1. PICK i \in DOMAIN batch : batch[i].id = ring[k].id
      BY <2>2
    <3>2. ring[k].id = id
      BY <1>5, <1>6, <1>7, <3>1
    <3> QED
      BY <1>12, <3>2
  <2>3. CASE \A i \in DOMAIN batch : batch[i].id < ring[k].id
    BY <1>5, <1>6, <1>7, <2>3
  <2> QED
    BY <1>3, <2>1, <2>2, <2>3
<1>14. \A upto : Complete(o, ring, c.seen, upto) => Complete(o, ring, seen, upto)
  BY <1>12 DEF Complete
<1>15. Resumable(o, clients'[o], ring, n)
  BY <1>4, <1>7, <1>8, <1>10, <1>13, <1>14 DEF Resumable
<1>16. Reading(o, streams'[o], clients'[o], ring, n)
       /\ Sending(o, streams'[o], clients'[o], ring, n)
  <2>1. CASE Len(batch) > 1
    <3> DEFINE rest == Tail(batch)
    <3>1. /\ streams'[o].pc = "send" /\ streams'[o].cursor = s.cursor
          /\ streams'[o].batch = rest
      BY <1>1, <1>2, <1>9, <2>1 DEF Stream
    <3>2. /\ rest \in Seq(Event) /\ Len(rest) = Len(batch) - 1
          /\ \A i \in 1..Len(rest) : rest[i] = batch[i + 1]
      BY <1>1, <1>3, HeadTailProperties
    <3>3. DOMAIN rest = 1..Len(batch) - 1
      BY <3>2, LenProperties
    <3> HIDE DEF rest
    <3>4. /\ \A i \in DOMAIN rest : i + 1 \in DOMAIN batch /\ rest[i] = batch[i + 1]
          /\ \A i \in DOMAIN batch : i = 1 \/ (i - 1 \in DOMAIN rest /\ rest[i - 1] = batch[i])
          /\ 1 \in DOMAIN rest /\ DOMAIN rest \subseteq Nat
      BY <1>5, <2>1, <3>2, <3>3
    <3>5. rest # << >>
      BY <3>4
    <3>6. Ordered(rest, n)
      BY <1>3, <3>4 DEF Ordered
    <3>7. \A i \in DOMAIN rest : id < rest[i].id
      <4>1. \A i \in DOMAIN rest : i + 1 # 1
        BY <1>5, <3>3
      <4> QED
        BY <1>7, <3>4, <4>1
    <3>8. \A i \in DOMAIN rest, j \in DOMAIN seen : seen[j] < rest[i].id
      BY <1>3, <1>10, <3>4, <3>7
    <3>9. ASSUME NEW k \in DOMAIN ring, eventMatchesFilter(ring[k], o)
          PROVE  \/ Received(ring[k].id, seen)
                 \/ \E i \in DOMAIN rest : rest[i].id = ring[k].id
                 \/ \A i \in DOMAIN rest : rest[i].id < ring[k].id
      <4>1. CASE Received(ring[k].id, c.seen)
        BY <1>12, <4>1
      <4>2. CASE \E i \in DOMAIN batch : batch[i].id = ring[k].id
        BY <1>6, <1>12, <3>4, <4>2
      <4>3. CASE \A i \in DOMAIN batch : batch[i].id < ring[k].id
        BY <3>4, <4>3
      <4> QED
        BY <1>3, <3>9, <4>1, <4>2, <4>3
    <3>10. Sending(o, streams'[o], clients'[o], ring, n)
      BY <1>8, <3>1, <3>5, <3>6, <3>8, <3>9 DEF Sending
    <3>11. Reading(o, streams'[o], clients'[o], ring, n)
      BY <1>4, <1>8, <1>14, <3>1 DEF Reading
    <3> QED
      BY <3>10, <3>11
  <2>2. CASE ~(Len(batch) > 1)
    <3>1. CursorAfter(batch) = id
      BY <1>5, <1>6, <2>2 DEF CursorAfter
    <3>2. streams'[o].pc = "read" /\ streams'[o].cursor = id
      BY <1>1, <1>9, <2>2, <3>1 DEF Stream
    <3>3. \A j \in DOMAIN seen : seen[j] <= id
      <4>1. \A j \in DOMAIN c.seen : c.seen[j] < id
        BY <1>3, <1>6
      <4>2. \A j \in DOMAIN c.seen : c.seen[j] <= id
        BY <1>1, <1>7, <4>1
      <4> QED
        BY <1>7, <1>10, <4>2
    <3> QED
      BY <1>4, <1>7, <1>8, <1>13, <3>2, <3>3 DEF Reading, Sending
  <2> QED
    BY <2>1, <2>2
<1> QED
  BY <1>8, <1>11, <1>15, <1>16 DEF Follows

\* Every step preserves the invariant of the event stream.
LEMMA NextObserve ==
  ASSUME ObserveType, ObserveInv, [StreamsNext]_streamsVars
  PROVE  ObserveInv'
<1>1. CASE UNCHANGED <<observeVars, connections, restarts>>
  BY <1>1 DEF observeVars, connections, ObserveInv
<1>2. CASE Publishes
  <2>1. /\ ring' \in Seq(Event)
        /\ nextObserveID' = nextObserveID + 1
        /\ Ordered(ring', nextObserveID + 1)
        /\ \A k \in DOMAIN ring' : \/ ring'[k].id > nextObserveID
                                   \/ \E j \in DOMAIN ring : ring'[k] = ring[j]
        /\ streams' = streams /\ clients' = clients
    BY <1>2, PublishStep DEF ObserveInv
  <2>2. ASSUME NEW o \in Observers
        PROVE  Follows(o, streams[o], clients[o], ring', nextObserveID + 1)
    BY <2>1, PublishFollows DEF ObserveInv
  <2> QED
    BY <2>1, <2>2 DEF ObserveInv
<1>3. CASE \E o \in Observers : Streaming(o)
  <2>1. PICK o \in Observers : Streaming(o)
    BY <1>3
  <2>2. /\ ring' = ring /\ nextObserveID' = nextObserveID
        /\ streams' = [streams EXCEPT ![o] = streams'[o]]
        /\ clients' = [clients EXCEPT ![o] = clients'[o]]
    BY <2>1, StreamingFrame
  <2>3. Follows(o, streams'[o], clients'[o], ring, nextObserveID)
    BY <2>1, ConnectFollows, ObserveFollows, RereadFollows, SendFollows DEF Streaming
  <2>4. ASSUME NEW q \in Observers
        PROVE  Follows(q, streams'[q], clients'[q], ring, nextObserveID)
    <3>1. CASE q = o
      BY <2>3, <3>1
    <3>2. CASE q # o
      <4>1. streams'[q] = streams[q] /\ clients'[q] = clients[q]
        BY <2>2, <3>2 DEF ObserveType
      <4> QED
        BY <4>1 DEF ObserveInv
    <3> QED
      BY <3>1, <3>2
  <2> QED
    BY <2>2, <2>4 DEF ObserveInv
<1>4. CASE RestartProcess
  <2>1. ring' = << >> /\ nextObserveID' = 0
    BY <1>4 DEF RestartProcess
  <2>2. ASSUME NEW o \in Observers
        PROVE  Follows(o, streams'[o], clients'[o], << >>, 0)
    <3>1. clients[o] \in Client
      BY ObserverTypes
    <3>2. /\ streams'[o].pc = "closed"
          /\ clients'[o].stale = TRUE /\ clients'[o].seen = clients[o].seen
      BY <1>4, <3>1 DEF RestartProcess, ClosedStream, Client
    <3>3. Ascending(clients[o].seen)
      BY DEF ObserveInv, Follows
    <3> QED
      BY <3>2, <3>3 DEF Follows, Resumable, Reading, Sending
  <2>3. Ordered(<< >>, 0)
    BY DEF Ordered
  <2> QED
    BY <2>1, <2>2, <2>3 DEF ObserveInv
<1> QED
  BY <1>1, <1>2, <1>3, <1>4, ObserveKinds

\* The connections and clients stay well typed.
LEMMA NextObserveType ==
  ASSUME ObserveType, ObserveInv, [StreamsNext]_streamsVars
  PROVE  ObserveType'
<1>1. CASE UNCHANGED <<observeVars, connections, restarts>>
  BY <1>1 DEF observeVars, connections, ObserveType
<1>2. CASE Publishes
  <2>1. /\ ring' \in Seq(Event)
        /\ nextObserveID \in Nat /\ nextObserveID' = nextObserveID + 1
        /\ nextObserveID + 1 <= MaxObserveID
        /\ observeNotify' = nextObserveID + 1
        /\ observeClosed' = observeClosed \cup {observeNotify}
        /\ UNCHANGED <<streams, clients, restarts>>
    BY <1>2, PublishStep DEF ObserveInv
  <2>2. nextObserveID + 1 \in 0..MaxObserveID
    BY <2>1, StreamsBounds
  <2> QED
    BY <2>1, <2>2 DEF ObserveType
<1>3. CASE \E o \in Observers : Streaming(o)
  <2>1. PICK o \in Observers : Streaming(o)
    BY <1>3
  <2> DEFINE s == streams[o]
             c == clients[o]
  <2>2. /\ UNCHANGED <<ring, nextObserveID, observeNotify, observeClosed, restarts>>
        /\ streams' = [streams EXCEPT ![o] = streams'[o]]
        /\ clients' = [clients EXCEPT ![o] = clients'[o]]
    BY <2>1, StreamingFrame
  <2>3. /\ s \in Stream /\ c \in Client /\ s.batch \in Seq(Event)
        /\ c.seen \in Seq(Nat) /\ s.cursor \in Nat
        /\ Len(c.seen) \in Nat /\ DOMAIN c.seen = 1..Len(c.seen)
        /\ \A j \in DOMAIN c.seen : c.seen[j] \in Nat
        /\ streams \in [Observers -> Stream] /\ clients \in [Observers -> Client]
        /\ observeNotify \in 0..MaxObserveID /\ 0 \in 0..MaxObserveID
    BY ObserverTypes, StreamsBounds DEF ObserveType
  <2>4. streams'[o] \in Stream /\ clients'[o] \in Client
    <3>1. CASE Connect(o)
      <4>1. LastSeen(o) \in Nat
        BY <2>3, EmptySeq DEF LastSeen
      <4>2. << >> \in Seq(Event) /\ << >> \in Seq(Nat)
        BY EmptySeq
      <4> DEFINE new == [pc |-> "read",
                         cursor |-> IF c.stale THEN 0 ELSE LastSeen(o),
                         batch |-> << >>, chan |-> 0]
      <4>3. new \in Stream
        BY <2>3, <4>1, <4>2 DEF Stream
      <4>4. streams'[o] = new
        BY <2>3, <3>1 DEF Connect
      <4>5. clients'[o] = [c EXCEPT !.stale = FALSE,
                                    !.seen = IF c.stale THEN << >> ELSE c.seen]
        BY <2>3, <3>1 DEF Connect
      <4>6. clients'[o] \in Client
        BY <2>3, <4>2, <4>5 DEF Client
      <4> QED
        BY <4>3, <4>4, <4>6
    <3>2. CASE Disconnect(o)
      <4>1. ClosedStream \in Stream
        BY <2>3, EmptySeq DEF ClosedStream, Stream
      <4> QED
        BY <2>3, <3>2, <4>1 DEF Disconnect, SetStream
    <3>3. CASE ObserveSince(o)
      <4>1. Found(o) \in Seq(Event)
        BY <2>3, FoundSpec DEF ObserveInv, ObserveType
      <4>2. /\ clients' = clients
            /\ streams'[o] = IF Found(o) # << >>
                             THEN [s EXCEPT !.pc = "send", !.batch = Found(o)]
                             ELSE [s EXCEPT !.pc = "waiting", !.chan = observeNotify]
        BY <2>3, <3>3 DEF ObserveSince, SetStream
      <4>3. /\ [s EXCEPT !.pc = "send", !.batch = Found(o)] \in Stream
            /\ [s EXCEPT !.pc = "waiting", !.chan = observeNotify] \in Stream
        BY <2>3, <4>1 DEF Stream
      <4> QED
        BY <2>3, <4>2, <4>3
    <3>4. CASE WakeStream(o) \/ KeepAlive(o)
      <4>1. /\ clients' = clients
            /\ streams'[o] = [s EXCEPT !.pc = "read", !.chan = 0]
        BY <2>3, <3>4 DEF WakeStream, KeepAlive, Reread, SetStream
      <4> QED
        BY <2>3, <4>1 DEF Stream
    <3>5. CASE SendEvent(o)
      <4> DEFINE batch == s.batch
      <4>1. batch # << >>
        BY <3>5 DEF SendEvent, ObserveInv, Follows, Sending
      <4>2. /\ Len(batch) \in Nat /\ DOMAIN batch = 1..Len(batch)
            /\ \A i \in DOMAIN batch : batch[i].id \in Nat
        BY <2>3, EventIds
      <4>3. Head(batch).id \in Nat /\ CursorAfter(batch) \in Nat
            /\ Tail(batch) \in Seq(Event)
        <5>1. 1 \in DOMAIN batch /\ Len(batch) \in DOMAIN batch
          BY <2>3, <4>1, <4>2, EmptySeq
        <5> QED
          BY <2>3, <4>1, <4>2, <5>1, HeadTailProperties DEF CursorAfter
      <4>4. clients'[o] = [c EXCEPT !.seen = Append(c.seen, Head(batch).id)]
        BY <2>3, <3>5 DEF SendEvent
      <4>5. clients'[o] \in Client
        <5>1. Append(c.seen, Head(batch).id) \in Seq(Nat)
          BY <2>3, <4>3, AppendProperties
        <5> QED
          BY <2>3, <4>4, <5>1 DEF Client
      <4>6. streams'[o] = IF Len(batch) > 1 THEN [s EXCEPT !.batch = Tail(batch)]
                          ELSE [s EXCEPT !.pc = "read", !.batch = << >>,
                                         !.cursor = CursorAfter(batch)]
        BY <2>3, <3>5 DEF SendEvent
      <4>7. /\ [s EXCEPT !.batch = Tail(batch)] \in Stream
            /\ [s EXCEPT !.pc = "read", !.batch = << >>,
                         !.cursor = CursorAfter(batch)] \in Stream
        BY <2>3, <4>3, EmptySeq DEF Stream
      <4> QED
        BY <4>5, <4>6, <4>7
    <3> QED
      BY <2>1, <3>1, <3>2, <3>3, <3>4, <3>5 DEF Streaming
  <2> QED
    BY <2>2, <2>3, <2>4 DEF ObserveType
<1>4. CASE RestartProcess
  <2>1. ClosedStream \in Stream
    BY EmptySeq, StreamsBounds DEF ClosedStream, Stream
  <2>2. \A o \in Observers : [clients[o] EXCEPT !.stale = TRUE] \in Client
    BY DEF ObserveType, Client
  <2>3. restarts' \in 0..MaxRestarts
    BY <1>4, StreamsBounds DEF RestartProcess, ObserveType
  <2> QED
    BY <1>4, <2>1, <2>2, <2>3, EmptySeq, StreamsBounds DEF RestartProcess, ObserveType
<1> QED
  BY <1>1, <1>2, <1>3, <1>4, ObserveKinds

(***************************************************************************)
(* Observers are woken                                                     *)
(***************************************************************************)

\* A waiting connection holds the channel that the next publication closes.
LEMMA NextObserversWoken ==
  ASSUME ObserveType, ObserversAreWoken, [StreamsNext]_streamsVars
  PROVE  ObserversAreWoken'
<1>0. ASSUME NEW q \in Observers, ring' = ring,
             streams'[q].cursor = streams[q].cursor
      PROVE  Found(q)' = Found(q)
  BY <1>0 DEF Found, Matching, FirstPast, eventMatchesFilter
<1>1. CASE UNCHANGED <<observeVars, connections, restarts>>
  <2>1. UNCHANGED <<ring, observeNotify, observeClosed, streams>>
    BY <1>1 DEF observeVars, connections
  <2>2. \A q \in Observers : Found(q)' = Found(q)
    BY <1>0, <2>1
  <2> QED
    BY <2>1, <2>2 DEF ObserversAreWoken
<1>2. CASE Publishes
  <2>1. /\ observeClosed' = observeClosed \cup {observeNotify} /\ streams' = streams
    BY <1>2 DEF Publishes, publish, signalObserve, connections
  <2> QED
    BY <2>1 DEF ObserversAreWoken
<1>3. CASE \E o \in Observers : Streaming(o)
  <2>1. PICK o \in Observers : Streaming(o)
    BY <1>3
  <2>2. /\ UNCHANGED <<ring, observeNotify, observeClosed>>
        /\ streams' = [streams EXCEPT ![o] = streams'[o]]
        /\ streams \in [Observers -> Stream]
    BY <2>1, StreamingFrame DEF ObserveType
  <2>3. ASSUME streams'[o].pc = "waiting"
        PROVE  streams'[o].chan = observeNotify /\ Found(o)' = << >>
    <3>1. ObserveSince(o) /\ Found(o) = << >>
      <4>1. ~SendEvent(o)
        <5>1. SendEvent(o) => streams'[o] =
                IF Len(streams[o].batch) > 1
                THEN [streams[o] EXCEPT !.batch = Tail(streams[o].batch)]
                ELSE [streams[o] EXCEPT !.pc = "read", !.batch = << >>,
                                        !.cursor = CursorAfter(streams[o].batch)]
          BY <2>2 DEF SendEvent
        <5>2. SendEvent(o) => streams[o].pc = "send"
          BY DEF SendEvent
        <5> QED
          BY <2>2, <2>3, <5>1, <5>2 DEF Stream
      <4>2. ~Connect(o) /\ ~Disconnect(o) /\ ~WakeStream(o) /\ ~KeepAlive(o)
        <5>1. Connect(o) => streams'[o].pc = "read"
          BY <2>2 DEF Connect
        <5>2. Disconnect(o) => streams'[o].pc = "closed"
          BY <2>2 DEF Disconnect, SetStream, ClosedStream
        <5>3. WakeStream(o) \/ KeepAlive(o) =>
                streams'[o] = [streams[o] EXCEPT !.pc = "read", !.chan = 0]
          BY <2>2 DEF WakeStream, KeepAlive, Reread, SetStream
        <5> QED
          BY <2>2, <2>3, <5>1, <5>2, <5>3 DEF Stream
      <4>3. ObserveSince(o)
        BY <2>1, <4>1, <4>2 DEF Streaming
      <4>4. Found(o) # << >> =>
              streams'[o] = [streams[o] EXCEPT !.pc = "send", !.batch = Found(o)]
        BY <2>2, <4>3 DEF ObserveSince, SetStream
      <4> QED
        BY <2>2, <2>3, <4>3, <4>4 DEF Stream
    <3>2. streams'[o] = [streams[o] EXCEPT !.pc = "waiting", !.chan = observeNotify]
      BY <2>2, <3>1 DEF ObserveSince, SetStream
    <3>3. streams'[o].chan = observeNotify /\ streams'[o].cursor = streams[o].cursor
      BY <2>2, <3>2 DEF Stream
    <3> QED
      BY <1>0, <2>2, <3>1, <3>3
  <2>4. ASSUME NEW q \in Observers, q # o
        PROVE  streams'[q] = streams[q] /\ Found(q)' = Found(q)
    <3>1. streams'[q] = streams[q]
      BY <2>2, <2>4
    <3> QED
      BY <1>0, <2>2, <3>1
  <2> QED
    BY <2>2, <2>3, <2>4 DEF ObserversAreWoken
<1>4. CASE RestartProcess
  <2>1. \A q \in Observers : streams'[q].pc = "closed"
    BY <1>4 DEF RestartProcess, ClosedStream
  <2> QED
    BY <2>1 DEF ObserversAreWoken
<1> QED
  BY <1>1, <1>2, <1>3, <1>4, ObserveKinds

\* The event stream starts well typed, with nothing to follow.
LEMMA InitObserve ==
  ASSUME StreamsInit
  PROVE  ObserveType /\ ObserveInv /\ ObserversAreWoken
<1>1. ClosedStream \in Stream /\ << >> \in Seq(Nat) /\ << >> \in Seq(Event)
  BY EmptySeq, StreamsBounds DEF ClosedStream, Stream
<1>2. ObserveType
  BY <1>1, StreamsBounds DEF StreamsInit, ObserveType, Client
<1>3. ObserveInv
  <2>1. ASSUME NEW o \in Observers
        PROVE  /\ streams[o].pc = "closed"
               /\ clients[o].stale = TRUE /\ clients[o].seen = << >>
    BY DEF StreamsInit, ClosedStream
  <2>2. ASSUME NEW o \in Observers
        PROVE  Follows(o, streams[o], clients[o], ring, nextObserveID)
    <3>1. /\ streams[o].pc = "closed"
          /\ clients[o].stale = TRUE /\ clients[o].seen = << >>
      BY <2>1, <2>2
    <3>2. Ascending(clients[o].seen)
      BY <3>1 DEF Ascending
    <3> QED
      BY <3>1, <3>2 DEF Follows, Resumable, Reading, Sending
  <2> QED
    BY <2>2 DEF StreamsInit, ObserveInv, Ordered
<1>4. ObserversAreWoken
  BY DEF StreamsInit, ClosedStream, ObserversAreWoken
<1> QED
  BY <1>2, <1>3, <1>4

\* The invariant of the event stream says what the observers may rely on.
LEMMA ObserveInvMeans ==
  ASSUME ObserveInv
  PROVE  ObservedInOrder /\ OnlyEvictionSkips
BY DEF ObserveInv, Follows, Ascending, Reading, Complete, Received,
       ObservedInOrder, OnlyEvictionSkips

\* The invariants of the event stream hold throughout.
LEMMA ObserveAlways ==
  StreamsSpec => [](ObserveType /\ ObserveInv /\ ObserversAreWoken)
<1>1. StreamsInit => ObserveType /\ ObserveInv /\ ObserversAreWoken
  BY InitObserve
<1>2. ObserveType /\ ObserveInv /\ ObserversAreWoken /\ [StreamsNext]_streamsVars
        => (ObserveType /\ ObserveInv /\ ObserversAreWoken)'
  BY NextObserve, NextObserveType, NextObserversWoken
<1> QED
  BY <1>1, <1>2, PTL DEF StreamsSpec

(* No wake-up of the event stream is lost: in every reachable state, an    *)
(* observer that waits on an open channel in ObserveSince holds the one    *)
(* that the next publication closes, and the ring has nothing for it.      *)
THEOREM ObserversAreWokenHolds == StreamsSpec => []ObserversAreWoken
BY ObserveAlways, PTL

(* Within an epoch an observer gets events in the order of their ids and   *)
(* none twice, however often handleObserve loses the connection, inside a  *)
(* batch too, and the client comes back with Last-Event-ID.                *)
THEOREM ObservedInOrderHolds == StreamsSpec => []ObservedInOrder
BY ObserveAlways, ObserveInvMeans, PTL

(* An observer's cursor never passes an event of its filter that the ring  *)
(* still has and the client has not got: only trimObserveLocked makes a    *)
(* gap, for every ring size, filter and pattern of reconnects.             *)
THEOREM OnlyEvictionSkipsHolds == StreamsSpec => []OnlyEvictionSkips
BY ObserveAlways, ObserveInvMeans, PTL

(***************************************************************************)
(* Long polls                                                              *)
(***************************************************************************)
Clip(low, cursor, len) == Max({low, Min({cursor, len})})

\* A cursor brought up to the acknowledged one and down to the last delivery.
LEMMA ClipSpec ==
  ASSUME NEW low \in Nat, NEW cursor \in Nat, NEW len \in Nat
  PROVE  LET least == IF cursor <= len THEN cursor ELSE len
         IN  Clip(low, cursor, len) = IF low >= least THEN low ELSE least
<1> DEFINE least == IF cursor <= len THEN cursor ELSE len
<1>1. Min({cursor, len}) = least
  <2>1. \A x \in {cursor, len} : (\A y \in {cursor, len} : x <= y) => x = least
    OBVIOUS
  <2>2. \E x \in {cursor, len} : \A y \in {cursor, len} : x <= y
    OBVIOUS
  <2> QED
    BY <2>1, <2>2 DEF Min
<1>2. least \in Nat
  OBVIOUS
<1> HIDE DEF least
<1>3. Max({low, least}) = IF low >= least THEN low ELSE least
  <2>1. \A x \in {low, least} :
          (\A y \in {low, least} : x >= y) => x = IF low >= least THEN low ELSE least
    BY <1>2
  <2>2. \E x \in {low, least} : \A y \in {low, least} : x >= y
    BY <1>2
  <2> QED
    BY <2>1, <2>2 DEF Max
<1> QED
  BY <1>1, <1>3 DEF Clip, least

(* A poll holds a channel, the channel of an agent is open, and no two     *)
(* agents share one.  PollsAreWoken needs it: an append closes the channel *)
(* of its own agent and of nobody else, and a new channel is nobody's.     *)
PollChannels ==
  /\ \A p \in Pollers : polls[p].pc # "idle" => polls[p].chan \in Channels
  /\ \A a \in Agents : notify[a] # None => notify[a] \notin closed
  /\ \A a, b \in Agents : notify[a] = notify[b] => a = b \/ notify[a] = None

\* The two halves of PollsAreWoken.
HoldsNext ==
  \A p \in Pollers :
    polls[p].pc # "idle" /\ polls[p].chan \notin closed =>
      notify[polls[p].agent] = polls[p].chan

NothingSent ==
  \A p \in Pollers :
    polls[p].pc = "waiting" /\ polls[p].chan \notin closed =>
      \A k \in DOMAIN rows[polls[p].agent] :
        k > Clip(acked[polls[p].agent], polls[p].cursor, Len(rows[polls[p].agent]))
          => rows[polls[p].agent][k] # "sent"

PollInv == PollChannels /\ HoldsNext /\ NothingSent

\* PollsAreWoken is the two halves.
LEMMA PollsAreWokenMeans == HoldsNext /\ NothingSent <=> PollsAreWoken
BY DEF HoldsNext, NothingSent, PollsAreWoken, Clamped, Clip

\* The types of one poll and of its agent.
LEMMA PollTypes ==
  ASSUME InboxType, NEW p \in Pollers
  PROVE  /\ polls[p] \in Poll /\ polls[p].agent \in Agents /\ polls[p].cursor \in Nat
         /\ polls[p].chan \in Channels \cup {None}
BY DEF InboxType, Poll

\* The deliveries of one agent.
LEMMA RowTypes ==
  ASSUME InboxType, NEW a \in Agents
  PROVE  /\ rows[a] \in Seq(Row) /\ Len(rows[a]) \in Nat
         /\ DOMAIN rows[a] = 1..Len(rows[a])
         /\ \A k \in DOMAIN rows[a] : rows[a][k] \in Row
         /\ acked[a] \in Nat /\ got[a] \in Nat
<1>1. rows[a] \in Seq(Row) /\ acked[a] \in Nat /\ got[a] \in Nat
  BY DEF InboxType
<1> QED
  BY <1>1, LenProperties, ElementOfSeq

\* signalInboxLocked closes the channel of one agent and no other's.
LEMMA SignalPolls ==
  ASSUME InboxType, PollChannels, HoldsNext, NEW a \in Agents, signalInbox(a),
         polls' = polls
  PROVE  /\ PollChannels' /\ HoldsNext'
         /\ notify' \in [Agents -> Channels \cup {None}] /\ closed' \subseteq Channels
         /\ \A p \in Pollers : polls[p].pc # "idle" /\ polls[p].chan \notin closed' =>
              polls[p].agent # a /\ polls[p].chan \notin closed
<1>1. /\ notify' = [notify EXCEPT ![a] = None]
      /\ closed' = (closed \cup {notify[a]}) \cap (Held(polls) \ {None})
  BY DEF signalInbox
<1>2. notify \in [Agents -> Channels \cup {None}] /\ closed \subseteq Channels
  BY DEF InboxType
<1>3. \A b \in Agents : notify'[b] = IF b = a THEN None ELSE notify[b]
  BY <1>1, <1>2
<1>4. notify' \in [Agents -> Channels \cup {None}] /\ closed' \subseteq Channels
  BY <1>1, <1>2
<1>5. ASSUME NEW p \in Pollers, polls[p].pc # "idle", polls[p].chan \notin closed'
      PROVE  /\ polls[p].agent # a /\ polls[p].chan \notin closed
             /\ notify[polls[p].agent] = polls[p].chan
  <2>1. polls[p].chan \in Held(polls) \ {None}
    BY <1>5, StreamsBounds DEF Held, PollChannels
  <2>2. polls[p].chan \notin closed /\ polls[p].chan # notify[a]
    BY <1>1, <1>5, <2>1
  <2> QED
    BY <1>5, <2>2 DEF HoldsNext
<1>6. HoldsNext'
  BY <1>3, <1>5, PollTypes DEF HoldsNext
<1>7. PollChannels'
  <2>1. \A b \in Agents : notify'[b] # None => notify'[b] \notin closed'
    BY <1>1, <1>3 DEF PollChannels
  <2>2. \A b, c \in Agents : notify'[b] = notify'[c] => b = c \/ notify'[b] = None
    BY <1>3 DEF PollChannels
  <2> QED
    BY <2>1, <2>2 DEF PollChannels
<1> QED
  BY <1>4, <1>5, <1>6, <1>7

\* A poll that ends lets go of its channel and of no other poll's.
LEMMA EndPolls ==
  ASSUME InboxType, PollChannels, HoldsNext, NEW p \in Pollers, EndPoll(p),
         notify' = notify
  PROVE  /\ PollChannels' /\ HoldsNext'
         /\ polls' \in [Pollers -> Poll] /\ closed' \subseteq Channels
         /\ \A q \in Pollers : polls'[q].pc # "idle" /\ polls'[q].chan \notin closed' =>
              polls'[q] = polls[q] /\ polls[q].chan \notin closed
<1>1. /\ polls' = [polls EXCEPT ![p] = IdlePoll]
      /\ closed' = closed \cap {polls'[q].chan : q \in Pollers}
  BY DEF EndPoll, Held
<1>2. polls \in [Pollers -> Poll] /\ closed \subseteq Channels
  BY DEF InboxType
<1>3. IdlePoll \in Poll /\ IdlePoll.pc = "idle"
  <2>1. (CHOOSE a \in Agents : TRUE) \in Agents
    BY StreamsBounds
  <2> QED
    BY <2>1 DEF IdlePoll, Poll
<1>4. \A q \in Pollers : polls'[q] = IF q = p THEN IdlePoll ELSE polls[q]
  BY <1>1, <1>2
<1>5. polls' \in [Pollers -> Poll] /\ closed' \subseteq Channels
  BY <1>1, <1>2, <1>3
<1>6. ASSUME NEW q \in Pollers, polls'[q].pc # "idle", polls'[q].chan \notin closed'
      PROVE  polls'[q] = polls[q] /\ polls[q].chan \notin closed
  BY <1>1, <1>3, <1>4, <1>6
<1>7. HoldsNext'
  BY <1>6 DEF HoldsNext
<1>8. PollChannels'
  <2>1. closed' \subseteq closed
    BY <1>1
  <2>2. \A q \in Pollers : polls'[q].pc # "idle" => polls'[q].chan \in Channels
    BY <1>3, <1>4 DEF PollChannels
  <2> QED
    BY <2>1, <2>2 DEF PollChannels
<1> QED
  BY <1>5, <1>6, <1>7, <1>8

(* inboxNotifyLocked hands out the agent's open channel, or makes one that *)
(* nobody holds.                                                           *)
LEMMA TakePolls ==
  ASSUME InboxType, PollChannels, HoldsNext, NEW p \in Pollers, NEW a \in Agents,
         NEW cursor \in Nat, TakeChannel(p, a, cursor)
  PROVE  /\ PollChannels' /\ HoldsNext'
         /\ notify' \in [Agents -> Channels \cup {None}] /\ closed' \subseteq Channels
         /\ polls' \in [Pollers -> Poll]
         /\ polls'[p].pc = "taken"
         /\ \A q \in Pollers : q # p => /\ polls'[q] = polls[q]
                                        /\ polls[q].pc # "idle" =>
                                             (polls[q].chan \in closed
                                                <=> polls[q].chan \in closed')
<1> DEFINE ch == IF notify[a] = None THEN Fresh ELSE notify[a]
<1>1. /\ notify[a] = None => Unused # {}
      /\ notify' = [notify EXCEPT ![a] = ch]
      /\ closed' = closed \ {ch}
      /\ polls' = [polls EXCEPT ![p] = [pc |-> "taken", agent |-> a,
                                        cursor |-> cursor, chan |-> ch]]
  BY DEF TakeChannel
<1>2. /\ notify \in [Agents -> Channels \cup {None}] /\ closed \subseteq Channels
      /\ polls \in [Pollers -> Poll]
  BY DEF InboxType
<1>3. ASSUME notify[a] = None
      PROVE  /\ ch \in Channels
             /\ \A q \in Pollers : polls[q].chan # ch
             /\ \A b \in Agents : notify[b] # ch
  <2>1. Fresh \in Unused
    BY <1>1, <1>3 DEF Fresh
  <2> QED
    BY <1>3, <2>1 DEF Unused, Held
<1>4. ch \in Channels /\ ch # None
  BY <1>2, <1>3, StreamsBounds
<1>5. \A q \in Pollers : polls[q].pc # "idle" =>
        (polls[q].chan \in closed <=> polls[q].chan \in closed \ {ch})
  BY <1>3 DEF PollChannels
<1>6. \A b \in Agents : b # a => notify[b] # ch
  BY <1>3 DEF PollChannels
<1>7. \A q \in Pollers : polls[q].pc # "idle" /\ polls[q].chan \notin closed
                          /\ polls[q].agent = a => polls[q].chan = ch
  BY StreamsBounds DEF HoldsNext, PollChannels
<1> HIDE DEF ch
<1>8. /\ \A b \in Agents : notify'[b] = IF b = a THEN ch ELSE notify[b]
      /\ \A q \in Pollers : q # p => polls'[q] = polls[q]
      /\ polls'[p] = [pc |-> "taken", agent |-> a, cursor |-> cursor, chan |-> ch]
  BY <1>1, <1>2
<1>9. /\ notify' \in [Agents -> Channels \cup {None}] /\ closed' \subseteq Channels
      /\ polls' \in [Pollers -> Poll]
  BY <1>1, <1>2, <1>4 DEF Poll
<1>10. PollChannels'
  <2>1. \A q \in Pollers : polls'[q].pc # "idle" => polls'[q].chan \in Channels
    BY <1>4, <1>8 DEF PollChannels
  <2>2. \A b \in Agents : notify'[b] # None => notify'[b] \notin closed'
    BY <1>1, <1>8 DEF PollChannels
  <2>3. \A b, c \in Agents : notify'[b] = notify'[c] => b = c \/ notify'[b] = None
    BY <1>6, <1>8 DEF PollChannels
  <2> QED
    BY <2>1, <2>2, <2>3 DEF PollChannels
<1>11. ASSUME NEW q \in Pollers, polls'[q].pc # "idle", polls'[q].chan \notin closed'
       PROVE  notify'[polls'[q].agent] = polls'[q].chan
  <2>1. CASE q = p
    BY <1>8, <2>1
  <2>2. CASE q # p
    <3>1. polls'[q] = polls[q] /\ polls[q].chan \notin closed
      BY <1>1, <1>5, <1>8, <1>11, <2>2
    <3>2. notify[polls[q].agent] = polls[q].chan /\ polls[q].agent \in Agents
      BY <1>11, <3>1, PollTypes DEF HoldsNext
    <3> QED
      BY <1>7, <1>8, <1>11, <3>1, <3>2
  <2> QED
    BY <2>1, <2>2
<1>12. HoldsNext'
  BY <1>11 DEF HoldsNext
<1> QED
  BY <1>1, <1>5, <1>8, <1>9, <1>10, <1>12

(* Nothing sent lies above the cursor of a poll that waits, and more       *)
(* acknowledged, longer deliveries without a new sent one change nothing.  *)
LEMMA RowsKept ==
  ASSUME NEW r \in Seq(Row), NEW s \in Seq(Row), Len(r) <= Len(s),
         NEW low \in Nat, NEW high \in Nat, low <= high, NEW cursor \in Nat,
         \A k \in DOMAIN s : s[k] = "sent" => k \in DOMAIN r /\ r[k] = "sent",
         \A k \in DOMAIN r : k > Clip(low, cursor, Len(r)) => r[k] # "sent"
  PROVE  \A k \in DOMAIN s : k > Clip(high, cursor, Len(s)) => s[k] # "sent"
<1>1. /\ Len(r) \in Nat /\ DOMAIN r = 1..Len(r)
      /\ Len(s) \in Nat /\ DOMAIN s = 1..Len(s)
  BY LenProperties
<1> DEFINE c == Clip(low, cursor, Len(r))
           d == Clip(high, cursor, Len(s))
<1>2. c \in Nat /\ d \in Nat /\ c <= d
  BY <1>1, ClipSpec
<1> HIDE DEF c, d
<1>3. \A k \in DOMAIN r : k > c => r[k] # "sent"
  BY DEF c
<1>4. \A k \in DOMAIN s : k > d => s[k] # "sent"
  BY <1>1, <1>2, <1>3
<1> QED
  BY <1>4 DEF d

\* The same across a step, for the deliveries of one agent.
LEMMA RowsStay ==
  ASSUME InboxType, NEW b \in Agents, NEW cursor \in Nat,
         rows'[b] \in Seq(Row), acked'[b] \in Nat,
         Len(rows[b]) <= Len(rows'[b]), acked[b] <= acked'[b],
         \A k \in DOMAIN rows'[b] : rows'[b][k] = "sent" =>
           k \in DOMAIN rows[b] /\ rows[b][k] = "sent",
         \A k \in DOMAIN rows[b] :
           k > Clip(acked[b], cursor, Len(rows[b])) => rows[b][k] # "sent"
  PROVE  \A k \in DOMAIN rows'[b] :
           k > Clip(acked'[b], cursor, Len(rows'[b])) => rows'[b][k] # "sent"
<1>1. PICK r, s, low, high :
        r = rows[b] /\ s = rows'[b] /\ low = acked[b] /\ high = acked'[b]
  OBVIOUS
<1>2. r \in Seq(Row) /\ s \in Seq(Row) /\ low \in Nat /\ high \in Nat
  BY <1>1, RowTypes
<1>3. /\ Len(r) <= Len(s) /\ low <= high
      /\ \A k \in DOMAIN s : s[k] = "sent" => k \in DOMAIN r /\ r[k] = "sent"
      /\ \A k \in DOMAIN r : k > Clip(low, cursor, Len(r)) => r[k] # "sent"
  BY <1>1
<1>4. \A k \in DOMAIN s : k > Clip(high, cursor, Len(s)) => s[k] # "sent"
  BY <1>2, <1>3, RowsKept
<1> QED
  BY <1>1, <1>4

\* A step that changes the deliveries of one agent and signals its polls.
LEMMA SignalledRows ==
  ASSUME InboxType, PollInv, NEW a \in Agents, signalInbox(a), polls' = polls,
         acked' = acked, NEW r \in Seq(Row), rows' = [rows EXCEPT ![a] = r]
  PROVE  PollInv' /\ rows' \in [Agents -> Seq(Row)]
<1>1. /\ PollChannels' /\ HoldsNext'
      /\ \A p \in Pollers : polls[p].pc # "idle" /\ polls[p].chan \notin closed' =>
           polls[p].agent # a /\ polls[p].chan \notin closed
  BY SignalPolls DEF PollInv
<1>2. rows' \in [Agents -> Seq(Row)]
      /\ \A b \in Agents : b # a => rows'[b] = rows[b]
  BY DEF InboxType
<1>3. NothingSent'
  <2> SUFFICES ASSUME NEW p \in Pollers, polls'[p].pc = "waiting",
                      polls'[p].chan \notin closed',
                      NEW k \in DOMAIN rows'[polls'[p].agent],
                      k > Clip(acked'[polls'[p].agent], polls'[p].cursor,
                               Len(rows'[polls'[p].agent]))
               PROVE  rows'[polls'[p].agent][k] # "sent"
    BY DEF NothingSent
  <2>1. rows'[polls[p].agent] = rows[polls[p].agent] /\ polls[p].chan \notin closed
    BY <1>1, <1>2, PollTypes
  <2> QED
    BY <2>1 DEF NothingSent, PollInv
<1> QED
  BY <1>1, <1>2, <1>3 DEF PollInv

\* Registration, expiry and what only publishes leave polls and rows alone.
LEMMA StatusPolls ==
  ASSUME InboxType, PollInv, UNCHANGED <<rows, acked, got, notify, polls, closed>>,
         status' \in [Agents -> {"none", "active", "expired"}]
  PROVE  InboxType' /\ PollInv'
<1>1. InboxType'
  BY DEF InboxType
<1>2. PollInv'
  BY DEF PollInv, PollChannels, HoldsNext, NothingSent
<1> QED
  BY <1>1, <1>2

\* pruneLocked wakes the polls of the agent it removes.
LEMMA PrunePolls ==
  ASSUME InboxType, PollInv, NEW a \in Agents, PruneAgent(a)
  PROVE  InboxType' /\ PollInv'
<1>1. /\ signalInbox(a) /\ status' = [status EXCEPT ![a] = "none"]
      /\ UNCHANGED <<rows, acked, got, polls>>
  BY DEF PruneAgent
<1>2. rows' = [rows EXCEPT ![a] = rows[a]] /\ rows[a] \in Seq(Row)
  BY <1>1 DEF InboxType
<1>3. PollInv'
  BY <1>1, <1>2, SignalledRows
<1>4. notify' \in [Agents -> Channels \cup {None}] /\ closed' \subseteq Channels
  BY <1>1, SignalPolls DEF PollInv
<1> QED
  BY <1>1, <1>3, <1>4 DEF InboxType

\* The sweep's release of queued requests wakes the polls of the agent.
LEMMA ReleasePolls ==
  ASSUME InboxType, PollInv, NEW a \in Agents, ReleaseQueued(a)
  PROVE  InboxType' /\ PollInv'
<1> DEFINE r == [k \in DOMAIN rows[a] |->
                   IF rows[a][k] = "queued" THEN "sent" ELSE rows[a][k]]
<1>1. /\ signalInbox(a) /\ rows' = [rows EXCEPT ![a] = r]
      /\ UNCHANGED <<status, acked, got, polls>>
  BY DEF ReleaseQueued
<1>2. r \in Seq(Row)
  <2>1. r \in [1..Len(rows[a]) -> Row] /\ Len(rows[a]) \in Nat
    BY RowTypes DEF Row
  <2> HIDE DEF r
  <2> DEFINE n == Len(rows[a])
  <2> HIDE DEF n
  <2>2. r \in [1..n -> Row] /\ n \in Nat
    BY <2>1 DEF n
  <2> QED
    BY <2>2, SeqDef
<1> HIDE DEF r
<1>3. PollInv' /\ rows' \in [Agents -> Seq(Row)]
  BY <1>1, <1>2, SignalledRows
<1>4. notify' \in [Agents -> Channels \cup {None}] /\ closed' \subseteq Channels
  BY <1>1, SignalPolls DEF PollInv
<1> QED
  BY <1>1, <1>3, <1>4 DEF InboxType

\* A message for an active agent enters its inbox and wakes its polls.
LEMMA AcceptPolls ==
  ASSUME InboxType, PollInv, NEW a \in Agents, NEW size, AcceptActive(a, size)
  PROVE  InboxType' /\ PollInv'
<1> DEFINE r == Append(rows[a], "sent")
<1>1. /\ signalInbox(a) /\ rows' = [rows EXCEPT ![a] = r]
      /\ UNCHANGED <<status, acked, got, polls>>
  BY DEF AcceptActive
<1>2. r \in Seq(Row)
  BY RowTypes, AppendProperties DEF Row
<1> HIDE DEF r
<1>3. PollInv' /\ rows' \in [Agents -> Seq(Row)]
  BY <1>1, <1>2, SignalledRows
<1>4. notify' \in [Agents -> Channels \cup {None}] /\ closed' \subseteq Channels
  BY <1>1, SignalPolls DEF PollInv
<1> QED
  BY <1>1, <1>3, <1>4 DEF InboxType

\* A message for an agent in its grace period wakes nobody and need not.
LEMMA QueuePolls ==
  ASSUME InboxType, PollInv, NEW a \in Agents, NEW row \in {"queued", "held"},
         NEW size, AcceptQueued(a, row, size)
  PROVE  InboxType' /\ PollInv'
<1> DEFINE r == Append(rows[a], row)
<1>1. /\ rows' = [rows EXCEPT ![a] = r]
      /\ UNCHANGED <<status, acked, got, notify, polls, closed>>
  BY DEF AcceptQueued
<1>2. /\ r \in Seq(Row) /\ Len(r) = Len(rows[a]) + 1
      /\ \A k \in 1..Len(rows[a]) : r[k] = rows[a][k]
      /\ r[Len(rows[a]) + 1] = row
  BY RowTypes, AppendProperties DEF Row
<1>3. DOMAIN r = 1..Len(rows[a]) + 1
  BY <1>2, LenProperties
<1> HIDE DEF r
<1>4. /\ rows' \in [Agents -> Seq(Row)]
      /\ \A b \in Agents : rows'[b] = IF b = a THEN r ELSE rows[b]
  BY <1>1, <1>2 DEF InboxType
<1>5. InboxType'
  BY <1>1, <1>4 DEF InboxType
<1>6. NothingSent'
  <2> SUFFICES ASSUME NEW p \in Pollers, polls[p].pc = "waiting",
                      polls[p].chan \notin closed
               PROVE  \A k \in DOMAIN rows'[polls[p].agent] :
                        k > Clip(acked[polls[p].agent], polls[p].cursor,
                                 Len(rows'[polls[p].agent]))
                          => rows'[polls[p].agent][k] # "sent"
    BY <1>1 DEF NothingSent
  <2> DEFINE b == polls[p].agent
  <2>1. /\ b \in Agents /\ polls[p].cursor \in Nat
        /\ rows[b] \in Seq(Row) /\ rows'[b] \in Seq(Row) /\ acked[b] \in Nat
    BY <1>4, PollTypes, RowTypes
  <2>2. /\ Len(rows[b]) <= Len(rows'[b])
        /\ \A k \in DOMAIN rows'[b] : rows'[b][k] = "sent" =>
             k \in DOMAIN rows[b] /\ rows[b][k] = "sent"
    <3>1. CASE b = a
      <4>1. rows'[b] = r /\ Len(rows[a]) \in Nat /\ DOMAIN rows[a] = 1..Len(rows[a])
        BY <1>4, <3>1, RowTypes
      <4>2. Len(rows[b]) <= Len(rows'[b])
        BY <1>2, <3>1, <4>1
      <4>3. \A k \in DOMAIN r : k \in 1..Len(rows[a]) \/ k = Len(rows[a]) + 1
        BY <1>3, <4>1
      <4> QED
        BY <1>2, <3>1, <4>1, <4>2, <4>3
    <3>2. CASE b # a
      BY <1>4, <2>1, <3>2, RowTypes
    <3> QED
      BY <3>1, <3>2
  <2>3. \A k \in DOMAIN rows[b] :
          k > Clip(acked[b], polls[p].cursor, Len(rows[b])) => rows[b][k] # "sent"
    BY DEF NothingSent, PollInv
  <2>4. acked'[b] \in Nat /\ acked[b] <= acked'[b] /\ acked'[b] = acked[b]
    BY <1>1, <2>1
  <2> HIDE DEF b
  <2>5. \A k \in DOMAIN rows'[b] :
          k > Clip(acked'[b], polls[p].cursor, Len(rows'[b])) => rows'[b][k] # "sent"
    BY <2>1, <2>2, <2>3, <2>4, RowsStay
  <2> QED
    BY <2>4, <2>5 DEF b
<1>7. PollChannels' /\ HoldsNext'
  BY <1>1 DEF PollInv, PollChannels, HoldsNext
<1> QED
  BY <1>5, <1>6, <1>7 DEF PollInv

\* A poll that takes a channel, at its start or when it was woken.
LEMMA TakeStep ==
  ASSUME InboxType, PollInv, NEW p \in Pollers, NEW a \in Agents,
         NEW cursor \in Nat, TakeChannel(p, a, cursor)
  PROVE  InboxType' /\ PollInv'
<1>1. /\ PollChannels' /\ HoldsNext'
      /\ notify' \in [Agents -> Channels \cup {None}] /\ closed' \subseteq Channels
      /\ polls' \in [Pollers -> Poll]
      /\ polls'[p].pc = "taken"
      /\ \A q \in Pollers : q # p => /\ polls'[q] = polls[q]
                                     /\ polls[q].pc # "idle" =>
                                          (polls[q].chan \in closed
                                             <=> polls[q].chan \in closed')
  BY TakePolls DEF PollInv
<1>2. UNCHANGED <<status, rows, acked, got>>
  BY DEF TakeChannel
<1>3. NothingSent'
  <2> SUFFICES ASSUME NEW q \in Pollers, polls'[q].pc = "waiting",
                      polls'[q].chan \notin closed',
                      NEW k \in DOMAIN rows'[polls'[q].agent],
                      k > Clip(acked'[polls'[q].agent], polls'[q].cursor,
                               Len(rows'[polls'[q].agent]))
               PROVE  rows'[polls'[q].agent][k] # "sent"
    BY DEF NothingSent
  <2>1. polls'[q] = polls[q] /\ polls[q].chan \notin closed
    BY <1>1
  <2> QED
    BY <1>2, <2>1 DEF NothingSent, PollInv
<1> QED
  BY <1>1, <1>2, <1>3 DEF InboxType, PollInv

\* A poll that ends without a read: it timed out, or its agent is gone.
LEMMA EndStep ==
  ASSUME InboxType, PollInv, NEW p \in Pollers, EndPoll(p),
         UNCHANGED <<status, rows, acked, notify>>, got' \in [Agents -> Nat]
  PROVE  InboxType' /\ PollInv'
<1>1. /\ PollChannels' /\ HoldsNext'
      /\ polls' \in [Pollers -> Poll] /\ closed' \subseteq Channels
      /\ \A q \in Pollers : polls'[q].pc # "idle" /\ polls'[q].chan \notin closed' =>
           polls'[q] = polls[q] /\ polls[q].chan \notin closed
  BY EndPolls DEF PollInv
<1>2. NothingSent'
  <2> SUFFICES ASSUME NEW q \in Pollers, polls'[q].pc = "waiting",
                      polls'[q].chan \notin closed',
                      NEW k \in DOMAIN rows'[polls'[q].agent],
                      k > Clip(acked'[polls'[q].agent], polls'[q].cursor,
                               Len(rows'[polls'[q].agent]))
               PROVE  rows'[polls'[q].agent][k] # "sent"
    BY DEF NothingSent
  <2>1. polls'[q] = polls[q] /\ polls[q].chan \notin closed
    BY <1>1
  <2> QED
    BY <2>1 DEF NothingSent, PollInv
<1> QED
  BY <1>1, <1>2 DEF InboxType, PollInv

\* The greater of two numbers.
LEMMA MaxOfTwo ==
  ASSUME NEW m \in Nat, NEW n \in Nat
  PROVE  Max({m, n}) \in Nat
<1>1. \E x \in {m, n} : \A y \in {m, n} : x >= y
  OBVIOUS
<1> QED
  BY <1>1 DEF Max

\* What a response brings its client is a cursor.
LEMMA RespondGot ==
  ASSUME InboxType, NEW p \in Pollers, NEW cursor \in Nat, NEW arrives \in BOOLEAN,
         Respond(p, cursor, arrives)
  PROVE  got' \in [Agents -> Nat]
<1>1. polls[p].agent \in Agents /\ got[polls[p].agent] \in Nat
  BY PollTypes, RowTypes
<1>2. Max({got[polls[p].agent], cursor}) \in Nat
  BY <1>1, MaxOfTwo
<1> QED
  BY <1>1, <1>2 DEF Respond, InboxType

\* The cursor of a read is past what is acknowledged.
LEMMA ClampedType ==
  ASSUME InboxType, NEW a \in Agents, NEW cursor \in Nat
  PROVE  Clamped(a, cursor) \in Nat /\ acked[a] <= Clamped(a, cursor)
<1>1. Clamped(a, cursor) = Clip(acked[a], cursor, Len(rows[a]))
  BY DEF Clamped, Clip
<1>2. acked[a] \in Nat /\ Len(rows[a]) \in Nat
  BY RowTypes
<1> QED
  BY <1>1, <1>2, ClipSpec

(* A read acknowledges and offers what it returns, and sends nothing; the  *)
(* poll that then waits has read all there is.                             *)
LEMMA ReadStep ==
  ASSUME InboxType, PollInv, NEW p \in Pollers, NEW arrives \in BOOLEAN,
         ReadPoll(p, arrives)
  PROVE  InboxType' /\ PollInv'
<1> DEFINE a == polls[p].agent
           cursor == Clamped(a, polls[p].cursor)
           r == [k \in DOMAIN rows[a] |->
                   IF k > cursor /\ rows[a][k] = "queued" THEN "offered"
                   ELSE rows[a][k]]
<1>1. /\ polls[p].pc = "taken"
      /\ acked' = [acked EXCEPT ![a] = cursor]
      /\ rows' = [rows EXCEPT ![a] = r]
      /\ \/ Respond(p, Len(rows[a]), arrives)
         \/ Respond(p, cursor, arrives)
         \/ /\ cursor = Len(rows[a])
            /\ polls' = [polls EXCEPT ![p].pc = "waiting"]
            /\ UNCHANGED <<got, closed>>
      /\ UNCHANGED <<status, notify>>
  BY DEF ReadPoll
<1>2. a \in Agents /\ polls[p].cursor \in Nat /\ polls[p] \in Poll
  BY PollTypes
<1>3. cursor \in Nat /\ acked[a] <= cursor
  BY <1>2, ClampedType
<1>4. /\ rows[a] \in Seq(Row) /\ Len(rows[a]) \in Nat
      /\ DOMAIN rows[a] = 1..Len(rows[a])
      /\ \A k \in DOMAIN rows[a] : rows[a][k] \in Row
  BY <1>2, RowTypes
<1>5. r \in Seq(Row) /\ Len(r) = Len(rows[a]) /\ DOMAIN r = DOMAIN rows[a]
      /\ \A k \in DOMAIN r : r[k] = "sent" => rows[a][k] = "sent"
  <2>1. r \in [1..Len(rows[a]) -> Row]
    BY <1>4 DEF Row
  <2>2. r \in Seq(Row)
    BY <1>4, <2>1, SeqDef
  <2>3. Len(r) = Len(rows[a])
    BY <1>4, <2>1, <2>2, LenProperties
  <2> QED
    BY <2>2, <2>3
<1> HIDE DEF cursor, r
<1>6. /\ rows' \in [Agents -> Seq(Row)] /\ acked' \in [Agents -> Nat]
      /\ rows'[a] = r /\ acked'[a] = cursor
      /\ \A b \in Agents : b # a => rows'[b] = rows[b] /\ acked'[b] = acked[b]
  BY <1>1, <1>2, <1>3, <1>5 DEF InboxType
<1> HIDE DEF a
<1>7. got' \in [Agents -> Nat]
  <2>1. CASE UNCHANGED got
    BY <2>1 DEF InboxType
  <2>2. CASE Respond(p, Len(rows[a]), arrives)
    BY <1>4, <2>2, RespondGot
  <2>3. CASE Respond(p, cursor, arrives)
    BY <1>3, <2>3, RespondGot
  <2> QED
    BY <1>1, <2>1, <2>2, <2>3
\* Whatever a poll had read before, the read sends nothing above its cursor.
<1>8. ASSUME NEW b \in Agents, NEW c \in Nat,
             \A k \in DOMAIN rows[b] :
               k > Clip(acked[b], c, Len(rows[b])) => rows[b][k] # "sent"
      PROVE  \A k \in DOMAIN rows'[b] :
               k > Clip(acked'[b], c, Len(rows'[b])) => rows'[b][k] # "sent"
  <2>1. rows[b] \in Seq(Row) /\ Len(rows[b]) \in Nat /\ acked[b] \in Nat
    BY <1>8, RowTypes
  <2>2. /\ rows'[b] \in Seq(Row) /\ acked'[b] \in Nat
        /\ Len(rows[b]) <= Len(rows'[b]) /\ acked[b] <= acked'[b]
        /\ \A k \in DOMAIN rows'[b] : rows'[b][k] = "sent" =>
             k \in DOMAIN rows[b] /\ rows[b][k] = "sent"
    <3>1. CASE b = a
      BY <1>3, <1>4, <1>5, <1>6, <3>1
    <3>2. CASE b # a
      BY <1>6, <1>8, <2>1, <3>2
    <3> QED
      BY <3>1, <3>2
  <2> QED
    BY <1>8, <2>2, RowsStay
<1>9. CASE Respond(p, Len(rows[a]), arrives) \/ Respond(p, cursor, arrives)
  <2>1. EndPoll(p)
    BY <1>9 DEF Respond
  <2>2. /\ PollChannels' /\ HoldsNext'
        /\ polls' \in [Pollers -> Poll] /\ closed' \subseteq Channels
        /\ \A q \in Pollers : polls'[q].pc # "idle" /\ polls'[q].chan \notin closed' =>
             polls'[q] = polls[q] /\ polls[q].chan \notin closed
    BY <1>1, <2>1, EndPolls DEF PollInv
  <2>3. NothingSent'
    <3> SUFFICES ASSUME NEW q \in Pollers, polls'[q].pc = "waiting",
                        polls'[q].chan \notin closed'
                 PROVE  \A k \in DOMAIN rows'[polls'[q].agent] :
                          k > Clip(acked'[polls'[q].agent], polls'[q].cursor,
                                   Len(rows'[polls'[q].agent]))
                            => rows'[polls'[q].agent][k] # "sent"
      BY DEF NothingSent
    <3>1. polls'[q] = polls[q] /\ polls[q].chan \notin closed
      BY <2>2
    <3>2. polls[q].agent \in Agents /\ polls[q].cursor \in Nat
      BY PollTypes
    <3>3. \A k \in DOMAIN rows[polls[q].agent] :
            k > Clip(acked[polls[q].agent], polls[q].cursor,
                     Len(rows[polls[q].agent])) => rows[polls[q].agent][k] # "sent"
      BY <3>1 DEF NothingSent, PollInv
    <3>4. \A k \in DOMAIN rows'[polls[q].agent] :
            k > Clip(acked'[polls[q].agent], polls[q].cursor,
                     Len(rows'[polls[q].agent])) => rows'[polls[q].agent][k] # "sent"
      BY <1>8, <3>2, <3>3
    <3> QED
      BY <3>1, <3>4
  <2> QED
    BY <1>1, <1>6, <1>7, <2>2, <2>3 DEF InboxType, PollInv
<1>10. CASE /\ cursor = Len(rows[a])
            /\ polls' = [polls EXCEPT ![p].pc = "waiting"]
            /\ UNCHANGED <<got, closed>>
  <2>1. /\ polls' \in [Pollers -> Poll]
        /\ \A q \in Pollers : q # p => polls'[q] = polls[q]
        /\ polls'[p] = [polls[p] EXCEPT !.pc = "waiting"]
    BY <1>2, <1>10 DEF InboxType, Poll
  <2>2. polls'[p].agent = a /\ polls'[p].chan = polls[p].chan
        /\ polls'[p].cursor = polls[p].cursor
    BY <1>2, <2>1 DEF Poll, a
  <2>3. \A q \in Pollers : /\ polls'[q].agent = polls[q].agent
                           /\ polls'[q].chan = polls[q].chan
                           /\ polls'[q].pc # "idle" => polls[q].pc # "idle"
    BY <1>1, <2>1, <2>2 DEF a
  <2>4. PollChannels' /\ HoldsNext'
    BY <1>1, <1>10, <2>3 DEF PollInv, PollChannels, HoldsNext
  <2>5. NothingSent'
    <3> SUFFICES ASSUME NEW q \in Pollers, polls'[q].pc = "waiting",
                        polls'[q].chan \notin closed'
                 PROVE  \A k \in DOMAIN rows'[polls'[q].agent] :
                          k > Clip(acked'[polls'[q].agent], polls'[q].cursor,
                                   Len(rows'[polls'[q].agent]))
                            => rows'[polls'[q].agent][k] # "sent"
      BY DEF NothingSent
    <3>1. CASE q = p
      <4>1. polls'[q].agent = a /\ polls'[q].cursor \in Nat
        BY <1>2, <2>2, <3>1
      <4>2. rows'[a] = r /\ acked'[a] = Len(r) /\ Len(r) \in Nat
        BY <1>4, <1>5, <1>6, <1>10
      <4>3. Clip(Len(r), polls'[q].cursor, Len(r)) >= Len(r)
        <5>1. PICK c \in Nat : c = polls'[q].cursor
          BY <4>1
        <5>2. Clip(Len(r), c, Len(r)) >= Len(r)
          BY <4>2, ClipSpec
        <5> QED
          BY <5>1, <5>2
      <4>4. Clip(Len(r), polls'[q].cursor, Len(r)) \in Nat
        <5>1. PICK c \in Nat : c = polls'[q].cursor
          BY <4>1
        <5>2. Clip(Len(r), c, Len(r)) \in Nat
          BY <4>2, ClipSpec
        <5> QED
          BY <5>1, <5>2
      <4>5. \A k \in DOMAIN r : ~(k > Clip(Len(r), polls'[q].cursor, Len(r)))
        BY <1>4, <1>5, <4>2, <4>3, <4>4
      <4> QED
        BY <4>1, <4>2, <4>5
    <3>2. CASE q # p
      <4>1. polls'[q] = polls[q] /\ polls[q].chan \notin closed
        BY <1>10, <2>1, <3>2
      <4>2. polls[q].agent \in Agents /\ polls[q].cursor \in Nat
        BY PollTypes
      <4>3. \A k \in DOMAIN rows[polls[q].agent] :
              k > Clip(acked[polls[q].agent], polls[q].cursor,
                       Len(rows[polls[q].agent])) => rows[polls[q].agent][k] # "sent"
        BY <4>1 DEF NothingSent, PollInv
      <4>4. \A k \in DOMAIN rows'[polls[q].agent] :
              k > Clip(acked'[polls[q].agent], polls[q].cursor,
                       Len(rows'[polls[q].agent]))
                => rows'[polls[q].agent][k] # "sent"
        BY <1>8, <4>2, <4>3
      <4> QED
        BY <4>1, <4>4
    <3> QED
      BY <3>1, <3>2
  <2> QED
    BY <1>1, <1>6, <1>7, <1>10, <2>1, <2>4, <2>5 DEF InboxType, PollInv
<1> QED
  BY <1>1, <1>9, <1>10

\* A restart ends every poll and keeps the deliveries.
LEMMA RestartPolls ==
  ASSUME InboxType, RestartProcess
  PROVE  InboxType' /\ PollInv'
<1>1. /\ notify' = [a \in Agents |-> None] /\ closed' = {}
      /\ polls' = [p \in Pollers |-> IdlePoll]
      /\ UNCHANGED <<status, rows, acked, got>>
  BY DEF RestartProcess
<1>2. IdlePoll \in Poll /\ IdlePoll.pc = "idle"
  <2>1. (CHOOSE a \in Agents : TRUE) \in Agents
    BY StreamsBounds
  <2> QED
    BY <2>1 DEF IdlePoll, Poll
<1>3. InboxType'
  BY <1>1, <1>2 DEF InboxType
<1>4. \A p \in Pollers : polls'[p].pc = "idle"
  BY <1>1, <1>2
<1>5. PollInv'
  BY <1>1, <1>4 DEF PollInv, PollChannels, HoldsNext, NothingSent
<1> QED
  BY <1>3, <1>5

\* Every step keeps the types of inboxes and polls and their invariant.
LEMMA NextPolls ==
  ASSUME InboxType, PollInv, [StreamsNext]_streamsVars
  PROVE  InboxType' /\ PollInv'
<1>1. CASE \E a \in Agents, size \in Sizes :
             \/ RegisterAgent(a, size)
             \/ ExpireAgent(a, size)
             \/ AcceptActive(a, size)
             \/ \E row \in {"queued", "held"} : AcceptQueued(a, row, size)
  <2> SUFFICES ASSUME NEW a \in Agents, NEW size \in Sizes,
                      \/ RegisterAgent(a, size)
                      \/ ExpireAgent(a, size)
                      \/ AcceptActive(a, size)
                      \/ \E row \in {"queued", "held"} : AcceptQueued(a, row, size)
               PROVE  InboxType' /\ PollInv'
    BY <1>1
  <2>1. CASE RegisterAgent(a, size)
    BY <2>1, StatusPolls DEF RegisterAgent, InboxType
  <2>2. CASE ExpireAgent(a, size)
    BY <2>2, StatusPolls DEF ExpireAgent, InboxType
  <2>3. CASE AcceptActive(a, size)
    BY <2>3, AcceptPolls
  <2>4. CASE \E row \in {"queued", "held"} : AcceptQueued(a, row, size)
    BY <2>4, QueuePolls
  <2> QED
    BY <2>1, <2>2, <2>3, <2>4
<1>2. CASE \E name \in Names, size \in Sizes : PublishOnly(name, size)
  BY <1>2, StatusPolls DEF PublishOnly, inboxVars, InboxType
<1>3. CASE \E a \in Agents : PruneAgent(a) \/ ReleaseQueued(a)
  BY <1>3, PrunePolls, ReleasePolls
<1>4. ASSUME NEW p \in Pollers
      PROVE  /\ \A a \in Agents : \A cursor \in 0..got[a] :
                  BeginPoll(p, a, cursor) => InboxType' /\ PollInv'
             /\ WakePoll(p) => InboxType' /\ PollInv'
             /\ \A arrives \in BOOLEAN :
                  ReadPoll(p, arrives) \/ TimeoutPoll(p, arrives) =>
                    InboxType' /\ PollInv'
  <2>1. polls[p].agent \in Agents /\ polls[p].cursor \in Nat
    BY PollTypes
  <2>2. ASSUME NEW a \in Agents, NEW cursor \in 0..got[a], BeginPoll(p, a, cursor)
        PROVE  InboxType' /\ PollInv'
    <3>1. cursor \in Nat /\ TakeChannel(p, a, cursor)
      BY <2>2 DEF BeginPoll
    <3> QED
      BY <3>1, TakeStep
  <2>3. ASSUME WakePoll(p) PROVE InboxType' /\ PollInv'
    <3>1. CASE TakeChannel(p, polls[p].agent, polls[p].cursor)
      BY <2>1, <3>1, TakeStep
    <3>2. CASE EndPoll(p) /\ UNCHANGED <<status, rows, acked, got, notify>>
      BY <3>2, EndStep DEF InboxType
    <3> QED
      BY <2>3, <3>1, <3>2 DEF WakePoll
  <2>4. ASSUME NEW arrives \in BOOLEAN, TimeoutPoll(p, arrives)
        PROVE  InboxType' /\ PollInv'
    <3> DEFINE cursor == Clamped(polls[p].agent, polls[p].cursor)
    <3>1. cursor \in Nat
      BY <2>1, ClampedType
    <3>2. Respond(p, cursor, arrives) /\ UNCHANGED <<status, rows, acked, notify>>
      BY <2>4 DEF TimeoutPoll
    <3> HIDE DEF cursor
    <3>3. got' \in [Agents -> Nat]
      BY <3>1, <3>2, RespondGot
    <3>4. EndPoll(p)
      BY <3>2 DEF Respond
    <3> QED
      BY <3>2, <3>3, <3>4, EndStep
  <2> QED
    BY <2>2, <2>3, <2>4, ReadStep
<1>5. CASE \E o \in Observers :
             \/ Connect(o) \/ Disconnect(o)
             \/ ObserveSince(o) \/ WakeStream(o) \/ KeepAlive(o) \/ SendEvent(o)
  <2>1. UNCHANGED <<inboxVars, closed>>
    BY <1>5 DEF Connect, Disconnect, ObserveSince, WakeStream, KeepAlive, Reread,
                SendEvent, SetStream
  <2> QED
    BY <2>1, StatusPolls DEF inboxVars, InboxType
<1>6. CASE UNCHANGED streamsVars
  BY <1>6, StatusPolls DEF streamsVars, inboxVars, InboxType
<1> QED
  BY <1>1, <1>2, <1>3, <1>4, <1>5, <1>6, RestartPolls DEF StreamsNext

\* No poll is under way at the start.
LEMMA InitPolls ==
  ASSUME StreamsInit
  PROVE  InboxType /\ PollInv
<1>1. IdlePoll \in Poll /\ IdlePoll.pc = "idle"
  <2>1. (CHOOSE a \in Agents : TRUE) \in Agents
    BY StreamsBounds
  <2> QED
    BY <2>1 DEF IdlePoll, Poll
<1>2. << >> \in Seq(Row)
  BY EmptySeq
<1>3. InboxType
  BY <1>1, <1>2 DEF StreamsInit, InboxType
<1>4. \A p \in Pollers : polls[p].pc = "idle"
  BY <1>1 DEF StreamsInit
<1>5. PollInv
  BY <1>4 DEF StreamsInit, PollInv, PollChannels, HoldsNext, NothingSent
<1> QED
  BY <1>3, <1>5

\* The invariants of the polls hold throughout.
LEMMA PollsAlways == StreamsSpec => [](InboxType /\ PollInv)
<1>1. StreamsInit => InboxType /\ PollInv
  BY InitPolls
<1>2. InboxType /\ PollInv /\ [StreamsNext]_streamsVars => (InboxType /\ PollInv)'
  BY NextPolls
<1> QED
  BY <1>1, <1>2, PTL DEF StreamsSpec

(* No wake-up of a long poll is lost: whatever comes between the step that *)
(* takes the channel and the read, a poll whose channel is open holds the  *)
(* one that signalInboxLocked closes next, and one that waits on it has    *)
(* nothing sent above its cursor.                                          *)
THEOREM PollsAreWokenHolds == StreamsSpec => []PollsAreWoken
<1>1. PollInv => PollsAreWoken
  BY PollsAreWokenMeans DEF PollInv
<1> QED
  BY <1>1, PollsAlways, PTL

(* The types: of a cursor that a client brings and a read clamps, of the   *)
(* batch that ObserveSince cuts out of the ring, of the ring itself.       *)
THEOREM StreamsTypeOKHolds == StreamsSpec => []StreamsTypeOK
<1>1. InboxType /\ ObserveType => StreamsTypeOK
  BY DEF InboxType, ObserveType, StreamsTypeOK
<1> QED
  BY <1>1, PollsAlways, ObserveAlways, PTL
=============================================================================

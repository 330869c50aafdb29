------------------------- MODULE BridgeSessions_proofs -------------------------
(***************************************************************************)
(* What holds of the sessions of one process and of the watches they own,  *)
(* for any number of sessions, of calls under way and of watches, for      *)
(* every cap and for rings of every size: no watch outlives its session,   *)
(* the caps hold, reads are honest and no event goes unannounced.          *)
(***************************************************************************)
EXTENDS BridgeSessions, FiniteSetTheorems, SequenceTheorems, WellFoundedInduction, TLAPS

-----------------------------------------------------------------------------
(* Least members, and sequences.                                            *)

\* A nonempty set of naturals has a least member, which is Min of it.
LEMMA MinIsLeast ==
  ASSUME NEW S, S \subseteq Nat, S # {}
  PROVE  Min(S) \in S /\ \A n \in S : Min(S) <= n
  <1>. DEFINE Less == OpToRel(<, Nat)
  <1>1. \A n, m \in Nat : <<n, m>> \in Less <=> n < m  BY DEF OpToRel
  <1>2. IsWellFoundedOn(Less, Nat)  BY NatLessThanWellFounded
  <1>. HIDE DEF Less
  <1>3. PICK m \in S : \A n \in S : ~ (<<n, m>> \in Less)  BY <1>2, WFMin
  <1>4. \A n \in S : ~ (n < m)  BY <1>1, <1>3, Zenon
  <1>5. \A n \in S : m <= n  BY <1>4
  <1>. QED  BY <1>5 DEF Min

\* What holds of 0, and of a number if it holds of the one before, holds of all:
\* a set of naturals that has no least member is empty.
LEMMA NoLeastCounterexample ==
  ASSUME NEW k \in Nat, NEW Bad, Bad \subseteq 0..k,
         \A n \in Bad : n # 0 /\ n - 1 \in Bad
  PROVE  Bad = {}
  <1>. SUFFICES ASSUME Bad # {} PROVE FALSE
    OBVIOUS
  <1>1. Bad \subseteq Nat  OBVIOUS
  <1>2. PICK m \in Bad : \A n \in Bad : m <= n  BY <1>1, MinIsLeast
  <1>. QED  BY <1>1, <1>2

\* A two-element Max and Min.
LEMMA MaxOfTwo ==
  ASSUME NEW a \in Nat, NEW b \in Nat
  PROVE  Max({a, b}) = IF a < b THEN b ELSE a
  <1>. DEFINE m == IF a < b THEN b ELSE a
  <1>1. m \in {a, b} /\ \A y \in {a, b} : m >= y  OBVIOUS
  <1>2. \A x \in {a, b} : (\A y \in {a, b} : x >= y) => x = m  OBVIOUS
  <1>3. Max({a, b}) \in {a, b} /\ \A y \in {a, b} : Max({a, b}) >= y  BY <1>1 DEF Max
  <1>. QED  BY <1>2, <1>3

LEMMA MinOfTwo ==
  ASSUME NEW a \in Int, NEW b \in Int
  PROVE  Min({a, b}) = IF a < b THEN a ELSE b
  <1>. DEFINE m == IF a < b THEN a ELSE b
  <1>1. m \in {a, b} /\ \A y \in {a, b} : m <= y  OBVIOUS
  <1>2. \A x \in {a, b} : (\A y \in {a, b} : x <= y) => x = m  OBVIOUS
  <1>3. Min({a, b}) \in {a, b} /\ \A y \in {a, b} : Min({a, b}) <= y  BY <1>1 DEF Min
  <1>. QED  BY <1>2, <1>3

\* The members of a sequence.
In(s, q) == \E i \in 1..Len(q) : q[i] = s

\* Removing one place of a sequence removes no member but the one there.
LEMMA RemoveAtKeeps ==
  ASSUME NEW S, NEW q \in Seq(S), NEW j \in 1..Len(q)
  PROVE  /\ RemoveAt(q, j) \in Seq(S)
         /\ \A s : In(s, q) /\ s # q[j] => In(s, RemoveAt(q, j))
  <1>. DEFINE a == SubSeq(q, 1, j - 1)
              b == SubSeq(q, j + 1, Len(q))
              r == a \o b
  <1>1. Len(q) \in Nat /\ j \in Nat /\ DOMAIN q = 1..Len(q)  OBVIOUS
  <1>2. /\ a \in Seq(S) /\ Len(a) = j - 1
        /\ \A i \in 1..j - 1 : a[i] = q[i]
    <2>1. \A i \in 1..j - 1 : q[i] \in S /\ 1 + i - 1 = i  BY <1>1
    <2>2. 1 \in Int /\ j - 1 \in Int /\ (j - 1) - 1 + 1 = j - 1  BY <1>1
    <2>3. /\ a \in Seq(S) /\ Len(a) = IF 1 <= j - 1 THEN (j - 1) - 1 + 1 ELSE 0
          /\ \A i \in 1..(j - 1) - 1 + 1 : a[i] = q[1 + i - 1]
      BY <2>1, <2>2, SubSeqProperties
    <2>. HIDE DEF a
    <2>. QED  BY <1>1, <2>1, <2>2, <2>3
  <1>3. /\ b \in Seq(S) /\ Len(b) = Len(q) - j
        /\ \A i \in 1..Len(q) - j : b[i] = q[j + i]
    <2>1. \A i \in j + 1..Len(q) : q[i] \in S  BY <1>1
    <2>2. j + 1 \in Int /\ Len(q) \in Int /\ Len(q) - (j + 1) + 1 = Len(q) - j  BY <1>1
    <2>3. /\ b \in Seq(S) /\ Len(b) = IF j + 1 <= Len(q) THEN Len(q) - (j + 1) + 1 ELSE 0
          /\ \A i \in 1..Len(q) - (j + 1) + 1 : b[i] = q[j + 1 + i - 1]
      BY <2>1, <2>2, SubSeqProperties
    <2>4. \A i \in 1..Len(q) - j : j + 1 + i - 1 = j + i  BY <1>1
    <2>5. ASSUME ~ (j + 1 <= Len(q)) PROVE Len(q) - j = 0
      <3>. DEFINE n == Len(q)
      <3>1. n \in Nat /\ j \in Nat /\ j <= n /\ ~ (j + 1 <= n)  BY <1>1, <2>5
      <3>. HIDE DEF n
      <3>2. n - j = 0  BY <3>1
      <3>. QED  BY <3>2 DEF n
    <2>. HIDE DEF b
    <2>6. Len(b) = Len(q) - j
      <3>1. CASE j + 1 <= Len(q)  BY <2>2, <2>3, <3>1, Zenon
      <3>2. CASE ~ (j + 1 <= Len(q))  BY <2>3, <2>5, <3>2, Zenon
      <3>. QED  BY <3>1, <3>2, Zenon
    <2>7. \A i \in 1..Len(q) - j : b[i] = q[j + i]  BY <2>2, <2>3, <2>4, Zenon
    <2>. QED  BY <2>3, <2>6, <2>7, Zenon
  <1>. HIDE DEF a, b
  <1>4. /\ r \in Seq(S) /\ Len(r) = Len(q) - 1
        /\ \A i \in 1..Len(q) - 1 : r[i] = IF i < j THEN a[i] ELSE b[i - (j - 1)]
    <2>1. /\ r \in Seq(S) /\ Len(r) = Len(a) + Len(b)
          /\ \A i \in 1..Len(a) + Len(b) : r[i] = IF i <= Len(a) THEN a[i] ELSE b[i - Len(a)]
      BY <1>2, <1>3, ConcatProperties
    <2>2. Len(a) = j - 1 /\ Len(a) + Len(b) = Len(q) - 1
      <3>1. (j - 1) + (Len(q) - j) = Len(q) - 1  BY <1>1
      <3>. QED  BY <1>2, <1>3, <3>1, Zenon
    <2>3. \A i \in 1..Len(q) - 1 : i <= j - 1 <=> i < j  BY <1>1
    <2>. HIDE DEF r
    <2>4. \A i \in 1..Len(q) - 1 : r[i] = IF i <= j - 1 THEN a[i] ELSE b[i - (j - 1)]
      BY <2>1, <2>2, Zenon
    <2>. QED  BY <2>1, <2>2, <2>3, <2>4, Zenon
  <1>. HIDE DEF r
  <1>5. \A i \in 1..Len(q) - 1 : r[i] = IF i < j THEN q[i] ELSE q[i + 1]
    <2>. TAKE i \in 1..Len(q) - 1
    <2>1. i < j => r[i] = q[i]  BY <1>1, <1>2, <1>4
    <2>2. ~ (i < j) => r[i] = q[i + 1]
      <3>. HAVE ~ (i < j)
      <3>1. r[i] = b[i - (j - 1)] /\ i - (j - 1) \in 1..Len(q) - j  BY <1>1, <1>4
      <3>2. b[i - (j - 1)] = q[j + (i - (j - 1))]  BY <1>3, <3>1
      <3>3. j + (i - (j - 1)) = i + 1  BY <1>1
      <3>. QED  BY <3>1, <3>2, <3>3
    <2>. QED  BY <2>1, <2>2
  <1>6. ASSUME NEW s, NEW i \in 1..Len(q), q[i] = s, s # q[j]
        PROVE  \E k \in 1..Len(r) : r[k] = s
    <2>1. CASE i < j
      <3>1. i \in 1..Len(r) /\ r[i] = q[i]  BY <1>1, <1>4, <1>5, <2>1
      <3>. QED  BY <1>6, <3>1
    <2>2. CASE i > j
      <3>1. /\ i - 1 \in 1..Len(r) /\ i - 1 \in 1..Len(q) - 1 /\ ~ (i - 1 < j)
            /\ (i - 1) + 1 = i
        BY <1>1, <1>4, <2>2
      <3>2. r[i - 1] = q[i]  BY <1>5, <3>1
      <3>. QED  BY <1>6, <3>1, <3>2
    <2>3. i # j  BY <1>6
    <2>. QED  BY <1>1, <2>1, <2>2, <2>3
  <1>7. RemoveAt(q, j) = r  BY DEF RemoveAt, r, a, b
  <1>. QED  BY <1>4, <1>6, <1>7 DEF In

-----------------------------------------------------------------------------
(* The rings.                                                               *)

\* The event at place i of a ring, from the oldest on.
At(x, i) == x.events[(x.start + i - 1) % Capacity]

\* A ring of a watch holds the latest events it saw, in their order, and counts
\* those it dropped.
RingTrue(x) ==
  /\ x.dropped + x.size = x.latest
  /\ \A i \in 1..x.size : At(x, i) = x.dropped + i

WatchType == [state : {"none", "live", "expired", "gone"}, owner : Sessions \cup {None},
              target : Targets \cup {None}, events : [0..(Capacity - 1) -> Nat],
              start : 0..(Capacity - 1), size : 0..Capacity, latest : Nat, dropped : Nat]

\* Places around a ring of C events.
LEMMA Around ==
  ASSUME NEW C \in Nat \ {0}, NEW a \in 0..C + C - 1
  PROVE  a % C = IF a < C THEN a ELSE a - C
  <1>1. CASE a < C
    BY <1>1
  <1>2. CASE ~ (a < C)
    <2>1. a = 1 * C + (a - C) /\ a - C \in 0..C - 1  BY <1>2
    <2>. QED  BY <1>2, <2>1
  <1>. QED  BY <1>1, <1>2

\* A ring that is full overwrites its oldest event, one that is not takes a new place.
Wrap(a) == IF a < Capacity THEN a ELSE a - Capacity

LEMMA PlacesAround ==
  ASSUME BridgeAssumption, NEW start \in 0..(Capacity - 1)
  PROVE  /\ \A i \in 1..Capacity : (start + i - 1) % Capacity \in 0..(Capacity - 1)
         /\ \A i, j \in 1..Capacity :
               (start + i - 1) % Capacity = (start + j - 1) % Capacity => i = j
         /\ (start + 1) % Capacity \in 0..(Capacity - 1)
         /\ \A i \in 1..Capacity - 1 :
               (((start + 1) % Capacity) + i - 1) % Capacity = (start + (i + 1) - 1) % Capacity
         /\ (((start + 1) % Capacity) + Capacity - 1) % Capacity = start
         /\ (start + 1 - 1) % Capacity = start
  <1>1. Capacity \in Nat \ {0} /\ start \in Nat /\ start < Capacity  BY DEF BridgeAssumption
  <1>. DEFINE to(i) == start + i - 1
  <1>2. \A a \in 0..Capacity + Capacity - 1 : a % Capacity = Wrap(a)
    BY <1>1, Around DEF Wrap
  <1>3. \A i \in 1..Capacity : to(i) \in 0..Capacity + Capacity - 1  BY <1>1
  <1>4. \A i \in 1..Capacity : to(i) % Capacity = Wrap(to(i))
    BY <1>2, <1>3, Zenon
  <1>5. \A i \in 1..Capacity : to(i) % Capacity \in 0..(Capacity - 1)
    <2>1. \A i \in 1..Capacity : Wrap(to(i)) \in 0..(Capacity - 1)
      BY <1>1 DEF Wrap
    <2>. QED  BY <1>4, <2>1, Zenon
  <1>6. \A i, j \in 1..Capacity : to(i) % Capacity = to(j) % Capacity => i = j
    <2>1. \A i, j \in 1..Capacity : Wrap(to(i)) = Wrap(to(j)) => i = j
      BY <1>1 DEF Wrap
    <2>. QED  BY <1>4, <2>1, Zenon
  <1>. DEFINE next == (start + 1) % Capacity
  <1>7. start + 1 \in 0..Capacity + Capacity - 1  BY <1>1
  <1>8. next = Wrap(start + 1)
    BY <1>2, <1>7, Zenon
  <1>. HIDE DEF next
  <1>9. next = IF start + 1 < Capacity THEN start + 1 ELSE 0
    BY <1>1, <1>8 DEF Wrap
  <1>10. next \in 0..(Capacity - 1)  BY <1>1, <1>9
  <1>11. ASSUME NEW i \in 1..Capacity - 1
         PROVE  (next + i - 1) % Capacity = to(i + 1) % Capacity
    <2>1. next + i - 1 \in 0..Capacity + Capacity - 1 /\ i + 1 \in 1..Capacity
      BY <1>1, <1>10
    <2>2. to(i + 1) % Capacity = Wrap(to(i + 1))
      BY <1>4, <2>1, Zenon
    <2>3. (next + i - 1) % Capacity = Wrap(next + i - 1)
      BY <1>2, <2>1, Zenon
    <2>4. Wrap(next + i - 1) = Wrap(to(i + 1))
      BY <1>1, <1>9 DEF Wrap
    <2>. QED  BY <2>2, <2>3, <2>4, Zenon
  <1>12. (next + Capacity - 1) % Capacity = start
    <2>1. next + Capacity - 1 \in 0..Capacity + Capacity - 1  BY <1>1, <1>10
    <2>2. (next + Capacity - 1) % Capacity = Wrap(next + Capacity - 1)
      BY <1>2, <2>1, Zenon
    <2>3. Wrap(next + Capacity - 1) = start
      BY <1>1, <1>9 DEF Wrap
    <2>. QED  BY <2>2, <2>3, Zenon
  <1>13. to(1) % Capacity = start
    <2>1. 1 \in 1..Capacity /\ Wrap(to(1)) = start  BY <1>1 DEF Wrap
    <2>. QED  BY <1>4, <2>1, Zenon
  <1>. QED  BY <1>5, <1>6, <1>10, <1>11, <1>12, <1>13 DEF next

\* _append keeps the latest events, and drops none but the oldest of a full ring.
LEMMA AppendKeepsRing ==
  ASSUME BridgeAssumption, NEW x \in WatchType, RingTrue(x)
  PROVE  /\ Appended(x) \in WatchType /\ RingTrue(Appended(x))
         /\ Appended(x).latest = x.latest + 1
         /\ Appended(x).state = x.state /\ Appended(x).owner = x.owner
         /\ Appended(x).target = x.target
  <1>. DEFINE start == x.start
              size  == x.size
              seq   == x.latest + 1
              place == IF size = Capacity THEN start ELSE (start + size) % Capacity
              evs   == [x.events EXCEPT ![place] = seq]
              next  == IF size = Capacity THEN (start + 1) % Capacity ELSE start
              more  == IF size = Capacity THEN size ELSE size + 1
              lost  == IF size = Capacity THEN x.dropped + 1 ELSE x.dropped
              y     == [x EXCEPT !.latest = seq, !.events = evs, !.start = next, !.size = more,
                                 !.dropped = lost]
              to(i) == (start + i - 1) % Capacity
  <1>1. /\ Capacity \in Nat \ {0} /\ start \in 0..(Capacity - 1) /\ size \in 0..Capacity
        /\ x.latest \in Nat /\ x.dropped \in Nat /\ x.events \in [0..(Capacity - 1) -> Nat]
    BY DEF BridgeAssumption, WatchType
  <1>2. /\ \A i \in 1..Capacity : to(i) \in 0..(Capacity - 1)
        /\ \A i, j \in 1..Capacity : to(i) = to(j) => i = j
        /\ (start + 1) % Capacity \in 0..(Capacity - 1)
        /\ \A i \in 1..Capacity - 1 : (((start + 1) % Capacity) + i - 1) % Capacity = to(i + 1)
        /\ (((start + 1) % Capacity) + Capacity - 1) % Capacity = start
        /\ to(1) = start
    BY <1>1, PlacesAround
  <1>3. Appended(x) = y
    BY DEF Appended, WatchType
  <1>4. /\ x.dropped + size = x.latest
        /\ \A i \in 1..size : x.events[to(i)] = x.dropped + i
    BY DEF RingTrue, At
  <1>5. /\ y.events = evs /\ y.start = next /\ y.size = more /\ y.latest = seq /\ y.dropped = lost
        /\ y.state = x.state /\ y.owner = x.owner /\ y.target = x.target
        /\ (evs \in [0..(Capacity - 1) -> Nat] /\ next \in 0..(Capacity - 1) /\ more \in 0..Capacity
             /\ seq \in Nat /\ lost \in Nat) => y \in WatchType
    <2>. HIDE DEF evs, next, more, seq, lost
    <2>. QED  BY DEF WatchType
  <1>6. size # Capacity => place = to(size + 1) /\ size + 1 \in 1..Capacity
    <2>1. size # Capacity => start + size = start + (size + 1) - 1 /\ size + 1 \in 1..Capacity
      BY <1>1
    <2>. QED  BY <2>1
  <1>. HIDE DEF to
  <1>7. place \in 0..(Capacity - 1)
    BY <1>1, <1>2, <1>6
  <1>8. /\ evs \in [0..(Capacity - 1) -> Nat]
        /\ evs[place] = seq
        /\ \A p \in 0..(Capacity - 1) : p # place => evs[p] = x.events[p]
    <2>. HIDE DEF place
    <2>. QED  BY <1>1, <1>7
  <1>9. next \in 0..(Capacity - 1) /\ more \in 0..Capacity /\ seq \in Nat /\ lost \in Nat
    <2>1. next \in 0..(Capacity - 1)
      <3>1. next = (start + 1) % Capacity \/ next = start  OBVIOUS
      <3>. HIDE DEF next
      <3>. QED  BY <1>1, <1>2, <3>1, Zenon
    <2>2. more \in 0..Capacity /\ seq \in Nat /\ lost \in Nat  BY <1>1
    <2>. QED  BY <2>1, <2>2
  <1>10. lost + more = seq
    <2>1. /\ x.dropped \in Nat /\ size \in Nat /\ x.latest \in Nat
          /\ x.dropped + size = x.latest /\ seq = x.latest + 1
      BY <1>1, <1>4
    <2>2. CASE size = Capacity
      <3>1. lost = x.dropped + 1 /\ more = size  BY <2>2, Zenon
      <3>. HIDE DEF lost, more, size, seq
      <3>. QED  BY <2>1, <3>1
    <2>3. CASE size # Capacity
      <3>1. lost = x.dropped /\ more = size + 1  BY <2>3, Zenon
      <3>. HIDE DEF lost, more, size, seq
      <3>. QED  BY <2>1, <3>1
    <2>. QED  BY <2>2, <2>3
  <1>11. ASSUME NEW i \in 1..more
         PROVE  evs[(next + i - 1) % Capacity] = lost + i
    <2>1. CASE size = Capacity
      <3>1. place = start /\ next = (start + 1) % Capacity /\ more = Capacity /\ lost = x.dropped + 1
        BY <2>1
      <3>2. CASE i = Capacity
        <4>1. (next + i - 1) % Capacity = place  BY <1>2, <3>1, <3>2
        <4>2. seq = lost + i  BY <1>1, <1>4, <2>1, <3>1, <3>2
        <4>. HIDE DEF evs, place, next, lost
        <4>. QED  BY <1>8, <4>1, <4>2
      <3>3. CASE i # Capacity
        <4>1. i \in 1..Capacity - 1 /\ i + 1 \in 1..Capacity /\ 1 \in 1..Capacity /\ i + 1 # 1
          BY <1>1, <3>1, <3>3
        <4>2. (next + i - 1) % Capacity = to(i + 1)  BY <1>2, <3>1, <4>1
        <4>3. to(i + 1) # place /\ to(i + 1) \in 0..(Capacity - 1)  BY <1>2, <3>1, <4>1
        <4>4. x.events[to(i + 1)] = x.dropped + (i + 1)  BY <1>4, <2>1, <4>1
        <4>5. x.dropped + (i + 1) = lost + i
          <5>1. x.dropped \in Nat /\ i \in Nat /\ lost = x.dropped + 1  BY <1>1, <3>1, <4>1
          <5>. HIDE DEF lost
          <5>. QED  BY <5>1
        <4>6. evs[to(i + 1)] = x.events[to(i + 1)]
          <5>. HIDE DEF evs, place
          <5>. QED  BY <1>8, <4>3
        <4>. HIDE DEF evs, place, next, lost
        <4>. QED  BY <4>2, <4>4, <4>5, <4>6
      <3>. QED  BY <3>2, <3>3
    <2>2. CASE size # Capacity
      <3>1. place = to(size + 1) /\ next = start /\ more = size + 1 /\ lost = x.dropped
            /\ size + 1 \in 1..Capacity
        BY <1>6, <2>2
      <3>2. (next + i - 1) % Capacity = to(i)  BY <3>1 DEF to
      <3>3. CASE i = size + 1
        <4>1. seq = lost + i  BY <1>1, <1>4, <3>1, <3>3
        <4>. HIDE DEF evs, place, next, lost
        <4>. QED  BY <1>8, <3>1, <3>2, <3>3, <4>1
      <3>4. CASE i # size + 1
        <4>1. i \in 1..size /\ i \in 1..Capacity  BY <1>1, <3>1, <3>4
        <4>2. to(i) # place /\ to(i) \in 0..(Capacity - 1)  BY <1>2, <3>1, <3>4, <4>1
        <4>3. x.events[to(i)] = lost + i  BY <1>4, <3>1, <4>1
        <4>. HIDE DEF evs, place, next, lost
        <4>. QED  BY <1>8, <3>2, <4>2, <4>3
      <3>. QED  BY <3>3, <3>4
    <2>. QED  BY <2>1, <2>2
  <1>12. y \in WatchType /\ y.latest = x.latest + 1
    <2>. HIDE DEF y, evs, next, more, lost
    <2>. QED  BY <1>5, <1>8, <1>9
  <1>13. RingTrue(y)
    <2>. HIDE DEF y, evs, next, more, lost, seq
    <2>. QED  BY <1>5, <1>10, <1>11 DEF RingTrue, At
  <1>. HIDE DEF y
  <1>. QED  BY <1>3, <1>5, <1>12, <1>13

\* What a read has collected after the first i events of a ring.
Collected(x, since, limit, i) ==
  LET first == 1 + (IF since < x.dropped THEN x.dropped ELSE since)
      upper == IF x.dropped + i < first + limit - 1 THEN x.dropped + i ELSE first + limit - 1
  IN  [j \in 1..(IF upper < first THEN 0 ELSE upper - first + 1) |-> first + j - 1]

\* One more event of the ring is collected, or passed over.
LEMMA CollectOne ==
  ASSUME NEW x \in WatchType, RingTrue(x), NEW since \in Nat, NEW limit \in Nat,
         NEW i \in 1..x.size
  PROVE  Collected(x, since, limit, i)
           = LET c == Collected(x, since, limit, i - 1) IN
             IF Len(c) < limit /\ At(x, i) > since THEN Append(c, At(x, i)) ELSE c
  <1>. DEFINE d == x.dropped
              first == 1 + (IF since < d THEN d ELSE since)
              upper(k) == IF d + k < first + limit - 1 THEN d + k ELSE first + limit - 1
              n(k) == IF upper(k) < first THEN 0 ELSE upper(k) - first + 1
              c(k) == [j \in 1..n(k) |-> first + j - 1]
  <1>1. d \in Nat /\ x.size \in Nat /\ i \in Nat /\ i >= 1  BY DEF WatchType
  <1>2. At(x, i) = d + i  BY DEF RingTrue
  <1>3. first \in Nat /\ first >= 1 /\ first > since /\ first > d
        /\ (first = d + 1 \/ first = since + 1)
    BY <1>1
  <1>4. Collected(x, since, limit, i) = c(i) /\ Collected(x, since, limit, i - 1) = c(i - 1)
    BY DEF Collected
  <1>. HIDE DEF d, first
  <1>5. upper(i) \in Int /\ upper(i - 1) \in Int  BY <1>1, <1>3
  <1>6. n(i) \in Nat /\ n(i - 1) \in Nat  BY <1>1, <1>3
  <1>7. Len(c(i - 1)) = n(i - 1)
    <2>. HIDE DEF n
    <2>. QED  BY <1>6
  <1>8. CASE n(i - 1) < limit /\ d + i > since
    <2>1. n(i) = n(i - 1) + 1 /\ first + n(i) - 1 = d + i  BY <1>1, <1>3, <1>8
    <2>. DEFINE a == Append(c(i - 1), d + i)
    <2>2. a = c(i)
      <3>. HIDE DEF n
      <3>1. c(i - 1) \in Seq(Nat) /\ d + i \in Nat  BY <1>1, <1>3, <1>6
      <3>2. /\ a \in Seq(Nat) /\ Len(a) = n(i)
            /\ \A j \in 1..n(i - 1) : a[j] = c(i - 1)[j]
            /\ a[n(i)] = d + i
        <4>. HIDE DEF c
        <4>1. /\ a \in Seq(Nat) /\ Len(a) = Len(c(i - 1)) + 1
              /\ \A j \in 1..Len(c(i - 1)) : a[j] = c(i - 1)[j]
              /\ a[Len(c(i - 1)) + 1] = d + i
          BY <3>1, AppendProperties
        <4>. HIDE DEF a
        <4>. QED  BY <1>7, <2>1, <4>1, Zenon
      <3>. HIDE DEF a
      <3>3. \A j \in 1..n(i) : a[j] = first + j - 1
        <4>. TAKE j \in 1..n(i)
        <4>1. CASE j = n(i)  BY <2>1, <3>2, <4>1
        <4>2. CASE j # n(i)
          <5>1. j \in 1..n(i - 1)  BY <1>6, <2>1, <4>2
          <5>. QED  BY <3>2, <5>1
        <4>. QED  BY <4>1, <4>2
      <3>4. a = [j \in 1..n(i) |-> a[j]]  BY <3>2
      <3>. QED  BY <3>3, <3>4
    <2>. HIDE DEF a, c, n
    <2>. QED  BY <1>2, <1>4, <1>7, <1>8, <2>2 DEF a
  <1>9. CASE ~ (n(i - 1) < limit /\ d + i > since)
    <2>1. n(i) = n(i - 1)  BY <1>1, <1>3, <1>9
    <2>2. c(i) = c(i - 1)
      <3>. HIDE DEF n
      <3>. QED  BY <2>1
    <2>. HIDE DEF c, n
    <2>. QED  BY <1>2, <1>4, <1>7, <1>9, <2>2
  <1>. QED  BY <1>8, <1>9

\* A read of a true ring returns every event after the cursor that was not dropped,
\* oldest first and up to the limit.
LEMMA ReadIsHonest ==
  ASSUME BridgeAssumption, NEW x \in WatchType, RingTrue(x),
         NEW since \in 0..x.latest, NEW limit \in Nat
  PROVE  LET first == 1 + Max({since, x.dropped})
             last  == Min({x.latest, first + limit - 1})
         IN  Read(x, since, limit) = [i \in 1..(last - first + 1) |-> first + i - 1]
  <1>. DEFINE size == x.size
              seq(i) == x.events[(x.start + i - 1) % Capacity]
              more(c, i) == IF Len(c) < limit /\ seq(i) > since THEN Append(c, seq(i)) ELSE c
              good == [i \in 0..size |-> Collected(x, since, limit, i)]
              Upto(f) == f = [i \in 0..size |-> IF i = 0 THEN <<>> ELSE more(f[i - 1], i)]
              upto == CHOOSE f : Upto(f)
  <1>1. /\ size \in Nat /\ x.dropped \in Nat /\ x.latest \in Nat /\ since \in Nat
        /\ x.dropped + size = x.latest
    BY DEF WatchType, RingTrue
  <1>2. Collected(x, since, limit, 0) = <<>>
    <2>. DEFINE first == 1 + (IF since < x.dropped THEN x.dropped ELSE since)
                upper == IF x.dropped + 0 < first + limit - 1 THEN x.dropped + 0 ELSE first + limit - 1
                k == IF upper < first THEN 0 ELSE upper - first + 1
    <2>1. k = 0  BY <1>1
    <2>2. Collected(x, since, limit, 0) = [j \in 1..k |-> first + j - 1]  BY DEF Collected
    <2>. HIDE DEF k, first
    <2>. QED  BY <2>1, <2>2
  <1>3. \A i \in 1..size : Collected(x, since, limit, i) = more(Collected(x, since, limit, i - 1), i)
    BY <1>1, CollectOne DEF At
  <1>. HIDE DEF more
  <1>4. Upto(good)
    <2>1. ASSUME NEW i \in 0..size
          PROVE  good[i] = IF i = 0 THEN <<>> ELSE more(good[i - 1], i)
      <3>1. CASE i = 0  BY <1>2, <3>1
      <3>2. CASE i # 0
        <4>1. i \in 1..size /\ i - 1 \in 0..size  BY <1>1, <3>2
        <4>. QED  BY <1>3, <3>2, <4>1
      <3>. QED  BY <3>1, <3>2
    <2>2. good = [i \in 0..size |-> good[i]]  OBVIOUS
    <2>. HIDE DEF good
    <2>. QED  BY <2>1, <2>2
  <1>5. Upto(upto)
    <2>. HIDE DEF Upto
    <2>. QED  BY <1>4
  <1>6. Read(x, since, limit) = upto[size]
    BY DEF Read, more
  <1>. HIDE DEF upto
  <1>. DEFINE Bad == {i \in 0..size : upto[i] # good[i]}
  <1>7. ASSUME NEW i \in Bad PROVE i # 0 /\ i - 1 \in Bad
    <2>1. \A j \in 0..size : /\ upto[j] = IF j = 0 THEN <<>> ELSE more(upto[j - 1], j)
                             /\ good[j] = IF j = 0 THEN <<>> ELSE more(good[j - 1], j)
      <3>. HIDE DEF good
      <3>. QED  BY <1>4, <1>5
    <2>. HIDE DEF good, Upto
    <2>2. i # 0  BY <2>1
    <2>3. i - 1 \in 0..size  BY <1>1, <2>2
    <2>. QED  BY <2>1, <2>2, <2>3
  <1>8. Bad = {}
    <2>1. Bad \subseteq 0..size  OBVIOUS
    <2>. HIDE DEF Bad, size
    <2>. QED  BY <1>1, <1>7, <2>1, NoLeastCounterexample
  <1>9. Read(x, since, limit) = Collected(x, since, limit, size)
    <2>1. size \in 0..size  BY <1>1
    <2>. QED  BY <1>6, <1>8, <2>1
  <1>. DEFINE first == 1 + Max({since, x.dropped})
              last  == Min({x.latest, first + limit - 1})
  <1>10. first = 1 + (IF since < x.dropped THEN x.dropped ELSE since)
    BY <1>1, MaxOfTwo
  <1>11. first \in Nat /\ first >= 1 /\ (first = since + 1 \/ first = x.dropped + 1)
    BY <1>1, <1>10
  <1>. DEFINE upper == IF x.dropped + size < first + limit - 1 THEN x.dropped + size ELSE first + limit - 1
  <1>12. last = upper
    <2>. HIDE DEF first
    <2>1. last = IF x.latest < first + limit - 1 THEN x.latest ELSE first + limit - 1
      BY <1>1, <1>11, MinOfTwo
    <2>. QED  BY <1>1, <2>1
  <1>13. (IF upper < first THEN 0 ELSE upper - first + 1) = upper - first + 1
    <2>1. x.dropped <= x.latest /\ since <= x.latest  BY <1>1
    <2>. HIDE DEF first
    <2>. QED  BY <1>1, <1>11, <2>1
  <1>14. Collected(x, since, limit, size)
           = [j \in 1..(IF upper < first THEN 0 ELSE upper - first + 1) |-> first + j - 1]
    <2>. HIDE DEF first
    <2>. QED  BY <1>10 DEF Collected
  <1>. HIDE DEF first, last, upper
  <1>15. Read(x, since, limit) = [i \in 1..(last - first + 1) |-> first + i - 1]
    BY <1>9, <1>12, <1>13, <1>14
  <1>. QED  BY <1>15 DEF first, last

-----------------------------------------------------------------------------
(* The inductive invariant.                                                 *)

SessionType == [state : {"none", "opening", "open", "closed"}, active : Nat, timer : BOOLEAN,
                watches : SUBSET WatchIds, notice : [WatchIds -> {"off", "on", "due"}],
                told : [WatchIds -> Nat]]

CallType == [phase : {"free", "opening", "arrived", "sent", "answering", "ran"},
             by : Sessions \cup {None}, tool : {"watch", "unwatch", "events", None},
             target : Targets \cup {None}, watch : 0..MaxWatches]

TypeOK ==
  /\ registered \in BOOLEAN
  /\ session \in [Sessions -> SessionType]
  /\ idleOrder \in Seq(Sessions)
  /\ call \in [Calls -> CallType]
  /\ watch \in [WatchIds -> WatchType]
  /\ scene \in Scenes

\* What the phase of a call says of its other fields.
CallShape(k) ==
  /\ IF k.phase = "free" THEN k.by = None ELSE k.by \in Sessions
  /\ k.phase \in {"arrived", "sent", "answering"} =>
        /\ k.tool \in {"watch", "unwatch", "events"} /\ k.target \in Targets
        /\ k.tool # "watch" => k.watch \in WatchIds
  /\ k.phase = "answering" => k.watch \in WatchIds /\ k.tool \in {"watch", "unwatch"}

\* Only a live watch and a receipt have an owner.
WatchShape(x) ==
  IF x.state \in {"live", "expired"} THEN x.owner \in Sessions /\ x.target \in Targets
  ELSE x.owner = None

Shapes == (\A c \in Calls : CallShape(call[c])) /\ (\A w \in WatchIds : WatchShape(watch[w]))

\* An answer on its way is about a watch of the session that asked, or one that is gone.
AnswersAgree ==
  \A c \in Calls : call[c].phase = "answering" =>
     \/ watch[call[c].watch].state = "gone"
     \/ call[c].tool = "watch" /\ watch[call[c].watch].owner = call[c].by

\* The calls under way of a session.
CallsOf(s) == {c \in Calls : call[c].by = s}

\* Where a session stands: the calls it has, and its place among the idle ones.
SessionShape(s) ==
  /\ session[s].active = Cardinality(CallsOf(s))
  /\ session[s].state = "none" => session[s].active = 0
  /\ session[s].state = "opening" => session[s].active = 1
  /\ Open(s) /\ session[s].active = 0 => session[s].timer /\ In(s, idleOrder)

Counted ==
  /\ \A s \in Sessions : SessionShape(s)
  /\ \A c \in Calls : call[c].by \in Sessions =>
        (call[c].phase = "opening" <=> session[call[c].by].state = "opening")
  /\ IsFiniteSet(Known) /\ Cardinality(Known) <= SessionCap

Capped == \A s \in Sessions, t \in Targets : Cardinality(Owned(s, t)) <= WatchCap

RingsTrue == \A w \in WatchIds : RingTrue(watch[w])

\* No notice is armed for a watch that is yet to be created.
NoticesFit ==
  \A s \in Sessions, w \in WatchIds : session[s].notice[w] # "off" => watch[w].state # "none"

IInv ==
  /\ TypeOK /\ Shapes /\ AnswersAgree /\ Counted /\ Capped /\ RingsTrue
  /\ NoticesFit /\ NoNoticeIsLost /\ WatchesAreOwned

-----------------------------------------------------------------------------
(* The operators of the model.                                              *)

\* _touch and _closeSession take one session out of the order, and no other.
LEMMA WithoutKeeps ==
  ASSUME TypeOK, NEW s \in Sessions
  PROVE  /\ Without(s) \in Seq(Sessions)
         /\ \A u \in Sessions : u # s /\ In(u, idleOrder) => In(u, Without(s))
  <1>1. CASE Places({s}) = {}
    BY <1>1 DEF Without, TypeOK
  <1>2. CASE Places({s}) # {}
    <2>1. Places({s}) \subseteq Nat  BY DEF Places, TypeOK
    <2>. DEFINE j == Min(Places({s}))
    <2>2. j \in Places({s})  BY <1>2, <2>1, MinIsLeast
    <2>. HIDE DEF j
    <2>3. j \in 1..Len(idleOrder) /\ idleOrder[j] = s /\ idleOrder \in Seq(Sessions)
      BY <2>2 DEF Places, TypeOK
    <2>4. Without(s) = RemoveAt(idleOrder, j)  BY <1>2 DEF Without, j
    <2>. QED  BY <2>3, <2>4, RemoveAtKeeps
  <1>. QED  BY <1>1, <1>2

LEMMA TouchKeeps ==
  ASSUME TypeOK, NEW s \in Sessions
  PROVE  /\ Touch(s) \in Seq(Sessions) /\ In(s, Touch(s))
         /\ \A u \in Sessions : In(u, idleOrder) => In(u, Touch(s))
  <1>. DEFINE q == Without(s)
              a == Append(q, s)
  <1>1. q \in Seq(Sessions) /\ \A u \in Sessions : u # s /\ In(u, idleOrder) => In(u, q)
    BY WithoutKeeps
  <1>. HIDE DEF q
  <1>2. /\ a \in Seq(Sessions) /\ Len(a) = Len(q) + 1 /\ Len(q) \in Nat
        /\ \A i \in 1..Len(q) : a[i] = q[i]
        /\ a[Len(q) + 1] = s
    BY <1>1, AppendProperties
  <1>. HIDE DEF a
  <1>3. In(s, a)
    <2>1. Len(q) + 1 \in 1..Len(a)  BY <1>2
    <2>. QED  BY <1>2, <2>1 DEF In
  <1>4. \A u \in Sessions : In(u, q) => In(u, a)
    <2>1. \A i \in 1..Len(q) : i \in 1..Len(a)  BY <1>2
    <2>. QED  BY <1>2, <2>1, Zenon DEF In
  <1>5. Touch(s) = a  BY DEF Touch, a, q
  <1>. QED  BY <1>1, <1>2, <1>3, <1>4, <1>5

\* There is always an idle session to evict in the order, when one is idle at all.
LEMMA LongestIdleIsIdle ==
  ASSUME TypeOK, Counted, Idle # {}
  PROVE  LongestIdle \in Idle /\ LongestIdle \in Sessions /\ Open(LongestIdle)
  <1>1. \A s \in Idle : s \in Sessions /\ Open(s) /\ In(s, idleOrder)
    BY DEF Idle, Known, Counted, SessionShape, Open
  <1>2. Places(Idle) \subseteq Nat  BY DEF Places, TypeOK
  <1>3. Places(Idle) # {}
    <2>1. PICK s \in Idle : In(s, idleOrder)  BY <1>1
    <2>2. PICK i \in 1..Len(idleOrder) : idleOrder[i] = s  BY <2>1 DEF In
    <2>3. i \in DOMAIN idleOrder  BY <2>2 DEF TypeOK
    <2>. QED  BY <2>2, <2>3 DEF Places
  <1>4. Min(Places(Idle)) \in Places(Idle)  BY <1>2, <1>3, MinIsLeast
  <1>5. LongestIdle \in Idle  BY <1>4 DEF LongestIdle, Places
  <1>. QED  BY <1>1, <1>5

\* A new watch takes an id that no watch ever had.
LEMMA FreeIsFresh ==
  ASSUME BridgeAssumption, TypeOK, Free # {}
  PROVE  Min(Free) \in WatchIds /\ watch[Min(Free)].state = "none"
  <1>1. scene.watches \in 0..MaxWatches /\ MaxWatches \in Nat
    BY DEF BridgeAssumption, TypeOK
  <1>2. Free \subseteq WatchIds /\ Free \subseteq Nat
    BY <1>1 DEF Free, WatchIds
  <1>3. Min(Free) \in Free  BY <1>2, MinIsLeast
  <1>. QED  BY <1>2, <1>3 DEF Free

-----------------------------------------------------------------------------
(* What a step does to the watches.                                         *)

GoneWatch        == [NoWatch EXCEPT !.state = "gone"]
FreshWatch(s, t) == [NoWatch EXCEPT !.state = "live", !.owner = s, !.target = t]
Receipt(x)       == [NoWatch EXCEPT !.state = "expired", !.owner = x.owner, !.target = x.target]

\* A watch stays, goes, expires or takes an event; then every notice of it is due.
WatchMove(w) ==
  \/ watch'[w] = watch[w]
  \/ watch'[w] = GoneWatch
  \/ /\ Live(w) /\ watch'[w] = Appended(watch[w])
     /\ \A s \in Sessions : session'[s].notice[w] # "on"
  \/ Live(w) /\ watch'[w] = Receipt(watch[w])

\* A watch is created below the cap of its owner.
WatchMade(s, t, v) ==
  /\ watch[v].state = "none" /\ Cardinality(Owned(s, t)) < WatchCap
  /\ watch' = [watch EXCEPT ![v] = FreshWatch(s, t)]

WatchesMove ==
  \/ watch' \in [WatchIds -> WatchType] /\ \A w \in WatchIds : WatchMove(w)
  \/ \E s \in Sessions, t \in Targets, v \in WatchIds : WatchMade(s, t, v)

LEMMA WatchRecords ==
  ASSUME BridgeAssumption, NEW s \in Sessions \cup {None}, NEW t \in Targets \cup {None}
  PROVE  /\ NoWatch \in WatchType /\ GoneWatch \in WatchType /\ FreshWatch(s, t) \in WatchType
         /\ GoneWatch.state = "gone" /\ GoneWatch.owner = None
         /\ FreshWatch(s, t).state = "live" /\ FreshWatch(s, t).owner = s
         /\ FreshWatch(s, t).target = t /\ FreshWatch(s, t).latest = 0
         /\ RingTrue(NoWatch) /\ RingTrue(GoneWatch) /\ RingTrue(FreshWatch(s, t))
  <1>1. Capacity \in Nat \ {0} /\ 0 \in 0..(Capacity - 1) /\ 0 \in 0..Capacity
    BY DEF BridgeAssumption
  <1>2. [i \in 0..(Capacity - 1) |-> 0] \in [0..(Capacity - 1) -> Nat]  OBVIOUS
  <1>3. NoWatch \in WatchType
    BY <1>1, <1>2 DEF NoWatch, WatchType
  <1>4. /\ GoneWatch \in WatchType /\ FreshWatch(s, t) \in WatchType
        /\ GoneWatch.state = "gone" /\ GoneWatch.owner = None
        /\ FreshWatch(s, t).state = "live" /\ FreshWatch(s, t).owner = s
        /\ FreshWatch(s, t).target = t /\ FreshWatch(s, t).latest = 0
    BY <1>1, <1>2 DEF NoWatch, GoneWatch, FreshWatch, WatchType
  <1>5. \A x : x.dropped = 0 /\ x.size = 0 /\ x.latest = 0 => RingTrue(x)
    BY DEF RingTrue
  <1>. QED  BY <1>3, <1>4, <1>5 DEF NoWatch, GoneWatch, FreshWatch

LEMMA GoneRecord ==
  ASSUME BridgeAssumption
  PROVE  /\ GoneWatch \in WatchType /\ NoWatch \in WatchType
         /\ GoneWatch.state = "gone" /\ GoneWatch.owner = None
         /\ RingTrue(GoneWatch) /\ RingTrue(NoWatch)
  <1>1. None \in Sessions \cup {None} /\ None \in Targets \cup {None}  OBVIOUS
  <1>. QED  BY <1>1, WatchRecords

LEMMA ReceiptRecord ==
  ASSUME BridgeAssumption, NEW x \in WatchType
  PROVE  /\ Receipt(x) \in WatchType /\ RingTrue(Receipt(x))
         /\ Receipt(x).state = "expired" /\ Receipt(x).owner = x.owner /\ Receipt(x).target = x.target
  <1>1. Capacity \in Nat \ {0} /\ 0 \in 0..(Capacity - 1) /\ 0 \in 0..Capacity
    BY DEF BridgeAssumption
  <1>2. [i \in 0..(Capacity - 1) |-> 0] \in [0..(Capacity - 1) -> Nat]  OBVIOUS
  <1>3. x.owner \in Sessions \cup {None} /\ x.target \in Targets \cup {None}  BY DEF WatchType
  <1>4. Receipt(x) \in WatchType
    BY <1>1, <1>2, <1>3 DEF NoWatch, Receipt, WatchType
  <1>5. \A y : y.dropped = 0 /\ y.size = 0 /\ y.latest = 0 => RingTrue(y)
    BY DEF RingTrue
  <1>. QED  BY <1>4, <1>5 DEF NoWatch, Receipt

LEMMA ClosedMoves ==
  ASSUME BridgeAssumption, TypeOK, NEW s, NEW t, watch' = Closed(watch, s, t)
  PROVE  WatchesMove
  <1>1. \A w \in WatchIds : watch'[w] = watch[w] \/ watch'[w] = GoneWatch
    BY DEF Closed, GoneWatch
  <1>2. \A w \in WatchIds : watch'[w] \in WatchType
    BY <1>1, GoneRecord DEF TypeOK
  <1>3. watch' = [w \in WatchIds |-> watch'[w]]  BY DEF Closed
  <1>4. watch' \in [WatchIds -> WatchType]  BY <1>2, <1>3
  <1>. QED  BY <1>1, <1>4 DEF WatchesMove, WatchMove

LEMMA GoneMoves ==
  ASSUME BridgeAssumption, TypeOK, NEW v, watch' = Gone(watch, v)
  PROVE  WatchesMove
  <1>1. \A w \in WatchIds : watch'[w] = watch[w] \/ watch'[w] = GoneWatch
    BY DEF Gone, GoneWatch, TypeOK
  <1>2. watch' \in [WatchIds -> WatchType]
    BY <1>1, GoneRecord DEF TypeOK, Gone, GoneWatch
  <1>. QED  BY <1>1, <1>2 DEF WatchesMove, WatchMove

LEMMA SameMoves ==
  ASSUME TypeOK, watch' = watch
  PROVE  WatchesMove
  BY DEF WatchesMove, WatchMove, TypeOK

LEMMA RemovedMoves ==
  ASSUME BridgeAssumption, TypeOK, NEW s, NEW v, watch' = Removed(watch, s, v)
  PROVE  WatchesMove
  BY GoneMoves, SameMoves DEF Removed

LEMMA ReleaseMoves ==
  ASSUME BridgeAssumption, TypeOK, NEW s, Release(s)
  PROVE  WatchesMove
  BY ClosedMoves, SameMoves DEF Release

LEMMA CreatedMoves ==
  ASSUME BridgeAssumption, TypeOK, NEW s \in Sessions, NEW t \in Targets,
         MayCreate(s, t), watch' = Created(s, t)
  PROVE  WatchesMove
  <1>1. Min(Free) \in WatchIds /\ watch[Min(Free)].state = "none"
    BY FreeIsFresh DEF MayCreate
  <1>2. WatchMade(s, t, Min(Free))
    BY <1>1 DEF WatchMade, MayCreate, Created, FreshWatch
  <1>. QED  BY <1>1, <1>2 DEF WatchesMove

\* The steps of the system, each with its parameters in range.
Step ==
  \/ UNCHANGED sessionVars
  \/ \E c \in Calls, s \in Sessions : Initialize(s, c)
  \/ \E c \in Calls, s \in Sessions, t \in Targets : Arrive(c, s, "watch", t, 0)
  \/ \E c \in Calls, s \in Sessions, w \in WatchIds, tool \in {"unwatch", "events"} :
        watch[w].owner = s /\ Arrive(c, s, tool, watch[w].target, w)
  \/ \E c \in Calls : \/ Initialized(c) \/ InitializeFails(c)
                      \/ Run(c) \/ ClientRuns(c) \/ Answer(c) \/ Expire(c) \/ Respond(c)
  \/ \E s \in Sessions : Stream(s) \/ IdleTimeout(s) \/ CloseSession(s)
  \/ \E s \in Sessions, w \in WatchIds : \/ Subscribe(s, w) \/ Unsubscribe(s, w) \/ Notice(s, w)
                                         \/ ClientUnwatches(w, s) \/ LoseUnwatch(w, s)
  \/ \E s \in Sessions : \E m \in late : RunsLate(s, m)
  \/ \E w \in WatchIds : Event(w) \/ WatchIdle(w)
  \/ Unregister \/ Register

LEMMA NextIsStep ==
  ASSUME BridgeAssumption, TypeOK, [Next]_sessionVars
  PROVE  Step /\ scene' = scene
  <1>1. CASE UNCHANGED sessionVars  BY <1>1 DEF Step, sessionVars
  <1>2. CASE Next
    <2>0. scene' = scene  BY <1>2 DEF Next
    <2>1. scene.calls \subseteq Calls /\ scene.sessions \subseteq Sessions
      BY DEF BridgeAssumption, TypeOK
    <2>2. CASE NewCall
      <3>1. PICK c \in scene.calls, s \in scene.sessions :
               \/ Initialize(s, c)
               \/ \E t \in Targets : Arrive(c, s, "watch", t, 0)
               \/ \E w \in WatchIds, tool \in {"unwatch", "events"} :
                     watch[w].owner = s /\ Arrive(c, s, tool, watch[w].target, w)
        BY <2>2, Zenon DEF NewCall
      <3>2. c \in Calls /\ s \in Sessions  BY <2>1
      <3>3. CASE Initialize(s, c)  BY <2>0, <3>2, <3>3, Zenon DEF Step
      <3>4. CASE \E t \in Targets : Arrive(c, s, "watch", t, 0)
        BY <2>0, <3>2, <3>4, Zenon DEF Step
      <3>5. CASE \E w \in WatchIds, tool \in {"unwatch", "events"} :
                     watch[w].owner = s /\ Arrive(c, s, tool, watch[w].target, w)
        BY <2>0, <3>2, <3>5, Zenon DEF Step
      <3>. QED  BY <3>1, <3>3, <3>4, <3>5, Zenon
    <2>3. CASE CallStep  BY <2>0, <2>3, Zenon DEF CallStep, Step
    <2>4. CASE SessionStep
      BY <2>0, <2>4, Zenon DEF SessionStep, Step
    <2>5. CASE WorldStep  BY <2>0, <2>5, Zenon DEF WorldStep, Step
    <2>. QED  BY <1>2, <2>2, <2>3, <2>4, <2>5, Zenon DEF Next
  <1>. QED  BY <1>1, <1>2

LEMMA StepMovesWatches ==
  ASSUME BridgeAssumption, TypeOK, Shapes, RingsTrue, Counted, Step
  PROVE  WatchesMove
  <1>1. ASSUME NEW c \in Calls, NEW s \in Sessions, Initialize(s, c)
        PROVE  WatchesMove
    BY <1>1, ReleaseMoves, SameMoves DEF Initialize
  <1>2. ASSUME NEW c \in Calls, Run(c)
        PROVE  WatchesMove
    <2>. DEFINE k == call[c]
                s == k.by
    <2>1. k.phase = "arrived" /\ CallShape(k)
      BY <1>2 DEF Run, Shapes
    <2>2. s \in Sessions /\ k.tool \in {"watch", "unwatch", "events"} /\ k.target \in Targets
      BY <2>1 DEF CallShape
    <2>3. CASE watch' = watch  BY <2>3, SameMoves
    <2>4. CASE watch' # watch
      <3>1. /\ ~ (~registered \/ (k.tool = "watch" /\ k.target = "local" /\ ~MayCreate(s, "local")))
            /\ k.target # "client"
        BY <1>2, <2>4, Zenon DEF Run
      <3>2. k.target = "local"  BY <2>2, <3>1 DEF Targets
      <3>3. CASE k.tool = "watch"
        <4>1. MayCreate(s, "local")  BY <3>1, <3>2, <3>3
        <4>2. watch' = (IF Open(s) THEN Created(s, "local") ELSE Gone(watch, Min(Free)))
          BY <1>2, <3>1, <3>3 DEF Run
        <4>3. "local" \in Targets  BY DEF Targets
        <4>. HIDE DEF s
        <4>4. CASE Open(s)  BY <2>2, <4>1, <4>2, <4>3, <4>4, CreatedMoves
        <4>5. CASE ~ Open(s)  BY <4>2, <4>5, GoneMoves
        <4>. QED  BY <4>4, <4>5
      <3>4. CASE k.tool = "unwatch"
        <4>1. watch' = Removed(watch, s, k.watch)  BY <1>2, <3>1, <3>4 DEF Run
        <4>. QED  BY <4>1, RemovedMoves
      <3>5. CASE k.tool = "events"
        <4>1. watch' = Gone(watch, k.watch)  BY <1>2, <2>4, <3>1, <3>5 DEF Run
        <4>. QED  BY <4>1, GoneMoves
      <3>. QED  BY <2>2, <3>3, <3>4, <3>5
    <2>. QED  BY <2>3, <2>4
  <1>3. ASSUME NEW c \in Calls, ClientRuns(c)
        PROVE  WatchesMove
    <2>. DEFINE k == call[c]
                s == k.by
    <2>1. k.phase = "sent" /\ CallShape(k)
      BY <1>3 DEF ClientRuns, Shapes
    <2>2. s \in Sessions /\ "client" \in Targets
      BY <2>1 DEF CallShape, Targets
    <2>3. \/ MayCreate(s, "client") /\ watch' = Created(s, "client")
          \/ watch' = Removed(watch, s, k.watch)
          \/ watch' = Gone(watch, k.watch)
          \/ watch' = watch
      BY <1>3, Zenon DEF ClientRuns
    <2>. HIDE DEF s, k
    <2>. QED  BY <2>2, <2>3, CreatedMoves, RemovedMoves, GoneMoves, SameMoves
  <1>4. ASSUME NEW s \in Sessions, CloseSession(s)
        PROVE  WatchesMove
    BY <1>4, ReleaseMoves DEF CloseSession
  <1>5. ASSUME NEW s \in Sessions, IdleTimeout(s)
        PROVE  WatchesMove
    BY <1>4, <1>5, SameMoves DEF IdleTimeout
  <1>6. ASSUME NEW s \in Sessions, NEW w \in WatchIds, ClientUnwatches(w, s)
        PROVE  WatchesMove
    BY <1>6, RemovedMoves DEF ClientUnwatches
  <1>7. ASSUME NEW w \in WatchIds, Event(w)
        PROVE  WatchesMove
    <2>1. watch[w] \in WatchType /\ RingTrue(watch[w])  BY DEF TypeOK, RingsTrue
    <2>2. Appended(watch[w]) \in WatchType  BY <2>1, AppendKeepsRing
    <2>3. watch' = [watch EXCEPT ![w] = Appended(watch[w])] /\ Live(w)  BY <1>7 DEF Event
    <2>4. ASSUME NEW s \in Sessions PROVE session'[s].notice[w] # "on"
      <3>1. session'[s] = IF session[s].notice[w] = "on"
                          THEN [session[s] EXCEPT !.notice[w] = "due"] ELSE session[s]
        BY <1>7 DEF Event
      <3>2. [session[s] EXCEPT !.notice[w] = "due"].notice[w] = "due"
        BY DEF TypeOK, SessionType
      <3>. QED  BY <3>1, <3>2
    <2>5. \A v \in WatchIds : WatchMove(v)
      BY <2>3, <2>4 DEF WatchMove, TypeOK
    <2>. QED  BY <2>2, <2>3, <2>5 DEF WatchesMove, TypeOK
  <1>8. ASSUME NEW w \in WatchIds, WatchIdle(w)
        PROVE  WatchesMove
    <2>1. Receipt(watch[w]) \in WatchType  BY ReceiptRecord DEF TypeOK
    <2>2. watch' = [watch EXCEPT ![w] = Receipt(watch[w])] /\ Live(w)
      BY <1>8 DEF WatchIdle, Receipt
    <2>. QED  BY <2>1, <2>2 DEF WatchesMove, WatchMove, TypeOK
  <1>9. ASSUME Unregister
        PROVE  WatchesMove
    <2>1. \A w \in WatchIds : watch'[w] = watch[w] \/ watch'[w] = GoneWatch
      BY <1>9 DEF Unregister, GoneWatch
    <2>2. \A w \in WatchIds : watch'[w] \in WatchType
      BY <2>1, GoneRecord DEF TypeOK
    <2>3. watch' = [w \in WatchIds |-> watch'[w]]  BY <1>9 DEF Unregister
    <2>4. watch' \in [WatchIds -> WatchType]  BY <2>2, <2>3
    <2>. QED  BY <2>1, <2>4 DEF WatchesMove, WatchMove
  <1>10. ASSUME NEW s \in Sessions, NEW m \in late, RunsLate(s, m)
         PROVE  WatchesMove
    <2>1. \/ MayCreate(s, "client") /\ watch' = Created(s, "client")
          \/ watch' = Removed(watch, s, m.watch)
          \/ watch' = Gone(watch, m.watch)
          \/ watch' = watch
      BY <1>10, Zenon DEF RunsLate
    <2>2. "client" \in Targets  BY DEF Targets
    <2>. QED  BY <2>1, <2>2, CreatedMoves, RemovedMoves, GoneMoves, SameMoves
  <1>11. (watch' = watch) \/ ~ (watch' = watch)  OBVIOUS
  <1>12. CASE watch' # watch
    <2>1. \/ \E c \in Calls, s \in Sessions : Initialize(s, c)
          \/ \E c \in Calls : Run(c) \/ ClientRuns(c)
          \/ \E s \in Sessions : IdleTimeout(s) \/ CloseSession(s)
          \/ \E s \in Sessions, w \in WatchIds : ClientUnwatches(w, s)
          \/ \E s \in Sessions : \E m \in late : RunsLate(s, m)
          \/ \E w \in WatchIds : Event(w) \/ WatchIdle(w)
          \/ Unregister
      BY <1>12, Zenon
      DEF Step, Arrive, Initialized, InitializeFails, Answer, Expire, Respond, Stream,
          Subscribe, Unsubscribe, Notice, LoseUnwatch, Register, sessionVars
    <2>. QED  BY <2>1, <1>1, <1>2, <1>3, <1>4, <1>5, <1>6, <1>7, <1>8, <1>9, <1>10, Zenon
  <1>. QED  BY <1>11, <1>12, SameMoves

\* A step keeps the rings true, and a watch its owner for as long as it has one.
LEMMA MovesKeepRings ==
  ASSUME BridgeAssumption, TypeOK, RingsTrue, WatchesMove
  PROVE  watch' \in [WatchIds -> WatchType] /\ RingsTrue'
  <1>1. CASE watch' \in [WatchIds -> WatchType] /\ \A w \in WatchIds : WatchMove(w)
    <2>1. ASSUME NEW w \in WatchIds PROVE RingTrue(watch'[w])
      <3>1. watch[w] \in WatchType /\ RingTrue(watch[w])  BY DEF TypeOK, RingsTrue
      <3>2. RingTrue(Appended(watch[w])) /\ RingTrue(Receipt(watch[w])) /\ RingTrue(GoneWatch)
        BY <3>1, AppendKeepsRing, ReceiptRecord, GoneRecord
      <3>. QED  BY <1>1, <3>1, <3>2 DEF WatchMove
    <2>. QED  BY <1>1, <2>1 DEF RingsTrue, RingTrue, At
  <1>2. ASSUME NEW s \in Sessions, NEW t \in Targets, NEW v \in WatchIds, WatchMade(s, t, v)
        PROVE  watch' \in [WatchIds -> WatchType] /\ RingsTrue'
    <2>1. FreshWatch(s, t) \in WatchType /\ RingTrue(FreshWatch(s, t))  BY WatchRecords
    <2>2. watch' = [watch EXCEPT ![v] = FreshWatch(s, t)]  BY <1>2 DEF WatchMade
    <2>3. watch' \in [WatchIds -> WatchType]  BY <2>1, <2>2 DEF TypeOK
    <2>4. \A w \in WatchIds : RingTrue(watch'[w])
      BY <2>1, <2>2 DEF TypeOK, RingsTrue
    <2>. QED  BY <2>3, <2>4 DEF RingsTrue, RingTrue, At
  <1>. QED  BY <1>1, <1>2 DEF WatchesMove

LEMMA MovesKeepOwners ==
  ASSUME BridgeAssumption, TypeOK, Shapes, RingsTrue, WatchesMove
  PROVE  /\ \A w \in WatchIds : WatchShape(watch'[w])
         /\ \A w \in WatchIds : watch[w].state = "gone" => watch'[w].state = "gone"
         /\ \A w \in WatchIds : watch[w].owner \in Sessions =>
               watch'[w].state = "gone"
               \/ (watch'[w].owner = watch[w].owner /\ watch'[w].target = watch[w].target)
         /\ \A w \in WatchIds : watch'[w].state = "none" => watch[w].state = "none"
  <1>1. CASE watch' \in [WatchIds -> WatchType] /\ \A w \in WatchIds : WatchMove(w)
    <2>. SUFFICES ASSUME NEW w \in WatchIds
                  PROVE  /\ WatchShape(watch'[w])
                         /\ watch[w].state = "gone" => watch'[w].state = "gone"
                         /\ watch[w].owner \in Sessions =>
                              watch'[w].state = "gone"
                              \/ (watch'[w].owner = watch[w].owner /\ watch'[w].target = watch[w].target)
                         /\ watch'[w].state = "none" => watch[w].state = "none"
      OBVIOUS
    <2>. DEFINE x == watch[w]
                y == watch'[w]
    <2>1. x \in WatchType /\ RingTrue(x) /\ WatchShape(x)  BY DEF TypeOK, RingsTrue, Shapes
    <2>2. \/ y = x
          \/ y.state = "gone" /\ y.owner = None
          \/ x.state = "live" /\ y.state = "live" /\ y.owner = x.owner /\ y.target = x.target
          \/ x.state = "live" /\ y.state = "expired" /\ y.owner = x.owner /\ y.target = x.target
      <3>1. GoneWatch.state = "gone" /\ GoneWatch.owner = None  BY GoneRecord
      <3>2. /\ Appended(x).state = x.state /\ Appended(x).owner = x.owner
            /\ Appended(x).target = x.target
        BY <2>1, AppendKeepsRing
      <3>3. Receipt(x).state = "expired" /\ Receipt(x).owner = x.owner /\ Receipt(x).target = x.target
        BY <2>1, ReceiptRecord
      <3>. QED  BY <1>1, <3>1, <3>2, <3>3 DEF WatchMove, Live
    <2>3. None \notin Sessions  BY DEF BridgeAssumption
    <2>. HIDE DEF x, y
    <2>4. /\ WatchShape(y) /\ (x.state = "gone" => y.state = "gone")
          /\ x.owner \in Sessions =>
                y.state = "gone" \/ (y.owner = x.owner /\ y.target = x.target)
          /\ y.state = "none" => x.state = "none"
      BY <2>1, <2>2, <2>3 DEF WatchShape
    <2>. QED  BY <2>4 DEF x, y
  <1>2. ASSUME NEW s \in Sessions, NEW t \in Targets, NEW v \in WatchIds, WatchMade(s, t, v)
        PROVE  /\ \A w \in WatchIds : WatchShape(watch'[w])
               /\ \A w \in WatchIds : watch[w].state = "gone" => watch'[w].state = "gone"
               /\ \A w \in WatchIds : watch[w].owner \in Sessions =>
                     watch'[w].state = "gone"
                     \/ (watch'[w].owner = watch[w].owner /\ watch'[w].target = watch[w].target)
               /\ \A w \in WatchIds : watch'[w].state = "none" => watch[w].state = "none"
    <2>1. /\ FreshWatch(s, t).state = "live" /\ FreshWatch(s, t).owner = s
          /\ FreshWatch(s, t).target = t
      BY WatchRecords
    <2>2. /\ \A w \in WatchIds : watch'[w] = IF w = v THEN FreshWatch(s, t) ELSE watch[w]
          /\ watch[v].state = "none"
      BY <1>2 DEF WatchMade, TypeOK
    <2>3. watch[v].owner = None /\ None \notin Sessions
      BY <2>2 DEF Shapes, WatchShape, BridgeAssumption
    <2>4. \A w \in WatchIds : WatchShape(watch[w])  BY DEF Shapes
    <2>. QED  BY <2>1, <2>2, <2>3, <2>4 DEF WatchShape
  <1>. QED  BY <1>1, <1>2 DEF WatchesMove

\* No owner ever exceeds its cap in a world.
LEMMA MovesKeepCaps ==
  ASSUME BridgeAssumption, TypeOK, Shapes, RingsTrue, Capped, WatchesMove
  PROVE  Capped'
  <1>. SUFFICES ASSUME NEW s \in Sessions, NEW t \in Targets
                PROVE  Cardinality(Owned(s, t)') <= WatchCap
    BY DEF Capped
  <1>0. /\ MaxWatches \in Nat /\ WatchCap \in Nat
        /\ Owned(s, t) \subseteq WatchIds /\ Owned(s, t)' \subseteq WatchIds
    BY DEF BridgeAssumption, Owned
  <1>1. IsFiniteSet(WatchIds)
    BY <1>0, FS_Interval DEF WatchIds
  <1>2. /\ IsFiniteSet(Owned(s, t)) /\ Cardinality(Owned(s, t)) \in Nat
        /\ Cardinality(Owned(s, t)) <= WatchCap
    BY <1>0, <1>1, FS_Subset, FS_CardinalityType DEF Capped
  <1>3. CASE watch' \in [WatchIds -> WatchType] /\ \A w \in WatchIds : WatchMove(w)
    <2>1. ASSUME NEW w \in Owned(s, t)'
          PROVE  w \in Owned(s, t)
      <3>. DEFINE x == watch[w]
                  y == watch'[w]
      <3>1. w \in WatchIds /\ y.state = "live" /\ y.owner = s /\ y.target = t
        BY <2>1 DEF Owned, Live
      <3>2. x \in WatchType /\ RingTrue(x)  BY <3>1 DEF TypeOK, RingsTrue
      <3>3. /\ GoneWatch.state = "gone" /\ Receipt(x).state = "expired"
            /\ Appended(x).state = x.state /\ Appended(x).owner = x.owner
            /\ Appended(x).target = x.target
        BY <3>2, AppendKeepsRing, ReceiptRecord, GoneRecord
      <3>4. x.state = "live" /\ x.owner = s /\ x.target = t
        BY <1>3, <3>1, <3>3 DEF WatchMove
      <3>. QED  BY <3>1, <3>4 DEF Owned, Live
    <2>2. Cardinality(Owned(s, t)') <= Cardinality(Owned(s, t)) /\ Cardinality(Owned(s, t)') \in Nat
      BY <1>2, <2>1, FS_Subset, FS_CardinalityType
    <2>. QED  BY <1>0, <1>2, <2>2
  <1>4. ASSUME NEW a \in Sessions, NEW b \in Targets, NEW v \in WatchIds, WatchMade(a, b, v)
        PROVE  Cardinality(Owned(s, t)') <= WatchCap
    <2>1. /\ FreshWatch(a, b).state = "live" /\ FreshWatch(a, b).owner = a
          /\ FreshWatch(a, b).target = b
      BY WatchRecords
    <2>2. \A w \in WatchIds : watch'[w] = IF w = v THEN FreshWatch(a, b) ELSE watch[w]
      BY <1>4 DEF WatchMade, TypeOK
    <2>3. CASE a = s /\ b = t
      <3>1. Owned(s, t)' \subseteq Owned(s, t) \cup {v}
        BY <2>2 DEF Owned, Live
      <3>2. Cardinality(Owned(s, t)) < WatchCap  BY <1>4, <2>3 DEF WatchMade
      <3>3. /\ IsFiniteSet(Owned(s, t) \cup {v})
            /\ Cardinality(Owned(s, t) \cup {v}) <= Cardinality(Owned(s, t)) + 1
            /\ Cardinality(Owned(s, t) \cup {v}) \in Nat
        <4>1. /\ IsFiniteSet(Owned(s, t) \cup {v})
              /\ Cardinality(Owned(s, t) \cup {v})
                   = IF v \in Owned(s, t) THEN Cardinality(Owned(s, t)) ELSE Cardinality(Owned(s, t)) + 1
          BY <1>2, FS_AddElement
        <4>2. Cardinality(Owned(s, t) \cup {v}) \in Nat  BY <4>1, FS_CardinalityType
        <4>. QED  BY <1>2, <4>1, <4>2
      <3>4. /\ Cardinality(Owned(s, t)') <= Cardinality(Owned(s, t) \cup {v})
            /\ Cardinality(Owned(s, t)') \in Nat
        BY <3>1, <3>3, FS_Subset, FS_CardinalityType
      <3>. QED  BY <1>0, <1>2, <3>2, <3>3, <3>4
    <2>4. CASE ~ (a = s /\ b = t)
      <3>1. Owned(s, t)' \subseteq Owned(s, t)
        BY <2>1, <2>2, <2>4 DEF Owned, Live
      <3>2. Cardinality(Owned(s, t)') <= Cardinality(Owned(s, t)) /\ Cardinality(Owned(s, t)') \in Nat
        BY <1>2, <3>1, FS_Subset, FS_CardinalityType
      <3>. QED  BY <1>0, <1>2, <3>2
    <2>. QED  BY <2>3, <2>4
  <1>. QED  BY <1>3, <1>4 DEF WatchesMove

-----------------------------------------------------------------------------
(* Types.                                                                   *)

\* The fields of a session and of a call, one by one.
IsSession(y, state, active, timer, watches, notice, told) ==
  /\ y \in SessionType
  /\ y.state = state /\ y.active = active /\ y.timer = timer /\ y.watches = watches
  /\ y.notice = notice /\ y.told = told

IsCall(y, phase, by, tool, target, w) ==
  /\ y \in CallType
  /\ y.phase = phase /\ y.by = by /\ y.tool = tool /\ y.target = target /\ y.watch = w

LEMMA SessionUpdates ==
  ASSUME NEW x \in SessionType, NEW n \in Nat, NEW b \in BOOLEAN, NEW W \in SUBSET WatchIds,
         NEW w \in WatchIds, NEW m \in {"off", "on", "due"}, NEW k \in Nat
  PROVE  /\ IsSession([x EXCEPT !.active = n, !.timer = b],
                      x.state, n, b, x.watches, x.notice, x.told)
         /\ IsSession([x EXCEPT !.timer = b], x.state, x.active, b, x.watches, x.notice, x.told)
         /\ IsSession([x EXCEPT !.state = "open"],
                      "open", x.active, x.timer, x.watches, x.notice, x.told)
         /\ IsSession([x EXCEPT !.watches = W],
                      x.state, x.active, x.timer, W, x.notice, x.told)
         /\ IsSession([x EXCEPT !.notice[w] = m],
                      x.state, x.active, x.timer, x.watches, [x.notice EXCEPT ![w] = m], x.told)
         /\ IsSession([x EXCEPT !.watches = W, !.notice[w] = m],
                      x.state, x.active, x.timer, W, [x.notice EXCEPT ![w] = m], x.told)
         /\ IsSession([x EXCEPT !.notice[w] = m, !.told[w] = k],
                      x.state, x.active, x.timer, x.watches,
                      [x.notice EXCEPT ![w] = m], [x.told EXCEPT ![w] = k])
         /\ IsSession([x EXCEPT !.watches = {}, !.notice = [v \in WatchIds |-> "off"]],
                      x.state, x.active, x.timer, {}, [v \in WatchIds |-> "off"], x.told)
  <1>. DEFINE N == [x.notice EXCEPT ![w] = m]
              T == [x.told EXCEPT ![w] = k]
              none == [v \in WatchIds |-> "off"]
  <1>0. /\ x.state \in {"none", "opening", "open", "closed"} /\ x.active \in Nat
        /\ x.timer \in BOOLEAN /\ x.watches \in SUBSET WatchIds
        /\ x.notice \in [WatchIds -> {"off", "on", "due"}] /\ x.told \in [WatchIds -> Nat]
        /\ x = [state |-> x.state, active |-> x.active, timer |-> x.timer,
                watches |-> x.watches, notice |-> x.notice, told |-> x.told]
    BY DEF SessionType
  <1>1. N \in [WatchIds -> {"off", "on", "due"}] /\ T \in [WatchIds -> Nat]
        /\ none \in [WatchIds -> {"off", "on", "due"}]
    BY <1>0
  <1>. HIDE DEF N, T, none
  <1>2. IsSession([x EXCEPT !.active = n, !.timer = b], x.state, n, b, x.watches, x.notice, x.told)
    BY <1>0 DEF SessionType, IsSession
  <1>3. IsSession([x EXCEPT !.timer = b], x.state, x.active, b, x.watches, x.notice, x.told)
    BY <1>0 DEF SessionType, IsSession
  <1>4. IsSession([x EXCEPT !.state = "open"],
                  "open", x.active, x.timer, x.watches, x.notice, x.told)
    BY <1>0 DEF SessionType, IsSession
  <1>5. IsSession([x EXCEPT !.watches = W], x.state, x.active, x.timer, W, x.notice, x.told)
    BY <1>0 DEF SessionType, IsSession
  <1>6. IsSession([x EXCEPT !.notice = N], x.state, x.active, x.timer, x.watches, N, x.told)
    BY <1>0, <1>1 DEF SessionType, IsSession
  <1>7. IsSession([x EXCEPT !.watches = W, !.notice = N], x.state, x.active, x.timer, W, N, x.told)
    BY <1>0, <1>1 DEF SessionType, IsSession
  <1>8. IsSession([x EXCEPT !.notice = N, !.told = T], x.state, x.active, x.timer, x.watches, N, T)
    BY <1>0, <1>1 DEF SessionType, IsSession
  <1>9. IsSession([x EXCEPT !.watches = {}, !.notice = none],
                  x.state, x.active, x.timer, {}, none, x.told)
    BY <1>0, <1>1 DEF SessionType, IsSession
  <1>10. /\ [x EXCEPT !.notice[w] = m] = [x EXCEPT !.notice = N]
         /\ [x EXCEPT !.watches = W, !.notice[w] = m] = [x EXCEPT !.watches = W, !.notice = N]
         /\ [x EXCEPT !.notice[w] = m, !.told[w] = k] = [x EXCEPT !.notice = N, !.told = T]
    BY <1>0 DEF N, T
  <1>. QED  BY <1>2, <1>3, <1>4, <1>5, <1>6, <1>7, <1>8, <1>9, <1>10 DEF N, T, none

LEMMA CallUpdates ==
  ASSUME NEW x \in CallType, NEW w \in 0..MaxWatches,
         NEW p \in {"free", "opening", "arrived", "sent", "answering", "ran"}
  PROVE  /\ IsCall([x EXCEPT !.phase = p], p, x.by, x.tool, x.target, x.watch)
         /\ IsCall([x EXCEPT !.phase = p, !.watch = w], p, x.by, x.tool, x.target, w)
  <1>1. IsCall([x EXCEPT !.phase = p], p, x.by, x.tool, x.target, x.watch)
    BY DEF CallType, IsCall
  <1>2. IsCall([x EXCEPT !.phase = p, !.watch = w], p, x.by, x.tool, x.target, w)
    BY DEF CallType, IsCall
  <1>. QED  BY <1>1, <1>2

LEMMA SessionRecords ==
  ASSUME TypeOK, NEW s \in Sessions
  PROVE  LET off == [w \in WatchIds |-> "off"]
             untold == [w \in WatchIds |-> 0] IN
         /\ IsSession(NoSession, "none", 0, FALSE, {}, off, untold)
         /\ IsSession([NoSession EXCEPT !.state = "opening", !.active = 1],
                      "opening", 1, FALSE, {}, off, untold)
         /\ IsSession([NoSession EXCEPT !.state = "closed"], "closed", 0, FALSE, {}, off, untold)
         /\ IsSession(Disposed(s), "closed", session[s].active, FALSE, {}, off, untold)
  <1>. DEFINE off == [w \in WatchIds |-> "off"]
              untold == [w \in WatchIds |-> 0]
  <1>1. /\ off \in [WatchIds -> {"off", "on", "due"}] /\ untold \in [WatchIds -> Nat]
        /\ session[s].active \in Nat
    BY DEF TypeOK, SessionType
  <1>2. NoSession = [state |-> "none", active |-> 0, timer |-> FALSE, watches |-> {},
                     notice |-> off, told |-> untold]
    BY DEF NoSession
  <1>. HIDE DEF off, untold
  <1>3. IsSession(NoSession, "none", 0, FALSE, {}, off, untold)
    BY <1>1, <1>2 DEF IsSession, SessionType
  <1>4. IsSession([NoSession EXCEPT !.state = "opening", !.active = 1],
                  "opening", 1, FALSE, {}, off, untold)
    BY <1>1, <1>2 DEF IsSession, SessionType
  <1>5. IsSession([NoSession EXCEPT !.state = "closed"], "closed", 0, FALSE, {}, off, untold)
    BY <1>1, <1>2 DEF IsSession, SessionType
  <1>6. IsSession(Disposed(s), "closed", session[s].active, FALSE, {}, off, untold)
    BY <1>1, <1>2 DEF IsSession, SessionType, Disposed
  <1>. QED  BY <1>3, <1>4, <1>5, <1>6 DEF off, untold

LEMMA CallRecords ==
  ASSUME BridgeAssumption, NEW s \in Sessions
  PROVE  /\ IsCall(NoCall, "free", None, None, None, 0)
         /\ IsCall([NoCall EXCEPT !.phase = "opening", !.by = s], "opening", s, None, None, 0)
         /\ \A tool \in {"watch", "unwatch", "events"}, t \in Targets, w \in 0..MaxWatches :
               IsCall([phase |-> "arrived", by |-> s, tool |-> tool, target |-> t, watch |-> w],
                      "arrived", s, tool, t, w)
  <1>1. 0 \in 0..MaxWatches  BY DEF BridgeAssumption
  <1>2. IsCall(NoCall, "free", None, None, None, 0)  BY <1>1 DEF IsCall, NoCall, CallType
  <1>3. IsCall([NoCall EXCEPT !.phase = "opening", !.by = s], "opening", s, None, None, 0)
    BY <1>1 DEF IsCall, NoCall, CallType
  <1>4. \A tool \in {"watch", "unwatch", "events"}, t \in Targets, w \in 0..MaxWatches :
           IsCall([phase |-> "arrived", by |-> s, tool |-> tool, target |-> t, watch |-> w],
                  "arrived", s, tool, t, w)
    BY DEF IsCall, CallType
  <1>. QED  BY <1>2, <1>3, <1>4

\* One session, or one call, changes and the others do not.
LEMMA OneSession ==
  ASSUME TypeOK, NEW s \in Sessions, NEW r \in SessionType, session' = [session EXCEPT ![s] = r]
  PROVE  /\ session' \in [Sessions -> SessionType] /\ session'[s] = r
         /\ \A u \in Sessions : u # s => session'[u] = session[u]
  BY DEF TypeOK

LEMMA OneCall ==
  ASSUME TypeOK, NEW c \in Calls, NEW r \in CallType, call' = [call EXCEPT ![c] = r]
  PROVE  /\ call' \in [Calls -> CallType] /\ call'[c] = r
         /\ \A d \in Calls : d # c => call'[d] = call[d]
  BY DEF TypeOK

\* A session with a call under way is active.
LEMMA CallsAreActive ==
  ASSUME BridgeAssumption, TypeOK, Counted, NEW c \in Calls, call[c].by \in Sessions
  PROVE  /\ session[call[c].by].active \in Nat \ {0}
         /\ session[call[c].by].active = Cardinality(CallsOf(call[c].by))
         /\ session[call[c].by].active = 1 => CallsOf(call[c].by) = {c}
  <1>. DEFINE s == call[c].by
              S == CallsOf(s)
  <1>1. c \in S /\ S \subseteq Calls  BY DEF CallsOf
  <1>2. IsFiniteSet(S)  BY <1>1, FS_Subset DEF BridgeAssumption
  <1>3. session[s].active = Cardinality(S)  BY DEF Counted, SessionShape
  <1>. HIDE DEF S, s
  <1>4. Cardinality(S) \in Nat /\ Cardinality(S) # 0  BY <1>1, <1>2, FS_CardinalityType, FS_EmptySet
  <1>5. Cardinality(S) = 1 => S = {c}
    BY <1>1, <1>2, FS_Singleton
  <1>. QED  BY <1>3, <1>4, <1>5 DEF S, s

-----------------------------------------------------------------------------
(* What a step keeps that does not concern it.                              *)

\* The calls keep their sessions and the sessions their place.
LEMMA CountsKept ==
  ASSUME BridgeAssumption, Counted,
         \A s \in Sessions : /\ session'[s].state = session[s].state
                             /\ session'[s].active = session[s].active
                             /\ session'[s].timer = session[s].timer,
         idleOrder' = idleOrder,
         \A c \in Calls : call'[c].by = call[c].by,
         \A c \in Calls : call'[c].phase = "opening" <=> call[c].phase = "opening"
  PROVE  Counted'
  <1>1. Known' = Known  BY DEF Known
  <1>2. \A s \in Sessions : CallsOf(s)' = CallsOf(s)  BY DEF CallsOf
  <1>3. \A s \in Sessions : SessionShape(s)'
    BY <1>2 DEF Counted, SessionShape, Open, In
  <1>4. \A c \in Calls : call'[c].by \in Sessions =>
           (call'[c].phase = "opening" <=> session'[call'[c].by].state = "opening")
    BY DEF Counted
  <1>. QED  BY <1>1, <1>3, <1>4 DEF Counted

\* No call starts to answer, unless about a watch of its session or one that is gone.
LEMMA AnswersKept ==
  ASSUME BridgeAssumption, TypeOK, Shapes, RingsTrue, AnswersAgree, WatchesMove,
         \A c \in Calls : \/ call'[c] = call[c] \/ call'[c].phase # "answering"
                         \/ watch'[call'[c].watch].state = "gone"
                         \/ /\ call'[c].tool = "watch"
                            /\ watch'[call'[c].watch].owner = call'[c].by
  PROVE  AnswersAgree'
  <1>. SUFFICES ASSUME NEW c \in Calls, call'[c].phase = "answering"
                PROVE  \/ watch'[call'[c].watch].state = "gone"
                       \/ call'[c].tool = "watch" /\ watch'[call'[c].watch].owner = call'[c].by
    BY DEF AnswersAgree
  <1>. SUFFICES ASSUME call'[c] = call[c]
                PROVE  \/ watch'[call'[c].watch].state = "gone"
                       \/ call'[c].tool = "watch" /\ watch'[call'[c].watch].owner = call'[c].by
    OBVIOUS
  <1>1. call'[c] = call[c] /\ call[c].phase = "answering"  OBVIOUS
  <1>2. call[c].by \in Sessions /\ call[c].watch \in WatchIds
    BY <1>1 DEF Shapes, CallShape
  <1>3. \/ watch[call[c].watch].state = "gone"
        \/ call[c].tool = "watch" /\ watch[call[c].watch].owner = call[c].by
    BY <1>1 DEF AnswersAgree
  <1>4. /\ watch[call[c].watch].state = "gone" => watch'[call[c].watch].state = "gone"
        /\ watch[call[c].watch].owner \in Sessions =>
               watch'[call[c].watch].state = "gone"
               \/ watch'[call[c].watch].owner = watch[call[c].watch].owner
    BY <1>2, MovesKeepOwners
  <1>. QED  BY <1>1, <1>2, <1>3, <1>4

\* A notice is armed only for a watch there is, and is of its latest event.
LEMMA NoticesKept ==
  ASSUME BridgeAssumption, TypeOK, Shapes, RingsTrue, NoticesFit, NoNoticeIsLost, WatchesMove,
         \A s \in Sessions, w \in WatchIds :
            /\ session'[s].notice[w] # "off" =>
                  session[s].notice[w] # "off" \/ watch[w].state # "none"
            /\ session'[s].notice[w] = "on" =>
                  \/ session[s].notice[w] = "on" /\ session'[s].told[w] = session[s].told[w]
                  \/ watch'[w] = watch[w] /\ session'[s].told[w] = watch[w].latest
  PROVE  NoticesFit' /\ NoNoticeIsLost'
  <1>1. NoticesFit'
    <2>1. \A w \in WatchIds : watch'[w].state = "none" => watch[w].state = "none"
      BY MovesKeepOwners
    <2>. QED  BY <2>1 DEF NoticesFit
  <1>2. ASSUME NEW s \in Sessions, NEW w \in WatchIds,
               session'[s].notice[w] = "on", watch'[w].state = "live"
        PROVE  session'[s].told[w] = watch'[w].latest
    <2>1. CASE watch'[w] = watch[w] /\ session'[s].told[w] = watch[w].latest
      BY <2>1
    <2>2. CASE session[s].notice[w] = "on" /\ session'[s].told[w] = session[s].told[w]
      <3>1. watch[w].state # "none"  BY <2>2 DEF NoticesFit
      <3>2. watch'[w] = watch[w]
        <4>1. CASE WatchMove(w)
          <5>1. GoneWatch.state = "gone" /\ Receipt(watch[w]).state = "expired"
            BY GoneRecord, ReceiptRecord DEF TypeOK
          <5>. QED  BY <1>2, <4>1, <5>1 DEF WatchMove
        <4>2. ASSUME NEW a \in Sessions, NEW t \in Targets, NEW v \in WatchIds, WatchMade(a, t, v)
              PROVE  watch'[w] = watch[w]
          BY <3>1, <4>2 DEF WatchMade, TypeOK
        <4>. QED  BY <4>1, <4>2 DEF WatchesMove
      <3>3. session[s].told[w] = watch[w].latest
        BY <1>2, <2>2, <3>2 DEF NoNoticeIsLost, Live
      <3>. QED  BY <2>2, <3>2, <3>3
    <2>. QED  BY <1>2, <2>1, <2>2
  <1>3. NoNoticeIsLost'  BY <1>2 DEF NoNoticeIsLost, Live
  <1>. QED  BY <1>1, <1>3

\* Where a watch is accounted for.
Accounted(w) ==
  watch[w].state \in {"live", "expired"} =>
    IF watch[w].target = "local" THEN Open(watch[w].owner) /\ registered
    ELSE \/ Open(watch[w].owner) /\ w \in session[watch[w].owner].watches
         \/ <<w, watch[w].owner>> \in unwatching
         \/ \E c \in Calls : call[c].phase = "answering" /\ call[c].watch = w
         \/ w \in orphans

LEMMA AccountedEach == WatchesAreOwned <=> \A w \in WatchIds : Accounted(w)
  BY DEF WatchesAreOwned, Accounted

LEMMA AccountedEachNext == WatchesAreOwned' <=> \A w \in WatchIds : Accounted(w)'
  BY DEF WatchesAreOwned, Accounted

\* A watch stays accounted for when nothing that accounts for it goes.
LEMMA AccountKept ==
  ASSUME NEW w \in WatchIds, Shapes, Accounted(w),
         watch'[w].state \in {"live", "expired"} =>
            /\ watch[w].state \in {"live", "expired"}
            /\ watch'[w].owner = watch[w].owner /\ watch'[w].target = watch[w].target,
         registered => registered',
         \A s \in Sessions : watch[w].owner = s /\ Open(s) =>
            Open(s)' /\ (w \in session[s].watches => w \in session'[s].watches),
         unwatching \subseteq unwatching', orphans \subseteq orphans',
         \A c \in Calls : call[c].phase = "answering" => call'[c] = call[c]
  PROVE  Accounted(w)'
  <1>. SUFFICES ASSUME watch'[w].state \in {"live", "expired"} PROVE Accounted(w)'
    BY DEF Accounted
  <1>1. watch[w].owner \in Sessions  BY DEF Shapes, WatchShape
  <1>2. CASE watch[w].target = "local"  BY <1>1, <1>2 DEF Accounted
  <1>3. CASE watch[w].target # "local"
    <2>1. CASE Open(watch[w].owner) /\ w \in session[watch[w].owner].watches
      BY <1>1, <1>3, <2>1 DEF Accounted
    <2>2. CASE <<w, watch[w].owner>> \in unwatching \/ w \in orphans
      BY <1>3, <2>2 DEF Accounted
    <2>3. ASSUME NEW c \in Calls, call[c].phase = "answering", call[c].watch = w
          PROVE  Accounted(w)'
      <3>1. call'[c].phase = "answering" /\ call'[c].watch = w  BY <2>3
      <3>. QED  BY <1>3, <3>1 DEF Accounted
    <2>. QED  BY <1>3, <2>1, <2>2, <2>3 DEF Accounted
  <1>. QED  BY <1>2, <1>3

\* What accounts for a watch at the client, or of an owner o, after a step.
AccountsNext(w, o) ==
  \/ session'[o].state = "open" /\ w \in session'[o].watches
  \/ <<w, o>> \in unwatching'
  \/ \E c \in Calls : call'[c].phase = "answering" /\ call'[c].watch = w
  \/ w \in orphans'

LEMMA AccountMoves ==
  ASSUME NEW w \in WatchIds, Shapes, Accounted(w),
         watch'[w].state \in {"live", "expired"} =>
            /\ watch[w].state \in {"live", "expired"}
            /\ watch'[w].owner = watch[w].owner /\ watch'[w].target = watch[w].target,
         watch'[w].state \in {"live", "expired"} /\ watch[w].target = "local"
            /\ registered /\ session[watch[w].owner].state = "open"
            => registered' /\ session'[watch[w].owner].state = "open",
         watch'[w].state \in {"live", "expired"} /\ watch[w].target # "local" =>
            /\ session[watch[w].owner].state = "open" /\ w \in session[watch[w].owner].watches
                  => AccountsNext(w, watch[w].owner)
            /\ <<w, watch[w].owner>> \in unwatching => AccountsNext(w, watch[w].owner)
            /\ w \in orphans => AccountsNext(w, watch[w].owner)
            /\ \A c \in Calls : call[c].phase = "answering" /\ call[c].watch = w
                  => AccountsNext(w, watch[w].owner)
  PROVE  Accounted(w)'
  <1>. SUFFICES ASSUME watch'[w].state \in {"live", "expired"} PROVE Accounted(w)'
    BY DEF Accounted
  <1>1. CASE watch[w].target = "local"  BY <1>1 DEF Accounted, Open
  <1>2. CASE watch[w].target # "local"
    <2>1. AccountsNext(w, watch[w].owner)
      <3>. HIDE DEF AccountsNext
      <3>. QED  BY <1>2 DEF Accounted, Open
    <2>2. AccountsNext(w, watch'[w].owner) /\ watch'[w].target # "local"
      <3>. HIDE DEF AccountsNext
      <3>. QED  BY <1>2, <2>1
    <2>. QED  BY <2>2 DEF Accounted, Open, AccountsNext
  <1>. QED  BY <1>1, <1>2

-----------------------------------------------------------------------------
(* The steps that are no calls of a tool.                                   *)

\* What every step has to keep, the watches apart.
Kept_IInv ==
  /\ registered' \in BOOLEAN /\ session' \in [Sessions -> SessionType]
  /\ idleOrder' \in Seq(Sessions) /\ call' \in [Calls -> CallType]
  /\ \A c \in Calls : CallShape(call'[c])
  /\ AnswersAgree' /\ Counted' /\ NoticesFit' /\ NoNoticeIsLost' /\ WatchesAreOwned'

\* A step that changes no call and no session but its watches and notices.
LEMMA QuietKeeps ==
  ASSUME BridgeAssumption, IInv, WatchesMove,
         registered' \in BOOLEAN, call' = call, idleOrder' = idleOrder,
         session' \in [Sessions -> SessionType],
         \A s \in Sessions : /\ session'[s].state = session[s].state
                             /\ session'[s].active = session[s].active
                             /\ session'[s].timer = session[s].timer,
         NoticesFit' /\ NoNoticeIsLost', WatchesAreOwned'
  PROVE  Kept_IInv
  <1>1. \A c \in Calls : CallShape(call'[c])  BY DEF IInv, Shapes
  <1>2. AnswersAgree'  BY AnswersKept DEF IInv
  <1>3. Counted'
    <2>1. \A c \in Calls : call'[c].phase = "opening" <=> call[c].phase = "opening"
      OBVIOUS
    <2>. QED  BY <2>1, CountsKept DEF IInv
  <1>4. call' \in [Calls -> CallType] /\ idleOrder' \in Seq(Sessions)  BY DEF IInv, TypeOK
  <1>. QED  BY <1>1, <1>2, <1>3, <1>4 DEF Kept_IInv

\* The watches are as they were, and so is what accounts for them.
LEMMA SameAccounts ==
  ASSUME IInv, watch' = watch, registered => registered', call' = call,
         \A s \in Sessions : Open(s) => Open(s)' /\ session[s].watches \subseteq session'[s].watches,
         unwatching \subseteq unwatching', orphans \subseteq orphans'
  PROVE  WatchesAreOwned'
  <1>1. ASSUME NEW w \in WatchIds PROVE Accounted(w)'
    <2>1. Accounted(w) /\ Shapes  BY AccountedEach DEF IInv
    <2>2. watch'[w] = watch[w]  OBVIOUS
    <2>3. \A s \in Sessions : watch[w].owner = s /\ Open(s) =>
             Open(s)' /\ (w \in session[s].watches => w \in session'[s].watches)
      OBVIOUS
    <2>. QED  BY <2>1, <2>2, <2>3, AccountKept
  <1>. QED  BY <1>1, AccountedEachNext

LEMMA RegisterKeeps ==
  ASSUME BridgeAssumption, IInv, WatchesMove, Register
  PROVE  Kept_IInv
  <1>1. /\ registered' = TRUE
        /\ UNCHANGED <<session, idleOrder, call, watch, unwatching, orphans>>
    BY DEF Register
  <1>2. session' \in [Sessions -> SessionType]  BY <1>1 DEF IInv, TypeOK
  <1>3. NoticesFit' /\ NoNoticeIsLost'  BY <1>1 DEF IInv, NoticesFit, NoNoticeIsLost, Live
  <1>4. WatchesAreOwned'  BY <1>1, SameAccounts DEF Open
  <1>. QED  BY <1>1, <1>2, <1>3, <1>4, QuietKeeps

\* The notice of a session about one watch.
LEMMA NoticeUpdates ==
  ASSUME NEW x \in SessionType, NEW w \in WatchIds, NEW m \in {"off", "on", "due"}, NEW k \in Nat
  PROVE  /\ IsSession([x EXCEPT !.notice[w] = m],
                      x.state, x.active, x.timer, x.watches, [x.notice EXCEPT ![w] = m], x.told)
         /\ IsSession([x EXCEPT !.notice[w] = m, !.told[w] = k],
                      x.state, x.active, x.timer, x.watches,
                      [x.notice EXCEPT ![w] = m], [x.told EXCEPT ![w] = k])
  <1>1. 0 \in Nat /\ TRUE \in BOOLEAN /\ {} \in SUBSET WatchIds  OBVIOUS
  <1>. QED  BY <1>1, SessionUpdates, Zenon

LEMMA NoticeStepKeeps ==
  ASSUME BridgeAssumption, IInv, WatchesMove, NEW s \in Sessions, NEW w \in WatchIds,
         Subscribe(s, w) \/ Unsubscribe(s, w) \/ Notice(s, w)
  PROVE  Kept_IInv
  <1>0. /\ TypeOK /\ session[s] \in SessionType /\ watch[w].latest \in Nat
        /\ session[s].notice \in [WatchIds -> {"off", "on", "due"}]
        /\ session[s].told \in [WatchIds -> Nat]
    BY DEF IInv, TypeOK, SessionType, WatchType
  <1>1. UNCHANGED <<registered, idleOrder, call, watch, unwatching, orphans>>
    BY DEF Subscribe, Unsubscribe, Notice
  <1>. DEFINE Armed(r, m, n) ==
           /\ session' = [session EXCEPT ![s] = r]
           /\ IsSession(r, session[s].state, session[s].active, session[s].timer,
                        session[s].watches, [session[s].notice EXCEPT ![w] = m], n)
           /\ m # "off" => session[s].notice[w] # "off" \/ watch[w].state # "none"
           /\ m = "on" => n[w] = watch[w].latest
           /\ \A v \in WatchIds : v # w => n[v] = session[s].told[v]
  <1>2. PICK r \in SessionType, m \in {"off", "on", "due"}, n \in [WatchIds -> Nat] : Armed(r, m, n)
    <2>1. CASE Subscribe(s, w)
      <3>. DEFINE r == [session[s] EXCEPT !.notice[w] = "on", !.told[w] = watch[w].latest]
                  n == [session[s].told EXCEPT ![w] = watch[w].latest]
      <3>1. session' = [session EXCEPT ![s] = r] /\ watch[w].state = "live"
        BY <2>1 DEF Subscribe, Live
      <3>2. n \in [WatchIds -> Nat] /\ n[w] = watch[w].latest
            /\ \A v \in WatchIds : v # w => n[v] = session[s].told[v]
        BY <1>0
      <3>3. IsSession(r, session[s].state, session[s].active, session[s].timer,
                      session[s].watches, [session[s].notice EXCEPT ![w] = "on"], n)
        BY <1>0, NoticeUpdates
      <3>. HIDE DEF r, n
      <3>4. r \in SessionType /\ Armed(r, "on", n)  BY <3>1, <3>2, <3>3 DEF IsSession
      <3>. HIDE DEF Armed
      <3>. QED  BY <3>2, <3>4
    <2>2. CASE Unsubscribe(s, w)
      <3>. DEFINE r == [session[s] EXCEPT !.notice[w] = "off"]
      <3>1. session' = [session EXCEPT ![s] = r]
        BY <2>2 DEF Unsubscribe
      <3>2. IsSession(r, session[s].state, session[s].active, session[s].timer,
                      session[s].watches, [session[s].notice EXCEPT ![w] = "off"], session[s].told)
        BY <1>0, NoticeUpdates
      <3>. HIDE DEF r
      <3>3. r \in SessionType /\ Armed(r, "off", session[s].told)  BY <3>1, <3>2 DEF IsSession
      <3>. HIDE DEF Armed
      <3>. QED  BY <1>0, <3>3
    <2>3. CASE Notice(s, w)
      <3>. DEFINE m == IF Live(w) /\ watch[w].owner = s THEN "on" ELSE "off"
                  r == [session[s] EXCEPT !.notice[w] = m, !.told[w] = watch[w].latest]
                  n == [session[s].told EXCEPT ![w] = watch[w].latest]
      <3>1. session' = [session EXCEPT ![s] = r] /\ session[s].notice[w] = "due"
        BY <2>3 DEF Notice
      <3>2. n \in [WatchIds -> Nat] /\ n[w] = watch[w].latest
            /\ \A v \in WatchIds : v # w => n[v] = session[s].told[v]
        BY <1>0
      <3>3. m \in {"off", "on", "due"}  OBVIOUS
      <3>. HIDE DEF m
      <3>4. IsSession(r, session[s].state, session[s].active, session[s].timer,
                      session[s].watches, [session[s].notice EXCEPT ![w] = m], n)
        BY <1>0, <3>3, NoticeUpdates
      <3>. HIDE DEF r, n
      <3>5. r \in SessionType /\ Armed(r, m, n)  BY <3>1, <3>2, <3>4 DEF IsSession
      <3>. HIDE DEF Armed
      <3>. QED  BY <3>2, <3>3, <3>5
    <2>. QED  BY <2>1, <2>2, <2>3
  <1>4. /\ session' \in [Sessions -> SessionType] /\ session'[s] = r
        /\ \A u \in Sessions : u # s => session'[u] = session[u]
    BY <1>0, <1>2, OneSession
  <1>5. /\ r.state = session[s].state /\ r.active = session[s].active /\ r.timer = session[s].timer
        /\ r.watches = session[s].watches /\ r.told = n
        /\ r.notice[w] = m /\ \A v \in WatchIds : v # w => r.notice[v] = session[s].notice[v]
    BY <1>0, <1>2 DEF IsSession
  <1>6. NoticesFit' /\ NoNoticeIsLost'
    <2>1. ASSUME NEW u \in Sessions, NEW v \in WatchIds
          PROVE  /\ session'[u].notice[v] # "off" =>
                       session[u].notice[v] # "off" \/ watch[v].state # "none"
                 /\ session'[u].notice[v] = "on" =>
                       \/ session[u].notice[v] = "on" /\ session'[u].told[v] = session[u].told[v]
                       \/ watch'[v] = watch[v] /\ session'[u].told[v] = watch[v].latest
      <3>1. CASE u # s  BY <1>4, <3>1
      <3>2. CASE u = s /\ v # w  BY <1>2, <1>4, <1>5, <3>2
      <3>3. CASE u = s /\ v = w  BY <1>1, <1>2, <1>4, <1>5, <3>3
      <3>. QED  BY <3>1, <3>2, <3>3
    <2>. QED  BY <2>1, NoticesKept DEF IInv
  <1>7. WatchesAreOwned'
    <2>1. \A u \in Sessions : Open(u) => Open(u)' /\ session[u].watches \subseteq session'[u].watches
      BY <1>4, <1>5 DEF Open
    <2>. QED  BY <1>1, <2>1, SameAccounts
  <1>8. \A u \in Sessions : /\ session'[u].state = session[u].state
                            /\ session'[u].active = session[u].active
                            /\ session'[u].timer = session[u].timer
    BY <1>4, <1>5
  <1>9. registered' \in BOOLEAN  BY <1>0, <1>1 DEF TypeOK
  <1>. QED  BY <1>1, <1>4, <1>6, <1>7, <1>8, <1>9, QuietKeeps

LEMMA EventKeeps ==
  ASSUME BridgeAssumption, IInv, WatchesMove, NEW w \in WatchIds, Event(w)
  PROVE  Kept_IInv
  <1>0. TypeOK /\ watch[w] \in WatchType /\ RingTrue(watch[w])
    BY DEF IInv, TypeOK, RingsTrue
  <1>1. /\ UNCHANGED <<registered, idleOrder, call, unwatching, orphans>>
        /\ watch' = [watch EXCEPT ![w] = Appended(watch[w])]
        /\ watch[w].state = "live"
        /\ session' = [s \in Sessions |->
                         IF session[s].notice[w] = "on"
                         THEN [session[s] EXCEPT !.notice[w] = "due"] ELSE session[s]]
    BY DEF Event, Live
  <1>2. ASSUME NEW s \in Sessions
        PROVE  /\ session'[s] \in SessionType
               /\ session'[s].state = session[s].state /\ session'[s].active = session[s].active
               /\ session'[s].timer = session[s].timer /\ session'[s].watches = session[s].watches
               /\ session'[s].told = session[s].told /\ session'[s].notice[w] # "on"
               /\ \A v \in WatchIds : v # w => session'[s].notice[v] = session[s].notice[v]
    <2>. DEFINE x == session[s]
                y == [x EXCEPT !.notice[w] = "due"]
    <2>0. x \in SessionType /\ x.notice \in [WatchIds -> {"off", "on", "due"}]
      BY <1>0 DEF TypeOK, SessionType
    <2>1. 0 \in Nat /\ {} \in SUBSET WatchIds /\ TRUE \in BOOLEAN /\ "due" \in {"off", "on", "due"}
      OBVIOUS
    <2>2. IsSession(y, x.state, x.active, x.timer, x.watches, [x.notice EXCEPT ![w] = "due"], x.told)
      BY <2>0, <2>1, SessionUpdates
    <2>3. session'[s] = IF x.notice[w] = "on" THEN y ELSE x  BY <1>1
    <2>4. [x.notice EXCEPT ![w] = "due"][w] = "due"
          /\ \A v \in WatchIds : v # w => [x.notice EXCEPT ![w] = "due"][v] = x.notice[v]
      BY <2>0
    <2>. HIDE DEF x, y
    <2>5. CASE x.notice[w] = "on"
      <3>1. session'[s] = y /\ y.notice[w] = "due"
            /\ \A v \in WatchIds : v # w => y.notice[v] = x.notice[v]
        BY <2>2, <2>3, <2>4, <2>5 DEF IsSession
      <3>2. /\ session'[s] \in SessionType /\ session'[s].state = x.state
            /\ session'[s].active = x.active /\ session'[s].timer = x.timer
            /\ session'[s].watches = x.watches /\ session'[s].told = x.told
        BY <2>2, <3>1 DEF IsSession
      <3>. QED  BY <3>1, <3>2 DEF x
    <2>6. CASE x.notice[w] # "on"
      <3>1. session'[s] = x  BY <2>3, <2>6
      <3>. QED  BY <2>0, <2>6, <3>1 DEF x
    <2>. QED  BY <2>5, <2>6
  <1>3. session' \in [Sessions -> SessionType]
    <2>1. session' = [s \in Sessions |-> session'[s]]  BY <1>1
    <2>. QED  BY <1>2, <2>1
  <1>4. /\ Appended(watch[w]).state = "live" /\ Appended(watch[w]).owner = watch[w].owner
        /\ Appended(watch[w]).target = watch[w].target
    BY <1>0, <1>1, AppendKeepsRing
  <1>5. \A v \in WatchIds : watch'[v] = IF v = w THEN Appended(watch[w]) ELSE watch[v]
    BY <1>0, <1>1 DEF TypeOK
  <1>6. NoticesFit' /\ NoNoticeIsLost'
    <2>1. ASSUME NEW u \in Sessions, NEW v \in WatchIds
          PROVE  /\ session'[u].notice[v] # "off" =>
                       session[u].notice[v] # "off" \/ watch[v].state # "none"
                 /\ session'[u].notice[v] = "on" =>
                       \/ session[u].notice[v] = "on" /\ session'[u].told[v] = session[u].told[v]
                       \/ watch'[v] = watch[v] /\ session'[u].told[v] = watch[v].latest
      <3>1. CASE v # w  BY <1>2, <3>1
      <3>2. CASE v = w  BY <1>1, <1>2, <3>2
      <3>. QED  BY <3>1, <3>2
    <2>. QED  BY <2>1, NoticesKept DEF IInv
  <1>7. WatchesAreOwned'
    <2>1. ASSUME NEW v \in WatchIds PROVE Accounted(v)'
      <3>1. Accounted(v) /\ Shapes  BY AccountedEach DEF IInv
      <3>2. /\ watch'[v].state = watch[v].state
            /\ watch'[v].owner = watch[v].owner /\ watch'[v].target = watch[v].target
        BY <1>1, <1>4, <1>5
      <3>3. \A s \in Sessions : watch[v].owner = s /\ Open(s) =>
               Open(s)' /\ (v \in session[s].watches => v \in session'[s].watches)
        BY <1>2 DEF Open
      <3>. QED  BY <1>1, <3>1, <3>2, <3>3, AccountKept
    <2>. QED  BY <2>1, AccountedEachNext
  <1>8. registered' \in BOOLEAN  BY <1>0, <1>1 DEF TypeOK
  <1>. QED  BY <1>1, <1>2, <1>3, <1>6, <1>7, <1>8, QuietKeeps

LEMMA WatchIdleKeeps ==
  ASSUME BridgeAssumption, IInv, WatchesMove, NEW w \in WatchIds, WatchIdle(w)
  PROVE  Kept_IInv
  <1>0. TypeOK /\ watch[w] \in WatchType  BY DEF IInv, TypeOK
  <1>1. /\ UNCHANGED <<registered, session, idleOrder, call, unwatching, orphans>>
        /\ watch' = [watch EXCEPT ![w] = Receipt(watch[w])]
        /\ watch[w].state = "live"
    BY DEF WatchIdle, Receipt, Live
  <1>2. session' \in [Sessions -> SessionType] /\ registered' \in BOOLEAN  BY <1>0, <1>1 DEF TypeOK
  <1>3. NoticesFit' /\ NoNoticeIsLost'
    <2>1. ASSUME NEW u \in Sessions, NEW v \in WatchIds
          PROVE  /\ session'[u].notice[v] # "off" =>
                       session[u].notice[v] # "off" \/ watch[v].state # "none"
                 /\ session'[u].notice[v] = "on" =>
                       \/ session[u].notice[v] = "on" /\ session'[u].told[v] = session[u].told[v]
                       \/ watch'[v] = watch[v] /\ session'[u].told[v] = watch[v].latest
      BY <1>1
    <2>. QED  BY <2>1, NoticesKept DEF IInv
  <1>4. WatchesAreOwned'
    <2>1. ASSUME NEW v \in WatchIds PROVE Accounted(v)'
      <3>1. Accounted(v) /\ Shapes  BY AccountedEach DEF IInv
      <3>2. Receipt(watch[w]).owner = watch[w].owner /\ Receipt(watch[w]).target = watch[w].target
        BY <1>0, ReceiptRecord
      <3>3. watch'[v] = IF v = w THEN Receipt(watch[w]) ELSE watch[v]  BY <1>0, <1>1 DEF TypeOK
      <3>4. watch'[v].state \in {"live", "expired"} =>
               /\ watch[v].state \in {"live", "expired"}
               /\ watch'[v].owner = watch[v].owner /\ watch'[v].target = watch[v].target
        BY <1>1, <3>2, <3>3
      <3>5. \A s \in Sessions : watch[v].owner = s /\ Open(s) =>
               Open(s)' /\ (v \in session[s].watches => v \in session'[s].watches)
        BY <1>1 DEF Open
      <3>. QED  BY <1>1, <3>1, <3>4, <3>5, AccountKept
    <2>. QED  BY <2>1, AccountedEachNext
  <1>. QED  BY <1>1, <1>2, <1>3, <1>4, QuietKeeps

-----------------------------------------------------------------------------
(* The calls of tools.                                                      *)

\* A call goes on: it stays a call of its session.
LEMMA CallGoesOn ==
  ASSUME BridgeAssumption, IInv, NEW c \in Calls, NEW r \in CallType,
         NEW p \in {"sent", "answering", "ran"}, NEW v \in 0..MaxWatches,
         call[c].phase \in {"arrived", "sent", "answering"},
         call' = [call EXCEPT ![c] = r],
         IsCall(r, p, call[c].by, call[c].tool, call[c].target, v),
         p = "sent" => v = call[c].watch,
         p = "answering" => v \in WatchIds /\ call[c].tool \in {"watch", "unwatch"},
         \A s \in Sessions : /\ session'[s].state = session[s].state
                             /\ session'[s].active = session[s].active
                             /\ session'[s].timer = session[s].timer,
         idleOrder' = idleOrder
  PROVE  /\ call' \in [Calls -> CallType] /\ \A d \in Calls : CallShape(call'[d])
         /\ call'[c] = r /\ \A d \in Calls : d # c => call'[d] = call[d]
         /\ Counted'
  <1>0. TypeOK /\ Shapes  BY DEF IInv
  <1>1. /\ call' \in [Calls -> CallType] /\ call'[c] = r
        /\ \A d \in Calls : d # c => call'[d] = call[d]
    BY <1>0, OneCall
  <1>2. CallShape(r)
    <2>1. CallShape(call[c])  BY <1>0 DEF Shapes
    <2>2. /\ r.phase = p /\ r.by = call[c].by /\ r.tool = call[c].tool
          /\ r.target = call[c].target /\ r.watch = v
      BY DEF IsCall
    <2>. QED  BY <2>1, <2>2 DEF CallShape
  <1>3. \A d \in Calls : CallShape(call'[d])
    BY <1>0, <1>1, <1>2 DEF Shapes
  <1>4. Counted'
    <2>1. \A d \in Calls : call'[d].by = call[d].by  BY <1>1 DEF IsCall
    <2>2. \A d \in Calls : call'[d].phase = "opening" <=> call[d].phase = "opening"
      <3>1. call'[c].phase # "opening" /\ call[c].phase # "opening"  BY <1>1 DEF IsCall
      <3>. QED  BY <1>1, <3>1
    <2>. QED  BY <2>1, <2>2, CountsKept DEF IInv
  <1>. QED  BY <1>1, <1>3, <1>4

\* Kept changes nothing but what an open session remembers.
LEMMA KeptRecord ==
  ASSUME TypeOK, NEW s \in Sessions, NEW w \in WatchIds, session' = Kept(session, s, w)
  PROVE  /\ session' \in [Sessions -> SessionType]
         /\ \A u \in Sessions : /\ session'[u].state = session[u].state
                                /\ session'[u].active = session[u].active
                                /\ session'[u].timer = session[u].timer
                                /\ session'[u].notice = session[u].notice
                                /\ session'[u].told = session[u].told
                                /\ session[u].watches \subseteq session'[u].watches
         /\ Open(s) => w \in session'[s].watches
  <1>1. CASE ~ Open(s)
    BY <1>1 DEF Kept, Open, TypeOK
  <1>2. CASE Open(s)
    <2>. DEFINE x == session[s]
                y == [x EXCEPT !.watches = x.watches \cup {w}]
    <2>1. x \in SessionType /\ x.watches \cup {w} \in SUBSET WatchIds
      BY DEF TypeOK, SessionType
    <2>2. 0 \in Nat /\ TRUE \in BOOLEAN /\ "due" \in {"off", "on", "due"}
      OBVIOUS
    <2>3. IsSession(y, x.state, x.active, x.timer, x.watches \cup {w}, x.notice, x.told)
      BY <2>1, <2>2, SessionUpdates
    <2>4. session' = [session EXCEPT ![s] = y]  BY <1>2 DEF Kept, Open
    <2>. HIDE DEF y
    <2>5. y \in SessionType  BY <2>3 DEF IsSession
    <2>6. /\ session' \in [Sessions -> SessionType] /\ session'[s] = y
          /\ \A u \in Sessions : u # s => session'[u] = session[u]
      BY <2>4, <2>5, OneSession
    <2>7. /\ y.state = x.state /\ y.active = x.active /\ y.timer = x.timer
          /\ y.watches = x.watches \cup {w} /\ y.notice = x.notice /\ y.told = x.told
      BY <2>3 DEF IsSession
    <2>. QED  BY <2>6, <2>7
  <1>. QED  BY <1>1, <1>2

\* Nothing changes in the sessions but what they remember, and no ring takes an event.
LEMMA NoticesSame ==
  ASSUME BridgeAssumption, IInv, WatchesMove,
         \A u \in Sessions : session'[u].notice = session[u].notice /\ session'[u].told = session[u].told
  PROVE  NoticesFit' /\ NoNoticeIsLost'
  BY NoticesKept DEF IInv

LEMMA RunKeeps ==
  ASSUME BridgeAssumption, IInv, WatchesMove, NEW c \in Calls, Run(c)
  PROVE  Kept_IInv
  <1>. DEFINE k == call[c]
              s == k.by
              moved(p) == [k EXCEPT !.phase = p]
  <1>0. TypeOK /\ Shapes /\ k \in CallType  BY DEF IInv, TypeOK
  <1>1. k.phase = "arrived" /\ UNCHANGED <<registered, idleOrder, unwatching, orphans>>
    BY DEF Run
  <1>2. /\ s \in Sessions /\ k.tool \in {"watch", "unwatch", "events"} /\ k.target \in Targets
        /\ (k.tool # "watch" => k.watch \in WatchIds) /\ k.watch \in 0..MaxWatches
    BY <1>0, <1>1 DEF Shapes, CallShape, CallType
  <1>3. PICK p \in {"sent", "ran"} : call' = [call EXCEPT ![c] = moved(p)]
    <2>1. call' = [call EXCEPT ![c].phase = "ran"] \/ call' = [call EXCEPT ![c].phase = "sent"]
      BY Zenon DEF Run
    <2>. QED  BY <2>1
  <1>4. moved(p) \in CallType /\ IsCall(moved(p), p, k.by, k.tool, k.target, k.watch)
    <2>1. IsCall(moved(p), p, k.by, k.tool, k.target, k.watch)
      BY <1>0, <1>2, CallUpdates
    <2>. QED  BY <2>1 DEF IsCall
  <1>. DEFINE SamePlaces == \A u \in Sessions : /\ session'[u].state = session[u].state
                                                 /\ session'[u].active = session[u].active
                                                 /\ session'[u].timer = session[u].timer
  <1>5. ASSUME session' \in [Sessions -> SessionType], SamePlaces,
               NoticesFit' /\ NoNoticeIsLost', WatchesAreOwned'
        PROVE  Kept_IInv
    <2>. HIDE DEF moved
    <2>1. /\ call' \in [Calls -> CallType] /\ \A d \in Calls : CallShape(call'[d])
          /\ call'[c] = moved(p) /\ \A d \in Calls : d # c => call'[d] = call[d]
          /\ Counted'
      BY <1>1, <1>2, <1>3, <1>4, <1>5, CallGoesOn
    <2>2. call'[c].phase # "answering"  BY <1>4, <2>1 DEF IsCall
    <2>3. AnswersAgree'  BY <2>1, <2>2, AnswersKept DEF IInv
    <2>. QED  BY <1>0, <1>1, <1>5, <2>1, <2>3 DEF Kept_IInv, TypeOK
  <1>6. \A d \in Calls : call[d].phase = "answering" => call'[d] = call[d]
    <2>. HIDE DEF moved
    <2>. QED  BY <1>0, <1>1, <1>3 DEF TypeOK
  <1>. HIDE DEF moved
  <1>7. CASE watch' = watch /\ session' = session
    <2>1. session' \in [Sessions -> SessionType]  BY <1>0, <1>7 DEF TypeOK
    <2>2. NoticesFit' /\ NoNoticeIsLost'  BY <1>7, NoticesSame
    <2>3. ASSUME NEW w \in WatchIds PROVE Accounted(w)'
      <3>1. Accounted(w)  BY AccountedEach DEF IInv
      <3>. QED  BY <1>0, <1>1, <1>6, <1>7, <3>1, AccountKept DEF Open
    <2>4. WatchesAreOwned'  BY <2>3, AccountedEachNext
    <2>. QED  BY <1>5, <1>7, <2>1, <2>2, <2>4
  <1>8. CASE ~ (watch' = watch /\ session' = session)
    <2>1. /\ ~ (~registered \/ (k.tool = "watch" /\ k.target = "local" /\ ~MayCreate(s, "local")))
          /\ k.target # "client"
      BY <1>8, Zenon DEF Run
    <2>2. registered /\ k.target = "local"  BY <1>2, <2>1 DEF Targets
    <2>3. CASE k.tool = "watch"
      <3>. DEFINE v == Min(Free)
      <3>1. /\ session' = Kept(session, s, v)
            /\ watch' = IF Open(s) THEN Created(s, "local") ELSE Gone(watch, v)
        BY <2>1, <2>3 DEF Run
      <3>2. v \in WatchIds /\ watch[v].state = "none"
        BY <1>0, <2>1, <2>2, <2>3, FreeIsFresh DEF MayCreate
      <3>3. watch' = [watch EXCEPT ![v] = IF Open(s) THEN FreshWatch(s, "local") ELSE GoneWatch]
        BY <3>1 DEF Created, Gone, FreshWatch, GoneWatch
      <3>. HIDE DEF v, s, k
      <3>4. /\ session' \in [Sessions -> SessionType]
            /\ \A u \in Sessions : /\ session'[u].state = session[u].state
                                   /\ session'[u].active = session[u].active
                                   /\ session'[u].timer = session[u].timer
                                   /\ session'[u].notice = session[u].notice
                                   /\ session'[u].told = session[u].told
                                   /\ session[u].watches \subseteq session'[u].watches
        BY <1>0, <1>2, <3>1, <3>2, KeptRecord
      <3>5. NoticesFit' /\ NoNoticeIsLost'  BY <3>4, NoticesSame
      <3>6. ASSUME NEW w \in WatchIds PROVE Accounted(w)'
        <4>1. CASE w # v
          <5>1. Accounted(w)  BY AccountedEach DEF IInv
          <5>2. watch'[w] = watch[w]  BY <1>0, <3>3, <4>1 DEF TypeOK
          <5>. QED  BY <1>0, <1>1, <1>6, <3>4, <5>1, <5>2, AccountKept DEF Open
        <4>2. CASE w = v
          <5>1. "local" \in Targets \cup {None} /\ s \in Sessions \cup {None}  BY <1>2 DEF Targets
          <5>2. /\ GoneWatch.state = "gone"
                /\ FreshWatch(s, "local").owner = s /\ FreshWatch(s, "local").target = "local"
            BY <5>1, GoneRecord, WatchRecords
          <5>3. watch'[v] = IF Open(s) THEN FreshWatch(s, "local") ELSE GoneWatch
            BY <1>0, <3>2, <3>3 DEF TypeOK
          <5>4. CASE Open(s)
            <6>1. session'[s].state = "open" /\ registered'
              BY <1>1, <1>2, <2>2, <3>4, <5>4 DEF Open
            <6>2. watch'[w].owner = s /\ watch'[w].target = "local"  BY <4>2, <5>2, <5>3, <5>4
            <6>. QED  BY <6>1, <6>2 DEF Accounted, Open
          <5>5. CASE ~ Open(s)  BY <4>2, <5>2, <5>3, <5>5 DEF Accounted
          <5>. QED  BY <5>4, <5>5
        <4>. QED  BY <4>1, <4>2
      <3>7. WatchesAreOwned'  BY <3>6, AccountedEachNext
      <3>. QED  BY <1>5, <3>4, <3>5, <3>7
    <2>4. CASE k.tool = "unwatch"
      <3>. DEFINE v == k.watch
                  x == session[s]
                  y == [x EXCEPT !.watches = x.watches \ {v}, !.notice[v] = "off"]
      <3>1. watch[v].state = "live" /\ watch[v].owner = s
        BY <1>8, <2>1, <2>4 DEF Run, Removed
      <3>2. /\ session' = [session EXCEPT ![s] = y]
            /\ watch' = [watch EXCEPT ![v] = GoneWatch]
        <4>1. /\ watch' = Removed(watch, s, k.watch)
              /\ session' = IF watch[k.watch].state = "live" /\ watch[k.watch].owner = s
                            THEN [session EXCEPT ![s] = [session[s] EXCEPT !.watches = @ \ {k.watch},
                                                                  !.notice[k.watch] = "off"]]
                            ELSE session
          BY <2>1, <2>4 DEF Run
        <4>2. session' = [session EXCEPT ![s] = y]
          <5>. HIDE DEF s, k
          <5>. QED  BY <3>1, <4>1
        <4>3. watch' = [watch EXCEPT ![v] = GoneWatch]
          <5>. HIDE DEF s, k
          <5>. QED  BY <3>1, <4>1 DEF Removed, Gone, GoneWatch
        <4>. QED  BY <4>2, <4>3
      <3>3. v \in WatchIds  BY <1>2, <2>4
      <3>4. IsSession(y, x.state, x.active, x.timer, x.watches \ {v},
                      [x.notice EXCEPT ![v] = "off"], x.told)
        <4>1. x \in SessionType /\ x.watches \ {v} \in SUBSET WatchIds
          BY <1>0, <1>2 DEF TypeOK, SessionType
        <4>2. 0 \in Nat /\ TRUE \in BOOLEAN /\ "off" \in {"off", "on", "due"}
          OBVIOUS
        <4>. QED  BY <3>3, <4>1, <4>2, SessionUpdates
      <3>. HIDE DEF y, v
      <3>5. y \in SessionType  BY <3>4 DEF IsSession
      <3>. HIDE DEF s, k
      <3>6. /\ session' \in [Sessions -> SessionType] /\ session'[s] = y
            /\ \A u \in Sessions : u # s => session'[u] = session[u]
        BY <1>0, <1>2, <3>2, <3>5, OneSession
      <3>7. /\ y.state = x.state /\ y.active = x.active /\ y.timer = x.timer
            /\ y.watches = x.watches \ {v} /\ y.told = x.told
            /\ \A w \in WatchIds : y.notice[w] = IF w = v THEN "off" ELSE x.notice[w]
        <4>1. x.notice \in [WatchIds -> {"off", "on", "due"}]
          BY <1>0, <1>2 DEF TypeOK, SessionType
        <4>. QED  BY <3>3, <3>4, <4>1 DEF IsSession
      <3>8. SamePlaces  BY <3>6, <3>7
      <3>9. NoticesFit' /\ NoNoticeIsLost'
        <4>1. ASSUME NEW u \in Sessions, NEW w \in WatchIds
              PROVE  /\ session'[u].notice[w] # "off" =>
                           session[u].notice[w] # "off" \/ watch[w].state # "none"
                     /\ session'[u].notice[w] = "on" =>
                           \/ session[u].notice[w] = "on" /\ session'[u].told[w] = session[u].told[w]
                           \/ watch'[w] = watch[w] /\ session'[u].told[w] = watch[w].latest
          <5>1. CASE u # s  BY <3>6, <5>1
          <5>2. CASE u = s  BY <3>6, <3>7, <5>2
          <5>. QED  BY <5>1, <5>2
        <4>. QED  BY <4>1, NoticesKept DEF IInv
      <3>10. ASSUME NEW w \in WatchIds PROVE Accounted(w)'
        <4>1. CASE w = v
          <5>1. GoneWatch.state = "gone"  BY GoneRecord
          <5>2. watch'[w] = GoneWatch  BY <1>0, <3>2, <3>3, <4>1 DEF TypeOK
          <5>. QED  BY <5>1, <5>2 DEF Accounted
        <4>2. CASE w # v
          <5>1. Accounted(w)  BY AccountedEach DEF IInv
          <5>2. watch'[w] = watch[w]  BY <1>0, <3>2, <4>2 DEF TypeOK
          <5>3. \A u \in Sessions : watch[w].owner = u /\ Open(u) =>
                   Open(u)' /\ (w \in session[u].watches => w \in session'[u].watches)
            BY <3>6, <3>7, <4>2 DEF Open
          <5>. QED  BY <1>0, <1>1, <1>6, <5>1, <5>2, <5>3, AccountKept
        <4>. QED  BY <4>1, <4>2
      <3>11. WatchesAreOwned'  BY <3>10, AccountedEachNext
      <3>. QED  BY <1>5, <3>6, <3>8, <3>9, <3>11
    <2>5. CASE k.tool = "events"
      <3>. DEFINE v == k.watch
      <3>1. /\ session' = session
            /\ watch' = [watch EXCEPT ![v] = GoneWatch]
        BY <1>8, <2>1, <2>5 DEF Run, Gone, GoneWatch
      <3>. HIDE DEF v
      <3>2. session' \in [Sessions -> SessionType]  BY <1>0, <3>1 DEF TypeOK
      <3>3. NoticesFit' /\ NoNoticeIsLost'  BY <3>1, NoticesSame
      <3>4. ASSUME NEW w \in WatchIds PROVE Accounted(w)'
        <4>1. Accounted(w)  BY AccountedEach DEF IInv
        <4>2. GoneWatch.state = "gone"  BY GoneRecord
        <4>3. watch'[w] = watch[w] \/ watch'[w] = GoneWatch  BY <1>0, <3>1 DEF TypeOK
        <4>4. watch'[w].state \in {"live", "expired"} =>
                 /\ watch[w].state \in {"live", "expired"}
                 /\ watch'[w].owner = watch[w].owner /\ watch'[w].target = watch[w].target
          BY <4>2, <4>3
        <4>. QED  BY <1>0, <1>1, <1>6, <3>1, <4>1, <4>4, AccountKept DEF Open
      <3>5. WatchesAreOwned'  BY <3>4, AccountedEachNext
      <3>. QED  BY <1>5, <3>1, <3>2, <3>3, <3>5
    <2>. QED  BY <1>2, <2>3, <2>4, <2>5
  <1>. QED  BY <1>7, <1>8

LEMMA ClientRunsKeeps ==
  ASSUME BridgeAssumption, IInv, WatchesMove, NEW c \in Calls, ClientRuns(c)
  PROVE  Kept_IInv
  <1>. DEFINE k == call[c]
              s == k.by
              moved(p, v) == [k EXCEPT !.phase = p, !.watch = v]
              becomes(v, x) == watch' = [watch EXCEPT ![v] = x]
  <1>0. TypeOK /\ Shapes /\ k \in CallType  BY DEF IInv, TypeOK
  <1>1. /\ k.phase = "sent" /\ UNCHANGED <<registered, session, idleOrder, unwatching, orphans>>
    BY DEF ClientRuns
  <1>2. /\ s \in Sessions /\ k.tool \in {"watch", "unwatch", "events"}
        /\ (k.tool # "watch" => k.watch \in WatchIds) /\ k.watch \in 0..MaxWatches
    BY <1>0, <1>1 DEF Shapes, CallShape, CallType
  <1>3. \E p \in {"answering", "ran"}, v \in 0..MaxWatches :
           /\ call' = [call EXCEPT ![c] = moved(p, v)]
           /\ \/ watch' = watch /\ p = "ran"
              \/ becomes(v, GoneWatch) /\ p = "ran"
              \/ becomes(v, GoneWatch) /\ v \in WatchIds /\ k.tool = "unwatch"
              \/ becomes(v, FreshWatch(s, "client")) /\ v \in WatchIds /\ k.tool = "watch"
                 /\ p = "answering"
    <2>1. CASE /\ k.tool = "watch" /\ MayCreate(s, "client") /\ watch' = Created(s, "client")
               /\ call' = [call EXCEPT ![c] = moved("answering", Min(Free))]
      <3>1. Min(Free) \in WatchIds  BY <1>0, <2>1, FreeIsFresh DEF MayCreate
      <3>2. Min(Free) \in 0..MaxWatches  BY <3>1 DEF WatchIds
      <3>3. becomes(Min(Free), FreshWatch(s, "client"))  BY <2>1 DEF Created, FreshWatch
      <3>. QED  BY <2>1, <3>1, <3>2, <3>3
    <2>2. CASE /\ k.tool = "unwatch" /\ watch[k.watch].state = "live" /\ watch[k.watch].owner = s
               /\ watch' = Removed(watch, s, k.watch)
               /\ call' = [call EXCEPT ![c] = moved("answering", k.watch)]
      <3>1. becomes(k.watch, GoneWatch)  BY <2>2 DEF Removed, Gone, GoneWatch
      <3>2. k.watch \in WatchIds  BY <1>2, <2>2
      <3>. QED  BY <1>2, <2>2, <3>1, <3>2
    <2>3. CASE /\ watch' = Gone(watch, k.watch)
               /\ call' = [call EXCEPT ![c] = moved("ran", k.watch)]
      <3>1. becomes(k.watch, GoneWatch)  BY <2>3 DEF Gone, GoneWatch
      <3>. QED  BY <1>2, <2>3, <3>1
    <2>4. CASE /\ watch' = watch /\ call' = [call EXCEPT ![c] = moved("ran", k.watch)]
      BY <1>2, <2>4
    <2>5. \/ /\ k.tool = "watch" /\ MayCreate(s, "client") /\ watch' = Created(s, "client")
             /\ call' = [call EXCEPT ![c] = moved("answering", Min(Free))]
          \/ /\ k.tool = "unwatch" /\ watch[k.watch].state = "live" /\ watch[k.watch].owner = s
             /\ watch' = Removed(watch, s, k.watch)
             /\ call' = [call EXCEPT ![c] = moved("answering", k.watch)]
          \/ /\ watch' = Gone(watch, k.watch)
             /\ call' = [call EXCEPT ![c] = moved("ran", k.watch)]
          \/ /\ watch' = watch /\ call' = [call EXCEPT ![c] = moved("ran", k.watch)]
      BY Zenon DEF ClientRuns
    <2>. HIDE DEF moved, becomes, s, k
    <2>. QED  BY <2>1, <2>2, <2>3, <2>4, <2>5, Zenon
  <1>. HIDE DEF becomes
  <1>4. PICK p \in {"answering", "ran"}, v \in 0..MaxWatches :
           /\ call' = [call EXCEPT ![c] = moved(p, v)]
           /\ \/ watch' = watch /\ p = "ran"
              \/ becomes(v, GoneWatch) /\ p = "ran"
              \/ becomes(v, GoneWatch) /\ v \in WatchIds /\ k.tool = "unwatch"
              \/ becomes(v, FreshWatch(s, "client")) /\ v \in WatchIds /\ k.tool = "watch"
                 /\ p = "answering"
    BY <1>3
  <1>5. moved(p, v) \in CallType /\ IsCall(moved(p, v), p, k.by, k.tool, k.target, v)
    <2>1. IsCall(moved(p, v), p, k.by, k.tool, k.target, v)
      BY <1>0, <1>2, CallUpdates
    <2>. QED  BY <2>1 DEF IsCall
  <1>. HIDE DEF moved
  <1>6. /\ call' \in [Calls -> CallType] /\ \A d \in Calls : CallShape(call'[d])
        /\ call'[c] = moved(p, v) /\ \A d \in Calls : d # c => call'[d] = call[d]
        /\ Counted'
    <2>1. p = "answering" => v \in WatchIds /\ k.tool \in {"watch", "unwatch"}  BY <1>4
    <2>. QED  BY <1>1, <1>4, <1>5, <2>1, CallGoesOn
  <1>7. /\ call'[c].phase = p /\ call'[c].by = s /\ call'[c].tool = k.tool /\ call'[c].watch = v
    BY <1>5, <1>6 DEF IsCall
  <1>8. "client" \in Targets \cup {None} /\ s \in Sessions \cup {None}  BY <1>2 DEF Targets
  <1>9. /\ GoneWatch.state = "gone"
        /\ FreshWatch(s, "client").owner = s /\ FreshWatch(s, "client").target = "client"
    BY <1>8, GoneRecord, WatchRecords
  <1>10. AnswersAgree'
    <2>1. \/ p # "answering" \/ watch'[v].state = "gone"
          \/ k.tool = "watch" /\ watch'[v].owner = s
      BY <1>0, <1>4, <1>9 DEF becomes, TypeOK
    <2>. HIDE DEF s, k
    <2>. QED  BY <1>6, <1>7, <2>1, AnswersKept DEF IInv
  <1>11. NoticesFit' /\ NoNoticeIsLost'  BY <1>1, NoticesSame
  <1>12. ASSUME NEW w \in WatchIds PROVE Accounted(w)'
    <2>1. Accounted(w)  BY AccountedEach DEF IInv
    <2>2. CASE watch'[w] = watch[w]
      <3>1. \A d \in Calls : call[d].phase = "answering" => call'[d] = call[d]  BY <1>1, <1>6
      <3>. QED  BY <1>0, <1>1, <2>1, <2>2, <3>1, AccountKept DEF Open
    <2>3. CASE watch'[w] # watch[w]
      <3>1. w = v  BY <1>0, <1>4, <2>3 DEF becomes, TypeOK
      <3>2. CASE watch'[w] = GoneWatch  BY <1>9, <3>2 DEF Accounted
      <3>3. CASE watch'[w] # GoneWatch
        <4>1. watch'[w] = FreshWatch(s, "client") /\ p = "answering"
          BY <1>0, <1>4, <2>3, <3>1, <3>3 DEF becomes, TypeOK
        <4>2. watch'[w].target # "local"  BY <1>9, <4>1
        <4>3. call'[c].phase = "answering" /\ call'[c].watch = w  BY <1>7, <3>1, <4>1
        <4>. QED  BY <4>2, <4>3 DEF Accounted
      <3>. QED  BY <3>2, <3>3
    <2>. QED  BY <2>2, <2>3
  <1>13. WatchesAreOwned'  BY <1>12, AccountedEachNext
  <1>. QED  BY <1>0, <1>1, <1>6, <1>10, <1>11, <1>13 DEF Kept_IInv, TypeOK

\* A call has its answer, or an error.
LEMMA CallEnds ==
  ASSUME BridgeAssumption, IInv, WatchesMove, NEW c \in Calls,
         call[c].phase \in {"arrived", "sent", "answering"},
         call' = [call EXCEPT ![c].phase = "ran"]
  PROVE  \E r \in CallType, p \in {"sent", "answering", "ran"}, v \in 0..MaxWatches :
            /\ call' = [call EXCEPT ![c] = r] /\ p = "ran"
            /\ IsCall(r, p, call[c].by, call[c].tool, call[c].target, v)
  <1>. DEFINE r == [call[c] EXCEPT !.phase = "ran"]
  <1>0. call[c] \in CallType /\ call[c].watch \in 0..MaxWatches
    BY DEF IInv, TypeOK, CallType
  <1>1. IsCall(r, "ran", call[c].by, call[c].tool, call[c].target, call[c].watch)
    BY <1>0, CallUpdates
  <1>2. r \in CallType /\ call' = [call EXCEPT ![c] = r]  BY <1>1 DEF IsCall
  <1>. HIDE DEF r
  <1>. QED  BY <1>0, <1>1, <1>2

LEMMA EndedKeeps ==
  ASSUME BridgeAssumption, IInv, WatchesMove, NEW c \in Calls, NEW r \in CallType,
         NEW p \in {"sent", "answering", "ran"}, NEW v \in 0..MaxWatches,
         call[c].phase \in {"arrived", "sent", "answering"},
         call' = [call EXCEPT ![c] = r], p = "ran",
         IsCall(r, p, call[c].by, call[c].tool, call[c].target, v),
         UNCHANGED <<registered, idleOrder>>,
         session' \in [Sessions -> SessionType],
         \A u \in Sessions : /\ session'[u].state = session[u].state
                             /\ session'[u].active = session[u].active
                             /\ session'[u].timer = session[u].timer
                             /\ session'[u].notice = session[u].notice
                             /\ session'[u].told = session[u].told
  PROVE  /\ WatchesAreOwned' => Kept_IInv
         /\ \A d \in Calls : d # c => call'[d] = call[d]
         /\ call'[c] = r
  <1>0. TypeOK  BY DEF IInv
  <1>1. p # "sent" /\ p # "answering"  OBVIOUS
  <1>2. \A u \in Sessions : /\ session'[u].state = session[u].state
                            /\ session'[u].active = session[u].active
                            /\ session'[u].timer = session[u].timer
    OBVIOUS
  <1>3. idleOrder' = idleOrder  OBVIOUS
  <1>4. /\ call' \in [Calls -> CallType] /\ \A d \in Calls : CallShape(call'[d])
        /\ call'[c] = r /\ \A d \in Calls : d # c => call'[d] = call[d]
        /\ Counted'
    BY <1>1, <1>2, <1>3, CallGoesOn
  <1>5. r.phase # "answering"  BY <1>1 DEF IsCall
  <1>6. AnswersAgree'  BY <1>4, <1>5, AnswersKept DEF IInv
  <1>7. NoticesFit' /\ NoNoticeIsLost'  BY NoticesSame
  <1>. QED  BY <1>0, <1>4, <1>6, <1>7 DEF Kept_IInv, TypeOK

LEMMA AnswerKeeps ==
  ASSUME BridgeAssumption, IInv, WatchesMove, NEW c \in Calls, Answer(c)
  PROVE  Kept_IInv
  <1>. DEFINE k == call[c]
              s == k.by
              v == k.watch
  <1>0. TypeOK /\ Shapes /\ k \in CallType  BY DEF IInv, TypeOK
  <1>1. /\ k.phase = "answering" /\ UNCHANGED <<registered, idleOrder, watch>>
        /\ call' = [call EXCEPT ![c].phase = "ran"]
    BY DEF Answer
  <1>2. s \in Sessions /\ v \in WatchIds /\ k.tool \in {"watch", "unwatch"}
    BY <1>0, <1>1 DEF Shapes, CallShape
  <1>3. watch[v].state = "gone" \/ (k.tool = "watch" /\ watch[v].owner = s)
    BY <1>1 DEF IInv, AnswersAgree
  <1>. DEFINE SameSessions == \A u \in Sessions : /\ session'[u].state = session[u].state
                                                  /\ session'[u].active = session[u].active
                                                  /\ session'[u].timer = session[u].timer
                                                  /\ session'[u].notice = session[u].notice
                                                  /\ session'[u].told = session[u].told
              Remembered == \A u \in Sessions, w \in WatchIds :
                               w # v /\ w \in session[u].watches => w \in session'[u].watches
  <1>4. /\ session' \in [Sessions -> SessionType] /\ SameSessions /\ Remembered
        /\ k.tool = "watch" /\ Open(s) => v \in session'[s].watches
    <2>1. CASE k.tool = "watch"
      <3>1. session' = Kept(session, s, v)  BY <2>1 DEF Answer
      <3>. HIDE DEF s, v, k
      <3>. QED  BY <1>0, <1>2, <3>1, KeptRecord
    <2>2. CASE k.tool = "unwatch"
      <3>. DEFINE x == session[s]
                  y == [x EXCEPT !.watches = x.watches \ {v}]
      <3>1. session' = [session EXCEPT ![s] = y]  BY <2>2 DEF Answer
      <3>2. x \in SessionType /\ x.watches \ {v} \in SUBSET WatchIds
        BY <1>0, <1>2 DEF TypeOK, SessionType
      <3>3. 0 \in Nat /\ TRUE \in BOOLEAN /\ "due" \in {"off", "on", "due"}
        OBVIOUS
      <3>. HIDE DEF v, k
      <3>4. IsSession(y, x.state, x.active, x.timer, x.watches \ {v}, x.notice, x.told)
        BY <1>2, <3>2, <3>3, SessionUpdates
      <3>. HIDE DEF y, s
      <3>5. y \in SessionType  BY <3>4 DEF IsSession
      <3>6. /\ session' \in [Sessions -> SessionType] /\ session'[s] = y
            /\ \A u \in Sessions : u # s => session'[u] = session[u]
        BY <1>0, <1>2, <3>1, <3>5, OneSession
      <3>7. /\ y.state = x.state /\ y.active = x.active /\ y.timer = x.timer
            /\ y.watches = x.watches \ {v} /\ y.notice = x.notice /\ y.told = x.told
        BY <3>4 DEF IsSession
      <3>8. k.tool # "watch"  BY <2>2
      <3>. QED  BY <3>6, <3>7, <3>8
    <2>. QED  BY <1>2, <2>1, <2>2
  <1>5. unwatching \subseteq unwatching' /\ orphans \subseteq orphans'
    BY DEF Answer
  <1>6. k.tool = "watch" /\ ~ Open(s) => <<v, s>> \in unwatching' \/ v \in orphans'
    BY DEF Answer
  <1>. HIDE DEF k, s, v
  <1>7. /\ WatchesAreOwned' => Kept_IInv
        /\ \A d \in Calls : d # c => call'[d] = call[d]
    <2>1. call[c].phase \in {"arrived", "sent", "answering"}  BY <1>1 DEF k
    <2>2. PICK r \in CallType, p \in {"sent", "answering", "ran"}, n \in 0..MaxWatches :
             /\ call' = [call EXCEPT ![c] = r] /\ p = "ran"
             /\ IsCall(r, p, call[c].by, call[c].tool, call[c].target, n)
      BY <1>1, <2>1, CallEnds
    <2>3. UNCHANGED <<registered, idleOrder>>  BY <1>1
    <2>4. \A u \in Sessions : /\ session'[u].state = session[u].state
                              /\ session'[u].active = session[u].active
                              /\ session'[u].timer = session[u].timer
                              /\ session'[u].notice = session[u].notice
                              /\ session'[u].told = session[u].told
      BY <1>4
    <2>5. session' \in [Sessions -> SessionType]  BY <1>4
    <2>. HIDE DEF SameSessions, Remembered
    <2>. QED  BY <2>1, <2>2, <2>3, <2>4, <2>5, EndedKeeps
  <1>8. ASSUME NEW w \in WatchIds PROVE Accounted(w)'
    <2>1. Accounted(w)  BY AccountedEach DEF IInv
    <2>2. watch'[w] = watch[w] /\ registered' = registered  BY <1>1
    <2>3. CASE w # v
      <3>. DEFINE o == watch[w].owner
      <3>1. watch[w].state \in {"live", "expired"} => o \in Sessions  BY <1>0 DEF Shapes, WatchShape
      <3>. HIDE DEF o
      <3>2. \A d \in Calls : call[d].phase = "answering" /\ call[d].watch = w
               => call'[d].phase = "answering" /\ call'[d].watch = w
        BY <1>7, <2>3 DEF v, k
      <3>3. o \in Sessions => /\ session'[o].state = session[o].state
                              /\ w \in session[o].watches => w \in session'[o].watches
        BY <1>4, <2>3
      <3>. QED  BY <1>0, <1>5, <2>1, <2>2, <3>1, <3>2, <3>3, AccountMoves DEF AccountsNext, o
    <2>4. CASE w = v
      <3>1. CASE watch[v].state = "gone"  BY <2>2, <2>4, <3>1 DEF Accounted
      <3>2. CASE k.tool = "watch" /\ watch[v].owner = s
        <4>1. session'[s].state = session[s].state  BY <1>2, <1>4
        <4>2. AccountsNext(w, s)  BY <1>4, <1>6, <2>4, <3>2, <4>1 DEF AccountsNext, Open
        <4>. QED  BY <1>0, <2>1, <2>2, <2>4, <3>2, <4>1, <4>2, AccountMoves
      <3>. QED  BY <1>3, <3>1, <3>2
    <2>. QED  BY <2>3, <2>4
  <1>9. WatchesAreOwned'  BY <1>8, AccountedEachNext
  <1>. QED  BY <1>7, <1>9

LEMMA ExpireKeeps ==
  ASSUME BridgeAssumption, IInv, WatchesMove, NEW c \in Calls, Expire(c)
  PROVE  Kept_IInv
  <1>. DEFINE v == call[c].watch
  <1>0. TypeOK /\ Shapes  BY DEF IInv
  <1>1. /\ call[c].phase \in {"sent", "answering"}
        /\ UNCHANGED <<registered, session, idleOrder, watch, unwatching>>
        /\ call' = [call EXCEPT ![c].phase = "ran"]
        /\ orphans \subseteq orphans'
        /\ call[c].phase = "answering" /\ call[c].tool = "watch" => v \in orphans'
    BY DEF Expire
  <1>2. /\ WatchesAreOwned' => Kept_IInv
        /\ \A d \in Calls : d # c => call'[d] = call[d]
    <2>1. session' \in [Sessions -> SessionType]  BY <1>0, <1>1 DEF TypeOK
    <2>2. call[c].phase \in {"arrived", "sent", "answering"}  BY <1>1
    <2>3. PICK r \in CallType, p \in {"sent", "answering", "ran"}, n \in 0..MaxWatches :
             /\ call' = [call EXCEPT ![c] = r] /\ p = "ran"
             /\ IsCall(r, p, call[c].by, call[c].tool, call[c].target, n)
      BY <1>1, <2>2, CallEnds
    <2>. QED  BY <1>1, <2>1, <2>2, <2>3, EndedKeeps
  <1>3. ASSUME NEW w \in WatchIds PROVE Accounted(w)'
    <2>1. Accounted(w)  BY AccountedEach DEF IInv
    <2>2. watch'[w] = watch[w] /\ registered' = registered  BY <1>1
    <2>3. \A d \in Calls : call[d].phase = "answering" /\ call[d].watch = w
             => \/ call'[d].phase = "answering" /\ call'[d].watch = w
                \/ w \in orphans' \/ watch[w].state = "gone"
      BY <1>1, <1>2 DEF IInv, AnswersAgree
    <2>4. CASE watch[w].state = "gone"  BY <2>2, <2>4 DEF Accounted
    <2>5. CASE watch[w].state # "gone"
      <3>. DEFINE o == watch[w].owner
      <3>1. \A d \in Calls : call[d].phase = "answering" /\ call[d].watch = w => AccountsNext(w, o)
        BY <2>3, <2>5 DEF AccountsNext
      <3>2. /\ session[o].state = "open" /\ w \in session[o].watches => AccountsNext(w, o)
            /\ <<w, o>> \in unwatching => AccountsNext(w, o)
            /\ w \in orphans => AccountsNext(w, o)
        BY <1>1 DEF AccountsNext
      <3>3. session' = session  BY <1>1
      <3>. HIDE DEF AccountsNext
      <3>. QED  BY <1>0, <2>1, <2>2, <3>1, <3>2, <3>3, AccountMoves
    <2>. QED  BY <2>4, <2>5
  <1>4. WatchesAreOwned'  BY <1>3, AccountedEachNext
  <1>. QED  BY <1>2, <1>4

-----------------------------------------------------------------------------
(* Removals at the client, and the world that goes.                         *)

\* A removal that was asked for reaches the client, or is lost.
LEMMA UnwatchingKeeps ==
  ASSUME BridgeAssumption, IInv, WatchesMove, NEW w \in WatchIds, NEW s \in Sessions,
         ClientUnwatches(w, s) \/ LoseUnwatch(w, s)
  PROVE  Kept_IInv
  <1>0. TypeOK /\ Shapes  BY DEF IInv
  <1>1. /\ UNCHANGED <<registered, session, idleOrder, call>>
        /\ unwatching' = unwatching \ {<<w, s>>} /\ orphans \subseteq orphans'
        /\ watch' = watch \/ (watch' = Removed(watch, s, w))
    BY DEF ClientUnwatches, LoseUnwatch
  <1>2. session' \in [Sessions -> SessionType] /\ registered' \in BOOLEAN  BY <1>0, <1>1 DEF TypeOK
  <1>3. NoticesFit' /\ NoNoticeIsLost'  BY <1>1, NoticesSame
  <1>4. \A v \in WatchIds : watch'[v] = watch[v] \/ watch'[v] = GoneWatch
    BY <1>0, <1>1 DEF Removed, Gone, GoneWatch, TypeOK
  <1>5. watch'[w] = GoneWatch \/ watch[w].owner # s \/ w \in orphans'
        \/ watch[w].state \notin {"live", "expired"}
    BY <1>0 DEF ClientUnwatches, LoseUnwatch, Removed, Gone, GoneWatch, TypeOK
  <1>6. GoneWatch.state = "gone"  BY GoneRecord
  <1>7. ASSUME NEW v \in WatchIds PROVE Accounted(v)'
    <2>1. Accounted(v)  BY AccountedEach DEF IInv
    <2>2. CASE watch'[v].state \notin {"live", "expired"}  BY <2>2 DEF Accounted
    <2>3. CASE watch'[v].state \in {"live", "expired"}
      <3>. DEFINE o == watch[v].owner
      <3>1. watch'[v] = watch[v]  BY <1>4, <1>6, <2>3
      <3>2. <<v, o>> \in unwatching => AccountsNext(v, o)
        <4>1. CASE v = w /\ o = s  BY <1>5, <1>6, <2>3, <3>1, <4>1 DEF AccountsNext
        <4>2. CASE ~ (v = w /\ o = s)  BY <1>1, <4>2 DEF AccountsNext
        <4>. QED  BY <4>1, <4>2
      <3>3. /\ session[o].state = "open" /\ v \in session[o].watches => AccountsNext(v, o)
            /\ v \in orphans => AccountsNext(v, o)
            /\ \A d \in Calls : call[d].phase = "answering" /\ call[d].watch = v => AccountsNext(v, o)
        BY <1>1 DEF AccountsNext
      <3>4. session' = session /\ registered' = registered  BY <1>1
      <3>. HIDE DEF AccountsNext
      <3>. QED  BY <1>0, <2>1, <2>3, <3>1, <3>2, <3>3, <3>4, AccountMoves
    <2>. QED  BY <2>2, <2>3
  <1>8. WatchesAreOwned'  BY <1>7, AccountedEachNext
  <1>. QED  BY <1>1, <1>2, <1>3, <1>8, QuietKeeps

\* A command that was given up on: what it creates is an orphan.
LEMMA RunsLateKeeps ==
  ASSUME BridgeAssumption, IInv, WatchesMove, NEW s \in Sessions, NEW m \in late, RunsLate(s, m)
  PROVE  Kept_IInv
  <1>0. TypeOK /\ Shapes  BY DEF IInv
  <1>. DEFINE becomes(v, x) == watch' = [watch EXCEPT ![v] = x]
              v == Min(Free)
  <1>1. UNCHANGED <<registered, session, idleOrder, call, unwatching>> /\ orphans \subseteq orphans'
    BY DEF RunsLate
  <1>2. \/ watch' = watch
        \/ becomes(m.watch, GoneWatch)
        \/ becomes(v, FreshWatch(s, "client")) /\ v \in WatchIds /\ v \in orphans'
    <2>1. \/ watch' = watch \/ watch' = Gone(watch, m.watch)
          \/ MayCreate(s, "client") /\ watch' = Created(s, "client") /\ v \in orphans'
      BY DEF RunsLate, Removed
    <2>2. MayCreate(s, "client") => v \in WatchIds  BY <1>0, FreeIsFresh DEF MayCreate
    <2>. QED  BY <2>1, <2>2 DEF Gone, GoneWatch, Created, FreshWatch
  <1>. HIDE DEF v
  <1>3. session' \in [Sessions -> SessionType] /\ registered' \in BOOLEAN  BY <1>0, <1>1 DEF TypeOK
  <1>4. NoticesFit' /\ NoNoticeIsLost'  BY <1>1, NoticesSame
  <1>5. "client" \in Targets \cup {None}  BY DEF Targets
  <1>6. GoneWatch.state = "gone" /\ FreshWatch(s, "client").target = "client"
    BY <1>5, GoneRecord, WatchRecords
  <1>7. ASSUME NEW w \in WatchIds PROVE Accounted(w)'
    <2>1. Accounted(w)  BY AccountedEach DEF IInv
    <2>2. CASE watch'[w] = watch[w]
      BY <1>0, <1>1, <2>1, <2>2, AccountKept DEF Open
    <2>3. CASE watch'[w] # watch[w]
      <3>1. \/ watch'[w] = GoneWatch
            \/ watch'[w] = FreshWatch(s, "client") /\ w \in orphans'
        BY <1>0, <1>2, <2>3 DEF TypeOK
      <3>. QED  BY <1>6, <3>1 DEF Accounted
    <2>. QED  BY <2>2, <2>3
  <1>8. WatchesAreOwned'  BY <1>7, AccountedEachNext
  <1>. QED  BY <1>1, <1>3, <1>4, <1>8, QuietKeeps

\* A notice is as it was, or off.
LEMMA NoticesOff ==
  ASSUME BridgeAssumption, IInv, WatchesMove,
         \A u \in Sessions, w \in WatchIds :
            \/ session'[u].notice[w] = "off"
            \/ session'[u].notice = session[u].notice /\ session'[u].told = session[u].told
  PROVE  NoticesFit' /\ NoNoticeIsLost'
  <1>1. ASSUME NEW u \in Sessions, NEW w \in WatchIds
        PROVE  /\ session'[u].notice[w] # "off" =>
                     session[u].notice[w] # "off" \/ watch[w].state # "none"
               /\ session'[u].notice[w] = "on" =>
                     \/ session[u].notice[w] = "on" /\ session'[u].told[w] = session[u].told[w]
                     \/ watch'[w] = watch[w] /\ session'[u].told[w] = watch[w].latest
    OBVIOUS
  <1>. QED  BY <1>1, NoticesKept DEF IInv

\* The world goes with its watches; the client is told of those it holds.
LEMMA UnregisterKeeps ==
  ASSUME BridgeAssumption, IInv, WatchesMove, Unregister
  PROVE  Kept_IInv
  <1>0. TypeOK /\ Shapes  BY DEF IInv
  <1>. DEFINE held(s) == {w \in session[s].watches : watch[w].target = "client"}
              none == [w \in WatchIds |-> "off"]
              y(s) == [session[s] EXCEPT !.watches = {}, !.notice = [w \in WatchIds |-> "off"]]
  <1>1. /\ registered' = FALSE /\ UNCHANGED <<idleOrder, call, orphans>>
        /\ unwatching' = unwatching \cup UNION {held(s) \X {s} : s \in Known}
        /\ session' = [s \in Sessions |-> y(s)]
        /\ \A w \in WatchIds : watch'[w] = IF watch[w].target = "local" THEN GoneWatch ELSE watch[w]
    BY DEF Unregister, GoneWatch
  <1>2. ASSUME NEW s \in Sessions
        PROVE  /\ session'[s] \in SessionType /\ session'[s].state = session[s].state
               /\ session'[s].active = session[s].active /\ session'[s].timer = session[s].timer
               /\ \A w \in WatchIds : session'[s].notice[w] = "off"
    <2>. DEFINE x == session[s]
    <2>0. x \in SessionType  BY <1>0 DEF TypeOK
    <2>3. session'[s] = y(s)  BY <1>1
    <2>4. IsSession(y(s), x.state, x.active, x.timer, {}, none, x.told)
      <3>1. /\ x.state \in {"none", "opening", "open", "closed"} /\ x.active \in Nat
            /\ x.timer \in BOOLEAN /\ x.told \in [WatchIds -> Nat]
            /\ x = [state |-> x.state, active |-> x.active, timer |-> x.timer,
                    watches |-> x.watches, notice |-> x.notice, told |-> x.told]
        BY <2>0 DEF SessionType
      <3>2. none \in [WatchIds -> {"off", "on", "due"}]  OBVIOUS
      <3>3. y(s) = [x EXCEPT !.watches = {}, !.notice = none]  OBVIOUS
      <3>. HIDE DEF none, y, x
      <3>. QED  BY <3>1, <3>2, <3>3 DEF SessionType, IsSession
    <2>. HIDE DEF y, none
    <2>5. y(s).notice = none  BY <2>4 DEF IsSession
    <2>. QED  BY <2>3, <2>4, <2>5 DEF IsSession, none
  <1>. HIDE DEF y, none
  <1>3. session' \in [Sessions -> SessionType]
    <2>1. session' = [s \in Sessions |-> session'[s]]  BY <1>1
    <2>. QED  BY <1>2, <2>1
  <1>4. NoticesFit' /\ NoNoticeIsLost'  BY <1>2, NoticesOff
  <1>5. GoneWatch.state = "gone"  BY GoneRecord
  <1>6. ASSUME NEW w \in WatchIds PROVE Accounted(w)'
    <2>1. Accounted(w)  BY AccountedEach DEF IInv
    <2>2. CASE watch'[w].state \notin {"live", "expired"}  BY <2>2 DEF Accounted
    <2>3. CASE watch'[w].state \in {"live", "expired"}
      <3>. DEFINE o == watch[w].owner
      <3>1. watch'[w] = watch[w] /\ watch[w].target # "local"  BY <1>1, <1>5, <2>3
      <3>2. o \in Sessions /\ watch[w].target = "client"
        BY <1>0, <2>3, <3>1 DEF Shapes, WatchShape, Targets
      <3>3. session[o].state = "open" /\ w \in session[o].watches => AccountsNext(w, o)
        <4>1. SUFFICES ASSUME session[o].state = "open", w \in session[o].watches
                       PROVE  <<w, o>> \in unwatching'
          BY DEF AccountsNext
        <4>2. w \in held(o) /\ o \in Known  BY <3>2, <4>1 DEF Known
        <4>3. <<w, o>> \in held(o) \X {o}  BY <4>2
        <4>. HIDE DEF held, o
        <4>. QED  BY <1>1, <4>2, <4>3
      <3>4. /\ <<w, o>> \in unwatching => AccountsNext(w, o)
            /\ w \in orphans => AccountsNext(w, o)
            /\ \A d \in Calls : call[d].phase = "answering" /\ call[d].watch = w => AccountsNext(w, o)
        BY <1>1 DEF AccountsNext
      <3>. HIDE DEF AccountsNext
      <3>. QED  BY <1>0, <2>1, <2>3, <3>1, <3>3, <3>4, AccountMoves
    <2>. QED  BY <2>2, <2>3
  <1>7. WatchesAreOwned'  BY <1>6, AccountedEachNext
  <1>8. registered' \in BOOLEAN  BY <1>1
  <1>9. call' = call /\ idleOrder' = idleOrder  BY <1>1
  <1>10. \A s \in Sessions : /\ session'[s].state = session[s].state
                             /\ session'[s].active = session[s].active
                             /\ session'[s].timer = session[s].timer
    BY <1>2
  <1>. QED  BY <1>3, <1>4, <1>7, <1>8, <1>9, <1>10, QuietKeeps

-----------------------------------------------------------------------------
(* The steps of sessions.                                                   *)

\* Every session in its place, and no session more.
LEMMA CountedNext ==
  ASSUME BridgeAssumption, Counted, \A u \in Sessions : SessionShape(u)',
         \A c \in Calls : call'[c].by \in Sessions =>
            (call'[c].phase = "opening" <=> session'[call'[c].by].state = "opening"),
         Known' \subseteq Known
  PROVE  Counted'
  <1>1. IsFiniteSet(Known') /\ Cardinality(Known') <= Cardinality(Known)
    BY FS_Subset DEF Counted
  <1>2. Cardinality(Known) \in Nat /\ Cardinality(Known') \in Nat /\ Cardinality(Known) <= SessionCap
    BY <1>1, FS_CardinalityType DEF Counted
  <1>3. Cardinality(Known') <= SessionCap
    <2>1. \A a, b \in Nat : a <= b /\ b <= SessionCap => a <= SessionCap
      BY DEF BridgeAssumption
    <2>. QED  BY <1>1, <1>2, <2>1
  <1>. QED  BY <1>1, <1>3 DEF Counted

\* A session whose calls and whose own state stay keeps its place.
LEMMA PlaceKept ==
  ASSUME Counted, NEW u \in Sessions, session'[u] = session[u],
         \A c \in Calls : call'[c].by = u <=> call[c].by = u,
         In(u, idleOrder) => In(u, idleOrder')
  PROVE  SessionShape(u)'
  <1>1. CallsOf(u)' = CallsOf(u)  BY DEF CallsOf
  <1>2. SessionShape(u)  BY DEF Counted
  <1>. QED  BY <1>1, <1>2 DEF SessionShape, Open, In

\* A notification stream, and an idle timer that finds the session active.
LEMMA TimerKeeps ==
  ASSUME BridgeAssumption, IInv, WatchesMove, NEW s \in Sessions, NEW b \in BOOLEAN,
         Open(s), session' = [session EXCEPT ![s].timer = b],
         b \/ session[s].active # 0, b => In(s, idleOrder'),
         UNCHANGED <<registered, call, watch, unwatching, orphans>>,
         idleOrder' \in Seq(Sessions),
         \A u \in Sessions : In(u, idleOrder) => In(u, idleOrder')
  PROVE  Kept_IInv
  <1>. DEFINE x == session[s]
              y == [x EXCEPT !.timer = b]
  <1>0. TypeOK /\ Shapes /\ Counted /\ x \in SessionType  BY DEF IInv, TypeOK
  <1>1. IsSession(y, x.state, x.active, b, x.watches, x.notice, x.told)
    BY <1>0 DEF SessionType, IsSession
  <1>2. y \in SessionType  BY <1>1 DEF IsSession
  <1>3. session' = [session EXCEPT ![s] = y]  OBVIOUS
  <1>. HIDE DEF y
  <1>4. /\ session' \in [Sessions -> SessionType] /\ session'[s] = y
        /\ \A u \in Sessions : u # s => session'[u] = session[u]
    BY <1>0, <1>2, <1>3, OneSession
  <1>5. /\ y.state = session[s].state /\ y.active = session[s].active /\ y.timer = b
        /\ y.watches = session[s].watches
        /\ y.notice = session[s].notice /\ y.told = session[s].told
    BY <1>1 DEF IsSession
  <1>6. \A u \in Sessions : session'[u].state = session[u].state
                            /\ session[u].watches \subseteq session'[u].watches
    BY <1>4, <1>5
  <1>7. SessionShape(s)'
    <2>1. CallsOf(s)' = CallsOf(s)  BY DEF CallsOf
    <2>2. SessionShape(s)  BY <1>0 DEF Counted
    <2>. QED  BY <1>4, <1>5, <2>1, <2>2 DEF SessionShape, Open
  <1>8. Counted'
    <2>1. \A u \in Sessions : u # s => SessionShape(u)'
      BY <1>0, <1>4, PlaceKept
    <2>2. Known' = Known  BY <1>6 DEF Known
    <2>3. \A c \in Calls : call'[c].by \in Sessions =>
             (call'[c].phase = "opening" <=> session'[call'[c].by].state = "opening")
      BY <1>0, <1>6 DEF Counted
    <2>. QED  BY <1>0, <1>7, <2>1, <2>2, <2>3, CountedNext
  <1>9. NoticesFit' /\ NoNoticeIsLost'
    <2>1. \A u \in Sessions : session'[u].notice = session[u].notice /\ session'[u].told = session[u].told
      BY <1>4, <1>5
    <2>. QED  BY <2>1, NoticesSame
  <1>10. AnswersAgree'  BY AnswersKept DEF IInv
  <1>11. WatchesAreOwned'
    <2>1. \A u \in Sessions : Open(u) => Open(u)' /\ session[u].watches \subseteq session'[u].watches
      BY <1>6 DEF Open
    <2>. QED  BY <2>1, SameAccounts
  <1>12. registered' \in BOOLEAN /\ call' \in [Calls -> CallType] /\ \A c \in Calls : CallShape(call'[c])
    BY <1>0 DEF TypeOK, Shapes
  <1>. QED  BY <1>4, <1>8, <1>9, <1>10, <1>11, <1>12 DEF Kept_IInv

LEMMA StreamKeeps ==
  ASSUME BridgeAssumption, IInv, WatchesMove, NEW s \in Sessions, Stream(s)
  PROVE  Kept_IInv
  <1>0. TypeOK  BY DEF IInv
  <1>1. /\ Open(s) /\ idleOrder' = Touch(s) /\ session' = [session EXCEPT ![s].timer = TRUE]
        /\ UNCHANGED <<registered, call, watch, unwatching, orphans>>
    BY DEF Stream
  <1>2. /\ idleOrder' \in Seq(Sessions) /\ In(s, idleOrder')
        /\ \A u \in Sessions : In(u, idleOrder) => In(u, idleOrder')
    BY <1>0, <1>1, TouchKeeps
  <1>. QED  BY <1>1, <1>2, TimerKeeps

\* What a closed session remembered is dropped here, or on its way to the client.
LEMMA ReleaseAccounts ==
  ASSUME BridgeAssumption, IInv, NEW s \in Sessions, Release(s), registered' = registered,
         \A u \in Sessions : u # s /\ session[u].state = "open" =>
            session'[u].state = "open" /\ session[u].watches \subseteq session'[u].watches,
         \A c \in Calls : call[c].phase = "answering" => call'[c] = call[c]
  PROVE  WatchesAreOwned'
  <1>0. TypeOK /\ Shapes  BY DEF IInv
  <1>. DEFINE remote == {w \in session[s].watches : watch[w].target # "local" \/ ~registered}
  <1>1. /\ watch' = IF registered THEN Closed(watch, s, "local") ELSE watch
        /\ unwatching' = IF registered THEN unwatching \cup (remote \X {s}) ELSE unwatching
        /\ orphans' = IF registered THEN orphans ELSE orphans \cup remote
    BY DEF Release
  <1>2. \A w \in WatchIds : watch'[w] = IF registered /\ watch[w].owner = s /\ watch[w].target = "local"
                                        THEN GoneWatch ELSE watch[w]
    BY <1>1 DEF Closed, GoneWatch
  <1>3. unwatching \subseteq unwatching' /\ orphans \subseteq orphans'  BY <1>1
  <1>4. GoneWatch.state = "gone"  BY GoneRecord
  <1>5. ASSUME NEW w \in WatchIds PROVE Accounted(w)'
    <2>1. Accounted(w)  BY AccountedEach DEF IInv
    <2>2. CASE watch'[w].state \notin {"live", "expired"}  BY <2>2 DEF Accounted
    <2>3. CASE watch'[w].state \in {"live", "expired"}
      <3>. DEFINE o == watch[w].owner
      <3>1. watch'[w] = watch[w] /\ ~ (registered /\ o = s /\ watch[w].target = "local")
        BY <1>2, <1>4, <2>3
      <3>2. o \in Sessions  BY <1>0, <2>3, <3>1 DEF Shapes, WatchShape
      <3>3. watch[w].target # "local" /\ session[o].state = "open" /\ w \in session[o].watches
               => AccountsNext(w, o)
        <4>1. CASE o # s  BY <3>2, <4>1 DEF AccountsNext
        <4>2. CASE o = s
          <5>1. SUFFICES ASSUME watch[w].target # "local", w \in session[s].watches
                         PROVE  <<w, s>> \in unwatching' \/ w \in orphans'
            BY <4>2 DEF AccountsNext
          <5>2. w \in remote /\ <<w, s>> \in remote \X {s}  BY <5>1
          <5>. HIDE DEF remote
          <5>. QED  BY <1>1, <5>2
        <4>. QED  BY <4>1, <4>2
      <3>4. /\ <<w, o>> \in unwatching => AccountsNext(w, o)
            /\ w \in orphans => AccountsNext(w, o)
            /\ \A d \in Calls : call[d].phase = "answering" /\ call[d].watch = w => AccountsNext(w, o)
        BY <1>3 DEF AccountsNext
      <3>5. watch[w].target = "local" /\ registered /\ session[o].state = "open"
               => registered' /\ session'[o].state = "open"
        BY <3>1, <3>2
      <3>. HIDE DEF AccountsNext
      <3>. QED  BY <1>0, <2>1, <2>3, <3>1, <3>3, <3>4, <3>5, AccountMoves
    <2>. QED  BY <2>2, <2>3
  <1>. QED  BY <1>5, AccountedEachNext

LEMMA CloseSessionKeeps ==
  ASSUME BridgeAssumption, IInv, WatchesMove, NEW s \in Sessions, CloseSession(s)
  PROVE  Kept_IInv
  <1>. DEFINE off == [w \in WatchIds |-> "off"]
              untold == [w \in WatchIds |-> 0]
              y == Disposed(s)
  <1>0. TypeOK /\ Shapes /\ Counted  BY DEF IInv
  <1>1. /\ Open(s) /\ session' = [session EXCEPT ![s] = y] /\ idleOrder' = Without(s)
        /\ Release(s) /\ registered' = registered /\ call' = call
    BY DEF CloseSession
  <1>2. IsSession(y, "closed", session[s].active, FALSE, {}, off, untold)
    BY <1>0, SessionRecords
  <1>3. y \in SessionType  BY <1>2 DEF IsSession
  <1>. HIDE DEF y
  <1>4. /\ session' \in [Sessions -> SessionType] /\ session'[s] = y
        /\ \A u \in Sessions : u # s => session'[u] = session[u]
    BY <1>0, <1>1, <1>3, OneSession
  <1>5. /\ y.state = "closed" /\ y.active = session[s].active /\ y.notice = off
    BY <1>2 DEF IsSession
  <1>6. /\ idleOrder' \in Seq(Sessions)
        /\ \A u \in Sessions : u # s /\ In(u, idleOrder) => In(u, idleOrder')
    BY <1>0, <1>1, WithoutKeeps
  <1>7. Counted'
    <2>1. \A u \in Sessions : u # s => SessionShape(u)'
      BY <1>0, <1>1, <1>4, <1>6, PlaceKept
    <2>2. SessionShape(s)'
      <3>1. CallsOf(s)' = CallsOf(s)  BY <1>1 DEF CallsOf
      <3>2. SessionShape(s)  BY <1>0 DEF Counted
      <3>. QED  BY <1>4, <1>5, <3>1, <3>2 DEF SessionShape, Open
    <2>3. Known' \subseteq Known  BY <1>4, <1>5 DEF Known
    <2>4. \A c \in Calls : call'[c].by \in Sessions =>
             (call'[c].phase = "opening" <=> session'[call'[c].by].state = "opening")
      BY <1>0, <1>1, <1>4, <1>5 DEF Counted, Open
    <2>. QED  BY <1>0, <2>1, <2>2, <2>3, <2>4, CountedNext
  <1>8. NoticesFit' /\ NoNoticeIsLost'
    <2>1. \A u \in Sessions, w \in WatchIds :
             \/ session'[u].notice[w] = "off"
             \/ session'[u].notice = session[u].notice /\ session'[u].told = session[u].told
      BY <1>4, <1>5
    <2>. QED  BY <2>1, NoticesOff
  <1>9. AnswersAgree'  BY <1>1, AnswersKept DEF IInv
  <1>10. WatchesAreOwned'
    <2>1. \A u \in Sessions : u # s /\ session[u].state = "open" =>
             session'[u].state = "open" /\ session[u].watches \subseteq session'[u].watches
      BY <1>4
    <2>. QED  BY <1>1, <2>1, ReleaseAccounts
  <1>11. registered' \in BOOLEAN /\ call' \in [Calls -> CallType] /\ \A c \in Calls : CallShape(call'[c])
    BY <1>0, <1>1 DEF TypeOK, Shapes
  <1>. QED  BY <1>4, <1>6, <1>7, <1>8, <1>9, <1>10, <1>11 DEF Kept_IInv

LEMMA IdleTimeoutKeeps ==
  ASSUME BridgeAssumption, IInv, WatchesMove, NEW s \in Sessions, IdleTimeout(s)
  PROVE  Kept_IInv
  <1>1. CASE session[s].active = 0
    <2>1. CloseSession(s)  BY <1>1 DEF IdleTimeout
    <2>. QED  BY <2>1, CloseSessionKeeps
  <1>2. CASE session[s].active # 0
    <2>. DEFINE b == FALSE
    <2>1. /\ Open(s) /\ session' = [session EXCEPT ![s].timer = b]
          /\ UNCHANGED <<registered, idleOrder, call, watch, unwatching, orphans>>
      BY <1>2 DEF IdleTimeout
    <2>2. b \in BOOLEAN /\ ~ b  OBVIOUS
    <2>3. idleOrder' \in Seq(Sessions)  BY <2>1 DEF IInv, TypeOK
    <2>4. \A u \in Sessions : In(u, idleOrder) => In(u, idleOrder')  BY <2>1 DEF In
    <2>. HIDE DEF b
    <2>. QED  BY <1>2, <2>1, <2>2, <2>3, <2>4, TimerKeeps
  <1>. QED  BY <1>1, <1>2

-----------------------------------------------------------------------------
(* The calls that come and go.                                              *)

\* A call changes that no answer is on its way to.
LEMMA CallChanges ==
  ASSUME BridgeAssumption, IInv, WatchesMove, NEW c \in Calls, NEW r \in CallType,
         call' = [call EXCEPT ![c] = r], CallShape(r),
         r.phase # "answering", call[c].phase # "answering"
  PROVE  /\ call' \in [Calls -> CallType] /\ \A d \in Calls : CallShape(call'[d])
         /\ call'[c] = r /\ \A d \in Calls : d # c => call'[d] = call[d]
         /\ AnswersAgree'
         /\ \A d \in Calls : call[d].phase = "answering" => call'[d] = call[d]
  <1>0. TypeOK /\ Shapes  BY DEF IInv
  <1>1. /\ call' \in [Calls -> CallType] /\ call'[c] = r
        /\ \A d \in Calls : d # c => call'[d] = call[d]
    BY <1>0, OneCall
  <1>2. \A d \in Calls : CallShape(call'[d])  BY <1>0, <1>1 DEF Shapes
  <1>3. AnswersAgree'  BY <1>1, AnswersKept DEF IInv
  <1>. QED  BY <1>1, <1>2, <1>3

\* The calls of a session, with one more and with one less.
LEMMA CallComes ==
  ASSUME BridgeAssumption, NEW s \in Sessions, NEW c \in Calls, call'[c].by = s, call[c].by = None,
         \A d \in Calls : d # c => call'[d].by = call[d].by
  PROVE  /\ Cardinality(CallsOf(s)') = Cardinality(CallsOf(s)) + 1 /\ Cardinality(CallsOf(s)) \in Nat
         /\ \A u \in Sessions : u # s => \A d \in Calls : call'[d].by = u <=> call[d].by = u
  <1>. DEFINE S == CallsOf(s)
              T == {d \in Calls : call'[d].by = s}
  <1>1. s # None /\ IsFiniteSet(Calls) /\ \A u \in Sessions : u # None  BY DEF BridgeAssumption
  <1>2. S \subseteq Calls /\ c \notin S /\ T = S \cup {c}  BY <1>1 DEF CallsOf
  <1>3. CallsOf(s)' = T  BY DEF CallsOf
  <1>4. IsFiniteSet(S)  BY <1>1, <1>2, FS_Subset
  <1>. HIDE DEF S, T
  <1>5. Cardinality(T) = Cardinality(S) + 1 /\ Cardinality(S) \in Nat
    BY <1>2, <1>4, FS_AddElement, FS_CardinalityType
  <1>6. \A u \in Sessions : u # s => \A d \in Calls : call'[d].by = u <=> call[d].by = u
    BY <1>1
  <1>. QED  BY <1>3, <1>5, <1>6 DEF S

LEMMA CallGoes ==
  ASSUME BridgeAssumption, NEW s \in Sessions, NEW c \in Calls, call'[c].by = None, call[c].by = s,
         \A d \in Calls : d # c => call'[d].by = call[d].by
  PROVE  /\ Cardinality(CallsOf(s)') = Cardinality(CallsOf(s)) - 1
         /\ Cardinality(CallsOf(s)) \in Nat /\ Cardinality(CallsOf(s)') \in Nat
         /\ \A u \in Sessions : u # s => \A d \in Calls : call'[d].by = u <=> call[d].by = u
  <1>. DEFINE S == CallsOf(s)
              T == {d \in Calls : call'[d].by = s}
  <1>1. s # None /\ IsFiniteSet(Calls) /\ \A u \in Sessions : u # None  BY DEF BridgeAssumption
  <1>2. S \subseteq Calls /\ c \in S /\ T = S \ {c}  BY <1>1 DEF CallsOf
  <1>3. CallsOf(s)' = T  BY DEF CallsOf
  <1>4. IsFiniteSet(S)  BY <1>1, <1>2, FS_Subset
  <1>. HIDE DEF S, T
  <1>5. /\ Cardinality(T) = Cardinality(S) - 1 /\ Cardinality(S) \in Nat
        /\ Cardinality(T) \in Nat
    BY <1>2, <1>4, FS_RemoveElement, FS_CardinalityType
  <1>6. \A u \in Sessions : u # s => \A d \in Calls : call'[d].by = u <=> call[d].by = u
    BY <1>1
  <1>. QED  BY <1>3, <1>5, <1>6 DEF S

\* An open session is active while its call is handled.
LEMMA ArriveKeeps ==
  ASSUME BridgeAssumption, IInv, WatchesMove, NEW c \in Calls, NEW s \in Sessions,
         NEW tool \in {"watch", "unwatch", "events"}, NEW t \in Targets, NEW w \in 0..MaxWatches,
         tool # "watch" => w \in WatchIds, Arrive(c, s, tool, t, w)
  PROVE  Kept_IInv
  <1>. DEFINE x == session[s]
              y == [x EXCEPT !.active = x.active + 1, !.timer = FALSE]
              r == [phase |-> "arrived", by |-> s, tool |-> tool, target |-> t, watch |-> w]
  <1>0. TypeOK /\ Shapes /\ Counted /\ x \in SessionType /\ x.active \in Nat
    BY DEF IInv, TypeOK, SessionType
  <1>1. /\ call[c].phase = "free" /\ Open(s)
        /\ session' = [session EXCEPT ![s] = y] /\ call' = [call EXCEPT ![c] = r]
        /\ UNCHANGED <<registered, idleOrder, watch, unwatching, orphans>>
    BY DEF Arrive
  <1>2. IsCall(r, "arrived", s, tool, t, w)  BY DEF IsCall, CallType
  <1>3. IsSession(y, x.state, x.active + 1, FALSE, x.watches, x.notice, x.told)
    <2>1. x.active + 1 \in Nat  BY <1>0
    <2>. DEFINE n == x.active + 1
    <2>. HIDE DEF n, x
    <2>. QED  BY <1>0, <2>1 DEF SessionType, IsSession, n
  <1>4. r \in CallType /\ y \in SessionType  BY <1>2, <1>3 DEF IsCall, IsSession
  <1>. HIDE DEF r, y
  <1>5. CallShape(r) /\ r.phase = "arrived" /\ r.by = s
    BY <1>2 DEF IsCall, CallShape
  <1>6. call[c].by = None  BY <1>0, <1>1 DEF Shapes, CallShape
  <1>7. /\ call' \in [Calls -> CallType] /\ \A d \in Calls : CallShape(call'[d])
        /\ call'[c] = r /\ \A d \in Calls : d # c => call'[d] = call[d]
        /\ AnswersAgree'
        /\ \A d \in Calls : call[d].phase = "answering" => call'[d] = call[d]
    BY <1>1, <1>4, <1>5, CallChanges
  <1>8. /\ session' \in [Sessions -> SessionType] /\ session'[s] = y
        /\ \A u \in Sessions : u # s => session'[u] = session[u]
    BY <1>0, <1>1, <1>4, OneSession
  <1>9. /\ y.state = session[s].state /\ y.active = session[s].active + 1
        /\ y.watches = session[s].watches
        /\ y.notice = session[s].notice /\ y.told = session[s].told
    BY <1>3 DEF IsSession
  <1>10. \A u \in Sessions : session'[u].state = session[u].state
                             /\ session[u].watches \subseteq session'[u].watches
    BY <1>8, <1>9
  <1>11. Counted'
    <2>1. /\ Cardinality(CallsOf(s)') = Cardinality(CallsOf(s)) + 1 /\ Cardinality(CallsOf(s)) \in Nat
          /\ \A u \in Sessions : u # s => \A d \in Calls : call'[d].by = u <=> call[d].by = u
      BY <1>5, <1>6, <1>7, CallComes
    <2>2. SessionShape(s)'
      <3>1. SessionShape(s)  BY <1>0 DEF Counted
      <3>2. session[s].active + 1 # 0  BY <1>0
      <3>. QED  BY <1>1, <1>8, <1>9, <2>1, <3>1, <3>2 DEF SessionShape, Open
    <2>3. \A u \in Sessions : u # s => SessionShape(u)'
      BY <1>0, <1>1, <1>8, <2>1, PlaceKept
    <2>4. Known' \subseteq Known  BY <1>10 DEF Known
    <2>5. \A d \in Calls : call'[d].by \in Sessions =>
             (call'[d].phase = "opening" <=> session'[call'[d].by].state = "opening")
      BY <1>0, <1>1, <1>5, <1>7, <1>10 DEF Counted, Open
    <2>. QED  BY <1>0, <2>2, <2>3, <2>4, <2>5, CountedNext
  <1>12. NoticesFit' /\ NoNoticeIsLost'
    <2>1. \A u \in Sessions : session'[u].notice = session[u].notice /\ session'[u].told = session[u].told
      BY <1>8, <1>9
    <2>. QED  BY <2>1, NoticesSame
  <1>13. WatchesAreOwned'
    <2>1. ASSUME NEW v \in WatchIds PROVE Accounted(v)'
      <3>1. Accounted(v)  BY AccountedEach DEF IInv
      <3>2. \A u \in Sessions : watch[v].owner = u /\ Open(u) =>
               Open(u)' /\ (v \in session[u].watches => v \in session'[u].watches)
        BY <1>10 DEF Open
      <3>. QED  BY <1>0, <1>1, <1>7, <3>1, <3>2, AccountKept
    <2>. QED  BY <2>1, AccountedEachNext
  <1>14. registered' \in BOOLEAN /\ idleOrder' \in Seq(Sessions)  BY <1>0, <1>1 DEF TypeOK
  <1>. QED  BY <1>7, <1>8, <1>11, <1>12, <1>13, <1>14 DEF Kept_IInv

\* The answer is written: the session may be idle again, with its timer running.
LEMMA RespondKeeps ==
  ASSUME BridgeAssumption, IInv, WatchesMove, NEW c \in Calls, Respond(c)
  PROVE  Kept_IInv
  <1>0. TypeOK /\ Shapes /\ Counted  BY DEF IInv
  <1>2. PICK s \in Sessions : call[c].by = s
    BY <1>0 DEF Respond, Shapes, CallShape
  <1>. DEFINE x == session[s]
              idle == x.active - 1 = 0 /\ Open(s)
              b == idle \/ x.timer
              y == [x EXCEPT !.active = x.active - 1, !.timer = b]
  <1>1. /\ call[c].phase = "ran" /\ call' = [call EXCEPT ![c] = NoCall]
        /\ idleOrder' = IF idle THEN Touch(s) ELSE idleOrder
        /\ session' = [session EXCEPT ![s] = y]
        /\ UNCHANGED <<registered, watch, unwatching, orphans>>
    BY <1>2 DEF Respond
  <1>3. x.active \in Nat \ {0} /\ x.active = Cardinality(CallsOf(s)) /\ x.state # "opening"
    <2>1. x.active \in Nat \ {0} /\ x.active = Cardinality(CallsOf(s))
      BY <1>0, <1>2, CallsAreActive
    <2>2. x.state # "opening"  BY <1>0, <1>1, <1>2 DEF Counted
    <2>. QED  BY <2>1, <2>2
  <1>4. IsCall(NoCall, "free", None, None, None, 0)  BY <1>2, CallRecords
  <1>5. NoCall \in CallType /\ NoCall.phase = "free" /\ NoCall.by = None  BY <1>4 DEF IsCall
  <1>6. CallShape(NoCall)  BY <1>5 DEF CallShape
  <1>7. /\ call' \in [Calls -> CallType] /\ \A d \in Calls : CallShape(call'[d])
        /\ call'[c] = NoCall /\ \A d \in Calls : d # c => call'[d] = call[d]
        /\ AnswersAgree'
        /\ \A d \in Calls : call[d].phase = "answering" => call'[d] = call[d]
    BY <1>1, <1>5, <1>6, CallChanges
  <1>8. IsSession(y, x.state, x.active - 1, b, x.watches, x.notice, x.told)
    <2>1. x \in SessionType /\ x.active - 1 \in Nat /\ x.timer \in BOOLEAN
      BY <1>0, <1>2, <1>3 DEF TypeOK, SessionType
    <2>2. b \in BOOLEAN  BY <2>1
    <2>. HIDE DEF b
    <2>. QED  BY <2>1, <2>2 DEF SessionType, IsSession
  <1>9. y \in SessionType  BY <1>8 DEF IsSession
  <1>. HIDE DEF y
  <1>10. /\ session' \in [Sessions -> SessionType] /\ session'[s] = y
         /\ \A u \in Sessions : u # s => session'[u] = session[u]
    BY <1>0, <1>1, <1>9, OneSession
  <1>11. /\ y.state = x.state /\ y.active = x.active - 1 /\ y.timer = b
         /\ y.watches = x.watches /\ y.notice = x.notice /\ y.told = x.told
    BY <1>8 DEF IsSession
  <1>12. /\ idleOrder' \in Seq(Sessions) /\ \A u \in Sessions : In(u, idleOrder) => In(u, idleOrder')
         /\ idle => In(s, idleOrder')
    <2>1. CASE idle  BY <1>0, <1>1, <1>2, <2>1, TouchKeeps
    <2>2. CASE ~ idle
      <3>. HIDE DEF idle
      <3>1. idleOrder' = idleOrder  BY <1>1, <2>2
      <3>. QED  BY <1>0, <2>2, <3>1 DEF TypeOK
    <2>. QED  BY <2>1, <2>2
  <1>13. \A u \in Sessions : /\ session'[u].state = session[u].state
                             /\ session[u].watches \subseteq session'[u].watches
                             /\ session'[u].notice = session[u].notice
                             /\ session'[u].told = session[u].told
    BY <1>10, <1>11
  <1>14. Counted'
    <2>1. /\ Cardinality(CallsOf(s)') = Cardinality(CallsOf(s)) - 1
          /\ \A u \in Sessions : u # s => \A d \in Calls : call'[d].by = u <=> call[d].by = u
      BY <1>2, <1>5, <1>7, CallGoes
    <2>2. SessionShape(s)'
      <3>1. SessionShape(s)  BY <1>0 DEF Counted
      <3>2. session[s].state # "none"  BY <1>3, <3>1 DEF SessionShape
      <3>3. session[s].active - 1 = 0 /\ session[s].state = "open" => b /\ In(s, idleOrder')
        BY <1>12 DEF Open
      <3>. HIDE DEF b
      <3>4. /\ session'[s].active = session[s].active - 1 /\ session'[s].timer = b
            /\ session'[s].state = session[s].state
        BY <1>10, <1>11
      <3>. QED  BY <1>3, <2>1, <3>2, <3>3, <3>4 DEF SessionShape, Open
    <2>3. \A u \in Sessions : u # s => SessionShape(u)'
      BY <1>0, <1>10, <1>12, <2>1, PlaceKept
    <2>4. Known' \subseteq Known  BY <1>13 DEF Known
    <2>5. \A d \in Calls : call'[d].by \in Sessions =>
             (call'[d].phase = "opening" <=> session'[call'[d].by].state = "opening")
      <3>1. None \notin Sessions  BY DEF BridgeAssumption
      <3>. QED  BY <1>0, <1>5, <1>7, <1>13, <3>1 DEF Counted
    <2>. QED  BY <1>0, <2>2, <2>3, <2>4, <2>5, CountedNext
  <1>15. NoticesFit' /\ NoNoticeIsLost'  BY <1>13, NoticesSame
  <1>16. WatchesAreOwned'
    <2>1. ASSUME NEW v \in WatchIds PROVE Accounted(v)'
      <3>1. Accounted(v)  BY AccountedEach DEF IInv
      <3>2. \A u \in Sessions : watch[v].owner = u /\ Open(u) =>
               Open(u)' /\ (v \in session[u].watches => v \in session'[u].watches)
        BY <1>13 DEF Open
      <3>. QED  BY <1>0, <1>1, <1>7, <3>1, <3>2, AccountKept
    <2>. QED  BY <2>1, AccountedEachNext
  <1>17. registered' \in BOOLEAN  BY <1>0, <1>1 DEF TypeOK
  <1>. QED  BY <1>7, <1>10, <1>12, <1>14, <1>15, <1>16, <1>17 DEF Kept_IInv

-----------------------------------------------------------------------------
(* The sessions that are opened.                                            *)

\* A session being opened has the one call that opens it.
LEMMA OpeningCall ==
  ASSUME BridgeAssumption, IInv, NEW c \in Calls, call[c].phase = "opening"
  PROVE  \E s \in Sessions : /\ call[c].by = s /\ session[s].state = "opening"
                             /\ session[s].active = 1 /\ CallsOf(s) = {c}
  <1>0. TypeOK /\ Shapes /\ Counted  BY DEF IInv
  <1>1. PICK s \in Sessions : call[c].by = s
    BY <1>0 DEF Shapes, CallShape
  <1>2. session[s].state = "opening"  BY <1>0, <1>1 DEF Counted
  <1>3. session[s].active = 1  BY <1>0, <1>2 DEF Counted, SessionShape
  <1>4. CallsOf(s) = {c}  BY <1>0, <1>1, <1>3, CallsAreActive
  <1>. QED  BY <1>1, <1>2, <1>3, <1>4

\* The sessions remember what they did, as far as they stay open, and no watch moves.
LEMMA SessionsStay ==
  ASSUME BridgeAssumption, IInv, UNCHANGED <<registered, watch, unwatching, orphans>>,
         \A u \in Sessions : session[u].state = "open" =>
            session'[u].state = "open" /\ session[u].watches \subseteq session'[u].watches,
         \A d \in Calls : call[d].phase = "answering" => call'[d] = call[d]
  PROVE  WatchesAreOwned'
  <1>1. ASSUME NEW v \in WatchIds PROVE Accounted(v)'
    <2>1. Accounted(v) /\ Shapes  BY AccountedEach DEF IInv
    <2>2. \A u \in Sessions : watch[v].owner = u /\ Open(u) =>
             Open(u)' /\ (v \in session[u].watches => v \in session'[u].watches)
      BY DEF Open
    <2>. QED  BY <2>1, <2>2, AccountKept
  <1>. QED  BY <1>1, AccountedEachNext

LEMMA InitializedKeeps ==
  ASSUME BridgeAssumption, IInv, WatchesMove, NEW c \in Calls, Initialized(c)
  PROVE  Kept_IInv
  <1>0. TypeOK /\ Shapes /\ Counted  BY DEF IInv
  <1>1. PICK s \in Sessions : /\ call[c].by = s /\ session[s].state = "opening"
                              /\ session[s].active = 1 /\ CallsOf(s) = {c}
    BY OpeningCall DEF Initialized
  <1>. DEFINE y == [session[s] EXCEPT !.state = "open"]
              r == [call[c] EXCEPT !.phase = "ran"]
  <1>2. /\ call[c].phase = "opening"
        /\ session' = [session EXCEPT ![s] = y] /\ call' = [call EXCEPT ![c] = r]
        /\ UNCHANGED <<registered, idleOrder, watch, unwatching, orphans>>
    BY <1>1 DEF Initialized
  <1>3. IsSession(y, "open", session[s].active, session[s].timer, session[s].watches,
                  session[s].notice, session[s].told)
    <2>. DEFINE x == session[s]
    <2>1. x \in SessionType  BY <1>0 DEF TypeOK
    <2>. HIDE DEF x
    <2>2. IsSession([x EXCEPT !.state = "open"],
                    "open", x.active, x.timer, x.watches, x.notice, x.told)
      BY <2>1 DEF SessionType, IsSession
    <2>. QED  BY <2>2 DEF x
  <1>4. IsCall(r, "ran", s, call[c].tool, call[c].target, call[c].watch)
    <2>1. call[c] \in CallType  BY <1>0 DEF TypeOK
    <2>. QED  BY <1>1, <2>1 DEF CallType, IsCall
  <1>5. y \in SessionType /\ r \in CallType /\ r.phase = "ran" /\ r.by = s
    BY <1>3, <1>4 DEF IsSession, IsCall
  <1>. HIDE DEF y, r
  <1>6. CallShape(r)  BY <1>5 DEF CallShape
  <1>7. /\ call' \in [Calls -> CallType] /\ \A d \in Calls : CallShape(call'[d])
        /\ call'[c] = r /\ \A d \in Calls : d # c => call'[d] = call[d]
        /\ AnswersAgree'
        /\ \A d \in Calls : call[d].phase = "answering" => call'[d] = call[d]
    BY <1>2, <1>5, <1>6, CallChanges
  <1>8. /\ session' \in [Sessions -> SessionType] /\ session'[s] = y
        /\ \A u \in Sessions : u # s => session'[u] = session[u]
    BY <1>0, <1>2, <1>5, OneSession
  <1>9. /\ y.state = "open" /\ y.active = 1
        /\ y.watches = session[s].watches
        /\ y.notice = session[s].notice /\ y.told = session[s].told
    BY <1>1, <1>3 DEF IsSession
  <1>10. Counted'
    <2>1. \A d \in Calls : call'[d].by = call[d].by  BY <1>1, <1>5, <1>7
    <2>2. SessionShape(s)'
      <3>1. CallsOf(s)' = CallsOf(s)  BY <2>1 DEF CallsOf
      <3>2. SessionShape(s)  BY <1>0 DEF Counted
      <3>. QED  BY <1>1, <1>8, <1>9, <3>1, <3>2 DEF SessionShape, Open
    <2>3. \A u \in Sessions : u # s => SessionShape(u)'
      BY <1>0, <1>2, <1>8, <2>1, PlaceKept
    <2>4. Known' \subseteq Known  BY <1>1, <1>8 DEF Known
    <2>5. \A d \in Calls : d # c => call[d].by # s  BY <1>1 DEF CallsOf
    <2>6. \A d \in Calls : call'[d].by \in Sessions =>
             (call'[d].phase = "opening" <=> session'[call'[d].by].state = "opening")
      BY <1>0, <1>5, <1>7, <1>8, <1>9, <2>5 DEF Counted
    <2>. QED  BY <1>0, <2>2, <2>3, <2>4, <2>6, CountedNext
  <1>11. NoticesFit' /\ NoNoticeIsLost'
    <2>1. \A u \in Sessions : session'[u].notice = session[u].notice /\ session'[u].told = session[u].told
      BY <1>8, <1>9
    <2>. QED  BY <2>1, NoticesSame
  <1>12. WatchesAreOwned'
    <2>1. \A u \in Sessions : session[u].state = "open" =>
             session'[u].state = "open" /\ session[u].watches \subseteq session'[u].watches
      BY <1>8, <1>9
    <2>. QED  BY <1>2, <1>7, <2>1, SessionsStay
  <1>13. registered' \in BOOLEAN /\ idleOrder' \in Seq(Sessions)  BY <1>0, <1>2 DEF TypeOK
  <1>. QED  BY <1>7, <1>8, <1>10, <1>11, <1>12, <1>13 DEF Kept_IInv

LEMMA InitializeFailsKeeps ==
  ASSUME BridgeAssumption, IInv, WatchesMove, NEW c \in Calls, InitializeFails(c)
  PROVE  Kept_IInv
  <1>0. TypeOK /\ Shapes /\ Counted  BY DEF IInv
  <1>1. PICK s \in Sessions : /\ call[c].by = s /\ session[s].state = "opening"
                              /\ session[s].active = 1 /\ CallsOf(s) = {c}
    BY OpeningCall DEF InitializeFails
  <1>. DEFINE y == [NoSession EXCEPT !.state = "closed"]
              off == [w \in WatchIds |-> "off"]
              untold == [w \in WatchIds |-> 0]
  <1>2. /\ call[c].phase = "opening"
        /\ session' = [session EXCEPT ![s] = y] /\ call' = [call EXCEPT ![c] = NoCall]
        /\ UNCHANGED <<registered, idleOrder, watch, unwatching, orphans>>
    BY <1>1 DEF InitializeFails
  <1>3. IsSession(y, "closed", 0, FALSE, {}, off, untold)  BY <1>0, SessionRecords
  <1>4. IsCall(NoCall, "free", None, None, None, 0)  BY CallRecords
  <1>5. y \in SessionType /\ NoCall \in CallType /\ NoCall.phase = "free" /\ NoCall.by = None
    BY <1>3, <1>4 DEF IsSession, IsCall
  <1>. HIDE DEF y
  <1>6. CallShape(NoCall)  BY <1>5 DEF CallShape
  <1>7. /\ call' \in [Calls -> CallType] /\ \A d \in Calls : CallShape(call'[d])
        /\ call'[c] = NoCall /\ \A d \in Calls : d # c => call'[d] = call[d]
        /\ AnswersAgree'
        /\ \A d \in Calls : call[d].phase = "answering" => call'[d] = call[d]
    BY <1>2, <1>5, <1>6, CallChanges
  <1>8. /\ session' \in [Sessions -> SessionType] /\ session'[s] = y
        /\ \A u \in Sessions : u # s => session'[u] = session[u]
    BY <1>0, <1>2, <1>5, OneSession
  <1>9. y.state = "closed" /\ y.active = 0 /\ y.notice = off
    BY <1>3 DEF IsSession
  <1>10. Counted'
    <2>1. /\ Cardinality(CallsOf(s)') = Cardinality(CallsOf(s)) - 1
          /\ Cardinality(CallsOf(s)) \in Nat
          /\ \A u \in Sessions : u # s => \A d \in Calls : call'[d].by = u <=> call[d].by = u
      BY <1>1, <1>5, <1>7, CallGoes
    <2>2. SessionShape(s)'
      <3>1. SessionShape(s)  BY <1>0 DEF Counted
      <3>2. Cardinality(CallsOf(s)') = 0  BY <1>1, <2>1, <3>1 DEF SessionShape
      <3>. QED  BY <1>8, <1>9, <3>2 DEF SessionShape, Open
    <2>3. \A u \in Sessions : u # s => SessionShape(u)'
      BY <1>0, <1>2, <1>8, <2>1, PlaceKept
    <2>4. Known' \subseteq Known  BY <1>8, <1>9 DEF Known
    <2>5. \A d \in Calls : d # c => call[d].by # s  BY <1>1 DEF CallsOf
    <2>6. None \notin Sessions  BY DEF BridgeAssumption
    <2>7. \A d \in Calls : call'[d].by \in Sessions =>
             (call'[d].phase = "opening" <=> session'[call'[d].by].state = "opening")
      BY <1>0, <1>5, <1>7, <1>8, <2>5, <2>6 DEF Counted
    <2>. QED  BY <1>0, <2>2, <2>3, <2>4, <2>7, CountedNext
  <1>11. NoticesFit' /\ NoNoticeIsLost'
    <2>1. \A u \in Sessions, w \in WatchIds :
             \/ session'[u].notice[w] = "off"
             \/ session'[u].notice = session[u].notice /\ session'[u].told = session[u].told
      BY <1>8, <1>9
    <2>. QED  BY <2>1, NoticesOff
  <1>12. WatchesAreOwned'
    <2>1. \A u \in Sessions : session[u].state = "open" =>
             session'[u].state = "open" /\ session[u].watches \subseteq session'[u].watches
      BY <1>1, <1>8
    <2>. QED  BY <1>2, <1>7, <2>1, SessionsStay
  <1>13. registered' \in BOOLEAN /\ idleOrder' \in Seq(Sessions)  BY <1>0, <1>2 DEF TypeOK
  <1>. QED  BY <1>7, <1>8, <1>10, <1>11, <1>12, <1>13 DEF Kept_IInv

\* A session takes its place, or that of the one idle for the longest.
LEMMA InitializeKeeps ==
  ASSUME BridgeAssumption, IInv, WatchesMove, NEW c \in Calls, NEW s \in Sessions,
         Initialize(s, c)
  PROVE  Kept_IInv
  <1>. DEFINE y == [NoSession EXCEPT !.state = "opening", !.active = 1]
              r == [NoCall EXCEPT !.phase = "opening", !.by = s]
              off == [w \in WatchIds |-> "off"]
              untold == [w \in WatchIds |-> 0]
  <1>0. TypeOK /\ Shapes /\ Counted  BY DEF IInv
  <1>1. /\ session[s].state = "none" /\ call[c].phase = "free" /\ registered' = registered
        /\ call' = [call EXCEPT ![c] = r]
    BY DEF Initialize
  <1>2. IsCall(r, "opening", s, None, None, 0)  BY CallRecords
  <1>3. IsSession(y, "opening", 1, FALSE, {}, off, untold)  BY <1>0, SessionRecords
  <1>4. y \in SessionType /\ r \in CallType /\ r.phase = "opening" /\ r.by = s
        /\ y.state = "opening" /\ y.active = 1 /\ y.notice = off
    BY <1>2, <1>3 DEF IsSession, IsCall
  <1>5. CallShape(r)  BY <1>4 DEF CallShape
  <1>6. call[c].by = None  BY <1>0, <1>1 DEF Shapes, CallShape
  <1>. HIDE DEF y, r
  <1>7. /\ call' \in [Calls -> CallType] /\ \A d \in Calls : CallShape(call'[d])
        /\ call'[c] = r /\ \A d \in Calls : d # c => call'[d] = call[d]
        /\ AnswersAgree'
        /\ \A d \in Calls : call[d].phase = "answering" => call'[d] = call[d]
    BY <1>1, <1>4, <1>5, CallChanges
  <1>8. /\ Cardinality(CallsOf(s)') = 1 /\ CallsOf(s) = {}
        /\ \A u \in Sessions : u # s => \A d \in Calls : call'[d].by = u <=> call[d].by = u
    <2>1. /\ Cardinality(CallsOf(s)') = Cardinality(CallsOf(s)) + 1
          /\ \A u \in Sessions : u # s => \A d \in Calls : call'[d].by = u <=> call[d].by = u
      BY <1>4, <1>6, <1>7, CallComes
    <2>2. Cardinality(CallsOf(s)) = 0  BY <1>0, <1>1 DEF Counted, SessionShape
    <2>3. IsFiniteSet(CallsOf(s))  BY FS_Subset DEF BridgeAssumption, CallsOf
    <2>. QED  BY <2>1, <2>2, <2>3, FS_EmptySet
  <1>9. \A d \in Calls : call[d].by # s  BY <1>8 DEF CallsOf
  <1>10. s \notin Known  BY <1>1 DEF Known
  <1>11. CASE Cardinality(Known) < SessionCap
    <2>1. /\ session' = [session EXCEPT ![s] = y]
          /\ UNCHANGED <<idleOrder, watch, unwatching, orphans>>
      BY <1>11 DEF Initialize, y
    <2>2. /\ session' \in [Sessions -> SessionType] /\ session'[s] = y
          /\ \A u \in Sessions : u # s => session'[u] = session[u]
      BY <1>0, <1>4, <2>1, OneSession
    <2>3. Counted'
      <3>1. SessionShape(s)'  BY <1>4, <1>8, <2>2 DEF SessionShape, Open
      <3>2. \A u \in Sessions : u # s => SessionShape(u)'
        BY <1>0, <1>8, <2>1, <2>2, PlaceKept
      <3>3. Known' = Known \cup {s}  BY <1>4, <2>2 DEF Known
      <3>4. IsFiniteSet(Known') /\ Cardinality(Known') <= SessionCap
        <4>1. IsFiniteSet(Known) /\ SessionCap \in Nat  BY <1>0 DEF Counted, BridgeAssumption
        <4>2. /\ IsFiniteSet(Known \cup {s}) /\ Cardinality(Known) \in Nat
              /\ Cardinality(Known \cup {s}) = Cardinality(Known) + 1
          BY <1>10, <4>1, FS_AddElement, FS_CardinalityType
        <4>. QED  BY <1>11, <3>3, <4>1, <4>2
      <3>5. \A d \in Calls : call'[d].by \in Sessions =>
               (call'[d].phase = "opening" <=> session'[call'[d].by].state = "opening")
        BY <1>0, <1>4, <1>7, <1>9, <2>2 DEF Counted
      <3>. QED  BY <3>1, <3>2, <3>4, <3>5 DEF Counted
    <2>4. NoticesFit' /\ NoNoticeIsLost'
      <3>1. \A u \in Sessions, w \in WatchIds :
               \/ session'[u].notice[w] = "off"
               \/ session'[u].notice = session[u].notice /\ session'[u].told = session[u].told
        BY <1>4, <2>2
      <3>. QED  BY <3>1, NoticesOff
    <2>5. WatchesAreOwned'
      <3>1. \A u \in Sessions : session[u].state = "open" =>
               session'[u].state = "open" /\ session[u].watches \subseteq session'[u].watches
        BY <1>1, <2>2
      <3>. QED  BY <1>1, <1>7, <2>1, <3>1, SessionsStay
    <2>6. registered' \in BOOLEAN /\ idleOrder' \in Seq(Sessions)  BY <1>0, <1>1, <2>1 DEF TypeOK
    <2>. QED  BY <1>7, <2>2, <2>3, <2>4, <2>5, <2>6 DEF Kept_IInv
  <1>12. CASE ~ (Cardinality(Known) < SessionCap)
    <2>0. Idle # {}  BY <1>12 DEF Initialize
    <2>1. PICK e \in Sessions : e = LongestIdle /\ e \in Idle /\ Open(e)
      BY <1>0, <2>0, LongestIdleIsIdle
    <2>. DEFINE z == Disposed(e)
    <2>2. /\ session' = [session EXCEPT ![s] = y, ![e] = z]
          /\ idleOrder' = Without(e) /\ Release(e)
      BY <1>12, <2>1 DEF Initialize, y
    <2>3. e # s  BY <1>1, <2>1 DEF Open
    <2>4. IsSession(z, "closed", session[e].active, FALSE, {}, off, untold)  BY <1>0, SessionRecords
    <2>5. z \in SessionType /\ z.state = "closed" /\ z.active = session[e].active /\ z.notice = off
      BY <2>4 DEF IsSession
    <2>. HIDE DEF z
    <2>6. /\ session' \in [Sessions -> SessionType] /\ session'[s] = y /\ session'[e] = z
          /\ \A u \in Sessions : u # s /\ u # e => session'[u] = session[u]
      BY <1>0, <1>4, <2>2, <2>3, <2>5 DEF TypeOK
    <2>7. /\ idleOrder' \in Seq(Sessions)
          /\ \A u \in Sessions : u # e /\ In(u, idleOrder) => In(u, idleOrder')
      BY <1>0, <2>2, WithoutKeeps
    <2>8. Counted'
      <3>1. SessionShape(s)'  BY <1>4, <1>8, <2>6 DEF SessionShape, Open
      <3>2. SessionShape(e)'
        <4>1. CallsOf(e)' = CallsOf(e)  BY <1>8, <2>3 DEF CallsOf
        <4>2. SessionShape(e)  BY <1>0 DEF Counted
        <4>. QED  BY <2>5, <2>6, <4>1, <4>2 DEF SessionShape, Open
      <3>3. \A u \in Sessions : u # s /\ u # e => SessionShape(u)'
        BY <1>0, <1>8, <2>6, <2>7, PlaceKept
      <3>4. Known' = (Known \ {e}) \cup {s} /\ e \in Known
        BY <1>4, <2>1, <2>3, <2>5, <2>6 DEF Known, Idle
      <3>5. IsFiniteSet(Known') /\ Cardinality(Known') <= SessionCap
        <4>1. IsFiniteSet(Known) /\ SessionCap \in Nat /\ Cardinality(Known) <= SessionCap
          BY <1>0 DEF Counted, BridgeAssumption
        <4>2. /\ IsFiniteSet(Known \ {e}) /\ Cardinality(Known) \in Nat
              /\ Cardinality(Known \ {e}) = Cardinality(Known) - 1
          BY <3>4, <4>1, FS_RemoveElement, FS_CardinalityType
        <4>3. /\ IsFiniteSet((Known \ {e}) \cup {s})
              /\ Cardinality((Known \ {e}) \cup {s}) = Cardinality(Known \ {e}) + 1
          BY <1>10, <4>2, FS_AddElement
        <4>. QED  BY <3>4, <4>1, <4>2, <4>3
      <3>6. \A d \in Calls : call'[d].by \in Sessions =>
               (call'[d].phase = "opening" <=> session'[call'[d].by].state = "opening")
        <4>1. \A u \in Sessions : u # s =>
                 (session'[u].state = "opening" <=> session[u].state = "opening")
          BY <2>1, <2>5, <2>6 DEF Open
        <4>2. session'[s].state = "opening"  BY <1>4, <2>6
        <4>. QED  BY <1>0, <1>4, <1>7, <1>9, <4>1, <4>2 DEF Counted
      <3>. QED  BY <3>1, <3>2, <3>3, <3>5, <3>6 DEF Counted
    <2>9. NoticesFit' /\ NoNoticeIsLost'
      <3>1. \A u \in Sessions, w \in WatchIds :
               \/ session'[u].notice[w] = "off"
               \/ session'[u].notice = session[u].notice /\ session'[u].told = session[u].told
        BY <1>4, <2>5, <2>6
      <3>. QED  BY <3>1, NoticesOff
    <2>10. WatchesAreOwned'
      <3>1. \A u \in Sessions : u # e /\ session[u].state = "open" =>
               session'[u].state = "open" /\ session[u].watches \subseteq session'[u].watches
        BY <1>1, <2>6
      <3>. QED  BY <1>1, <1>7, <2>2, <3>1, ReleaseAccounts
    <2>11. registered' \in BOOLEAN  BY <1>0, <1>1 DEF TypeOK
    <2>. QED  BY <1>7, <2>6, <2>7, <2>8, <2>9, <2>10, <2>11 DEF Kept_IInv
  <1>. QED  BY <1>11, <1>12

-----------------------------------------------------------------------------
(* The invariant holds.                                                     *)

LEMMA InitHolds ==
  ASSUME BridgeAssumption, Init
  PROVE  IInv
  <1>1. None \notin Sessions  BY DEF BridgeAssumption
  <1>2. NoWatch \in WatchType /\ RingTrue(NoWatch)  BY GoneRecord
  <1>3. /\ NoWatch.state = "none" /\ NoWatch.owner = None
        /\ \A w \in WatchIds : watch[w] = NoWatch
    BY DEF NoWatch, Init
  <1>4. /\ NoCall \in CallType /\ CallShape(NoCall) /\ NoCall.by = None /\ NoCall.phase = "free"
        /\ \A c \in Calls : call[c] = NoCall
    BY DEF NoCall, CallType, CallShape, Init, BridgeAssumption
  <1>5. /\ NoSession \in SessionType /\ NoSession.state = "none" /\ NoSession.active = 0
        /\ \A w \in WatchIds : NoSession.notice[w] = "off"
        /\ \A s \in Sessions : session[s] = NoSession
    BY DEF NoSession, SessionType, Init
  <1>6. TypeOK
    <2>1. /\ session \in [Sessions -> SessionType] /\ call \in [Calls -> CallType]
          /\ watch \in [WatchIds -> WatchType]
      BY <1>2, <1>4, <1>5 DEF Init
    <2>2. idleOrder \in Seq(Sessions) /\ registered \in BOOLEAN /\ scene \in Scenes  BY DEF Init
    <2>. QED  BY <2>1, <2>2 DEF TypeOK
  <1>7. Shapes  BY <1>3, <1>4 DEF Shapes, WatchShape
  <1>8. AnswersAgree  BY <1>4 DEF AnswersAgree
  <1>9. Counted
    <2>1. \A s \in Sessions : CallsOf(s) = {}  BY <1>1, <1>4 DEF CallsOf
    <2>2. \A s \in Sessions : SessionShape(s)
      BY <1>5, <2>1, FS_EmptySet DEF SessionShape, Open
    <2>3. Known = {}  BY <1>5 DEF Known
    <2>4. IsFiniteSet(Known) /\ Cardinality(Known) <= SessionCap
      BY <2>3, FS_EmptySet DEF BridgeAssumption
    <2>. QED  BY <1>1, <1>4, <2>2, <2>4 DEF Counted
  <1>10. Capped
    <2>1. \A s \in Sessions, t \in Targets : Owned(s, t) = {}  BY <1>3 DEF Owned, Live
    <2>2. 0 <= WatchCap  BY DEF BridgeAssumption
    <2>. QED  BY <2>1, <2>2, FS_EmptySet DEF Capped
  <1>11. RingsTrue  BY <1>2, <1>3 DEF RingsTrue
  <1>12. NoticesFit /\ NoNoticeIsLost  BY <1>5 DEF NoticesFit, NoNoticeIsLost
  <1>13. WatchesAreOwned  BY <1>3 DEF WatchesAreOwned
  <1>. QED  BY <1>6, <1>7, <1>8, <1>9, <1>10, <1>11, <1>12, <1>13 DEF IInv

\* A step that changes nothing.
LEMMA StutterKeeps ==
  ASSUME BridgeAssumption, IInv, WatchesMove, UNCHANGED sessionVars
  PROVE  Kept_IInv
  <1>1. UNCHANGED <<registered, session, idleOrder, call, watch, unwatching, orphans>>
    BY DEF sessionVars
  <1>2. session' \in [Sessions -> SessionType] /\ registered' \in BOOLEAN
    BY <1>1 DEF IInv, TypeOK
  <1>3. NoticesFit' /\ NoNoticeIsLost'  BY <1>1, NoticesSame
  <1>4. WatchesAreOwned'  BY <1>1, SameAccounts DEF Open
  <1>. QED  BY <1>1, <1>2, <1>3, <1>4, QuietKeeps

LEMMA StepKeeps ==
  ASSUME BridgeAssumption, IInv, WatchesMove, Step
  PROVE  Kept_IInv
  <1>1. CASE UNCHANGED sessionVars  BY <1>1, StutterKeeps
  <1>2. ASSUME NEW c \in Calls, NEW s \in Sessions, Initialize(s, c)
        PROVE  Kept_IInv
    BY <1>2, InitializeKeeps
  <1>3. ASSUME NEW c \in Calls, NEW s \in Sessions, NEW t \in Targets, Arrive(c, s, "watch", t, 0)
        PROVE  Kept_IInv
    <2>. DEFINE tool == "watch"
                w == 0
    <2>1. /\ tool \in {"watch", "unwatch", "events"} /\ w \in 0..MaxWatches
          /\ ~ (tool # "watch") /\ Arrive(c, s, tool, t, w)
      BY <1>3 DEF BridgeAssumption
    <2>. HIDE DEF tool, w
    <2>. QED  BY <2>1, ArriveKeeps
  <1>4. ASSUME NEW c \in Calls, NEW s \in Sessions, NEW w \in WatchIds,
               NEW tool \in {"unwatch", "events"},
               watch[w].owner = s, Arrive(c, s, tool, watch[w].target, w)
        PROVE  Kept_IInv
    <2>1. None \notin Sessions  BY DEF BridgeAssumption
    <2>2. watch[w].target \in Targets  BY <1>4, <2>1 DEF IInv, Shapes, WatchShape
    <2>3. tool \in {"watch", "unwatch", "events"} /\ w \in 0..MaxWatches  BY DEF WatchIds
    <2>. QED  BY <1>4, <2>2, <2>3, ArriveKeeps
  <1>5. ASSUME NEW c \in Calls, Initialized(c) \/ InitializeFails(c)
        PROVE  Kept_IInv
    BY <1>5, InitializedKeeps, InitializeFailsKeeps
  <1>6. ASSUME NEW c \in Calls, Run(c) \/ ClientRuns(c)
        PROVE  Kept_IInv
    BY <1>6, RunKeeps, ClientRunsKeeps
  <1>7. ASSUME NEW c \in Calls, Answer(c) \/ Expire(c) \/ Respond(c)
        PROVE  Kept_IInv
    BY <1>7, AnswerKeeps, ExpireKeeps, RespondKeeps
  <1>8. ASSUME NEW s \in Sessions, Stream(s) \/ IdleTimeout(s) \/ CloseSession(s)
        PROVE  Kept_IInv
    BY <1>8, StreamKeeps, IdleTimeoutKeeps, CloseSessionKeeps
  <1>9. ASSUME NEW s \in Sessions, NEW w \in WatchIds,
               Subscribe(s, w) \/ Unsubscribe(s, w) \/ Notice(s, w)
        PROVE  Kept_IInv
    BY <1>9, NoticeStepKeeps
  <1>10. ASSUME NEW s \in Sessions, NEW w \in WatchIds, ClientUnwatches(w, s) \/ LoseUnwatch(w, s)
         PROVE  Kept_IInv
    BY <1>10, UnwatchingKeeps
  <1>11. ASSUME NEW s \in Sessions, NEW m \in late, RunsLate(s, m)
         PROVE  Kept_IInv
    BY <1>11, RunsLateKeeps
  <1>12. ASSUME NEW w \in WatchIds, Event(w) \/ WatchIdle(w)
         PROVE  Kept_IInv
    BY <1>12, EventKeeps, WatchIdleKeeps
  <1>13. CASE Unregister \/ Register  BY <1>13, UnregisterKeeps, RegisterKeeps
  <1>. QED
    BY <1>1, <1>2, <1>3, <1>4, <1>5, <1>6, <1>7, <1>8, <1>9, <1>10, <1>11, <1>12, <1>13, Zenon DEF Step

LEMMA NextKeeps ==
  ASSUME BridgeAssumption, IInv, [Next]_sessionVars
  PROVE  IInv'
  <1>0. TypeOK /\ Shapes /\ Counted /\ Capped /\ RingsTrue  BY DEF IInv
  <1>1. Step /\ scene' = scene  BY <1>0, NextIsStep
  <1>2. WatchesMove  BY <1>0, <1>1, StepMovesWatches
  <1>3. watch' \in [WatchIds -> WatchType] /\ RingsTrue'  BY <1>0, <1>2, MovesKeepRings
  <1>4. \A w \in WatchIds : WatchShape(watch'[w])  BY <1>0, <1>2, MovesKeepOwners
  <1>5. Capped'  BY <1>0, <1>2, MovesKeepCaps
  <1>6. Kept_IInv  BY <1>1, <1>2, StepKeeps
  <1>7. scene' \in Scenes  BY <1>0, <1>1 DEF TypeOK
  <1>8. TypeOK'  BY <1>3, <1>6, <1>7 DEF TypeOK, Kept_IInv
  <1>9. Shapes'  BY <1>4, <1>6 DEF Shapes, Kept_IInv
  <1>. QED  BY <1>3, <1>5, <1>6, <1>8, <1>9 DEF IInv, Kept_IInv

LEMMA AccountedFor ==
  ASSUME BridgeAssumption, IInv
  PROVE  SessionsAreAccounted
  <1>1. WatchesAreOwned /\ NoNoticeIsLost  BY DEF IInv
  <1>2. SessionsAreBounded
    <2>1. \A s \in Sessions : session[s].active = Cardinality({c \in Calls : call[c].by = s})
      BY DEF IInv, Counted, SessionShape, CallsOf
    <2>2. \A s \in Sessions : Open(s) /\ session[s].active = 0 => session[s].timer
      BY DEF IInv, Counted, SessionShape
    <2>3. \A s \in Sessions, t \in Targets : Cardinality(Owned(s, t)) <= WatchCap
      BY DEF IInv, Capped
    <2>4. Cardinality(Known) <= SessionCap  BY DEF IInv, Counted
    <2>. QED  BY <2>1, <2>2, <2>3, <2>4 DEF SessionsAreBounded
  <1>3. RingsAreHonest
    <2>1. ASSUME NEW w \in WatchIds
          PROVE  LET x == watch[w] IN
                 /\ x.dropped + x.size = x.latest /\ x.size <= Capacity
                 /\ \A since \in 0..x.latest, limit \in 0..Capacity :
                        LET first == 1 + Max({since, x.dropped})
                            last  == Min({x.latest, first + limit - 1}) IN
                        Read(x, since, limit) = [i \in 1..(last - first + 1) |-> first + i - 1]
      <3>. DEFINE x == watch[w]
      <3>1. x \in WatchType /\ RingTrue(x)  BY DEF IInv, TypeOK, RingsTrue
      <3>. HIDE DEF x
      <3>2. x.dropped + x.size = x.latest  BY <3>1 DEF RingTrue
      <3>3. x.size <= Capacity  BY <3>1 DEF WatchType, BridgeAssumption
      <3>4. ASSUME NEW since \in 0..x.latest, NEW limit \in 0..Capacity
            PROVE  LET first == 1 + Max({since, x.dropped})
                       last  == Min({x.latest, first + limit - 1}) IN
                   Read(x, since, limit) = [i \in 1..(last - first + 1) |-> first + i - 1]
        <4>1. limit \in Nat  OBVIOUS
        <4>. QED  BY <3>1, <4>1, ReadIsHonest
      <3>. QED  BY <3>2, <3>3, <3>4 DEF x
    <2>. QED  BY <2>1 DEF RingsAreHonest
  <1>. QED  BY <1>1, <1>2, <1>3 DEF SessionsAreAccounted

\* Whatever sessions are opened, evicted and closed, whatever their calls do and
\* whichever answers of the client come late or never: no watch outlives its
\* session but for the messages that were lost, the caps on sessions and watches
\* hold, a session is active exactly while calls of it are under way and has its
\* timer when it is idle, a read returns every event that was not dropped, and
\* no event of a subscribed watch goes unannounced.
THEOREM SessionsAccounted == Spec => []SessionsAreAccounted
  <1>1. Init => IInv  BY BridgeAssumption, InitHolds
  <1>2. IInv /\ [Next]_sessionVars => IInv'  BY BridgeAssumption, NextKeeps
  <1>3. IInv => SessionsAreAccounted  BY BridgeAssumption, AccountedFor
  <1>. QED  BY <1>1, <1>2, <1>3, PTL DEF Spec
================================================================================

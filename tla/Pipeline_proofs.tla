---------------------------- MODULE Pipeline_proofs ----------------------------
(***************************************************************************)
(* What the systems of a world hear, for every set of entities, components *)
(* and systems, whatever they require, watch and ignore, for every order   *)
(* of the pipeline and every application: the callbacks of a system tell   *)
(* the history of its members, no write is lost and none comes back.       *)
(* And what the clocks of a world report is the time that passed.          *)
(***************************************************************************)
EXTENDS Pipeline, FiniteSetTheorems, WellFoundedInduction, TLAPS

-----------------------------------------------------------------------------
(* Numbers, recursion and finite sets.                                      *)

\* A nonempty set of naturals has a least member.
LEMMA LeastMember ==
  ASSUME NEW S, S \subseteq Nat, S # {}
  PROVE  \E m \in S : \A n \in S : m <= n
  <1>. DEFINE Less == OpToRel(<, Nat)
  <1>1. \A n, m \in Nat : <<n, m>> \in Less <=> n < m  BY DEF OpToRel
  <1>2. IsWellFoundedOn(Less, Nat)  BY NatLessThanWellFounded
  <1>. HIDE DEF Less
  <1>3. PICK m \in S : \A n \in S : ~ (<<n, m>> \in Less)  BY <1>2, WFMin
  <1>4. \A n \in S : ~ (n < m)  BY <1>1, <1>3, Zenon
  <1>5. \A n \in S : m <= n  BY <1>4
  <1>. QED  BY <1>5

\* What fails of a number only if it fails of the one before fails of none.
LEMMA NoLeastCounterexample ==
  ASSUME NEW k \in Nat, NEW Bad, Bad \subseteq 0..k,
         \A n \in Bad : n # 0 /\ n - 1 \in Bad
  PROVE  Bad = {}
  <1>. SUFFICES ASSUME Bad # {} PROVE FALSE
    OBVIOUS
  <1>1. Bad \subseteq Nat  OBVIOUS
  <1>2. PICK m \in Bad : \A n \in Bad : m <= n  BY <1>1, LeastMember
  <1>. QED  BY <1>1, <1>2

\* What holds of 0, and of a number if it holds of the one before, holds of all.
LEMMA HoldsOfAll ==
  ASSUME NEW k \in Nat, NEW Good, 0 \in Good,
         \A n \in 1..k : n - 1 \in Good => n \in Good
  PROVE  \A n \in 0..k : n \in Good
  <1>. DEFINE Bad == {n \in 0..k : n \notin Good}
  <1>. SUFFICES Bad = {}
    OBVIOUS
  <1>. SUFFICES ASSUME Bad # {} PROVE FALSE
    OBVIOUS
  <1>1. Bad \subseteq Nat  OBVIOUS
  <1>2. PICK m \in Bad : \A n \in Bad : m <= n  BY <1>1, LeastMember, Zenon
  <1>3. m \in 1..k /\ m - 1 \in 0..k /\ ~ (m <= m - 1)  OBVIOUS
  <1>4. m - 1 \in Good  BY <1>2, <1>3
  <1>. QED  BY <1>3, <1>4

\* Steps on 0..k that stay in V, and a function that makes them.
StaysIn(k, V, base, Step) ==
  k \in Nat /\ base \in V /\ \A i \in 1..k : \A v \in V : Step[i][v] \in V
Makes(k, V, base, Step) ==
  \E r \in [0..k -> V] : r[0] = base /\ \A i \in 1..k : r[i] = Step[i][r[i - 1]]

\* A recursive function whose values stay in a set exists.
LEMMA RecursionExists ==
  ASSUME NEW k, NEW V, NEW base, NEW Step, StaysIn(k, V, base, Step)
  PROVE  Makes(k, V, base, Step)
  <1>0. k \in Nat /\ base \in V /\ \A i \in 1..k : \A v \in V : Step[i][v] \in V
    BY DEF StaysIn
  <1>. DEFINE Run(j, r) == r \in [0..j -> V] /\ r[0] = base
                             /\ \A i \in 1..j : r[i] = Step[i][r[i - 1]]
              Good == {j \in 0..k : \E r : Run(j, r)}
  <1>1. 0 \in Good
    <2>1. Run(0, [i \in 0..0 |-> base])  BY <1>0
    <2>2. 0 \in 0..k  BY <1>0
    <2>. QED  BY <2>1, <2>2
  <1>2. ASSUME NEW j \in 1..k, j - 1 \in Good PROVE j \in Good
    <2>1. PICK r : Run(j - 1, r)  BY <1>2
    <2>2. j - 1 \in 0..j - 1 /\ r[j - 1] \in V  BY <1>0, <2>1
    <2>. DEFINE next == Step[j][r[j - 1]]
                s == [i \in 0..j |-> IF i = j THEN next ELSE r[i]]
    <2>3. next \in V  BY <1>0, <2>2
    <2>. HIDE DEF next
    <2>4. s \in [0..j -> V]  BY <1>0, <2>1, <2>3
    <2>5. s[0] = base  BY <1>0, <2>1
    <2>6. ASSUME NEW i \in 1..j PROVE s[i] = Step[i][s[i - 1]]
      <3>1. i - 1 \in 0..j - 1 /\ s[i - 1] = r[i - 1]  BY <1>0
      <3>2. CASE i = j
        BY <3>1, <3>2 DEF next
      <3>3. CASE i # j
        <4>1. i \in 1..j - 1 /\ s[i] = r[i]  BY <1>0, <3>3
        <4>. QED  BY <2>1, <3>1, <4>1
      <3>. QED  BY <3>2, <3>3
    <2>7. Run(j, s)  BY <2>4, <2>5, <2>6
    <2>. QED  BY <2>7
  <1>3. k \in Good
    <2>. HIDE DEF Good
    <2>1. \A j \in 0..k : j \in Good  BY <1>0, <1>1, <1>2, HoldsOfAll
    <2>. QED  BY <1>0, <2>1
  <1>. QED  BY <1>3 DEF Makes

\* The sequence of a finite set lists each of its members once.
LEMMA SetToSeqLists ==
  ASSUME NEW S, IsFiniteSet(S)
  PROVE  LET q == SetToSeq(S) IN
         /\ q \in Seq(S)
         /\ \A i, j \in 1..Len(q) : q[i] = q[j] => i = j
         /\ \A x \in S : \E i \in 1..Len(q) : q[i] = x
  <1>. DEFINE n == Cardinality(S)
              q == SetToSeq(S)
  <1>1. n \in Nat /\ ExistsBijection(1..n, S)  BY FS_CardinalityType
  <1>2. PICK f \in Bijection(1..n, S) : TRUE  BY <1>1 DEF ExistsBijection
  <1>3. f \in [1..n -> S] /\ IsInjective(f)  BY <1>2 DEF Bijection, Injection
  <1>4. q \in [1..n -> S] /\ IsInjective(q)  BY <1>3 DEF SetToSeq
  <1>. HIDE DEF q
  <1>5. q \in Injection(1..n, S)  BY <1>4 DEF Injection
  <1>6. Cardinality(1..n) = n
    BY <1>1, FS_Interval, FS_CountingElements
  <1>7. IsFiniteSet(1..n)  BY <1>1, FS_Interval
  <1>8. q \in Surjection(1..n, S)  BY <1>5, <1>6, FS_Injection
  <1>. HIDE DEF n
  <1>9. q \in Seq(S) /\ Len(q) = n  BY <1>1, <1>4
  <1>10. \A i, j \in 1..n : q[i] = q[j] => i = j  BY <1>4 DEF IsInjective
  <1>11. \A x \in S : \E i \in 1..n : q[i] = x  BY <1>8 DEF Surjection
  <1>. QED  BY <1>9, <1>10, <1>11 DEF q

\* Two sets with the same members.
LEMMA SameSets ==
  ASSUME NEW U, NEW S, NEW T, S \subseteq U, T \subseteq U, \A x \in U : x \in S <=> x \in T
  PROVE  S = T
  OBVIOUS

\* The length of a concatenation.
LEMMA LenConcat ==
  ASSUME NEW T, NEW p \in Seq(T), NEW q \in Seq(T)
  PROVE  Len(p \o q) = Len(p) + Len(q)
  OBVIOUS

-----------------------------------------------------------------------------
(* Inboxes: what a sequence of events says of an entity.                    *)

Names == Components \cup {NoComponent}
Callers == SystemNames \cup {NoSystem}
Events == [kind : {"enter", "exit", "update"}, e : Entities, c : Names, by : Callers]

\* An entity is in (1) or out (0), and an event of it moves it by so much.
Swing(event, e) == IF event.e = e THEN Counted(event) ELSE 0

\* The events of a box, from the first that is not drained, take e from a to b:
\* it is out whenever it enters, and in whenever it exits.
Leads(box, first, a, b, e) ==
  /\ first \in 1..(Len(box) + 1)
  /\ \E m \in [Nat -> {0, 1}] :
       /\ m[first] = a /\ m[Len(box) + 1] = b
       /\ \A i \in first..Len(box) : m[i + 1] = m[i] + Swing(box[i], e)

\* The ends of a history are in or out.
LEMMA LeadsEnds ==
  ASSUME NEW box \in Seq(Events), NEW first, NEW a, NEW b, NEW e, Leads(box, first, a, b, e)
  PROVE  a \in {0, 1} /\ b \in {0, 1} /\ first \in 1..(Len(box) + 1)
  BY DEF Leads

\* With nothing left to drain, nothing moves.
LEMMA LeadsNowhere ==
  ASSUME NEW box \in Seq(Events), NEW a, NEW b, NEW e
  PROVE  /\ Leads(box, Len(box) + 1, a, b, e) => a = b
         /\ a \in {0, 1} => Leads(box, Len(box) + 1, a, a, e)
  <1>1. ASSUME Leads(box, Len(box) + 1, a, b, e) PROVE a = b
    BY <1>1 DEF Leads
  <1>2. ASSUME a \in {0, 1} PROVE Leads(box, Len(box) + 1, a, a, e)
    <2>. DEFINE m == [n \in Nat |-> a]
    <2>1. m \in [Nat -> {0, 1}] /\ \A n \in Nat : m[n] = a  BY <1>2
    <2>2. Len(box) \in Nat /\ \A i \in (Len(box) + 1)..Len(box) : FALSE  OBVIOUS
    <2>. HIDE DEF m
    <2>3. m[Len(box) + 1] = a  BY <2>1, <2>2
    <2>. QED  BY <2>1, <2>2, <2>3 DEF Leads
  <1>. QED  BY <1>1, <1>2

\* Nothing is told by an inbox that is empty.
LEMMA LeadsEmpty ==
  ASSUME NEW box \in Seq(Events), box = <<>>, NEW a \in {0, 1}, NEW e
  PROVE  Leads(box, 1, a, a, e)
  <1>1. Leads(box, Len(box) + 1, a, a, e)  BY LeadsNowhere
  <1>2. Len(box) + 1 = 1  OBVIOUS
  <1>. QED  BY <1>1, <1>2

\* An event is drained.
LEMMA LeadsOn ==
  ASSUME NEW box \in Seq(Events), NEW first, NEW a, NEW b, NEW e, Leads(box, first, a, b, e),
         first <= Len(box)
  PROVE  LET next == a + Swing(box[first], e) IN
         next \in {0, 1} /\ Leads(box, first + 1, next, b, e)
  <1>1. PICK m \in [Nat -> {0, 1}] :
          /\ m[first] = a /\ m[Len(box) + 1] = b
          /\ \A i \in first..Len(box) : m[i + 1] = m[i] + Swing(box[i], e)
    BY DEF Leads
  <1>2. first \in 1..Len(box) /\ Len(box) \in Nat  BY DEF Leads
  <1>3. m[first + 1] = a + Swing(box[first], e) /\ m[first + 1] \in {0, 1}
    BY <1>1, <1>2
  <1>4. first + 1 \in 1..(Len(box) + 1)  BY <1>2
  <1>5. \A i \in (first + 1)..Len(box) : m[i + 1] = m[i] + Swing(box[i], e)  BY <1>1, <1>2
  <1>. QED  BY <1>1, <1>3, <1>4, <1>5 DEF Leads

\* Events are told, of which at most the first moves e.
LEMMA LeadsTold ==
  ASSUME NEW box \in Seq(Events), NEW new \in Seq(Events), NEW first, NEW a, NEW b, NEW e, NEW d,
         Leads(box, first, a, b, e), b + d \in {0, 1}, d \in Int,
         Len(new) = 0 => d = 0,
         \A i \in 1..Len(new) : Swing(new[i], e) = IF i = 1 THEN d ELSE 0
  PROVE  Leads(box \o new, first, a, b + d, e)
  <1>1. PICK m \in [Nat -> {0, 1}] :
          /\ m[first] = a /\ m[Len(box) + 1] = b
          /\ \A i \in first..Len(box) : m[i + 1] = m[i] + Swing(box[i], e)
    BY DEF Leads
  <1>. DEFINE n == Len(box)
              all == box \o new
              r == [j \in Nat |-> IF j <= n + 1 THEN m[j] ELSE b + d]
  <1>2. n \in Nat /\ Len(new) \in Nat /\ Len(all) = n + Len(new)  OBVIOUS
  <1>3. /\ \A i \in 1..n : all[i] = box[i]
        /\ \A i \in (n + 1)..Len(all) : all[i] = new[i - n] /\ i - n \in 1..Len(new)
    BY <1>2
  <1>4. first \in 1..(n + 1)  BY DEF Leads
  <1>5. r \in [Nat -> {0, 1}]  OBVIOUS
  <1>6. \A j \in Nat : r[j] = IF j <= n + 1 THEN m[j] ELSE b + d  OBVIOUS
  <1>. HIDE DEF n, all, r
  <1>7. r[first] = a  BY <1>1, <1>2, <1>4, <1>6
  <1>8. r[Len(all) + 1] = b + d
    <2>1. CASE Len(new) = 0
      BY <1>1, <1>2, <1>6, <2>1 DEF n
    <2>2. CASE Len(new) # 0
      BY <1>2, <1>6, <2>2
    <2>. QED  BY <2>1, <2>2
  <1>9. ASSUME NEW i \in first..Len(all) PROVE r[i + 1] = r[i] + Swing(all[i], e)
    <2>1. i \in Nat /\ 1 <= i  BY <1>2, <1>4
    <2>2. CASE i <= n
      <3>1. i \in first..n /\ i \in 1..n  BY <1>2, <1>4, <2>1, <2>2
      <3>2. r[i + 1] = m[i + 1] /\ r[i] = m[i]  BY <1>2, <1>6, <2>1, <2>2
      <3>. QED  BY <1>1, <1>3, <3>1, <3>2 DEF n
    <2>3. CASE i = n + 1
      <3>1. all[i] = new[1] /\ 1 \in 1..Len(new)  BY <1>2, <1>3, <2>3
      <3>2. r[i] = b  BY <1>1, <1>2, <1>6, <2>3 DEF n
      <3>3. r[i + 1] = b + d  BY <1>2, <1>6, <2>3
      <3>. QED  BY <3>1, <3>2, <3>3
    <2>4. CASE i > n + 1
      <3>1. i - n \in 1..Len(new) /\ i - n # 1 /\ all[i] = new[i - n]
        BY <1>2, <1>3, <2>1, <2>4
      <3>2. Swing(all[i], e) = 0  BY <3>1
      <3>3. r[i] = b + d /\ r[i + 1] = b + d  BY <1>2, <1>6, <2>1, <2>4
      <3>. QED  BY <3>2, <3>3
    <2>. QED  BY <1>2, <2>1, <2>2, <2>3, <2>4
  <1>10. first \in 1..(Len(all) + 1)  BY <1>2, <1>4
  <1>11. Leads(all, first, a, b + d, e)  BY <1>5, <1>7, <1>8, <1>9, <1>10 DEF Leads
  <1>. QED  BY <1>11 DEF all

-----------------------------------------------------------------------------
(* One system, told of its members.                                         *)

Statuses == {"absent", "pending", "built", "destroyed"}
SystemRecords == [status : Statuses, enabled : BOOLEAN, inbox : Seq(Events), exited : BOOLEAN]

\* An event that system s has a callback for, by a caller it hears of.
Fits(event, s) ==
  \/ event.kind = "update" /\ event.c \in Watches(s) /\ event.by \notin Ignores(s)
  \/ event.kind \in {"enter", "exit"} /\ event.kind \in Hears(s)

\* The inbox of a system with these members: an event of an entity that has left
\* is there only while the system knows that one has.
SystemOK(system, s, members) ==
  /\ system \in SystemRecords
  /\ (~system.enabled \/ system.status # "built") => system.inbox = <<>>
  /\ \A i \in 1..Len(system.inbox) :
       /\ Fits(system.inbox[i], s)
       /\ system.inbox[i].e \in members \/ system.exited

In(e, members) == IF e \in members THEN 1 ELSE 0

\* From the counts of its callbacks so far, the inbox of a system leads to its
\* members.
Follows(system, members, first, count) ==
  \A e \in Entities : Leads(system.inbox, first, count[e], In(e, members), e)

\* What a system was told is still there when it is told more.
Told(old, new) ==
  /\ new.status = old.status /\ new.enabled = old.enabled
  /\ old.exited => new.exited
  /\ Len(old.inbox) <= Len(new.inbox)
  /\ \A i \in 1..Len(old.inbox) : new.inbox[i] = old.inbox[i]

\* Events are pushed.
LEMMA PushKeeps ==
  ASSUME NEW s \in SystemNames, NEW members, NEW system, SystemOK(system, s, members),
         system.status = "built", NEW new \in Seq(Events),
         \A i \in 1..Len(new) : Fits(new[i], s)
  PROVE  LET pushed == Push(system, new) IN
         /\ pushed \in SystemRecords /\ pushed.status = "built"
         /\ pushed.enabled = system.enabled /\ pushed.exited = system.exited
         /\ ~pushed.enabled => pushed.inbox = <<>>
         /\ system.enabled => pushed.inbox = system.inbox \o new
         /\ Told(system, pushed)
         /\ \A i \in 1..Len(pushed.inbox) :
              /\ Fits(pushed.inbox[i], s)
              /\ \/ \E j \in 1..Len(system.inbox) : pushed.inbox[i] = system.inbox[j]
                 \/ \E j \in 1..Len(new) : pushed.inbox[i] = new[j]
  <1>. DEFINE pushed == Push(system, new)
  <1>1. /\ system \in SystemRecords /\ system.inbox \in Seq(Events)
        /\ ~system.enabled => system.inbox = <<>>
        /\ \A i \in 1..Len(system.inbox) : Fits(system.inbox[i], s)
    BY DEF SystemOK, SystemRecords
  <1>2. CASE ~system.enabled
    <2>1. pushed = system  BY <1>2 DEF Push
    <2>. QED  BY <1>1, <1>2, <2>1 DEF Told
  <1>3. CASE system.enabled
    <2>. DEFINE all == system.inbox \o new
    <2>1. pushed = [system EXCEPT !.inbox = all]  BY <1>3 DEF Push
    <2>2. /\ all \in Seq(Events) /\ Len(all) = Len(system.inbox) + Len(new)
          /\ Len(system.inbox) \in Nat /\ Len(new) \in Nat
          /\ \A i \in 1..Len(system.inbox) : all[i] = system.inbox[i]
          /\ \A i \in 1..Len(all) : i > Len(system.inbox) =>
                i - Len(system.inbox) \in 1..Len(new) /\ all[i] = new[i - Len(system.inbox)]
      BY <1>1
    <2>. HIDE DEF all
    <2>3. /\ pushed \in SystemRecords /\ pushed.inbox = all /\ pushed.status = "built"
          /\ pushed.enabled = system.enabled /\ pushed.exited = system.exited
      BY <1>1, <2>1, <2>2 DEF SystemRecords
    <2>4. Told(system, pushed)  BY <2>2, <2>3 DEF Told
    <2>5. ASSUME NEW i \in 1..Len(all)
          PROVE  /\ Fits(all[i], s)
                 /\ \/ \E j \in 1..Len(system.inbox) : all[i] = system.inbox[j]
                    \/ \E j \in 1..Len(new) : all[i] = new[j]
      <3>1. CASE i <= Len(system.inbox)
        <4>1. i \in 1..Len(system.inbox)  BY <2>2, <3>1
        <4>. QED  BY <1>1, <2>2, <4>1
      <3>2. CASE i > Len(system.inbox)
        BY <2>2, <3>2
      <3>. QED  BY <2>2, <3>1, <3>2
    <2>6. \A i \in 1..Len(pushed.inbox) :
            /\ Fits(pushed.inbox[i], s)
            /\ \/ \E j \in 1..Len(system.inbox) : pushed.inbox[i] = system.inbox[j]
               \/ \E j \in 1..Len(new) : pushed.inbox[i] = new[j]
      BY <2>3, <2>5, Zenon
    <2>. QED  BY <1>3, <2>3, <2>4, <2>6 DEF all
  <1>. QED  BY <1>1, <1>2, <1>3 DEF SystemRecords

\* Pushed events, of which at most the first moves an entity, lead to the members
\* after them.
LEMMA PushFollows ==
  ASSUME NEW system \in SystemRecords, system.enabled, NEW new \in Seq(Events),
         NEW before, NEW after, NEW first, NEW count, Follows(system, before, first, count),
         \A e \in Entities :
           /\ Len(new) = 0 => In(e, after) = In(e, before)
           /\ \A i \in 1..Len(new) :
                Swing(new[i], e) = IF i = 1 THEN In(e, after) - In(e, before) ELSE 0
  PROVE  Follows(Push(system, new), after, first, count)
  <1>1. system.inbox \in Seq(Events) /\ Push(system, new).inbox = system.inbox \o new
    BY DEF Push, SystemRecords
  <1>2. ASSUME NEW e \in Entities
        PROVE  Leads(system.inbox \o new, first, count[e], In(e, after), e)
    <2>. DEFINE d == In(e, after) - In(e, before)
    <2>1. /\ In(e, before) \in {0, 1} /\ In(e, after) \in {0, 1} /\ d \in Int
          /\ In(e, before) + d = In(e, after) /\ In(e, before) + d \in {0, 1}
      BY DEF In
    <2>2. Leads(system.inbox, first, count[e], In(e, before), e)  BY DEF Follows
    <2>3. Len(new) = 0 => d = 0  BY <2>1
    <2>4. \A i \in 1..Len(new) : Swing(new[i], e) = IF i = 1 THEN d ELSE 0  OBVIOUS
    <2>. HIDE DEF d
    <2>5. Leads(system.inbox \o new, first, count[e], In(e, before) + d, e)
      BY <1>1, <2>1, <2>2, <2>3, <2>4, LeadsTold
    <2>. QED  BY <2>1, <2>5
  <1>. QED  BY <1>1, <1>2 DEF Follows

\* What a step makes of a system: its inbox stays sound, it keeps what it was told
\* and, if it is enabled and hears both of entries and of exits, its inbox leads
\* to its members after the step.
Heeds(old, new, s, before, after) ==
  /\ SystemOK(new, s, after)
  /\ Told(old, new)
  /\ old.enabled /\ {"enter", "exit"} \subseteq Hears(s) =>
       \A first, count : Follows(old, before, first, count) => Follows(new, after, first, count)

\* A system that nothing happens to.
LEMMA HeedsNothing ==
  ASSUME NEW s \in SystemNames, NEW members, NEW system, SystemOK(system, s, members)
  PROVE  Heeds(system, system, s, members, members)
  BY DEF Heeds, SystemOK, SystemRecords, Told

\* Hearing of two steps one after another.
LEMMA HeedsBoth ==
  ASSUME NEW s \in SystemNames, NEW a, NEW b, NEW c, NEW m1, NEW m2, NEW m3,
         Heeds(a, b, s, m1, m2), Heeds(b, c, s, m2, m3),
         Len(a.inbox) \in Nat, Len(b.inbox) \in Nat, Len(c.inbox) \in Nat
  PROVE  Heeds(a, c, s, m1, m3)
  BY DEF Heeds, Told

\* An update of a member.
LEMMA NotifiedHeeds ==
  ASSUME NEW s \in SystemNames, NEW members, NEW system, SystemOK(system, s, members),
         system.status = "built", NEW e \in Entities, e \in members,
         NEW c \in Components, NEW by \in Callers
  PROVE  LET new == Notified(system, s, e, c, by, by) IN
         /\ Heeds(system, new, s, members, members)
         /\ system.enabled /\ c \in Watches(s) /\ by \notin Ignores(s) =>
              \E i \in 1..Len(new.inbox) : new.inbox[i] = Event("update", e, c, by)
  <1>1. CASE ~(c \in Watches(s) /\ ~Silenced(s, by))
    <2>1. Notified(system, s, e, c, by, by) = system  BY <1>1 DEF Notified
    <2>. QED  BY <1>1, <2>1, HeedsNothing DEF Silenced
  <1>2. CASE c \in Watches(s) /\ ~Silenced(s, by)
    <2>. DEFINE event == Event("update", e, c, by)
                told == <<event>>
                new == Push(system, told)
    <2>1. Notified(system, s, e, c, by, by) = new  BY <1>2 DEF Notified
    <2>2. event \in Events /\ event.kind = "update" /\ event.e = e /\ Fits(event, s)
      BY <1>2 DEF Event, Events, Names, Fits, Silenced
    <2>. HIDE DEF event
    <2>3. told \in Seq(Events) /\ Len(told) = 1 /\ told[1] = event  BY <2>2
    <2>. HIDE DEF told
    <2>4. \A i \in 1..Len(told) : told[i] = event  BY <2>3
    <2>5. /\ new \in SystemRecords /\ new.status = "built" /\ new.exited = system.exited
          /\ ~new.enabled => new.inbox = <<>>
          /\ system.enabled => new.inbox = system.inbox \o told
          /\ Told(system, new)
          /\ \A i \in 1..Len(new.inbox) :
               /\ Fits(new.inbox[i], s)
               /\ \/ \E j \in 1..Len(system.inbox) : new.inbox[i] = system.inbox[j]
                  \/ \E j \in 1..Len(told) : new.inbox[i] = told[j]
      BY <2>2, <2>3, <2>4, PushKeeps, SMTT(30)
    <2>6. SystemOK(new, s, members)
      BY <2>2, <2>4, <2>5 DEF SystemOK
    <2>7. ASSUME system.enabled, NEW first, NEW count, Follows(system, members, first, count)
          PROVE  Follows(new, members, first, count)
      <3>1. system \in SystemRecords  BY DEF SystemOK
      <3>2. ASSUME NEW x \in Entities
            PROVE  /\ Len(told) = 0 => In(x, members) = In(x, members)
                   /\ \A i \in 1..Len(told) :
                        Swing(told[i], x) = IF i = 1 THEN In(x, members) - In(x, members) ELSE 0
        <4>1. Swing(event, x) = 0  BY <2>2 DEF Swing, Counted
        <4>2. In(x, members) \in Int  BY DEF In
        <4>. QED  BY <2>3, <2>4, <4>1, <4>2
      <3>. QED  BY <2>3, <2>7, <3>1, <3>2, PushFollows
    <2>8. ASSUME system.enabled PROVE \E i \in 1..Len(new.inbox) : new.inbox[i] = event
      <3>1. system.inbox \in Seq(Events)  BY DEF SystemOK, SystemRecords
      <3>2. new.inbox = system.inbox \o told  BY <2>5, <2>8
      <3>3. /\ Len(system.inbox) + 1 \in 1..Len(system.inbox \o told)
            /\ (system.inbox \o told)[Len(system.inbox) + 1] = event
        <4>. DEFINE n == Len(system.inbox)
        <4>1. n \in Nat /\ Len(system.inbox \o told) = n + 1
          <5>1. n \in Nat /\ Len(told) \in Nat  BY <2>3, <3>1
          <5>2. Len(system.inbox \o told) = n + Len(told)  BY <2>3, <3>1, Zenon, LenConcat
          <5>. QED  BY <2>3, <5>1, <5>2
        <4>2. (system.inbox \o told)[n + 1] = told[n + 1 - n]  BY <2>3, <3>1, <4>1
        <4>3. n + 1 - n = 1  BY <4>1
        <4>. HIDE DEF n
        <4>4. (system.inbox \o told)[n + 1] = event  BY <2>3, <4>2, <4>3
        <4>. QED  BY <4>1, <4>4 DEF n
      <3>. QED  BY <3>2, <3>3
    <2>9. Heeds(system, new, s, members, members)
      BY <2>5, <2>6, <2>7 DEF Heeds
    <2>. QED  BY <2>1, <2>8, <2>9 DEF event
  <1>. QED  BY <1>1, <1>2

\* An entity enters.
LEMMA EnteredHeeds ==
  ASSUME NEW s \in SystemNames, NEW members, NEW system, SystemOK(system, s, members),
         system.status = "built", NEW e \in Entities,
         NEW comps, comps \subseteq Components, NEW by \in Callers
  PROVE  LET new == Entered(system, s, e, comps, by) IN
         /\ SystemOK(new, s, members \cup {e}) /\ new.status = "built"
         /\ e \notin members => Heeds(system, new, s, members, members \cup {e})
  <1>. DEFINE announced == SetToSeq(Arrivals(s) \cap comps)
              enter == Event("enter", e, NoComponent, by)
              entry == IF "enter" \in Hears(s) THEN <<enter>> ELSE <<>>
              updates == [i \in 1..Len(announced) |-> Event("update", e, announced[i], NoSystem)]
              told == entry \o updates
              new == Push(system, told)
              after == members \cup {e}
  <1>1. Entered(system, s, e, comps, by) = new  BY DEF Entered
  <1>2. announced \in Seq(Arrivals(s) \cap comps)
    <2>1. IsFiniteSet(Arrivals(s) \cap comps)
      <3>1. IsFiniteSet(Components) /\ Arrivals(s) \cap comps \in SUBSET Components
        BY SystemsAssumption DEF SystemsAssumption
      <3>. QED  BY <3>1, FS_Subset
    <2>. QED  BY <2>1, SetToSeqLists
  <1>. HIDE DEF announced
  <1>3. enter \in Events /\ enter.e = e /\ enter.kind = "enter"
    BY DEF Event, Events, Names
  <1>4. ASSUME NEW i \in 1..Len(announced)
        PROVE  /\ updates[i] \in Events /\ updates[i].kind = "update" /\ updates[i].e = e
               /\ Fits(updates[i], s)
    <2>1. announced[i] \in Arrivals(s) \cap comps  BY <1>2
    <2>2. announced[i] \in Components /\ announced[i] \in Watches(s)
      BY <2>1, SystemsAssumption DEF SystemsAssumption
    <2>3. NoSystem \notin Ignores(s)  BY SystemsAssumption DEF SystemsAssumption
    <2>4. updates[i] = Event("update", e, announced[i], NoSystem)  OBVIOUS
    <2>. HIDE DEF updates
    <2>. QED  BY <2>2, <2>3, <2>4 DEF Event, Events, Names, Callers, Fits
  <1>5. updates \in Seq(Events) /\ Len(updates) = Len(announced)
    <2>1. Len(announced) \in Nat  BY <1>2
    <2>. QED  BY <1>4, <2>1
  <1>. HIDE DEF enter, updates
  <1>6. /\ told \in Seq(Events)
        /\ \A i \in 1..Len(told) :
             told[i].e = e /\ Fits(told[i], s) /\ told[i].kind \in {"enter", "update"}
    <2>1. CASE "enter" \in Hears(s)
      <3>1. told = <<enter>> \o updates  BY <2>1
      <3>2. Fits(enter, s)  BY <1>3, <2>1 DEF Fits
      <3>3. /\ told \in Seq(Events) /\ told[1] = enter
            /\ \A i \in 1..Len(told) : i # 1 => i - 1 \in 1..Len(updates) /\ told[i] = updates[i - 1]
        BY <1>3, <1>5, <3>1
      <3>. HIDE DEF told
      <3>. QED  BY <1>3, <1>4, <1>5, <3>2, <3>3
    <2>2. CASE "enter" \notin Hears(s)
      <3>1. told = updates  BY <1>5, <2>2
      <3>. HIDE DEF told
      <3>. QED  BY <1>4, <1>5, <3>1
    <2>. QED  BY <2>1, <2>2
  <1>7. "enter" \in Hears(s) =>
          /\ told[1] = enter /\ Len(told) # 0
          /\ \A i \in 1..Len(told) : i # 1 => told[i].kind = "update"
    <2>. SUFFICES ASSUME "enter" \in Hears(s)
                  PROVE  /\ told[1] = enter /\ Len(told) # 0
                         /\ \A i \in 1..Len(told) : i # 1 => told[i].kind = "update"
      OBVIOUS
    <2>1. told = <<enter>> \o updates  OBVIOUS
    <2>2. /\ told[1] = enter /\ Len(told) # 0
          /\ \A i \in 1..Len(told) : i # 1 => i - 1 \in 1..Len(updates) /\ told[i] = updates[i - 1]
      BY <1>3, <1>5, <2>1
    <2>. HIDE DEF told
    <2>. QED  BY <1>4, <1>5, <2>2
  <1>. HIDE DEF told
  <1>8. /\ new \in SystemRecords /\ new.status = "built" /\ new.exited = system.exited
        /\ ~new.enabled => new.inbox = <<>>
        /\ Told(system, new)
        /\ \A i \in 1..Len(new.inbox) :
             /\ Fits(new.inbox[i], s)
             /\ \/ \E j \in 1..Len(system.inbox) : new.inbox[i] = system.inbox[j]
                \/ \E j \in 1..Len(told) : new.inbox[i] = told[j]
    BY <1>6, PushKeeps
  <1>9. SystemOK(new, s, after)
    BY <1>6, <1>8 DEF SystemOK
  <1>10. ASSUME e \notin members, system.enabled, {"enter", "exit"} \subseteq Hears(s),
                NEW first, NEW count, Follows(system, members, first, count)
         PROVE  Follows(new, after, first, count)
    <2>1. system \in SystemRecords  BY DEF SystemOK
    <2>2. ASSUME NEW x \in Entities
          PROVE  /\ Len(told) = 0 => In(x, after) = In(x, members)
                 /\ \A i \in 1..Len(told) :
                      Swing(told[i], x) = IF i = 1 THEN In(x, after) - In(x, members) ELSE 0
      <3>1. "enter" \in Hears(s)  BY <1>10
      <3>2. In(x, after) - In(x, members) = IF x = e THEN 1 ELSE 0  BY <1>10 DEF In
      <3>3. Swing(told[1], x) = IF x = e THEN 1 ELSE 0
        BY <1>3, <1>7, <3>1 DEF Swing, Counted
      <3>4. \A i \in 1..Len(told) : i # 1 => Swing(told[i], x) = 0
        BY <1>7, <3>1 DEF Swing, Counted
      <3>. QED  BY <1>7, <3>1, <3>2, <3>3, <3>4
    <2>. HIDE DEF after
    <2>. QED  BY <1>6, <1>10, <2>1, <2>2, PushFollows
  <1>. QED  BY <1>1, <1>8, <1>9, <1>10 DEF Heeds

\* An entity leaves.
LEMMA LeftHeeds ==
  ASSUME NEW s \in SystemNames, NEW members, NEW system, SystemOK(system, s, members),
         system.status = "built", NEW e \in Entities, e \in members, NEW by \in Callers
  PROVE  Heeds(system, Left(system, s, e, by), s, members, members \ {e})
  <1>. DEFINE exit == Event("exit", e, NoComponent, by)
              told == IF "exit" \in Hears(s) THEN <<exit>> ELSE <<>>
              pushed == Push(system, told)
              new == [pushed EXCEPT !.exited = @ \/ pushed.enabled]
              after == members \ {e}
  <1>1. Left(system, s, e, by) = new  BY DEF Left
  <1>2. exit \in Events /\ exit.e = e /\ exit.kind = "exit"
    BY DEF Event, Events, Names
  <1>. HIDE DEF exit
  <1>3. /\ told \in Seq(Events)
        /\ \A i \in 1..Len(told) : Fits(told[i], s)
        /\ "exit" \in Hears(s) => Len(told) = 1 /\ told[1] = exit
    BY <1>2 DEF Fits
  <1>. HIDE DEF told
  <1>4. /\ pushed \in SystemRecords /\ pushed.status = "built" /\ pushed.enabled = system.enabled
        /\ ~pushed.enabled => pushed.inbox = <<>>
        /\ Told(system, pushed)
        /\ \A i \in 1..Len(pushed.inbox) : Fits(pushed.inbox[i], s)
    BY <1>3, PushKeeps
  <1>. HIDE DEF pushed
  <1>5. /\ new \in SystemRecords /\ new.status = pushed.status /\ new.enabled = pushed.enabled
        /\ new.inbox = pushed.inbox /\ new.exited = (pushed.exited \/ pushed.enabled)
    BY <1>4 DEF SystemRecords
  <1>. HIDE DEF new
  <1>6. SystemOK(new, s, after)
    <2>1. ASSUME NEW i \in 1..Len(new.inbox) PROVE Fits(new.inbox[i], s) /\ new.exited
      <3>1. Fits(new.inbox[i], s)  BY <1>4, <1>5
      <3>2. pushed.inbox # <<>>  BY <1>5
      <3>. QED  BY <1>4, <1>5, <3>1, <3>2
    <2>. QED  BY <1>4, <1>5, <2>1 DEF SystemOK
  <1>7. Told(system, new)  BY <1>4, <1>5 DEF Told
  <1>8. ASSUME system.enabled, {"enter", "exit"} \subseteq Hears(s),
               NEW first, NEW count, Follows(system, members, first, count)
        PROVE  Follows(new, after, first, count)
    <2>1. system \in SystemRecords  BY DEF SystemOK
    <2>2. ASSUME NEW x \in Entities
          PROVE  /\ Len(told) = 0 => In(x, after) = In(x, members)
                 /\ \A i \in 1..Len(told) :
                      Swing(told[i], x) = IF i = 1 THEN In(x, after) - In(x, members) ELSE 0
      <3>1. Len(told) = 1 /\ told[1] = exit  BY <1>3, <1>8
      <3>2. In(x, after) - In(x, members) = IF x = e THEN -1 ELSE 0  BY DEF In
      <3>3. Swing(told[1], x) = IF x = e THEN -1 ELSE 0
        BY <1>2, <3>1 DEF Swing, Counted
      <3>. QED  BY <3>1, <3>2, <3>3
    <2>. HIDE DEF after
    <2>3. Follows(pushed, after, first, count)
      BY <1>3, <1>8, <2>1, <2>2, PushFollows DEF pushed
    <2>. QED  BY <1>5, <2>3 DEF Follows
  <1>. QED  BY <1>1, <1>6, <1>7, <1>8 DEF Heeds

-----------------------------------------------------------------------------
(* A world, told of its changes.                                            *)

Worlds ==
  [comps : [Entities -> SUBSET Components], destroyed : SUBSET Entities,
   dirty : [Entities -> SUBSET Components], systems : [SystemNames -> SystemRecords]]

\* Every system's inbox is sound, and only components that are there are dirty.
WorldOK(w) ==
  /\ w \in Worlds
  /\ \A s \in SystemNames : SystemOK(w.systems[s], s, Members(w, s))
  /\ \A e \in Entities : w.dirty[e] \subseteq w.comps[e]

\* Every system heeds what happens between w and v.
WorldHeeds(w, v) ==
  \A s \in SystemNames : Heeds(w.systems[s], v.systems[s], s, Members(w, s), Members(v, s))

SameData(w, v) == v.comps = w.comps /\ v.destroyed = w.destroyed /\ v.dirty = w.dirty

\* The members of a system are built of its status and of the entities.
LEMMA SameMembers ==
  ASSUME NEW w, NEW v, NEW s \in SystemNames, v.systems[s].status = w.systems[s].status,
         v.destroyed = w.destroyed, v.comps = w.comps
  PROVE  Members(v, s) = Members(w, s)
  BY DEF Members, Matches

\* Members are entities, of systems that are built.
LEMMA MembersAre ==
  ASSUME NEW w, NEW s \in SystemNames
  PROVE  /\ Members(w, s) \subseteq Entities
         /\ Members(w, s) # {} => w.systems[s].status = "built"
         /\ \A e \in Entities : s \in HavingMember(w, e) <=> e \in Members(w, s)
  BY DEF Members, HavingMember

\* The inboxes of a sound world are sequences.
LEMMA InboxesAre ==
  ASSUME NEW w, w \in Worlds, NEW s \in SystemNames
  PROVE  /\ w.systems[s] \in SystemRecords /\ w.systems[s].inbox \in Seq(Events)
         /\ Len(w.systems[s].inbox) \in Nat
  BY DEF Worlds, SystemRecords

\* Steps one after another.
LEMMA WorldHeedsBoth ==
  ASSUME NEW w, NEW v, NEW u, w \in Worlds, v \in Worlds, u \in Worlds,
         WorldHeeds(w, v), WorldHeeds(v, u)
  PROVE  WorldHeeds(w, u)
  <1>1. ASSUME NEW s \in SystemNames
        PROVE  Heeds(w.systems[s], u.systems[s], s, Members(w, s), Members(u, s))
    <2>1. /\ Len(w.systems[s].inbox) \in Nat /\ Len(v.systems[s].inbox) \in Nat
          /\ Len(u.systems[s].inbox) \in Nat
      BY InboxesAre
    <2>2. /\ Heeds(w.systems[s], v.systems[s], s, Members(w, s), Members(v, s))
          /\ Heeds(v.systems[s], u.systems[s], s, Members(v, s), Members(u, s))
      BY DEF WorldHeeds
    <2>. QED  BY <2>1, <2>2, HeedsBoth
  <1>. QED  BY <1>1 DEF WorldHeeds

\* A world whose systems heed a step into it is sound.
LEMMA HeedsSound ==
  ASSUME NEW w, NEW v, v \in Worlds, WorldHeeds(w, v),
         \A e \in Entities : v.dirty[e] \subseteq v.comps[e]
  PROVE  WorldOK(v)
  BY DEF WorldHeeds, WorldOK, Heeds

\* A component that is clean changes no system.
LEMMA CleanHeeds ==
  ASSUME NEW w, WorldOK(w), NEW e \in Entities, NEW c
  PROVE  LET v == Clean(w, e, c) IN
         /\ WorldOK(v) /\ WorldHeeds(w, v)
         /\ v.comps = w.comps /\ v.destroyed = w.destroyed /\ v.systems = w.systems
         /\ v.dirty = [w.dirty EXCEPT ![e] = @ \ {c}]
  <1>. DEFINE v == Clean(w, e, c)
  <1>1. /\ v \in Worlds /\ v.comps = w.comps /\ v.destroyed = w.destroyed
        /\ v.systems = w.systems /\ v.dirty = [w.dirty EXCEPT ![e] = @ \ {c}]
    BY DEF Clean, WorldOK, Worlds
  <1>. HIDE DEF v
  <1>2. \A s \in SystemNames : Members(v, s) = Members(w, s)  BY <1>1, SameMembers
  <1>3. WorldHeeds(w, v)  BY <1>1, <1>2, HeedsNothing DEF WorldHeeds, WorldOK
  <1>4. \A x \in Entities : v.dirty[x] \subseteq v.comps[x]
    BY <1>1 DEF WorldOK, Worlds
  <1>5. WorldOK(v)  BY <1>1, <1>3, <1>4, HeedsSound
  <1>. QED  BY <1>1, <1>3, <1>5 DEF v

\* System s has an update of component c of e to drain.
Hearing(w, s, e, c) ==
  \E i \in 1..Len(w.systems[s].inbox) :
    LET event == w.systems[s].inbox[i]
    IN event.kind = "update" /\ event.e = e /\ event.c = c

\* An update is routed to systems that have the entity.
LEMMA RouteHeeds ==
  ASSUME NEW w, WorldOK(w), NEW e \in Entities, NEW to, to \subseteq HavingMember(w, e),
         NEW c \in Components, NEW by \in Callers
  PROVE  LET v == Route(w, to, e, c, by, by) IN
         /\ WorldOK(v) /\ WorldHeeds(w, v) /\ SameData(w, v)
         /\ \A s \in SystemNames : Members(v, s) = Members(w, s)
         /\ \A s \in to : w.systems[s].enabled /\ c \in Watches(s) /\ by \notin Ignores(s) =>
              Hearing(v, s, e, c)
  <1>. DEFINE now(s) == IF s \in to THEN Notified(w.systems[s], s, e, c, by, by) ELSE w.systems[s]
              v == Route(w, to, e, c, by, by)
  <1>1. ASSUME NEW s \in SystemNames
        PROVE  /\ Heeds(w.systems[s], now(s), s, Members(w, s), Members(w, s))
               /\ s \in to /\ w.systems[s].enabled /\ c \in Watches(s) /\ by \notin Ignores(s) =>
                    \E i \in 1..Len(now(s).inbox) : now(s).inbox[i] = Event("update", e, c, by)
    <2>1. SystemOK(w.systems[s], s, Members(w, s))  BY DEF WorldOK
    <2>2. CASE s \notin to
      BY <2>1, <2>2, HeedsNothing
    <2>3. CASE s \in to
      <3>1. e \in Members(w, s) /\ w.systems[s].status = "built"  BY <2>3, MembersAre
      <3>. QED  BY <2>1, <2>3, <3>1, NotifiedHeeds
    <2>. QED  BY <2>2, <2>3
  <1>2. \A s \in SystemNames : now(s) \in SystemRecords /\ now(s).status = w.systems[s].status
    BY <1>1 DEF Heeds, SystemOK, Told
  <1>3. v = [w EXCEPT !.systems = [s \in SystemNames |-> now(s)]]  BY DEF Route
  <1>. HIDE DEF now
  <1>4. /\ v \in Worlds /\ SameData(w, v)
        /\ \A s \in SystemNames : v.systems[s] = now(s)
    BY <1>2, <1>3 DEF WorldOK, Worlds, SameData
  <1>. HIDE DEF v
  <1>5. \A s \in SystemNames : Members(v, s) = Members(w, s)
    BY <1>2, <1>4, SameMembers DEF SameData
  <1>6. WorldHeeds(w, v)  BY <1>1, <1>4, <1>5 DEF WorldHeeds
  <1>7. WorldOK(v)  BY <1>4, <1>6, HeedsSound DEF WorldOK, SameData
  <1>8. ASSUME NEW s \in to, w.systems[s].enabled, c \in Watches(s), by \notin Ignores(s)
        PROVE  Hearing(v, s, e, c)
    <2>1. s \in SystemNames  BY <1>8 DEF HavingMember
    <2>2. PICK i \in 1..Len(v.systems[s].inbox) : v.systems[s].inbox[i] = Event("update", e, c, by)
      BY <1>1, <1>4, <1>8, <2>1
    <2>. QED  BY <2>2 DEF Hearing, Event
  <1>. QED  BY <1>4, <1>5, <1>6, <1>7, <1>8 DEF v

Stored(w, e, c) == [w EXCEPT !.comps[e] = @ \cup {c}]

Gained(w, before, e, c, by) ==
  LET stored == Stored(w, e, c)
  IN [stored EXCEPT !.systems = [s \in SystemNames |->
        IF s \in HavingMember(stored, e) \ before
        THEN Entered(stored.systems[s], s, e, stored.comps[e], by)
        ELSE stored.systems[s]]]

\* An entity gains a component, and the systems that it now matches see it enter.
LEMMA GainHeeds ==
  ASSUME NEW w, WorldOK(w), NEW e \in Entities, NEW c \in Components, NEW by \in Callers,
         NEW before, before = HavingMember(w, e)
  PROVE  LET v == Gained(w, before, e, c, by) IN
         /\ WorldOK(v) /\ WorldHeeds(w, v)
         /\ v.destroyed = w.destroyed /\ v.dirty = w.dirty
         /\ v.comps = [w.comps EXCEPT ![e] = @ \cup {c}]
  <1>. DEFINE stored == Stored(w, e, c)
              v == Gained(w, before, e, c, by)
              entering == HavingMember(stored, e) \ before
              now(s) == IF s \in entering THEN Entered(w.systems[s], s, e, stored.comps[e], by)
                        ELSE w.systems[s]
  <1>1. /\ stored \in Worlds /\ stored.systems = w.systems /\ stored.destroyed = w.destroyed
        /\ stored.dirty = w.dirty /\ stored.comps = [w.comps EXCEPT ![e] = @ \cup {c}]
    BY DEF WorldOK, Worlds, Stored
  <1>2. v = [stored EXCEPT !.systems = [s \in SystemNames |-> now(s)]]  BY <1>1 DEF Gained
  <1>. HIDE DEF stored, v
  <1>3. ASSUME NEW s \in SystemNames
        PROVE  Heeds(w.systems[s], now(s), s, Members(w, s), Members(stored, s))
    <2>1. SystemOK(w.systems[s], s, Members(w, s))  BY DEF WorldOK
    <2>2. /\ \A x \in Entities \ {e} : x \in Members(stored, s) <=> x \in Members(w, s)
          /\ e \in Members(w, s) => e \in Members(stored, s)
      BY <1>1 DEF Members, Matches, WorldOK, Worlds
    <2>3. /\ Members(w, s) \subseteq Entities /\ Members(stored, s) \subseteq Entities
          /\ s \in entering <=> e \in Members(stored, s) /\ e \notin Members(w, s)
      BY MembersAre
    <2>4. CASE s \notin entering
      <3>1. Members(stored, s) = Members(w, s)  BY <2>2, <2>3, <2>4
      <3>. QED  BY <2>1, <2>4, <3>1, HeedsNothing
    <2>5. CASE s \in entering
      <3>1. Members(stored, s) = Members(w, s) \cup {e} /\ e \notin Members(w, s)
        BY <2>2, <2>3, <2>5
      <3>2. w.systems[s].status = "built"  BY <1>1, <3>1, MembersAre
      <3>3. stored.comps[e] \subseteq Components  BY <1>1 DEF Worlds
      <3>. QED  BY <2>1, <2>5, <3>1, <3>2, <3>3, EnteredHeeds
    <2>. QED  BY <2>4, <2>5
  <1>4. \A s \in SystemNames : now(s) \in SystemRecords /\ now(s).status = w.systems[s].status
    BY <1>3 DEF Heeds, SystemOK, Told
  <1>. HIDE DEF now, entering
  <1>5. /\ v \in Worlds /\ v.destroyed = w.destroyed /\ v.dirty = w.dirty /\ v.comps = stored.comps
        /\ \A s \in SystemNames : v.systems[s] = now(s)
    BY <1>1, <1>4, <1>2 DEF Worlds
  <1>6. \A s \in SystemNames : Members(v, s) = Members(stored, s)
    BY <1>1, <1>4, <1>5, SameMembers
  <1>7. WorldHeeds(w, v)  BY <1>3, <1>5, <1>6 DEF WorldHeeds
  <1>8. \A x \in Entities : v.dirty[x] \subseteq v.comps[x]
    BY <1>1, <1>5 DEF WorldOK, Worlds
  <1>9. WorldOK(v)  BY <1>5, <1>7, <1>8, HeedsSound
  <1>. QED  BY <1>1, <1>5, <1>7, <1>9 DEF stored, v

\* The world becomes `after`, and the systems that e no longer matches see it leave.
LEMMA DepartHeeds ==
  ASSUME NEW w, WorldOK(w), NEW e \in Entities, NEW by \in Callers,
         NEW after, after \in Worlds, after.systems = w.systems,
         \A x \in Entities \ {e} :
           after.comps[x] = w.comps[x] /\ (x \in after.destroyed <=> x \in w.destroyed),
         after.comps[e] \subseteq w.comps[e], e \in w.destroyed => e \in after.destroyed,
         \A x \in Entities : after.dirty[x] \subseteq after.comps[x]
  PROVE  LET v == Depart(w, e, after, by) IN
         WorldOK(v) /\ WorldHeeds(w, v) /\ SameData(after, v)
  <1>. DEFINE leaving == HavingMember(w, e) \ HavingMember(after, e)
              now(s) == IF s \in leaving THEN Left(w.systems[s], s, e, by) ELSE w.systems[s]
              v == Depart(w, e, after, by)
  <1>1. ASSUME NEW s \in SystemNames
        PROVE  Heeds(w.systems[s], now(s), s, Members(w, s), Members(after, s))
    <2>1. SystemOK(w.systems[s], s, Members(w, s))  BY DEF WorldOK
    <2>2. /\ \A x \in Entities \ {e} : x \in Members(after, s) <=> x \in Members(w, s)
          /\ e \in Members(after, s) => e \in Members(w, s)
      BY DEF Members, Matches
    <2>3. /\ Members(w, s) \subseteq Entities /\ Members(after, s) \subseteq Entities
          /\ s \in leaving <=> e \in Members(w, s) /\ e \notin Members(after, s)
      BY MembersAre
    <2>4. CASE s \notin leaving
      <3>1. Members(after, s) = Members(w, s)
        <4>1. e \in Members(after, s) <=> e \in Members(w, s)  BY <2>2, <2>3, <2>4
        <4>2. \A x \in Entities : x \in Members(after, s) <=> x \in Members(w, s)
          BY <2>2, <4>1
        <4>. QED  BY <2>3, <4>2, SameSets, Zenon
      <3>. QED  BY <2>1, <2>4, <3>1, HeedsNothing
    <2>5. CASE s \in leaving
      <3>1. Members(after, s) = Members(w, s) \ {e} /\ e \in Members(w, s)
        BY <2>2, <2>3, <2>5
      <3>2. w.systems[s].status = "built"  BY <3>1, MembersAre
      <3>. QED  BY <2>1, <2>5, <3>1, <3>2, LeftHeeds
    <2>. QED  BY <2>4, <2>5
  <1>2. \A s \in SystemNames : now(s) \in SystemRecords /\ now(s).status = w.systems[s].status
    BY <1>1 DEF Heeds, SystemOK, Told
  <1>3. v = [after EXCEPT !.systems = [s \in SystemNames |-> now(s)]]  BY DEF Depart
  <1>. HIDE DEF now, leaving
  <1>4. v \in Worlds /\ SameData(after, v) /\ \A s \in SystemNames : v.systems[s] = now(s)
    BY <1>2, <1>3 DEF Worlds, SameData
  <1>. HIDE DEF v
  <1>5. \A s \in SystemNames : Members(v, s) = Members(after, s)
    BY <1>2, <1>4, SameMembers DEF SameData
  <1>6. WorldHeeds(w, v)  BY <1>1, <1>4, <1>5 DEF WorldHeeds
  <1>7. WorldOK(v)  BY <1>4, <1>6, HeedsSound DEF SameData
  <1>. QED  BY <1>4, <1>6, <1>7 DEF v

\* An entity gains a component: its members hear of it, then others see it enter.
LEMMA ArriveHeeds ==
  ASSUME NEW w, WorldOK(w), NEW e \in Entities, NEW c \in Components, NEW by \in Callers
  PROVE  LET v == Arrive(w, e, c, by, by) IN
         /\ WorldOK(v) /\ WorldHeeds(w, v)
         /\ v.destroyed = w.destroyed /\ v.dirty = w.dirty
         /\ v.comps = [w.comps EXCEPT ![e] = @ \cup {c}]
  <1>. DEFINE before == HavingMember(w, e)
              to == {s \in before : c \in Arrivals(s)}
              told == Route(w, to, e, c, by, by)
              v == Gained(told, before, e, c, by)
  <1>1. /\ WorldOK(told) /\ WorldHeeds(w, told) /\ SameData(w, told)
        /\ \A s \in SystemNames : Members(told, s) = Members(w, s)
        /\ \A s \in to : w.systems[s].enabled /\ c \in Watches(s) /\ by \notin Ignores(s) =>
             Hearing(told, s, e, c)
    <2>1. to \subseteq HavingMember(w, e)  OBVIOUS
    <2>. HIDE DEF to
    <2>. QED  BY <2>1, RouteHeeds, ZenonT(30)
  <1>2. before = HavingMember(told, e)  BY <1>1 DEF HavingMember
  <1>3. Arrive(w, e, c, by, by) = v  BY DEF Arrive, Gained, Stored
  <1>. HIDE DEF told, before
  <1>4. /\ WorldOK(v) /\ WorldHeeds(told, v)
        /\ v.destroyed = told.destroyed /\ v.dirty = told.dirty
        /\ v.comps = [told.comps EXCEPT ![e] = @ \cup {c}]
    BY <1>1, <1>2, GainHeeds
  <1>. HIDE DEF v
  <1>5. WorldHeeds(w, v)  BY <1>1, <1>4, WorldHeedsBoth DEF WorldOK
  <1>. QED  BY <1>1, <1>3, <1>4, <1>5 DEF SameData

\* The changes that a queue holds: each is credited to the caller that made it.
Changes ==
  {change \in [kind : {"add", "set", "modified", "remove", "destroy"}, e : Entities, c : Names,
               source : Callers, by : Callers] :
     change.source = change.by /\ (change.kind # "destroy" => change.c \in Components)}

Removes(change, e) == change.e = e /\ change.kind \in {"remove", "destroy"}
Writes(change, e, c) == change.kind \in {"modified", "set"} /\ change.e = e /\ change.c = c

\* What a change leaves of the data: other entities are as they were, an entity
\* that is neither destroyed nor loses a component only gains, and a change that
\* notifies leaves nothing dirty.
Changed(w, v, change) ==
  /\ \A x \in Entities \ {change.e} :
       v.comps[x] = w.comps[x] /\ v.dirty[x] = w.dirty[x] /\ (x \in v.destroyed <=> x \in w.destroyed)
  /\ change.e \in w.destroyed => change.e \in v.destroyed
  /\ ~Removes(change, change.e) =>
       w.comps[change.e] \subseteq v.comps[change.e] /\ v.destroyed = w.destroyed
  /\ v.dirty[change.e] \subseteq w.dirty[change.e]
  /\ change.kind = "modified" /\ change.e \notin w.destroyed => change.c \notin v.dirty[change.e]

\* A write is heard of by the systems that have the entity.
Heard(w, v, change) ==
  \A s \in SystemNames :
    /\ change.kind \in {"modified", "set"} /\ change.c \in w.comps[change.e]
    /\ change.e \in Members(w, s) /\ w.systems[s].enabled
    /\ change.c \in Watches(s) /\ change.source \notin Ignores(s)
    => Hearing(v, s, change.e, change.c)

\* A destroyed entity is a member of no system, and its components are not changed.
LEMMA DestroyedIsLeft ==
  ASSUME NEW w, WorldOK(w), NEW change \in Changes, change.e \in w.destroyed
  PROVE  LET v == Apply(w, change) IN
         WorldOK(v) /\ WorldHeeds(w, v) /\ Changed(w, v, change) /\ Heard(w, v, change)
  <1>1. Apply(w, change) = w  BY DEF Apply
  <1>2. WorldHeeds(w, w)  BY HeedsNothing DEF WorldHeeds, WorldOK
  <1>3. \A s \in SystemNames : change.e \notin Members(w, s)  BY DEF Members, Matches
  <1>. QED  BY <1>1, <1>2, <1>3 DEF Changed, Heard

\* A component that is there is written.
LEMMA UpdateHeeds ==
  ASSUME NEW w, WorldOK(w), NEW e \in Entities, NEW c \in Components, NEW by \in Callers
  PROVE  LET v == Route(Clean(w, e, c), HavingMember(w, e), e, c, by, by) IN
         /\ WorldOK(v) /\ WorldHeeds(w, v)
         /\ v.comps = w.comps /\ v.destroyed = w.destroyed
         /\ v.dirty = [w.dirty EXCEPT ![e] = @ \ {c}]
         /\ \A s \in SystemNames :
              e \in Members(w, s) /\ w.systems[s].enabled /\ c \in Watches(s) /\ by \notin Ignores(s)
                => Hearing(v, s, e, c)
  <1>. DEFINE u == Clean(w, e, c)
              v == Route(u, HavingMember(w, e), e, c, by, by)
  <1>1. /\ WorldOK(u) /\ WorldHeeds(w, u)
        /\ u.comps = w.comps /\ u.destroyed = w.destroyed /\ u.systems = w.systems
        /\ u.dirty = [w.dirty EXCEPT ![e] = @ \ {c}]
    BY CleanHeeds
  <1>. HIDE DEF u
  <1>2. \A s \in SystemNames : Members(u, s) = Members(w, s)  BY <1>1, SameMembers
  <1>3. HavingMember(w, e) = HavingMember(u, e)  BY <1>2 DEF HavingMember
  <1>4. /\ WorldOK(v) /\ WorldHeeds(u, v) /\ SameData(u, v)
        /\ \A s \in HavingMember(w, e) :
             u.systems[s].enabled /\ c \in Watches(s) /\ by \notin Ignores(s) => Hearing(v, s, e, c)
    BY <1>1, <1>3, RouteHeeds
  <1>. HIDE DEF v
  <1>5. WorldHeeds(w, v)  BY <1>1, <1>4, WorldHeedsBoth DEF WorldOK
  <1>6. \A s \in SystemNames : e \in Members(w, s) => s \in HavingMember(w, e)  BY MembersAre
  <1>. QED  BY <1>1, <1>4, <1>5, <1>6 DEF SameData, u, v

\* The world without component c of e.
Removed(w, e, c, by) ==
  LET gone == Clean([w EXCEPT !.comps[e] = @ \ {c}], e, c)
      parted == Depart(w, e, gone, by)
  IN Route(parted, {s \in HavingMember(parted, e) : c \in Removals(s)}, e, c, by, by)

\* A change of an entity that lives, with the parts of Apply that it needs.
LEMMA ApplyIs ==
  ASSUME NEW w, NEW change, change.e \notin w.destroyed, change.source = change.by
  PROVE  LET e == change.e
             c == change.c
             by == change.by
             v == Apply(w, change)
         IN /\ change.kind \in {"add", "modified", "remove"} /\ (change.kind = "add" <=> c \in w.comps[e])
                 => v = w
            /\ change.kind = "add" /\ c \notin w.comps[e] => v = Arrive(w, e, c, by, by)
            /\ change.kind = "set" /\ c \notin w.comps[e] => v = Clean(Arrive(w, e, c, by, by), e, c)
            /\ change.kind \in {"set", "modified"} /\ c \in w.comps[e] =>
                 v = Route(Clean(w, e, c), HavingMember(w, e), e, c, by, by)
            /\ change.kind = "remove" /\ c \in w.comps[e] => v = Removed(w, e, c, by)
            /\ change.kind = "destroy" =>
                 v = Depart(w, e, [w EXCEPT !.comps[e] = {}, !.dirty[e] = {},
                                            !.destroyed = @ \cup {e}], by)
  <1>1. CASE change.kind = "add"
    BY <1>1 DEF Apply
  <1>2. CASE change.kind = "set"
    BY <1>2 DEF Apply
  <1>3. CASE change.kind = "modified"
    BY <1>3 DEF Apply
  <1>4. CASE change.kind = "remove"
    BY <1>4 DEF Apply, Removed
  <1>5. CASE change.kind = "destroy"
    BY <1>5 DEF Apply
  <1>. QED  BY <1>1, <1>2, <1>3, <1>4, <1>5

\* A component is removed.
LEMMA RemoveHeeds ==
  ASSUME NEW w, WorldOK(w), NEW e \in Entities, NEW c \in Components, NEW by \in Callers
  PROVE  LET v == Removed(w, e, c, by) IN
         /\ WorldOK(v) /\ WorldHeeds(w, v) /\ v.destroyed = w.destroyed
         /\ v.comps = [w.comps EXCEPT ![e] = @ \ {c}]
         /\ v.dirty = [w.dirty EXCEPT ![e] = @ \ {c}]
  <1>. DEFINE gone == Clean([w EXCEPT !.comps[e] = @ \ {c}], e, c)
              parted == Depart(w, e, gone, by)
              to == {s \in HavingMember(parted, e) : c \in Removals(s)}
              v == Route(parted, to, e, c, by, by)
  <1>1. /\ gone \in Worlds /\ gone.systems = w.systems /\ gone.destroyed = w.destroyed
        /\ gone.comps = [w.comps EXCEPT ![e] = @ \ {c}]
        /\ gone.dirty = [w.dirty EXCEPT ![e] = @ \ {c}]
    BY DEF Clean, WorldOK, Worlds
  <1>. HIDE DEF gone
  <1>2. /\ \A x \in Entities \ {e} : gone.comps[x] = w.comps[x]
        /\ gone.comps[e] \subseteq w.comps[e]
        /\ \A x \in Entities : gone.dirty[x] \subseteq gone.comps[x]
    BY <1>1 DEF WorldOK, Worlds
  <1>3. WorldOK(parted) /\ WorldHeeds(w, parted) /\ SameData(gone, parted)
    BY <1>1, <1>2, DepartHeeds
  <1>. HIDE DEF parted
  <1>4. WorldOK(v) /\ WorldHeeds(parted, v) /\ SameData(parted, v)
    <2>1. to \subseteq HavingMember(parted, e)  OBVIOUS
    <2>. HIDE DEF to
    <2>. QED  BY <1>3, <2>1, RouteHeeds
  <1>5. WorldHeeds(w, v)
    <2>. HIDE DEF v
    <2>. QED  BY <1>3, <1>4, WorldHeedsBoth DEF WorldOK
  <1>6. v.destroyed = w.destroyed /\ v.comps = gone.comps /\ v.dirty = gone.dirty
    <2>. HIDE DEF v
    <2>. QED  BY <1>1, <1>3, <1>4 DEF SameData
  <1>7. Removed(w, e, c, by) = v  BY DEF Removed, gone, parted
  <1>. HIDE DEF v
  <1>. QED  BY <1>1, <1>4, <1>5, <1>6, <1>7

\* An entity is destroyed.
LEMMA DestroyHeeds ==
  ASSUME NEW w, WorldOK(w), NEW e \in Entities, NEW by \in Callers
  PROVE  LET v == Depart(w, e, [w EXCEPT !.comps[e] = {}, !.dirty[e] = {},
                                         !.destroyed = @ \cup {e}], by)
         IN /\ WorldOK(v) /\ WorldHeeds(w, v) /\ v.destroyed = w.destroyed \cup {e}
            /\ v.comps = [w.comps EXCEPT ![e] = {}] /\ v.dirty = [w.dirty EXCEPT ![e] = {}]
  <1>. DEFINE gone == [w EXCEPT !.comps[e] = {}, !.dirty[e] = {}, !.destroyed = @ \cup {e}]
              v == Depart(w, e, gone, by)
  <1>1. /\ gone \in Worlds /\ gone.systems = w.systems /\ gone.destroyed = w.destroyed \cup {e}
        /\ gone.comps = [w.comps EXCEPT ![e] = {}] /\ gone.dirty = [w.dirty EXCEPT ![e] = {}]
    BY DEF WorldOK, Worlds
  <1>. HIDE DEF gone
  <1>2. /\ \A x \in Entities \ {e} :
             gone.comps[x] = w.comps[x] /\ (x \in gone.destroyed <=> x \in w.destroyed)
        /\ gone.comps[e] \subseteq w.comps[e] /\ e \in gone.destroyed
        /\ \A x \in Entities : gone.dirty[x] \subseteq gone.comps[x]
    BY <1>1 DEF WorldOK, Worlds
  <1>3. WorldOK(v) /\ WorldHeeds(w, v) /\ SameData(gone, v)
    BY <1>1, <1>2, DepartHeeds
  <1>. QED  BY <1>1, <1>3 DEF SameData, gone

\* A change is applied.
LEMMA ApplyHeeds ==
  ASSUME NEW w, WorldOK(w), NEW change \in Changes
  PROVE  LET v == Apply(w, change) IN
         WorldOK(v) /\ WorldHeeds(w, v) /\ Changed(w, v, change) /\ Heard(w, v, change)
  <1>. DEFINE e == change.e
              c == change.c
              by == change.by
              v == Apply(w, change)
  <1>1. CASE e \in w.destroyed
    BY <1>1, DestroyedIsLeft
  <1>2. CASE e \notin w.destroyed
    <2>1. /\ e \in Entities /\ by \in Callers /\ change.source = by
          /\ change.kind \in {"add", "set", "modified", "remove", "destroy"}
          /\ change.kind # "destroy" => c \in Components
          /\ w.comps \in [Entities -> SUBSET Components] /\ w.dirty \in [Entities -> SUBSET Components]
          /\ w.dirty[e] \subseteq w.comps[e]
      BY DEF Changes, WorldOK, Worlds
    <2>2. CASE /\ change.kind \in {"add", "modified", "remove"}
               /\ (change.kind = "add" <=> c \in w.comps[e])
      <3>1. v = w  BY <1>2, <2>1, <2>2, ApplyIs
      <3>2. WorldHeeds(w, w)  BY HeedsNothing DEF WorldHeeds, WorldOK
      <3>. HIDE DEF v
      <3>3. Changed(w, v, change)  BY <2>1, <2>2, <3>1 DEF Changed, Removes
      <3>4. Heard(w, v, change)  BY <2>2 DEF Heard
      <3>. QED  BY <3>1, <3>2, <3>3, <3>4 DEF v
    <2>3. CASE change.kind = "add" /\ c \notin w.comps[e]
      <3>1. v = Arrive(w, e, c, by, by)  BY <1>2, <2>1, <2>3, ApplyIs
      <3>. HIDE DEF v
      <3>2. /\ WorldOK(v) /\ WorldHeeds(w, v) /\ v.destroyed = w.destroyed /\ v.dirty = w.dirty
            /\ v.comps = [w.comps EXCEPT ![e] = @ \cup {c}]
        BY <2>1, <2>3, <3>1, ArriveHeeds
      <3>3. Changed(w, v, change)  BY <2>1, <2>3, <3>2 DEF Changed
      <3>4. Heard(w, v, change)  BY <2>3 DEF Heard
      <3>. QED  BY <3>2, <3>3, <3>4 DEF v
    <2>4. CASE change.kind = "set" /\ c \notin w.comps[e]
      <3>. DEFINE u == Arrive(w, e, c, by, by)
      <3>1. v = Clean(u, e, c)  BY <1>2, <2>1, <2>4, ApplyIs
      <3>2. /\ WorldOK(u) /\ WorldHeeds(w, u) /\ u.destroyed = w.destroyed /\ u.dirty = w.dirty
            /\ u.comps = [w.comps EXCEPT ![e] = @ \cup {c}]
        BY <2>1, <2>4, ArriveHeeds
      <3>. HIDE DEF u, v
      <3>3. /\ WorldOK(v) /\ WorldHeeds(u, v) /\ v.comps = u.comps /\ v.destroyed = u.destroyed
            /\ v.dirty = [u.dirty EXCEPT ![e] = @ \ {c}]
        BY <2>1, <3>1, <3>2, CleanHeeds
      <3>4. WorldHeeds(w, v)  BY <3>2, <3>3, WorldHeedsBoth DEF WorldOK
      <3>5. Changed(w, v, change)  BY <2>1, <2>4, <3>2, <3>3 DEF Changed
      <3>6. Heard(w, v, change)  BY <2>4 DEF Heard
      <3>. QED  BY <3>3, <3>4, <3>5, <3>6 DEF v
    <2>5. CASE change.kind \in {"set", "modified"} /\ c \in w.comps[e]
      <3>1. v = Route(Clean(w, e, c), HavingMember(w, e), e, c, by, by)
        BY <1>2, <2>1, <2>5, ApplyIs
      <3>. HIDE DEF v
      <3>2. c \in Components  BY <2>1, <2>5
      <3>3. /\ WorldOK(v) /\ WorldHeeds(w, v) /\ v.comps = w.comps /\ v.destroyed = w.destroyed
            /\ v.dirty = [w.dirty EXCEPT ![e] = @ \ {c}]
            /\ \A s \in SystemNames :
                 e \in Members(w, s) /\ w.systems[s].enabled /\ c \in Watches(s) /\ by \notin Ignores(s)
                   => Hearing(v, s, e, c)
        BY <2>1, <3>1, <3>2, UpdateHeeds
      <3>4. Changed(w, v, change)  BY <2>1, <2>5, <3>3 DEF Changed
      <3>5. Heard(w, v, change)  BY <2>1, <3>3 DEF Heard
      <3>. QED  BY <3>3, <3>4, <3>5 DEF v
    <2>6. CASE change.kind = "remove" /\ c \in w.comps[e]
      <3>1. c \in Components  BY <2>1, <2>6
      <3>. DEFINE u == Removed(w, e, c, by)
      <3>2. v = u  BY <1>2, <2>1, <2>6, ApplyIs
      <3>3. /\ WorldOK(u) /\ WorldHeeds(w, u) /\ u.destroyed = w.destroyed
            /\ u.comps = [w.comps EXCEPT ![e] = @ \ {c}]
            /\ u.dirty = [w.dirty EXCEPT ![e] = @ \ {c}]
        BY <2>1, <3>1, RemoveHeeds
      <3>. HIDE DEF u, v
      <3>4. /\ WorldOK(v) /\ WorldHeeds(w, v) /\ v.destroyed = w.destroyed
            /\ v.comps = [w.comps EXCEPT ![e] = @ \ {c}]
            /\ v.dirty = [w.dirty EXCEPT ![e] = @ \ {c}]
        BY <3>2, <3>3, Zenon
      <3>5. Changed(w, v, change)  BY <2>1, <2>6, <3>4 DEF Changed, Removes
      <3>6. Heard(w, v, change)  BY <2>6 DEF Heard
      <3>. QED  BY <3>4, <3>5, <3>6 DEF v
    <2>7. CASE change.kind = "destroy"
      <3>. DEFINE u == Depart(w, e, [w EXCEPT !.comps[e] = {}, !.dirty[e] = {},
                                              !.destroyed = @ \cup {e}], by)
      <3>1. v = u  BY <1>2, <2>1, <2>7, ApplyIs
      <3>2. /\ WorldOK(u) /\ WorldHeeds(w, u) /\ u.destroyed = w.destroyed \cup {e}
            /\ u.comps = [w.comps EXCEPT ![e] = {}] /\ u.dirty = [w.dirty EXCEPT ![e] = {}]
        BY <2>1, DestroyHeeds
      <3>. HIDE DEF u, v
      <3>3. /\ WorldOK(v) /\ WorldHeeds(w, v) /\ v.destroyed = w.destroyed \cup {e}
            /\ v.comps = [w.comps EXCEPT ![e] = {}] /\ v.dirty = [w.dirty EXCEPT ![e] = {}]
        BY <3>1, <3>2, Zenon
      <3>4. Changed(w, v, change)  BY <2>1, <2>7, <3>3 DEF Changed, Removes
      <3>5. Heard(w, v, change)  BY <2>7 DEF Heard
      <3>. QED  BY <3>3, <3>4, <3>5 DEF v
    <2>8. \/ change.kind \in {"add", "modified", "remove"} /\ (change.kind = "add" <=> c \in w.comps[e])
          \/ change.kind = "add" /\ c \notin w.comps[e]
          \/ change.kind = "set" /\ c \notin w.comps[e]
          \/ change.kind \in {"set", "modified"} /\ c \in w.comps[e]
          \/ change.kind = "remove" /\ c \in w.comps[e]
          \/ change.kind = "destroy"
      BY <2>1
    <2>. QED  BY <2>2, <2>3, <2>4, <2>5, <2>6, <2>7, <2>8, Zenon
  <1>. QED  BY <1>1, <1>2

-----------------------------------------------------------------------------
(* A queue is applied, and systems are built.                               *)

\* The worlds that a queue goes through.
IsRun(run, w, changes) ==
  /\ run[0] = w /\ run[Len(changes)] = ApplyAll(w, changes)
  /\ \A i \in 1..Len(changes) : run[i] = Apply(run[i - 1], changes[i])
  /\ \A i \in 0..Len(changes) : WorldOK(run[i]) /\ WorldHeeds(w, run[i])

\* The changes of a queue are applied one after another.
LEMMA ApplyAllRuns ==
  ASSUME NEW w, WorldOK(w), NEW changes \in Seq(Changes)
  PROVE  \E run : IsRun(run, w, changes)
  <1>. DEFINE n == Len(changes)
              V == {v \in Worlds : WorldOK(v) /\ WorldHeeds(w, v)}
              Step == [i \in 1..n |-> [v \in V |-> Apply(v, changes[i])]]
              after[i \in 0..n] == IF i = 0 THEN w ELSE Apply(after[i - 1], changes[i])
  <1>1. n \in Nat  OBVIOUS
  <1>2. w \in V
    <2>1. WorldHeeds(w, w)  BY HeedsNothing DEF WorldHeeds, WorldOK
    <2>2. w \in Worlds  BY DEF WorldOK
    <2>. QED  BY <2>1, <2>2
  <1>3. ASSUME NEW i \in 1..n, NEW v \in V PROVE Apply(v, changes[i]) \in V
    <2>. DEFINE u == Apply(v, changes[i])
    <2>1. changes[i] \in Changes  OBVIOUS
    <2>2. WorldOK(u) /\ WorldHeeds(v, u)  BY <2>1, ApplyHeeds
    <2>. HIDE DEF u
    <2>3. u \in Worlds /\ WorldHeeds(w, u)  BY <2>2, WorldHeedsBoth DEF WorldOK
    <2>. QED  BY <2>2, <2>3 DEF u
  <1>. HIDE DEF V
  <1>4. \A i \in 1..n : \A v \in V : Step[i][v] = Apply(v, changes[i]) /\ Step[i][v] \in V
    BY <1>3
  <1>. HIDE DEF Step
  <1>5. PICK r \in [0..n -> V] : r[0] = w /\ \A i \in 1..n : r[i] = Step[i][r[i - 1]]
    <2>1. StaysIn(n, V, w, Step)  BY <1>1, <1>2, <1>4 DEF StaysIn
    <2>2. Makes(n, V, w, Step)  BY <2>1, RecursionExists
    <2>. QED  BY <2>2 DEF Makes
  <1>6. r = [i \in 0..n |-> IF i = 0 THEN w ELSE Apply(r[i - 1], changes[i])]
    <2>1. ASSUME NEW i \in 0..n
          PROVE  r[i] = IF i = 0 THEN w ELSE Apply(r[i - 1], changes[i])
      <3>1. r[i] = IF i = 0 THEN w ELSE Step[i][r[i - 1]]  BY <1>1, <1>5
      <3>2. i # 0 => i \in 1..n /\ i - 1 \in 0..n  BY <1>1
      <3>3. i # 0 => r[i - 1] \in V  BY <1>5, <3>2
      <3>. QED  BY <1>4, <3>1, <3>2, <3>3
    <2>2. r = [i \in 0..n |-> r[i]]  BY <1>5
    <2>. HIDE DEF n
    <2>. QED  BY <2>1, <2>2, Zenon
  <1>7. after = [i \in 0..n |-> IF i = 0 THEN w ELSE Apply(after[i - 1], changes[i])]
    BY <1>6 DEF after
  <1>8. ApplyAll(w, changes) = after[n]  BY DEF ApplyAll
  <1>. HIDE DEF after
  <1>. DEFINE Good == {i \in 0..n : after[i] \in V}
  <1>9. 0 \in Good  BY <1>1, <1>2, <1>7
  <1>10. ASSUME NEW i \in 1..n, i - 1 \in Good PROVE i \in Good
    <2>1. i \in 0..n /\ after[i] = Apply(after[i - 1], changes[i])  BY <1>1, <1>7
    <2>. QED  BY <1>3, <1>10, <2>1
  <1>11. \A i \in 0..n : i \in Good
    <2>. HIDE DEF Good, n
    <2>. QED  BY <1>1, <1>9, <1>10, HoldsOfAll
  <1>12. \A i \in 0..n : WorldOK(after[i]) /\ WorldHeeds(w, after[i])  BY <1>11 DEF V
  <1>13. after[0] = w /\ \A i \in 1..n : after[i] = Apply(after[i - 1], changes[i])  BY <1>1, <1>7
  <1>. QED  BY <1>8, <1>12, <1>13 DEF IsRun

\* A write waits in the queue, from change number i on: before it nothing removes
\* or destroys.
Waiting(changes, i, s, e, c) ==
  \E k \in (i + 1)..Len(changes) :
    /\ Writes(changes[k], e, c) /\ changes[k].source \notin Ignores(s)
    /\ \A j \in (i + 1)..(k - 1) : ~Removes(changes[j], e)

\* System s will hear of a write of c to e, that it watches: it has an update to
\* drain, or one waits in the queue while s has e and e has c.
Owing(w, changes, i, s, e, c) ==
  \/ Hearing(w, s, e, c)
  \/ /\ w.systems[s].enabled /\ e \in Members(w, s) /\ c \in w.comps[e]
     /\ Waiting(changes, i, s, e, c)

\* What was to be drained still is.
LEMMA HearingStays ==
  ASSUME NEW w, NEW v, w \in Worlds, v \in Worlds, WorldHeeds(w, v),
         NEW s \in SystemNames, NEW e, NEW c, Hearing(w, s, e, c)
  PROVE  Hearing(v, s, e, c)
  <1>1. Told(w.systems[s], v.systems[s])  BY DEF WorldHeeds, Heeds
  <1>2. Len(w.systems[s].inbox) \in Nat /\ Len(v.systems[s].inbox) \in Nat  BY InboxesAre
  <1>3. PICK i \in 1..Len(w.systems[s].inbox) :
          LET event == w.systems[s].inbox[i]
          IN event.kind = "update" /\ event.e = e /\ event.c = c
    BY DEF Hearing
  <1>4. i \in 1..Len(v.systems[s].inbox) /\ v.systems[s].inbox[i] = w.systems[s].inbox[i]
    BY <1>1, <1>2 DEF Told
  <1>. QED  BY <1>3, <1>4 DEF Hearing

\* A change is applied, and what is owed still is.
LEMMA OwingStays ==
  ASSUME NEW w, WorldOK(w), NEW changes \in Seq(Changes), NEW i \in 1..Len(changes),
         NEW s \in SystemNames, NEW e \in Entities, NEW c \in Watches(s),
         Owing(w, changes, i - 1, s, e, c)
  PROVE  Owing(Apply(w, changes[i]), changes, i, s, e, c)
  <1>. DEFINE change == changes[i]
              v == Apply(w, change)
  <1>1. change \in Changes  OBVIOUS
  <1>2. WorldOK(v) /\ WorldHeeds(w, v) /\ Changed(w, v, change) /\ Heard(w, v, change)
    BY <1>1, ApplyHeeds
  <1>. HIDE DEF v
  <1>3. CASE Hearing(w, s, e, c)
    BY <1>2, <1>3, HearingStays DEF Owing, WorldOK, v
  <1>4. CASE ~Hearing(w, s, e, c)
    <2>1. /\ w.systems[s].enabled /\ e \in Members(w, s) /\ c \in w.comps[e]
          /\ Waiting(changes, i - 1, s, e, c)
      BY <1>4 DEF Owing
    <2>2. PICK k \in i..Len(changes) :
            /\ Writes(changes[k], e, c) /\ changes[k].source \notin Ignores(s)
            /\ \A j \in i..(k - 1) : ~Removes(changes[j], e)
      BY <2>1 DEF Waiting
    <2>3. CASE k = i
      <3>1. /\ change.kind \in {"modified", "set"} /\ change.e = e /\ change.c = c
            /\ change.source \notin Ignores(s)
        BY <2>2, <2>3 DEF Writes
      <3>2. Hearing(v, s, e, c)  BY <1>2, <2>1, <3>1 DEF Heard
      <3>. QED  BY <3>2 DEF Owing, v
    <2>4. CASE k # i
      <3>1. k \in (i + 1)..Len(changes) /\ i \in i..(k - 1)  BY <2>4
      <3>2. ~Removes(change, e)  BY <2>2, <3>1
      <3>3. Waiting(changes, i, s, e, c)  BY <2>2, <3>1 DEF Waiting
      <3>4. e \in v.destroyed <=> e \in w.destroyed
        BY <1>2, <3>2 DEF Changed
      <3>5. w.comps[e] \subseteq v.comps[e]
        BY <1>2, <3>2 DEF Changed
      <3>6. Told(w.systems[s], v.systems[s])  BY <1>2 DEF WorldHeeds, Heeds
      <3>7. e \in Members(v, s)
        BY <2>1, <3>4, <3>5, <3>6 DEF Members, Matches, Told
      <3>. QED  BY <2>1, <3>3, <3>5, <3>6, <3>7 DEF Owing, Told, v
    <2>. QED  BY <2>3, <2>4
  <1>. QED  BY <1>3, <1>4

\* A component is dirty from change number i on, and its notification is still to
\* come.
DirtyIsComing(w, changes, i) ==
  \A e \in Entities \ w.destroyed : \A c \in w.dirty[e] :
    \E k \in (i + 1)..Len(changes) :
      changes[k].kind = "modified" /\ changes[k].e = e /\ changes[k].c = c

\* A change is applied, and what is dirty still has a notification to come.
LEMMA DirtyStaysComing ==
  ASSUME NEW w, WorldOK(w), NEW changes \in Seq(Changes), NEW i \in 1..Len(changes),
         DirtyIsComing(w, changes, i - 1)
  PROVE  DirtyIsComing(Apply(w, changes[i]), changes, i)
  <1>. DEFINE change == changes[i]
              v == Apply(w, change)
  <1>1. change \in Changes /\ change.e \in Entities  BY DEF Changes
  <1>2. WorldOK(v) /\ Changed(w, v, change)  BY <1>1, ApplyHeeds
  <1>. HIDE DEF v
  <1>3. ASSUME NEW e \in Entities \ v.destroyed, NEW c \in v.dirty[e]
        PROVE  \E k \in (i + 1)..Len(changes) :
                 changes[k].kind = "modified" /\ changes[k].e = e /\ changes[k].c = c
    <2>1. e \notin w.destroyed /\ c \in w.dirty[e]
      BY <1>1, <1>2 DEF Changed
    <2>2. PICK k \in i..Len(changes) :
            changes[k].kind = "modified" /\ changes[k].e = e /\ changes[k].c = c
      BY <2>1 DEF DirtyIsComing
    <2>3. k # i
      BY <1>2, <2>1, <2>2 DEF Changed
    <2>4. k \in (i + 1)..Len(changes)  BY <2>3
    <2>. QED  BY <2>2, <2>4
  <1>. QED  BY <1>3 DEF DirtyIsComing, v

\* What a drained queue leaves behind.
LEMMA ApplyAllHeeds ==
  ASSUME NEW w, WorldOK(w), NEW changes \in Seq(Changes)
  PROVE  LET v == ApplyAll(w, changes) IN
         /\ WorldOK(v) /\ WorldHeeds(w, v)
         /\ \A s \in SystemNames : \A e \in Entities : \A c \in Watches(s) :
              Owing(w, changes, 0, s, e, c) => Hearing(v, s, e, c)
         /\ DirtyIsComing(w, changes, 0) =>
              \A e \in Entities \ v.destroyed : v.dirty[e] = {}
         /\ changes = <<>> => v = w
  <1>. DEFINE n == Len(changes)
  <1>1. n \in Nat  OBVIOUS
  <1>2. PICK run : IsRun(run, w, changes)  BY ApplyAllRuns
  <1>3. /\ run[0] = w /\ run[n] = ApplyAll(w, changes)
        /\ \A i \in 1..n : run[i] = Apply(run[i - 1], changes[i])
        /\ \A i \in 0..n : WorldOK(run[i]) /\ WorldHeeds(w, run[i])
    BY <1>2 DEF IsRun
  <1>4. ASSUME NEW s \in SystemNames, NEW e \in Entities, NEW c \in Watches(s),
               Owing(w, changes, 0, s, e, c)
        PROVE  Hearing(run[n], s, e, c)
    <2>. DEFINE Good == {i \in 0..n : Owing(run[i], changes, i, s, e, c)}
    <2>1. 0 \in Good  BY <1>1, <1>3, <1>4
    <2>2. ASSUME NEW i \in 1..n, i - 1 \in Good PROVE i \in Good
      <3>1. i \in 0..n /\ i - 1 \in 0..n  BY <1>1
      <3>2. WorldOK(run[i - 1]) /\ Owing(run[i - 1], changes, i - 1, s, e, c)
        BY <1>3, <2>2, <3>1
      <3>3. Owing(Apply(run[i - 1], changes[i]), changes, i, s, e, c)
        BY <3>2, OwingStays
      <3>. QED  BY <1>3, <3>1, <3>3
    <2>3. n \in Good
      <3>. HIDE DEF Good, n
      <3>1. \A i \in 0..n : i \in Good  BY <1>1, <2>1, <2>2, HoldsOfAll
      <3>. QED  BY <1>1, <3>1
    <2>4. Owing(run[n], changes, n, s, e, c)  BY <2>3
    <2>5. ~Waiting(changes, n, s, e, c)  BY <1>1 DEF Waiting
    <2>. QED  BY <2>4, <2>5 DEF Owing
  <1>5. ASSUME DirtyIsComing(w, changes, 0), NEW e \in Entities \ run[n].destroyed
        PROVE  run[n].dirty[e] = {}
    <2>. DEFINE Good == {i \in 0..n : DirtyIsComing(run[i], changes, i)}
    <2>1. 0 \in Good  BY <1>1, <1>3, <1>5
    <2>2. ASSUME NEW i \in 1..n, i - 1 \in Good PROVE i \in Good
      <3>1. i \in 0..n /\ i - 1 \in 0..n  BY <1>1
      <3>2. WorldOK(run[i - 1]) /\ DirtyIsComing(run[i - 1], changes, i - 1)
        BY <1>3, <2>2, <3>1
      <3>3. DirtyIsComing(Apply(run[i - 1], changes[i]), changes, i)
        BY <3>2, DirtyStaysComing
      <3>. QED  BY <1>3, <3>1, <3>3
    <2>3. n \in Good
      <3>. HIDE DEF Good, n
      <3>1. \A i \in 0..n : i \in Good  BY <1>1, <2>1, <2>2, HoldsOfAll
      <3>. QED  BY <1>1, <3>1
    <2>4. DirtyIsComing(run[n], changes, n)  BY <2>3
    <2>5. \A k \in (n + 1)..n : FALSE  BY <1>1
    <2>. QED  BY <1>5, <2>4, <2>5 DEF DirtyIsComing
  <1>6. changes = <<>> => n = 0  OBVIOUS
  <1>7. n \in 0..n  BY <1>1
  <1>. QED  BY <1>3, <1>4, <1>5, <1>6, <1>7

\* A system is built: the entities that match enter one after another.
LEMMA BackfilledHeeds ==
  ASSUME NEW w, WorldOK(w), NEW s \in SystemNames, w.systems[s].status = "pending",
         NEW built, built = [w EXCEPT !.systems[s].status = "built"]
  PROVE  LET new == Backfilled(w, s) IN
         new.status = "built" /\ Heeds(built.systems[s], new, s, {}, Members(built, s))
  <1>. DEFINE members == SetToSeq(Members(built, s))
              n == Len(members)
              old == built.systems[s]
              enters(v, i) == Entered(v, s, members[i], w.comps[members[i]], NoSystem)
              told[i \in 0..n] == IF i = 0 THEN old ELSE enters(told[i - 1], i)
  <1>1. /\ old = [w.systems[s] EXCEPT !.status = "built"] /\ old \in SystemRecords
        /\ old.status = "built" /\ old.inbox = <<>> /\ SystemOK(old, s, {})
    <2>1. w.systems[s] \in SystemRecords /\ w.systems[s].inbox = <<>>
      BY DEF WorldOK, Worlds, SystemOK
    <2>2. w.systems \in [SystemNames -> SystemRecords]  BY DEF WorldOK, Worlds
    <2>3. old = [w.systems[s] EXCEPT !.status = "built"]  BY <2>2 DEF WorldOK, Worlds
    <2>. HIDE DEF old
    <2>4. old \in SystemRecords /\ old.status = "built" /\ old.inbox = <<>>
      BY <2>1, <2>3 DEF SystemRecords, Statuses
    <2>. QED  BY <2>3, <2>4 DEF SystemOK
  <1>2. Backfilled(w, s) = told[n]  BY DEF Backfilled
  <1>. HIDE DEF old
  <1>3. /\ members \in Seq(Members(built, s)) /\ Members(built, s) \subseteq Entities
        /\ \A i, j \in 1..Len(members) : members[i] = members[j] => i = j
        /\ \A x \in Members(built, s) : \E i \in 1..Len(members) : members[i] = x
    <2>1. Members(built, s) \subseteq Entities  BY MembersAre
    <2>2. IsFiniteSet(Members(built, s))
      BY <2>1, FS_Subset, SystemsAssumption DEF SystemsAssumption
    <2>. QED  BY <2>1, <2>2, SetToSeqLists
  <1>. HIDE DEF members
  <1>4. n \in Nat  BY <1>3
  <1>5. ASSUME NEW i \in 1..n
        PROVE  members[i] \in Entities /\ w.comps[members[i]] \subseteq Components
    <2>1. members[i] \in Members(built, s)  BY <1>3
    <2>2. members[i] \in Entities  BY <1>3, <2>1
    <2>. QED  BY <2>2 DEF WorldOK, Worlds
  <1>6. NoSystem \in Callers  BY DEF Callers
  <1>. DEFINE V == {v \in SystemRecords : v.status = "built" /\ SystemOK(v, s, Entities)}
              Step == [i \in 1..n |-> [v \in V |-> enters(v, i)]]
  <1>7. old \in V  BY <1>1 DEF SystemOK
  <1>8. ASSUME NEW i \in 1..n, NEW v \in V PROVE enters(v, i) \in V
    <2>. DEFINE u == enters(v, i)
    <2>1. SystemOK(u, s, Entities \cup {members[i]}) /\ u.status = "built"
      BY <1>5, <1>6, EnteredHeeds
    <2>2. Entities \cup {members[i]} = Entities  BY <1>5
    <2>. HIDE DEF u
    <2>3. SystemOK(u, s, Entities) /\ u \in SystemRecords  BY <2>1, <2>2 DEF SystemOK
    <2>. QED  BY <2>1, <2>3 DEF u
  <1>. HIDE DEF V
  <1>9. \A i \in 1..n : \A v \in V : Step[i][v] = enters(v, i) /\ Step[i][v] \in V
    BY <1>8
  <1>. HIDE DEF Step
  <1>10. PICK r \in [0..n -> V] : r[0] = old /\ \A i \in 1..n : r[i] = Step[i][r[i - 1]]
    <2>1. StaysIn(n, V, old, Step)  BY <1>4, <1>7, <1>9 DEF StaysIn
    <2>2. Makes(n, V, old, Step)  BY <2>1, RecursionExists
    <2>. QED  BY <2>2 DEF Makes
  <1>11. r = [i \in 0..n |-> IF i = 0 THEN old ELSE enters(r[i - 1], i)]
    <2>1. ASSUME NEW i \in 0..n
          PROVE  r[i] = IF i = 0 THEN old ELSE enters(r[i - 1], i)
      <3>1. r[i] = IF i = 0 THEN old ELSE Step[i][r[i - 1]]  BY <1>4, <1>10
      <3>2. i # 0 => i \in 1..n /\ i - 1 \in 0..n  BY <1>4
      <3>3. i # 0 => r[i - 1] \in V  BY <1>10, <3>2
      <3>. QED  BY <1>9, <3>1, <3>2, <3>3
    <2>2. r = [i \in 0..n |-> r[i]]  BY <1>10
    <2>. HIDE DEF n, enters
    <2>. QED  BY <2>1, <2>2, Zenon
  <1>12. told = [i \in 0..n |-> IF i = 0 THEN old ELSE enters(told[i - 1], i)]
    BY <1>11 DEF told
  <1>. HIDE DEF told
  <1>. DEFINE T(i) == {members[j] : j \in 1..i}
              Good == {i \in 0..n : told[i].status = "built" /\ Heeds(old, told[i], s, {}, T(i))}
  <1>13. 0 \in Good
    <2>1. T(0) = {} /\ told[0] = old  BY <1>4, <1>12
    <2>2. Heeds(old, old, s, {}, {})  BY <1>1, HeedsNothing
    <2>. HIDE DEF T
    <2>3. told[0].status = "built" /\ Heeds(old, told[0], s, {}, T(0))  BY <1>1, <2>1, <2>2
    <2>4. 0 \in 0..n  BY <1>4
    <2>. QED  BY <2>3, <2>4
  <1>14. ASSUME NEW i \in 1..n, i - 1 \in Good PROVE i \in Good
    <2>. DEFINE e == members[i]
                before == told[i - 1]
                after == enters(before, i)
    <2>1. /\ i \in 0..n /\ told[i] = after
          /\ before.status = "built" /\ Heeds(old, before, s, {}, T(i - 1))
      BY <1>4, <1>12, <1>14
    <2>2. T(i) = T(i - 1) \cup {e}  BY <1>4
    <2>3. e \notin T(i - 1)  BY <1>3, <1>4
    <2>. HIDE DEF before
    <2>4. SystemOK(before, s, T(i - 1))  BY <2>1 DEF Heeds
    <2>5. /\ SystemOK(after, s, T(i - 1) \cup {e}) /\ after.status = "built"
          /\ Heeds(before, after, s, T(i - 1), T(i - 1) \cup {e})
      <3>1. e \in Entities /\ w.comps[e] \subseteq Components  BY <1>5
      <3>. DEFINE comps == w.comps[e]
                  sofar == T(i - 1)
      <3>. HIDE DEF T, e, comps, sofar
      <3>2. e \notin sofar /\ SystemOK(before, s, sofar) /\ comps \subseteq Components
        BY <2>3, <2>4, <3>1 DEF sofar, comps
      <3>3. LET new == Entered(before, s, e, comps, NoSystem) IN
              SystemOK(new, s, sofar \cup {e}) /\ new.status = "built"
                /\ Heeds(before, new, s, sofar, sofar \cup {e})
        BY <1>6, <2>1, <3>1, <3>2, EnteredHeeds, SMTT(30)
      <3>. QED  BY <3>3 DEF sofar, comps, e
    <2>. HIDE DEF after, before, T
    <2>6. Len(old.inbox) \in Nat /\ Len(before.inbox) \in Nat /\ Len(after.inbox) \in Nat
      BY <1>1, <2>4, <2>5 DEF SystemOK, SystemRecords
    <2>7. Heeds(old, after, s, {}, T(i))  BY <2>1, <2>2, <2>5, <2>6, HeedsBoth
    <2>. QED  BY <2>1, <2>5, <2>7
  <1>15. n \in Good
    <2>. HIDE DEF Good, n
    <2>1. \A i \in 0..n : i \in Good  BY <1>4, <1>13, <1>14, HoldsOfAll
    <2>. QED  BY <1>4, <2>1
  <1>16. T(n) = Members(built, s)
    <2>1. \A j \in 1..n : members[j] \in Members(built, s)  BY <1>3
    <2>2. \A x \in Members(built, s) : \E j \in 1..n : members[j] = x  BY <1>3
    <2>. HIDE DEF n
    <2>. QED  BY <2>1, <2>2
  <1>. QED  BY <1>2, <1>15, <1>16 DEF old

\* Every system is enabled as it was and, if it is and hears both of entries and
\* of exits, its inbox leads to its members in v if it led to them in w.
Continues(w, v) ==
  \A s \in SystemNames :
    /\ v.systems[s].enabled = w.systems[s].enabled
    /\ w.systems[s].enabled /\ {"enter", "exit"} \subseteq Hears(s) =>
         \A first, count :
           Follows(w.systems[s], Members(w, s), first, count) =>
             Follows(v.systems[s], Members(v, s), first, count)

\* The systems that are pending are built.
LEMMA BuildPendingHeeds ==
  ASSUME NEW w, WorldOK(w)
  PROVE  LET v == BuildPending(w) IN
         /\ WorldOK(v) /\ SameData(w, v) /\ Continues(w, v)
         /\ \A s \in SystemNames : w.systems[s].status # "pending" =>
              v.systems[s] = w.systems[s] /\ Members(v, s) = Members(w, s)
  <1>. DEFINE now(s) == IF w.systems[s].status = "pending" THEN Backfilled(w, s) ELSE w.systems[s]
              v == BuildPending(w)
              as(s) == [w EXCEPT !.systems[s].status = "built"]
  <1>1. ASSUME NEW s \in SystemNames, w.systems[s].status = "pending"
        PROVE  /\ now(s).status = "built"
               /\ Heeds(as(s).systems[s], now(s), s, {}, Members(as(s), s))
    BY <1>1, BackfilledHeeds
  <1>2. ASSUME NEW s \in SystemNames PROVE now(s) \in SystemRecords
    <2>1. w.systems[s] \in SystemRecords  BY DEF WorldOK, Worlds
    <2>2. CASE w.systems[s].status = "pending"
      <3>. HIDE DEF now, as
      <3>. QED  BY <1>1, <2>2 DEF Heeds, SystemOK
    <2>. QED  BY <2>1, <2>2
  <1>3. v = [w EXCEPT !.systems = [s \in SystemNames |-> now(s)]]  BY DEF BuildPending
  <1>4. ASSUME NEW s \in SystemNames, w.systems[s].status # "pending" PROVE now(s) = w.systems[s]
    BY <1>4
  <1>. HIDE DEF now
  <1>5. /\ v \in Worlds /\ SameData(w, v)
        /\ \A s \in SystemNames : v.systems[s] = now(s)
    BY <1>2, <1>3 DEF WorldOK, Worlds, SameData
  <1>. HIDE DEF v
  <1>6. ASSUME NEW s \in SystemNames, w.systems[s].status # "pending"
        PROVE  v.systems[s] = w.systems[s] /\ Members(v, s) = Members(w, s)
    <2>1. v.systems[s] = w.systems[s]  BY <1>4, <1>5, <1>6
    <2>. QED  BY <1>5, <2>1, SameMembers DEF SameData
  <1>7. ASSUME NEW s \in SystemNames, w.systems[s].status = "pending"
        PROVE  /\ SystemOK(v.systems[s], s, Members(v, s))
               /\ v.systems[s].enabled = w.systems[s].enabled
               /\ w.systems[s].enabled /\ {"enter", "exit"} \subseteq Hears(s) =>
                    \A first, count :
                      Follows(w.systems[s], Members(w, s), first, count) =>
                        Follows(v.systems[s], Members(v, s), first, count)
    <2>. DEFINE old == as(s).systems[s]
                u == as(s)
    <2>1. /\ u.comps = w.comps /\ u.destroyed = w.destroyed
          /\ old.status = "built" /\ old.inbox = w.systems[s].inbox
          /\ old.enabled = w.systems[s].enabled
      <3>1. w.systems \in [SystemNames -> SystemRecords] /\ w \in Worlds  BY DEF WorldOK, Worlds
      <3>2. old = [w.systems[s] EXCEPT !.status = "built"]  BY <3>1 DEF Worlds
      <3>3. w.systems[s] \in SystemRecords  BY <3>1
      <3>4. u.comps = w.comps /\ u.destroyed = w.destroyed  BY <3>1 DEF Worlds
      <3>. HIDE DEF old
      <3>. QED  BY <3>2, <3>3, <3>4 DEF SystemRecords
    <2>2. v.systems[s].status = "built" /\ Heeds(old, v.systems[s], s, {}, Members(u, s))
      BY <1>1, <1>5, <1>7
    <2>. HIDE DEF as
    <2>3. Members(v, s) = Members(u, s)
      BY <1>5, <2>1, <2>2, SameMembers DEF SameData
    <2>4. Members(w, s) = {}  BY <1>7 DEF Members
    <2>. HIDE DEF old, u
    <2>5. \A first, count :
            Follows(w.systems[s], Members(w, s), first, count) => Follows(old, {}, first, count)
      BY <2>1, <2>4 DEF Follows
    <2>. QED  BY <2>1, <2>2, <2>3, <2>5 DEF Heeds, Told
  <1>8. \A e \in Entities : v.dirty[e] \subseteq v.comps[e]  BY <1>5 DEF SameData, WorldOK
  <1>9. WorldOK(v)  BY <1>5, <1>6, <1>7, <1>8 DEF WorldOK
  <1>10. Continues(w, v)  BY <1>6, <1>7 DEF Continues
  <1>. QED  BY <1>5, <1>6, <1>9, <1>10 DEF v

\* A step that all systems heed, after one that they continue through.
LEMMA ContinuesOn ==
  ASSUME NEW w, NEW u, NEW v, Continues(w, u), WorldHeeds(u, v)
  PROVE  Continues(w, v)
  BY DEF Continues, WorldHeeds, Heeds, Told

\* What is owed when systems are built and the queue is applied is in the inboxes.
LEMMA FlushedHeeds ==
  ASSUME NEW w, WorldOK(w), NEW changes \in Seq(Changes)
  PROVE  LET v == Flushed(w, changes) IN
         /\ WorldOK(v) /\ Continues(w, v)
         /\ \A s \in SystemNames : \A e \in Entities : \A c \in Watches(s) :
              Owing(w, changes, 0, s, e, c) => Hearing(v, s, e, c)
         /\ DirtyIsComing(w, changes, 0) =>
              \A e \in Entities \ v.destroyed : v.dirty[e] = {}
         /\ changes = <<>> =>
              /\ SameData(w, v)
              /\ \A s \in SystemNames : w.systems[s].status # "pending" =>
                   v.systems[s] = w.systems[s] /\ Members(v, s) = Members(w, s)
  <1>. DEFINE u == BuildPending(w)
              v == ApplyAll(u, changes)
  <1>1. /\ WorldOK(u) /\ SameData(w, u) /\ Continues(w, u)
        /\ \A s \in SystemNames : w.systems[s].status # "pending" =>
             u.systems[s] = w.systems[s] /\ Members(u, s) = Members(w, s)
    BY BuildPendingHeeds
  <1>. HIDE DEF u
  <1>2. /\ WorldOK(v) /\ WorldHeeds(u, v)
        /\ \A s \in SystemNames : \A e \in Entities : \A c \in Watches(s) :
             Owing(u, changes, 0, s, e, c) => Hearing(v, s, e, c)
        /\ DirtyIsComing(u, changes, 0) =>
             \A e \in Entities \ v.destroyed : v.dirty[e] = {}
        /\ changes = <<>> => v = u
    BY <1>1, ApplyAllHeeds
  <1>. HIDE DEF v
  <1>3. Continues(w, v)  BY <1>1, <1>2, ContinuesOn
  <1>4. ASSUME NEW s \in SystemNames, NEW e \in Entities, NEW c \in Watches(s),
               Owing(w, changes, 0, s, e, c)
        PROVE  Owing(u, changes, 0, s, e, c)
    <2>1. w.systems[s].status = "built"
      <3>1. CASE Hearing(w, s, e, c)
        <4>1. w.systems[s].inbox # <<>>  BY <3>1 DEF Hearing
        <4>. QED  BY <4>1 DEF WorldOK, SystemOK
      <3>2. CASE e \in Members(w, s)
        BY <3>2, MembersAre
      <3>. QED  BY <1>4, <3>1, <3>2 DEF Owing
    <2>2. u.systems[s] = w.systems[s] /\ Members(u, s) = Members(w, s) /\ u.comps = w.comps
      BY <1>1, <2>1 DEF SameData
    <2>. QED  BY <1>4, <2>2 DEF Owing, Hearing
  <1>5. DirtyIsComing(w, changes, 0) => DirtyIsComing(u, changes, 0)
    BY <1>1 DEF SameData, DirtyIsComing
  <1>. QED  BY <1>1, <1>2, <1>3, <1>4, <1>5 DEF Flushed, u, v

\* The pipeline is of systems.
LEMMA PipelineIs ==
  ASSUME NEW w
  PROVE  PipelineOf(w) \in Seq(SystemNames)
  <1>. DEFINE n == Len(Order)
              V == Seq(SystemNames)
              grown(v, i) == IF w.systems[Order[i]].status = "built" THEN Append(v, Order[i]) ELSE v
              Step == [i \in 1..n |-> [v \in V |-> grown(v, i)]]
              kept[i \in 0..n] == IF i = 0 THEN <<>>
                                  ELSE IF w.systems[Order[i]].status = "built"
                                  THEN Append(kept[i - 1], Order[i])
                                  ELSE kept[i - 1]
  <1>1. n \in Nat /\ \A i \in 1..n : Order[i] \in SystemNames
    BY PipelineAssumption DEF PipelineAssumption
  <1>2. PipelineOf(w) = kept[n]  BY DEF PipelineOf
  <1>3. <<>> \in V  OBVIOUS
  <1>4. ASSUME NEW i \in 1..n, NEW v \in V PROVE grown(v, i) \in V
    BY <1>1
  <1>. HIDE DEF V
  <1>5. \A i \in 1..n : \A v \in V : Step[i][v] = grown(v, i) /\ Step[i][v] \in V
    BY <1>4
  <1>. HIDE DEF Step
  <1>6. PICK r \in [0..n -> V] : r[0] = <<>> /\ \A i \in 1..n : r[i] = Step[i][r[i - 1]]
    <2>1. StaysIn(n, V, <<>>, Step)  BY <1>1, <1>3, <1>5 DEF StaysIn
    <2>2. Makes(n, V, <<>>, Step)  BY <2>1, RecursionExists
    <2>. QED  BY <2>2 DEF Makes
  <1>7. r = [i \in 0..n |-> IF i = 0 THEN <<>>
                             ELSE IF w.systems[Order[i]].status = "built"
                             THEN Append(r[i - 1], Order[i])
                             ELSE r[i - 1]]
    <2>1. ASSUME NEW i \in 0..n
          PROVE  r[i] = IF i = 0 THEN <<>> ELSE grown(r[i - 1], i)
      <3>1. r[i] = IF i = 0 THEN <<>> ELSE Step[i][r[i - 1]]  BY <1>1, <1>6
      <3>2. i # 0 => i \in 1..n /\ i - 1 \in 0..n  BY <1>1
      <3>3. i # 0 => r[i - 1] \in V  BY <1>6, <3>2
      <3>. HIDE DEF grown
      <3>. QED  BY <1>5, <3>1, <3>2, <3>3
    <2>2. r = [i \in 0..n |-> r[i]]  BY <1>6
    <2>. HIDE DEF n
    <2>. QED  BY <2>1, <2>2, Zenon
  <1>8. kept = [i \in 0..n |-> IF i = 0 THEN <<>>
                                ELSE IF w.systems[Order[i]].status = "built"
                                THEN Append(kept[i - 1], Order[i])
                                ELSE kept[i - 1]]
    BY <1>7 DEF kept
  <1>. HIDE DEF kept
  <1>. DEFINE Good == {i \in 0..n : kept[i] \in V}
  <1>9. 0 \in Good  BY <1>1, <1>3, <1>8
  <1>10. ASSUME NEW i \in 1..n, i - 1 \in Good PROVE i \in Good
    <2>1. i \in 0..n /\ i # 0  BY <1>1
    <2>2. kept[i - 1] \in V  BY <1>10
    <2>. HIDE DEF n
    <2>3. kept[i] = grown(kept[i - 1], i)  BY <1>8, <2>1
    <2>. HIDE DEF grown
    <2>. QED  BY <1>4, <2>1, <2>2, <2>3
  <1>11. n \in Good
    <2>. HIDE DEF Good, n
    <2>1. \A i \in 0..n : i \in Good  BY <1>1, <1>9, <1>10, HoldsOfAll
    <2>. QED  BY <1>1, <2>1
  <1>. QED  BY <1>2, <1>11 DEF V

-----------------------------------------------------------------------------
(* The inductive invariant.                                                 *)

\* The first event of its inbox that a system has not drained and, for each
\* entity, the entries less the exits it was told of: one that was suppressed
\* counts until its exit.
From(s) == IF running /\ s = This THEN at ELSE 1
Count(s) ==
  [e \in Entities |-> heard[s][e] + (IF running /\ s = This /\ e \in suppressed THEN 1 ELSE 0)]

Typed ==
  /\ scene \in Scenes /\ left \in 0..scene.budget
  /\ WorldOK(world) /\ queue \in Seq(Changes) /\ routing = NoSystem
  /\ pipeline \in Seq(SystemNames) /\ turn \in 0..(Len(pipeline) + 1)
  /\ at \in Nat \ {0} /\ suppressed \subseteq Entities
  /\ heard \in [SystemNames -> [Entities -> Int]]
  /\ unheard \subseteq SystemNames \X Entities \X Components

\* A queue, a place in an inbox and suppressed entries are those of the system
\* that runs.
Scoped ==
  /\ running => turn \in 1..Len(pipeline) /\ suppressed \cap Members(world, This) = {}
  /\ ~running => queue = <<>> /\ at = 1 /\ suppressed = {}
  /\ \A i \in 1..Len(queue) : queue[i].by = This

\* A system that was never disabled has been told of entries and exits in turn,
\* and what it has still to drain leads to its members.
HasHeard(s) ==
  /\ \A e \in Entities : heard[s][e] \in {0, 1}
  /\ Follows(world.systems[s], Members(world, s), From(s), Count(s))

Histories ==
  \A s \in SystemNames :
    /\ s \notin paused => world.systems[s].enabled
    /\ Listens(s) => HasHeard(s)

\* An update of c of e is in the inbox, not before the event number `first`.
Arriving(inbox, first, e, c) ==
  \E i \in first..Len(inbox) : inbox[i].kind = "update" /\ inbox[i].e = e /\ inbox[i].c = c

\* A system that is owed an update has the entity and the component, and the
\* update is in its inbox or waits in the queue.
StillToHear(s, e, c) ==
  /\ s \in SystemNames /\ e \in Entities /\ c \in Components
  /\ world.systems[s].enabled /\ e \in Members(world, s) /\ c \in world.comps[e] /\ c \in Watches(s)
  /\ Arriving(world.systems[s].inbox, From(s), e, c) \/ Waiting(queue, 0, s, e, c)

Debts ==
  /\ DirtyIsComing(world, queue, 0)
  /\ \A o \in unheard : StillToHear(o[1], o[2], o[3])

IInv == Typed /\ Scoped /\ Histories /\ Debts

-----------------------------------------------------------------------------
(* What is so before a queue is drained, and what is so after.              *)

\* Before: what the systems are owed is in their inboxes or in the queue.
Ready(w, q, told, silent, owed) ==
  /\ WorldOK(w) /\ q \in Seq(Changes) /\ DirtyIsComing(w, q, 0)
  /\ \A s \in SystemNames \ silent :
       /\ w.systems[s].enabled
       /\ {"enter", "exit"} \subseteq Hears(s) =>
            /\ \A e \in Entities : told[s][e] \in {0, 1}
            /\ Follows(w.systems[s], Members(w, s), 1, told[s])
  /\ \A o \in owed :
       /\ o[1] \in SystemNames /\ o[2] \in Entities /\ o[3] \in Components /\ o[3] \in Watches(o[1])
       /\ w.systems[o[1]].enabled => Owing(w, q, 0, o[1], o[2], o[3])

\* After: it is in their inboxes.
Settled(w, told, silent, owed) ==
  /\ Ready(w, <<>>, told, silent, owed)
  /\ \A o \in owed : w.systems[o[1]].enabled /\ o[2] \in Members(w, o[1]) /\ o[3] \in w.comps[o[2]]

\* A queue is drained.
LEMMA DrainSettles ==
  ASSUME NEW w, NEW q, NEW told, NEW silent, NEW owed, Ready(w, q, told, silent, owed)
  PROVE  Settled(Flushed(w, q), told, silent, StillOwed(owed, Flushed(w, q)))
  <1>. DEFINE v == Flushed(w, q)
              still == StillOwed(owed, v)
  <1>1. /\ WorldOK(v) /\ Continues(w, v)
        /\ \A s \in SystemNames : \A e \in Entities : \A c \in Watches(s) :
             Owing(w, q, 0, s, e, c) => Hearing(v, s, e, c)
        /\ \A e \in Entities \ v.destroyed : v.dirty[e] = {}
    BY FlushedHeeds DEF Ready
  <1>. HIDE DEF v
  <1>2. <<>> \in Seq(Changes) /\ DirtyIsComing(v, <<>>, 0)  BY <1>1 DEF DirtyIsComing
  <1>3. ASSUME NEW s \in SystemNames \ silent
        PROVE  /\ v.systems[s].enabled
               /\ {"enter", "exit"} \subseteq Hears(s) =>
                    /\ \A e \in Entities : told[s][e] \in {0, 1}
                    /\ Follows(v.systems[s], Members(v, s), 1, told[s])
    <2>1. w.systems[s].enabled  BY DEF Ready
    <2>. QED  BY <1>1, <2>1 DEF Continues, Ready
  <1>4. ASSUME NEW o \in still
        PROVE  /\ o[1] \in SystemNames /\ o[2] \in Entities /\ o[3] \in Components
               /\ o[3] \in Watches(o[1])
               /\ v.systems[o[1]].enabled /\ o[2] \in Members(v, o[1]) /\ o[3] \in v.comps[o[2]]
               /\ Owing(v, <<>>, 0, o[1], o[2], o[3])
    <2>1. /\ o \in owed
          /\ v.systems[o[1]].enabled /\ o[2] \in Members(v, o[1]) /\ o[3] \in v.comps[o[2]]
      BY DEF StillOwed
    <2>2. /\ o[1] \in SystemNames /\ o[2] \in Entities /\ o[3] \in Components
          /\ o[3] \in Watches(o[1])
          /\ w.systems[o[1]].enabled => Owing(w, q, 0, o[1], o[2], o[3])
      BY <2>1 DEF Ready
    <2>3. w.systems[o[1]].enabled  BY <1>1, <2>1, <2>2 DEF Continues
    <2>4. Hearing(v, o[1], o[2], o[3])  BY <1>1, <2>2, <2>3
    <2>. QED  BY <2>1, <2>2, <2>4 DEF Owing
  <1>. HIDE DEF still
  <1>5. Ready(v, <<>>, told, silent, still)  BY <1>1, <1>2, <1>3, <1>4 DEF Ready
  <1>. QED  BY <1>4, <1>5 DEF Settled, v, still

\* There is nothing to drain, and only systems that are pending are built.
LEMMA RestSettles ==
  ASSUME NEW w, NEW told, NEW silent, NEW owed, Settled(w, told, silent, owed)
  PROVE  Settled(Flushed(w, <<>>), told, silent, owed)
  <1>. DEFINE v == Flushed(w, <<>>)
  <1>1. WorldOK(w) /\ <<>> \in Seq(Changes) /\ Ready(w, <<>>, told, silent, owed)
    BY DEF Settled, Ready
  <1>2. /\ Continues(w, v) /\ SameData(w, v)
        /\ \A s \in SystemNames : w.systems[s].status # "pending" =>
             v.systems[s] = w.systems[s] /\ Members(v, s) = Members(w, s)
    BY <1>1, FlushedHeeds
  <1>3. Settled(v, told, silent, StillOwed(owed, v))  BY <1>1, DrainSettles
  <1>. HIDE DEF v
  <1>4. ASSUME NEW o \in owed PROVE o \in StillOwed(owed, v)
    <2>1. /\ o[1] \in SystemNames
          /\ w.systems[o[1]].enabled /\ o[2] \in Members(w, o[1]) /\ o[3] \in w.comps[o[2]]
      BY DEF Settled, Ready
    <2>2. w.systems[o[1]].status = "built"  BY <2>1, MembersAre
    <2>. QED  BY <1>2, <2>1, <2>2 DEF StillOwed, SameData
  <1>5. StillOwed(owed, v) = owed  BY <1>4 DEF StillOwed
  <1>. QED  BY <1>3, <1>5 DEF v

\* Nothing waits in an empty queue.
LEMMA EmptyOwes ==
  ASSUME NEW w, NEW s, NEW e, NEW c
  PROVE  /\ Owing(w, <<>>, 0, s, e, c) <=> Hearing(w, s, e, c)
         /\ Hearing(w, s, e, c) <=> Arriving(w.systems[s].inbox, 1, e, c)
  BY DEF Owing, Waiting, Hearing, Arriving

\* Between the turns of the systems, a world is settled.
LEMMA AtRest ==
  ASSUME IInv, ~running
  PROVE  queue = <<>> /\ Settled(world, heard, paused, unheard)
  <1>1. queue = <<>> /\ WorldOK(world) /\ DirtyIsComing(world, <<>>, 0)
    BY DEF IInv, Typed, Scoped, Debts
  <1>2. ASSUME NEW s \in SystemNames \ paused
        PROVE  /\ world.systems[s].enabled
               /\ {"enter", "exit"} \subseteq Hears(s) =>
                    /\ \A e \in Entities : heard[s][e] \in {0, 1}
                    /\ Follows(world.systems[s], Members(world, s), 1, heard[s])
    <2>1. world.systems[s].enabled /\ (Listens(s) => HasHeard(s))  BY DEF IInv, Histories
    <2>2. ASSUME HasHeard(s)
          PROVE  /\ \A e \in Entities : heard[s][e] \in {0, 1}
                 /\ Follows(world.systems[s], Members(world, s), 1, heard[s])
      <3>1. \A e \in Entities : heard[s][e] \in {0, 1} /\ Count(s)[e] = heard[s][e]
        BY <2>2 DEF HasHeard, Count
      <3>2. Follows(world.systems[s], Members(world, s), 1, Count(s))
        BY <2>2 DEF HasHeard, From
      <3>. QED  BY <3>1, <3>2 DEF Follows
    <2>. QED  BY <2>1, <2>2 DEF Listens
  <1>3. ASSUME NEW o \in unheard
        PROVE  /\ o[1] \in SystemNames /\ o[2] \in Entities /\ o[3] \in Components
               /\ o[3] \in Watches(o[1])
               /\ world.systems[o[1]].enabled /\ o[2] \in Members(world, o[1])
               /\ o[3] \in world.comps[o[2]]
               /\ Owing(world, <<>>, 0, o[1], o[2], o[3])
    <2>1. StillToHear(o[1], o[2], o[3])  BY DEF IInv, Debts
    <2>2. ~Waiting(<<>>, 0, o[1], o[2], o[3])  BY DEF Waiting
    <2>3. Arriving(world.systems[o[1]].inbox, 1, o[2], o[3])
      BY <1>1, <2>1, <2>2 DEF StillToHear, From
    <2>. QED  BY <2>1, <2>3, EmptyOwes DEF StillToHear
  <1>4. <<>> \in Seq(Changes)  OBVIOUS
  <1>. QED  BY <1>1, <1>2, <1>3, <1>4 DEF Ready, Settled

\* A settled world is what the turn of a system leaves.
LEMMA Rests ==
  ASSUME Settled(world', heard', paused', unheard'), ~running', queue' = <<>>, at' = 1,
         suppressed' = {}, heard' \in [SystemNames -> [Entities -> Int]]
  PROVE  Scoped' /\ Histories' /\ Debts'
  <1>1. Scoped'  BY DEF Scoped
  <1>2. ASSUME NEW s \in SystemNames
        PROVE  /\ s \notin paused' => world'.systems[s].enabled
               /\ Listens(s)' => HasHeard(s)'
    <2>1. s \notin paused' =>
            /\ world'.systems[s].enabled
            /\ {"enter", "exit"} \subseteq Hears(s) =>
                 /\ \A e \in Entities : heard'[s][e] \in {0, 1}
                 /\ Follows(world'.systems[s], Members(world', s), 1, heard'[s])
      BY DEF Settled, Ready
    <2>2. ASSUME \A e \in Entities : heard'[s][e] \in {0, 1},
                 Follows(world'.systems[s], Members(world', s), 1, heard'[s])
          PROVE  HasHeard(s)'
      <3>1. \A e \in Entities : Count(s)'[e] = heard'[s][e]
        BY <2>2 DEF Count
      <3>2. From(s)' = 1  BY DEF From
      <3>3. Follows(world'.systems[s], Members(world', s), 1, Count(s)')
        BY <2>2, <3>1 DEF Follows
      <3>. QED  BY <2>2, <3>2, <3>3 DEF HasHeard
    <2>. QED  BY <2>1, <2>2 DEF Listens
  <1>3. DirtyIsComing(world', queue', 0)  BY DEF Settled, Ready
  <1>4. ASSUME NEW o \in unheard' PROVE StillToHear(o[1], o[2], o[3])'
    <2>1. /\ o[1] \in SystemNames /\ o[2] \in Entities /\ o[3] \in Components
          /\ o[3] \in Watches(o[1])
          /\ world'.systems[o[1]].enabled /\ o[2] \in Members(world', o[1])
          /\ o[3] \in world'.comps[o[2]]
          /\ Owing(world', <<>>, 0, o[1], o[2], o[3])
      BY DEF Settled, Ready
    <2>2. From(o[1])' = 1  BY DEF From
    <2>3. Arriving(world'.systems[o[1]].inbox, From(o[1])', o[2], o[3])
      BY <2>1, <2>2, EmptyOwes
    <2>. QED  BY <2>1, <2>3 DEF StillToHear
  <1>. QED  BY <1>1, <1>2, <1>3, <1>4 DEF Histories, Debts


-----------------------------------------------------------------------------
(* Calls.                                                                   *)

PausedAfter(call) == IF call.op \in {"disable", "destroySystem"} THEN paused \cup {call.s} ELSE paused

\* Systems keep what they have to drain and their members, unless they are
\* disabled.
Spares(w, v, silent) ==
  \A s \in SystemNames :
    \/ /\ v.systems[s].inbox = w.systems[s].inbox /\ Members(v, s) = Members(w, s)
       /\ w.systems[s].enabled => v.systems[s].enabled
    \/ s \in silent /\ ~v.systems[s].enabled /\ Members(v, s) \subseteq Members(w, s)

WithSystem(w, s, new) == [w EXCEPT !.systems[s] = new]

\* A system whose inbox is empty.
LEMMA SystemSet ==
  ASSUME NEW w, WorldOK(w), NEW s \in SystemNames, NEW new \in SystemRecords, new.inbox = <<>>,
         NEW v, v = WithSystem(w, s, new)
  PROVE  /\ WorldOK(v) /\ SameData(w, v) /\ v.systems[s] = new
         /\ \A t \in SystemNames \ {s} :
              v.systems[t] = w.systems[t] /\ Members(v, t) = Members(w, t)
         /\ new.status = w.systems[s].status => Members(v, s) = Members(w, s)
  <1>1. /\ v \in Worlds /\ SameData(w, v) /\ v.systems[s] = new
        /\ \A t \in SystemNames \ {s} : v.systems[t] = w.systems[t]
    BY DEF WithSystem, WorldOK, Worlds, SameData
  <1>2. \A t \in SystemNames :
          v.systems[t].status = w.systems[t].status => Members(v, t) = Members(w, t)
    BY <1>1, SameMembers DEF SameData
  <1>3. ASSUME NEW t \in SystemNames PROVE SystemOK(v.systems[t], t, Members(v, t))
    <2>1. CASE t = s
      <3>1. \A i \in 1..Len(new.inbox) : FALSE  OBVIOUS
      <3>. QED  BY <1>1, <2>1, <3>1 DEF SystemOK
    <2>2. CASE t # s
      <3>1. v.systems[t] = w.systems[t] /\ Members(v, t) = Members(w, t)  BY <1>1, <1>2, <2>2
      <3>. QED  BY <3>1 DEF WorldOK
    <2>. QED  BY <2>1, <2>2
  <1>4. WorldOK(v)  BY <1>1, <1>3 DEF WorldOK, SameData
  <1>. QED  BY <1>1, <1>2, <1>4

\* A system that is disabled or destroyed, or whose inbox is drained.
LEMMA SilencedIs ==
  ASSUME NEW system \in SystemRecords
  PROVE  /\ Disabled(system) \in SystemRecords /\ Disabled(system).inbox = <<>>
         /\ ~Disabled(system).enabled
         /\ Destroyed(system) \in SystemRecords /\ Destroyed(system).inbox = <<>>
         /\ ~Destroyed(system).enabled
         /\ Drained(system) \in SystemRecords /\ Drained(system).inbox = <<>>
         /\ Drained(system).status = system.status /\ Drained(system).enabled = system.enabled
  <1>. DEFINE off == [system EXCEPT !.enabled = FALSE]
              empty == [off EXCEPT !.inbox = <<>>]
              drained == [system EXCEPT !.inbox = <<>>]
  <1>1. <<>> \in Seq(Events)  OBVIOUS
  <1>2. off \in SystemRecords /\ ~off.enabled  BY DEF SystemRecords
  <1>. HIDE DEF off
  <1>3. empty \in SystemRecords /\ ~empty.enabled /\ empty.inbox = <<>>
    BY <1>1, <1>2 DEF SystemRecords
  <1>4. /\ drained \in SystemRecords /\ drained.inbox = <<>>
        /\ drained.status = system.status /\ drained.enabled = system.enabled
    BY <1>1 DEF SystemRecords
  <1>5. Disabled(system) = [empty EXCEPT !.exited = FALSE]  BY DEF Disabled, off
  <1>6. Drained(system) = [drained EXCEPT !.exited = FALSE]  BY DEF Drained
  <1>. HIDE DEF empty, drained
  <1>7. /\ Disabled(system) \in SystemRecords /\ Disabled(system).inbox = <<>>
        /\ ~Disabled(system).enabled
    BY <1>3, <1>5 DEF SystemRecords
  <1>8. /\ Drained(system) \in SystemRecords /\ Drained(system).inbox = <<>>
        /\ Drained(system).status = system.status /\ Drained(system).enabled = system.enabled
    BY <1>4, <1>6 DEF SystemRecords
  <1>9. /\ Destroyed(system) \in SystemRecords /\ Destroyed(system).inbox = <<>>
        /\ ~Destroyed(system).enabled
    BY <1>7 DEF Destroyed, SystemRecords, Statuses
  <1>. QED  BY <1>7, <1>8, <1>9

\* A call is made of the scene's calls.
LEMMA CallsAre ==
  ASSUME scene \in Scenes, left \in 0..scene.budget, NEW call \in Calls
  PROVE  /\ call \in AnyCall /\ MayCall(call)
         /\ (IF call = Idle THEN left ELSE left - 1) \in 0..scene.budget
  <1>1. scene.calls \subseteq AnyCall /\ scene.budget \in Nat
    BY PipelineAssumption DEF PipelineAssumption
  <1>2. call \in AnyCall  BY <1>1 DEF Calls, AnyCall
  <1>3. MayCall(call) /\ (call # Idle => left > 0)  BY DEF Calls
  <1>. QED  BY <1>1, <1>2, <1>3

\* The calls that there are.
LEMMA AnyCallIs ==
  ASSUME NEW call \in AnyCall
  PROVE  \/ call.op \in {"idle", "stop", "start"}
         \/ /\ call.op = "change" /\ call.e \in Entities
            /\ \/ call.kind \in {"add", "set", "modified", "remove"} /\ call.c \in Components
               \/ call.kind = "destroy" /\ call.c = NoComponent
         \/ call.op \in {"create", "enable", "disable", "destroySystem"} /\ call.s \in SystemNames
  BY DEF AnyCall, Idle, ChangeCalls, DestroyCalls, SystemCalls, ClockCalls

\* A call that concerns a system changes that one.
LEMMA SystemCallSpares ==
  ASSUME NEW w, WorldOK(w), NEW call, call.s \in SystemNames,
         \/ call.op = "create" /\ w.systems[call.s].status = "absent"
         \/ call.op = "enable" /\ w.systems[call.s].status = "built" /\ ~w.systems[call.s].enabled
         \/ call.op \in {"disable", "destroySystem"} /\ w.systems[call.s].status = "built"
  PROVE  LET v == WorldAfter(w, call) IN
         WorldOK(v) /\ SameData(w, v) /\ Spares(w, v, PausedAfter(call))
  <1>. DEFINE s == call.s
              old == w.systems[s]
              v == WorldAfter(w, call)
  <1>1. /\ old \in SystemRecords /\ (~old.enabled \/ old.status # "built" => old.inbox = <<>>)
        /\ w.systems \in [SystemNames -> SystemRecords] /\ w \in Worlds
    BY DEF WorldOK, Worlds, SystemOK
  <1>2. CASE call.op = "create" /\ old.status = "absent"
    <2>. DEFINE new == NewSystem("pending")
    <2>1. v = WithSystem(w, s, new)  BY <1>2 DEF WorldAfter, WithSystem
    <2>2. new \in SystemRecords /\ new.inbox = <<>> /\ new.status = "pending" /\ new.enabled
      BY DEF NewSystem, SystemRecords, Statuses
    <2>. HIDE DEF new, v
    <2>3. /\ WorldOK(v) /\ SameData(w, v) /\ v.systems[s] = new
          /\ \A t \in SystemNames \ {s} :
               v.systems[t] = w.systems[t] /\ Members(v, t) = Members(w, t)
      BY <2>1, <2>2, SystemSet
    <2>4. Members(v, s) = {} /\ Members(w, s) = {}  BY <1>2, <2>2, <2>3 DEF Members
    <2>. QED  BY <1>1, <1>2, <2>2, <2>3, <2>4 DEF Spares, v
  <1>3. CASE call.op = "enable" /\ old.status = "built" /\ ~old.enabled
    <2>. DEFINE new == [old EXCEPT !.enabled = TRUE]
    <2>1. v = WithSystem(w, s, new)  BY <1>1, <1>3 DEF WorldAfter, WithSystem, Worlds
    <2>2. new \in SystemRecords /\ new.inbox = old.inbox /\ new.status = "built" /\ new.enabled
      BY <1>1, <1>3 DEF SystemRecords, Statuses
    <2>3. new.inbox = <<>> /\ new.status = w.systems[s].status  BY <1>1, <1>3, <2>2
    <2>. HIDE DEF new, v
    <2>4. /\ WorldOK(v) /\ SameData(w, v) /\ v.systems[s] = new
          /\ \A t \in SystemNames \ {s} :
               v.systems[t] = w.systems[t] /\ Members(v, t) = Members(w, t)
          /\ new.status = w.systems[s].status => Members(v, s) = Members(w, s)
      BY <2>1, <2>2, <2>3, SystemSet
    <2>. QED  BY <2>2, <2>3, <2>4 DEF Spares, v
  <1>4. CASE call.op \in {"disable", "destroySystem"} /\ old.status = "built"
    <2>. DEFINE new == IF call.op = "disable" THEN Disabled(old) ELSE Destroyed(old)
    <2>1. v = WithSystem(w, s, new)  BY <1>4 DEF WorldAfter, WithSystem
    <2>2. new \in SystemRecords /\ new.inbox = <<>> /\ ~new.enabled
      <3>1. old \in SystemRecords  BY <1>1
      <3>. HIDE DEF old
      <3>. QED  BY <3>1, SilencedIs
    <2>. HIDE DEF new, v
    <2>3. /\ WorldOK(v) /\ SameData(w, v) /\ v.systems[s] = new
          /\ \A t \in SystemNames \ {s} :
               v.systems[t] = w.systems[t] /\ Members(v, t) = Members(w, t)
      BY <2>1, <2>2, SystemSet
    <2>4. s \in PausedAfter(call)  BY <1>4 DEF PausedAfter
    <2>5. Members(v, s) \subseteq Members(w, s)
      BY <1>4, <2>3 DEF Members, Matches, SameData
    <2>. QED  BY <2>2, <2>3, <2>4, <2>5 DEF Spares, v
  <1>. QED  BY <1>2, <1>3, <1>4

\* A component that is modified is marked.
LEMMA MarkIs ==
  ASSUME NEW w, WorldOK(w), NEW change \in Changes,
         change.kind = "modified" => change.c \in w.comps[change.e]
  PROVE  LET v == Mark(w, change) IN
         /\ WorldOK(v) /\ v.comps = w.comps /\ v.destroyed = w.destroyed /\ v.systems = w.systems
         /\ \A s \in SystemNames : Members(v, s) = Members(w, s)
         /\ \A e \in Entities : \A c \in v.dirty[e] :
              c \in w.dirty[e] \/ (change.kind = "modified" /\ change.e = e /\ change.c = c)
  <1>. DEFINE v == Mark(w, change)
              e == change.e
              c == change.c
  <1>1. CASE change.kind # "modified"
    <2>1. v = w  BY <1>1 DEF Mark
    <2>. QED  BY <2>1
  <1>2. CASE change.kind = "modified"
    <2>1. e \in Entities /\ c \in Components  BY <1>2 DEF Changes
    <2>2. v = [w EXCEPT !.dirty[e] = @ \cup {c}]  BY <1>2 DEF Mark
    <2>3. /\ v \in Worlds /\ v.comps = w.comps /\ v.destroyed = w.destroyed
          /\ v.systems = w.systems /\ v.dirty = [w.dirty EXCEPT ![e] = @ \cup {c}]
      BY <2>1, <2>2 DEF WorldOK, Worlds
    <2>. HIDE DEF v
    <2>4. \A s \in SystemNames : Members(v, s) = Members(w, s)  BY <2>3, SameMembers
    <2>5. \A x \in Entities : v.dirty[x] \subseteq v.comps[x]
      BY <1>2, <2>1, <2>3 DEF WorldOK, Worlds
    <2>6. WorldOK(v)  BY <2>3, <2>4, <2>5 DEF WorldOK
    <2>7. \A x \in Entities : \A y \in v.dirty[x] : y \in w.dirty[x] \/ (e = x /\ c = y)
      BY <2>1, <2>3 DEF WorldOK, Worlds
    <2>. QED  BY <1>2, <2>3, <2>4, <2>6, <2>7 DEF v
  <1>. QED  BY <1>1, <1>2

\* An entry of the queue that waits still does when a change is appended.
LEMMA WaitingStays ==
  ASSUME NEW q \in Seq(Changes), NEW change \in Changes, NEW s, NEW e, NEW c,
         Waiting(q, 0, s, e, c)
  PROVE  Waiting(Append(q, change), 0, s, e, c)
  <1>. DEFINE longer == Append(q, change)
  <1>1. /\ Len(q) \in Nat /\ Len(longer) = Len(q) + 1
        /\ \A i \in 1..Len(q) : longer[i] = q[i]
    OBVIOUS
  <1>. HIDE DEF longer
  <1>2. PICK k \in 1..Len(q) :
          /\ Writes(q[k], e, c) /\ q[k].source \notin Ignores(s)
          /\ \A j \in 1..(k - 1) : ~Removes(q[j], e)
    BY DEF Waiting
  <1>3. k \in 1..Len(longer) /\ longer[k] = q[k]  BY <1>1
  <1>4. \A j \in 1..(k - 1) : longer[j] = q[j]  BY <1>1
  <1>. QED  BY <1>2, <1>3, <1>4 DEF Waiting, longer

\* The world that the system whose turn it is calls on: the world itself, or the
\* same with an inbox drained.
Resembles(w) ==
  /\ WorldOK(w) /\ SameData(world, w)
  /\ \A s \in SystemNames :
       /\ w.systems[s].status = world.systems[s].status
       /\ w.systems[s].enabled = world.systems[s].enabled
       /\ Members(w, s) = Members(world, s)

\* A call of a system: its change is queued.
LEMMA CallDefers ==
  ASSUME IInv, turn \in 1..Len(pipeline), NEW w, Resembles(w), NEW call \in Calls
  PROVE  LET v == WorldAfter(w, call)
             q == Enqueued(w, call)
         IN /\ WorldOK(v) /\ v.comps = w.comps /\ v.destroyed = w.destroyed
            /\ Spares(w, v, PausedAfter(call))
            /\ q \in Seq(Changes) /\ DirtyIsComing(v, q, 0)
            /\ \A i \in 1..Len(q) : q[i].by = This
            /\ \A s, e, c : Waiting(queue, 0, s, e, c) => Waiting(q, 0, s, e, c)
            /\ \A o \in Owed(call) :
                 /\ o[1] \in SystemNames /\ o[2] \in Entities /\ o[3] \in Components
                 /\ o[3] \in Watches(o[1]) /\ o[2] \in Members(w, o[1]) /\ o[3] \in w.comps[o[2]]
                 /\ Waiting(q, 0, o[1], o[2], o[3])
  <1>. DEFINE v == WorldAfter(w, call)
              q == Enqueued(w, call)
  <1>1. /\ call \in AnyCall /\ MayCall(call)
        /\ queue \in Seq(Changes) /\ \A i \in 1..Len(queue) : queue[i].by = This
        /\ DirtyIsComing(world, queue, 0)
    BY CallsAre DEF IInv, Typed, Scoped, Debts
  <1>2. Deferred /\ This \in SystemNames /\ Caller = This
    BY DEF IInv, Typed, Deferred, Caller, This
  <1>3. WorldOK(w) /\ SameData(world, w) /\ DirtyIsComing(w, queue, 0)
    BY <1>1 DEF Resembles, SameData, DirtyIsComing
  <1>4. CASE call.op # "change"
    <2>1. q = queue /\ Owed(call) = {}  BY <1>4 DEF Enqueued, Owed
    <2>2. WorldOK(v) /\ SameData(w, v) /\ Spares(w, v, PausedAfter(call))
      <3>1. CASE call.op \in {"idle", "stop", "start"}
        <4>1. v = w  BY <3>1 DEF WorldAfter
        <4>. QED  BY <1>3, <4>1 DEF SameData, Spares
      <3>2. CASE call.op \in {"create", "enable", "disable", "destroySystem"} /\ call.s \in SystemNames
        <4>1. \/ call.op = "create" /\ w.systems[call.s].status = "absent"
              \/ call.op = "enable" /\ w.systems[call.s].status = "built" /\ ~w.systems[call.s].enabled
              \/ call.op \in {"disable", "destroySystem"} /\ w.systems[call.s].status = "built"
          BY <1>1, <3>2 DEF MayCall, Status, Resembles
        <4>. QED  BY <1>3, <3>2, <4>1, SystemCallSpares
      <3>. QED  BY <1>1, <1>4, <3>1, <3>2, AnyCallIs
    <2>. HIDE DEF v, q
    <2>3. DirtyIsComing(v, queue, 0)  BY <1>3, <2>2 DEF SameData, DirtyIsComing
    <2>. QED  BY <1>1, <2>1, <2>2, <2>3 DEF SameData, v, q
  <1>5. CASE call.op = "change"
    <2>. DEFINE e == call.e
                c == call.c
                change == AsChange(call, Caller)
    <2>1. change \in Changes /\ change = Change(call.kind, e, c, This, This) /\ change.kind = call.kind
          /\ change.e = e /\ change.c = c /\ change.by = This /\ change.source = This
      BY <1>1, <1>2, <1>5, AnyCallIs DEF AsChange, Change, Changes, Names, Callers
    <2>2. e \notin w.destroyed /\ (change.kind = "modified" => c \in w.comps[e])
      BY <1>1, <1>3, <1>5, <2>1 DEF MayCall, SameData
    <2>3. v = IF Marks(w, change) THEN Mark(w, change) ELSE w
      BY <1>2, <1>5 DEF WorldAfter
    <2>4. q = IF Marks(w, change) THEN Append(queue, change) ELSE queue
      BY <1>2, <1>5 DEF Enqueued
    <2>5. PausedAfter(call) = paused  BY <1>5 DEF PausedAfter
    <2>. HIDE DEF change, v, q
    <2>6. /\ WorldOK(v) /\ v.comps = w.comps /\ v.destroyed = w.destroyed /\ v.systems = w.systems
          /\ \A s \in SystemNames : Members(v, s) = Members(w, s)
          /\ \A x \in Entities : \A y \in v.dirty[x] :
               y \in w.dirty[x]
                 \/ (Marks(w, change) /\ change.kind = "modified" /\ change.e = x /\ change.c = y)
      <3>1. CASE ~Marks(w, change)
        BY <1>3, <2>3, <3>1
      <3>2. CASE Marks(w, change)
        BY <1>3, <2>1, <2>2, <2>3, <3>2, MarkIs
      <3>. QED  BY <3>1, <3>2
    <2>7. Spares(w, v, PausedAfter(call))  BY <2>6 DEF Spares
    <2>8. q \in Seq(Changes) /\ \A i \in 1..Len(q) : q[i].by = This
      <3>1. CASE ~Marks(w, change)
        BY <1>1, <2>4, <3>1
      <3>2. CASE Marks(w, change)
        <4>1. /\ q = Append(queue, change) /\ q \in Seq(Changes) /\ Len(q) = Len(queue) + 1
              /\ Len(queue) \in Nat /\ q[Len(queue) + 1] = change
              /\ \A i \in 1..Len(queue) : q[i] = queue[i]
          BY <1>1, <2>1, <2>4, <3>2
        <4>2. \A i \in 1..Len(q) : i \in 1..Len(queue) \/ i = Len(queue) + 1  BY <4>1
        <4>. QED  BY <1>1, <2>1, <4>1, <4>2
      <3>. QED  BY <3>1, <3>2
    <2>9. \A s, x, y : Waiting(queue, 0, s, x, y) => Waiting(q, 0, s, x, y)
      BY <1>1, <2>1, <2>4, WaitingStays
    <2>10. /\ Len(queue) \in Nat /\ Len(queue) <= Len(q)
           /\ \A i \in 1..Len(queue) : q[i] = queue[i]
           /\ Marks(w, change) => Len(q) = Len(queue) + 1 /\ q[Len(q)] = change
      BY <1>1, <2>1, <2>4
    <2>11. DirtyIsComing(v, q, 0)
      <3>1. ASSUME NEW x \in Entities \ v.destroyed, NEW y \in v.dirty[x]
            PROVE  \E k \in 1..Len(q) : q[k].kind = "modified" /\ q[k].e = x /\ q[k].c = y
        <4>1. CASE y \in w.dirty[x]
          <5>1. PICK k \in 1..Len(queue) :
                  queue[k].kind = "modified" /\ queue[k].e = x /\ queue[k].c = y
            BY <1>3, <2>6, <3>1, <4>1 DEF DirtyIsComing
          <5>2. k \in 1..Len(q) /\ q[k] = queue[k]  BY <2>8, <2>10
          <5>. QED  BY <5>1, <5>2
        <4>2. CASE Marks(w, change) /\ change.kind = "modified" /\ change.e = x /\ change.c = y
          <5>1. Len(q) \in 1..Len(q) /\ q[Len(q)] = change  BY <2>8, <2>10, <4>2
          <5>. QED  BY <4>2, <5>1
        <4>. QED  BY <2>6, <3>1, <4>1, <4>2
      <3>. QED  BY <3>1 DEF DirtyIsComing
    <2>12. ASSUME NEW o \in Owed(call)
           PROVE  /\ o[1] \in SystemNames /\ o[2] \in Entities /\ o[3] \in Components
                  /\ o[3] \in Watches(o[1]) /\ o[2] \in Members(w, o[1]) /\ o[3] \in w.comps[o[2]]
                  /\ Waiting(q, 0, o[1], o[2], o[3])
      <3>1. /\ call.kind \in {"modified", "set"} /\ c \in world.comps[e]
            /\ \A i \in 1..Len(queue) : queue[i].e # e \/ queue[i].kind \notin {"remove", "destroy"}
            /\ o \in {<<s, e, c>> : s \in {t \in HavingMember(world, e) :
                        c \in Watches(t) /\ ~Silenced(t, Caller)}}
        BY <2>12 DEF Owed
      <3>2. PICK s \in HavingMember(world, e) :
              o = <<s, e, c>> /\ c \in Watches(s) /\ ~Silenced(s, Caller)
        BY <3>1
      <3>3. /\ s \in SystemNames /\ e \in Entities /\ c \in Components
            /\ e \in Members(w, s) /\ c \in w.comps[e] /\ This \notin Ignores(s)
        BY <1>1, <1>2, <1>3, <1>5, <3>1, <3>2, AnyCallIs DEF HavingMember, Resembles, SameData, Silenced
      <3>4. Waiting(q, 0, s, e, c)
        <4>1. CASE Marks(w, change)
          <5>1. /\ Len(q) \in 1..Len(q) /\ q[Len(q)] = change
                /\ \A j \in 1..(Len(q) - 1) : j \in 1..Len(queue) /\ q[j] = queue[j]
            BY <2>8, <2>10, <4>1
          <5>2. Writes(q[Len(q)], e, c) /\ q[Len(q)].source \notin Ignores(s)
            BY <2>1, <3>1, <3>3, <5>1 DEF Writes
          <5>3. \A j \in 1..(Len(q) - 1) : ~Removes(q[j], e)  BY <3>1, <5>1 DEF Removes
          <5>. QED  BY <5>1, <5>2, <5>3 DEF Waiting
        <4>2. CASE ~Marks(w, change)
          <5>1. c \in w.dirty[e] /\ e \in Entities \ w.destroyed
            BY <2>1, <2>2, <3>3, <4>2 DEF Marks
          <5>2. PICK k \in 1..Len(queue) :
                  queue[k].kind = "modified" /\ queue[k].e = e /\ queue[k].c = c
            BY <1>3, <5>1 DEF DirtyIsComing
          <5>3. queue[k].source \notin Ignores(s)
            <6>1. queue[k] \in Changes /\ queue[k].by = This  BY <1>1, <5>2
            <6>. QED  BY <3>3, <6>1 DEF Changes
          <5>4. \A j \in 1..(k - 1) : ~Removes(queue[j], e)
            <6>1. \A j \in 1..(k - 1) : j \in 1..Len(queue)  BY <2>10, <5>2
            <6>. QED  BY <3>1, <6>1 DEF Removes
          <5>5. Waiting(queue, 0, s, e, c)  BY <5>2, <5>3, <5>4 DEF Waiting, Writes
          <5>. QED  BY <2>9, <5>5
        <4>. QED  BY <4>1, <4>2
      <3>. QED  BY <3>2, <3>3, <3>4
    <2>. QED  BY <2>6, <2>7, <2>8, <2>9, <2>11, <2>12 DEF v, q
  <1>. QED  BY <1>4, <1>5

\* What is ready to be drained still is after a call of the system.
LEMMA SparesReady ==
  ASSUME NEW w, NEW q, NEW told, NEW silent, NEW owed, Ready(w, q, told, silent, owed),
         \A o \in owed : w.systems[o[1]].enabled,
         NEW v, WorldOK(v), v.comps = w.comps, NEW more, silent \subseteq more, Spares(w, v, more),
         NEW r \in Seq(Changes), DirtyIsComing(v, r, 0),
         \A s, e, c : Waiting(q, 0, s, e, c) => Waiting(r, 0, s, e, c),
         NEW extra,
         \A o \in extra :
           /\ o[1] \in SystemNames /\ o[2] \in Entities /\ o[3] \in Components
           /\ o[3] \in Watches(o[1]) /\ o[2] \in Members(w, o[1]) /\ o[3] \in w.comps[o[2]]
           /\ Waiting(r, 0, o[1], o[2], o[3])
  PROVE  Ready(v, r, told, more, owed \cup extra)
  <1>1. ASSUME NEW s \in SystemNames \ more
        PROVE  /\ v.systems[s].enabled
               /\ {"enter", "exit"} \subseteq Hears(s) =>
                    /\ \A e \in Entities : told[s][e] \in {0, 1}
                    /\ Follows(v.systems[s], Members(v, s), 1, told[s])
    <2>1. /\ w.systems[s].enabled
          /\ {"enter", "exit"} \subseteq Hears(s) =>
               /\ \A e \in Entities : told[s][e] \in {0, 1}
               /\ Follows(w.systems[s], Members(w, s), 1, told[s])
      BY DEF Ready
    <2>2. v.systems[s].enabled /\ v.systems[s].inbox = w.systems[s].inbox
          /\ Members(v, s) = Members(w, s)
      BY <2>1 DEF Spares
    <2>. QED  BY <2>1, <2>2 DEF Follows
  <1>2. ASSUME NEW o \in owed \cup extra
        PROVE  /\ o[1] \in SystemNames /\ o[2] \in Entities /\ o[3] \in Components
               /\ o[3] \in Watches(o[1])
               /\ v.systems[o[1]].enabled => Owing(v, r, 0, o[1], o[2], o[3])
    <2>1. /\ o[1] \in SystemNames /\ o[2] \in Entities /\ o[3] \in Components
          /\ o[3] \in Watches(o[1])
      BY DEF Ready
    <2>2. ASSUME v.systems[o[1]].enabled PROVE Owing(v, r, 0, o[1], o[2], o[3])
      <3>1. v.systems[o[1]].inbox = w.systems[o[1]].inbox /\ Members(v, o[1]) = Members(w, o[1])
        BY <2>1, <2>2 DEF Spares
      <3>2. CASE o \in extra
        BY <2>2, <3>1, <3>2 DEF Owing
      <3>3. CASE o \in owed
        <4>1. Owing(w, q, 0, o[1], o[2], o[3])  BY <3>3 DEF Ready
        <4>2. CASE Hearing(w, o[1], o[2], o[3])
          BY <3>1, <4>2 DEF Hearing, Owing
        <4>3. CASE ~Hearing(w, o[1], o[2], o[3])
          BY <2>2, <3>1, <4>1, <4>3 DEF Owing
        <4>. QED  BY <4>2, <4>3
      <3>. QED  BY <3>2, <3>3
    <2>. QED  BY <2>1, <2>2
  <1>. QED  BY <1>1, <1>2 DEF Ready

\* A call between frames: its change is applied at once.
LEMMA CallApplies ==
  ASSUME IInv, turn = 0, NEW call \in Calls
  PROVE  LET v == WorldAfter(world, call)
         IN Settled(v, heard, PausedAfter(call), StillOwed(unheard \cup Owed(call), v))
  <1>. DEFINE v == WorldAfter(world, call)
              still == StillOwed(unheard \cup Owed(call), v)
  <1>1. /\ ~running /\ queue = <<>> /\ routing = NoSystem /\ ~Deferred /\ Caller = NoSystem
        /\ call \in AnyCall /\ MayCall(call)
    BY CallsAre DEF IInv, Typed, Scoped, Deferred, Caller
  <1>2. Settled(world, heard, paused, unheard)  BY <1>1, AtRest
  <1>3. /\ WorldOK(world) /\ Ready(world, <<>>, heard, paused, unheard)
        /\ DirtyIsComing(world, <<>>, 0)
        /\ \A o \in unheard : world.systems[o[1]].enabled /\ Hearing(world, o[1], o[2], o[3])
    BY <1>2, EmptyOwes DEF Settled, Ready
  <1>4. \A o \in still :
          v.systems[o[1]].enabled /\ o[2] \in Members(v, o[1]) /\ o[3] \in v.comps[o[2]]
    BY DEF StillOwed
  <1>5. CASE call.op # "change"
    <2>1. Owed(call) = {}  BY <1>5 DEF Owed
    <2>2. WorldOK(v) /\ SameData(world, v) /\ Spares(world, v, PausedAfter(call))
      <3>1. CASE call.op \in {"idle", "stop", "start"}
        <4>1. v = world  BY <3>1 DEF WorldAfter
        <4>. QED  BY <1>3, <4>1 DEF SameData, Spares
      <3>2. CASE call.op \in {"create", "enable", "disable", "destroySystem"} /\ call.s \in SystemNames
        <4>1. \/ call.op = "create" /\ world.systems[call.s].status = "absent"
              \/ call.op = "enable" /\ world.systems[call.s].status = "built"
                   /\ ~world.systems[call.s].enabled
              \/ call.op \in {"disable", "destroySystem"} /\ world.systems[call.s].status = "built"
          BY <1>1, <3>2 DEF MayCall, Status
        <4>. QED  BY <1>3, <3>2, <4>1, SystemCallSpares
      <3>. QED  BY <1>1, <1>5, <3>1, <3>2, AnyCallIs
    <2>3. paused \subseteq PausedAfter(call)  BY DEF PausedAfter
    <2>4. <<>> \in Seq(Changes)  OBVIOUS
    <2>. HIDE DEF v
    <2>5. DirtyIsComing(v, <<>>, 0) /\ v.comps = world.comps
      BY <1>3, <2>2 DEF SameData, DirtyIsComing
    <2>6. Ready(v, <<>>, heard, PausedAfter(call), unheard \cup {})
      BY <1>3, <2>2, <2>3, <2>4, <2>5, SparesReady
    <2>7. still \subseteq unheard  BY <2>1 DEF StillOwed
    <2>. HIDE DEF still
    <2>8. Ready(v, <<>>, heard, PausedAfter(call), still)  BY <2>6, <2>7 DEF Ready
    <2>. QED  BY <1>4, <2>8 DEF Settled, still, v
  <1>6. CASE call.op = "change"
    <2>. DEFINE e == call.e
                c == call.c
                change == AsChange(call, Caller)
                u == Mark(world, change)
    <2>1. change \in Changes /\ change.kind = call.kind /\ change.source = NoSystem
          /\ change.e = e /\ change.c = c /\ e \in Entities
      BY <1>1, <1>6, AnyCallIs DEF AsChange, Change, Changes, Names, Callers
    <2>2. e \notin world.destroyed /\ (change.kind = "modified" => c \in world.comps[e])
      BY <1>1, <1>6, <2>1 DEF MayCall
    <2>3. Marks(world, change)
      BY <1>3, <2>1, <2>2 DEF Marks, DirtyIsComing
    <2>4. v = Apply(u, change)  BY <1>1, <1>6, <2>3 DEF WorldAfter
    <2>5. PausedAfter(call) = paused  BY <1>6 DEF PausedAfter
    <2>. HIDE DEF change, u, v
    <2>6. /\ WorldOK(u) /\ u.comps = world.comps /\ u.destroyed = world.destroyed
          /\ u.systems = world.systems
          /\ \A s \in SystemNames : Members(u, s) = Members(world, s)
          /\ \A x \in Entities : \A y \in u.dirty[x] :
               y \in world.dirty[x] \/ (change.kind = "modified" /\ change.e = x /\ change.c = y)
      BY <1>3, <2>1, <2>2, MarkIs DEF u
    <2>7. WorldOK(v) /\ WorldHeeds(u, v) /\ Changed(u, v, change) /\ Heard(u, v, change)
      BY <2>1, <2>4, <2>6, ApplyHeeds
    <2>8. DirtyIsComing(v, <<>>, 0)
      <3>1. ASSUME NEW x \in Entities \ v.destroyed, NEW y \in v.dirty[x] PROVE FALSE
        <4>1. CASE x # e
          <5>1. v.dirty[x] = u.dirty[x] /\ x \notin world.destroyed
            BY <2>1, <2>6, <2>7, <3>1, <4>1 DEF Changed
          <5>2. y \in world.dirty[x]  BY <2>1, <2>6, <3>1, <4>1, <5>1
          <5>. QED  BY <1>3, <5>1, <5>2 DEF DirtyIsComing
        <4>2. CASE x = e
          <5>1. y \in u.dirty[e]  BY <2>1, <2>7, <3>1, <4>2 DEF Changed
          <5>2. y \notin world.dirty[e]  BY <1>3, <2>1, <2>2 DEF DirtyIsComing
          <5>3. change.kind = "modified" /\ c = y  BY <2>1, <2>6, <5>1, <5>2
          <5>. QED  BY <2>1, <2>2, <2>6, <2>7, <3>1, <4>2, <5>3 DEF Changed
        <4>. QED  BY <4>1, <4>2
      <3>. QED  BY <3>1 DEF DirtyIsComing
    <2>9. ASSUME NEW s \in SystemNames \ paused
          PROVE  /\ v.systems[s].enabled
                 /\ {"enter", "exit"} \subseteq Hears(s) =>
                      /\ \A x \in Entities : heard[s][x] \in {0, 1}
                      /\ Follows(v.systems[s], Members(v, s), 1, heard[s])
      <3>1. /\ world.systems[s].enabled
            /\ {"enter", "exit"} \subseteq Hears(s) =>
                 /\ \A x \in Entities : heard[s][x] \in {0, 1}
                 /\ Follows(world.systems[s], Members(world, s), 1, heard[s])
        BY <1>3 DEF Ready
      <3>2. u.systems[s] = world.systems[s] /\ Members(u, s) = Members(world, s)  BY <2>6
      <3>3. Heeds(u.systems[s], v.systems[s], s, Members(u, s), Members(v, s))
        BY <2>7 DEF WorldHeeds
      <3>. QED  BY <3>1, <3>2, <3>3 DEF Heeds, Told
    <2>10. ASSUME NEW o \in still
           PROVE  /\ o[1] \in SystemNames /\ o[2] \in Entities /\ o[3] \in Components
                  /\ o[3] \in Watches(o[1]) /\ Hearing(v, o[1], o[2], o[3])
      <3>1. CASE o \in unheard
        <4>1. /\ o[1] \in SystemNames /\ o[2] \in Entities /\ o[3] \in Components
              /\ o[3] \in Watches(o[1]) /\ Hearing(world, o[1], o[2], o[3])
          BY <1>3, <3>1 DEF Ready
        <4>2. Hearing(u, o[1], o[2], o[3])  BY <2>6, <4>1 DEF Hearing
        <4>3. u \in Worlds /\ v \in Worlds  BY <2>6, <2>7 DEF WorldOK
        <4>. QED  BY <2>7, <4>1, <4>2, <4>3, HearingStays
      <3>2. CASE o \in Owed(call)
        <4>1. /\ call.kind \in {"modified", "set"} /\ c \in world.comps[e]
              /\ o \in {<<s, e, c>> : s \in {t \in HavingMember(world, e) :
                          c \in Watches(t) /\ ~Silenced(t, Caller)}}
          BY <3>2 DEF Owed
        <4>2. PICK s \in HavingMember(world, e) :
                o = <<s, e, c>> /\ c \in Watches(s) /\ ~Silenced(s, Caller)
          BY <4>1
        <4>3. /\ s \in SystemNames /\ c \in Components /\ e \in Members(u, s)
              /\ NoSystem \notin Ignores(s)
          BY <1>1, <1>6, <2>6, <4>1, <4>2, AnyCallIs DEF HavingMember, Silenced
        <4>4. v.systems[s].enabled  BY <1>4, <4>2
        <4>5. u.systems[s].enabled  BY <2>7, <4>3, <4>4 DEF WorldHeeds, Heeds, Told
        <4>6. Hearing(v, s, e, c)
          BY <2>1, <2>6, <2>7, <4>1, <4>2, <4>3, <4>5 DEF Heard
        <4>. QED  BY <2>1, <4>2, <4>3, <4>6
      <3>. QED  BY <3>1, <3>2 DEF StillOwed
    <2>11. <<>> \in Seq(Changes)  OBVIOUS
    <2>. HIDE DEF still
    <2>12. Ready(v, <<>>, heard, paused, still)
      BY <2>7, <2>8, <2>9, <2>10, <2>11, EmptyOwes DEF Ready
    <2>. QED  BY <1>4, <2>5, <2>12 DEF Settled, still, v
  <1>. QED  BY <1>5, <1>6

-----------------------------------------------------------------------------
(* The actions.                                                             *)

\* What was last said: to a system that is enabled, of a member unless it has
\* left, and not by one it ignores.
SaidOK == UpdatesReachMembers /\ DisabledIsSilent /\ NoEcho

\* Nothing is said.
LEMMA NothingIsSaid ==
  ASSUME said' = Nothing
  PROVE  SaidOK'
  BY DEF SaidOK, UpdatesReachMembers, DisabledIsSilent, NoEcho, Nothing

\* Updates are owed to systems, of entities' components.
LEMMA OwedAre ==
  ASSUME NEW call \in AnyCall
  PROVE  Owed(call) \subseteq SystemNames \X Entities \X Components
  <1>1. CASE ~(call.op = "change" /\ call.kind \in {"modified", "set"})
    BY <1>1 DEF Owed
  <1>2. CASE call.op = "change" /\ call.kind \in {"modified", "set"}
    <2>1. call.e \in Entities /\ call.c \in Components  BY <1>2, AnyCallIs
    <2>2. ASSUME NEW o \in Owed(call)
          PROVE  o \in SystemNames \X Entities \X Components
      <3>1. \E s \in SystemNames : o = <<s, call.e, call.c>>  BY DEF Owed, HavingMember
      <3>. QED  BY <2>1, <3>1
    <2>. QED  BY <2>2
  <1>. QED  BY <1>1, <1>2

\* Initially no entity is a member.
LEMMA InitIs == Init => IInv /\ SaidOK
  <1>. SUFFICES ASSUME Init PROVE IInv /\ SaidOK
    OBVIOUS
  <1>1. /\ scene \in Scenes /\ scene.budget \in Nat /\ left = scene.budget
        /\ <<>> \in Seq(Events) /\ <<>> \in Seq(Changes) /\ <<>> \in Seq(SystemNames)
    BY PipelineAssumption DEF Init, PipelineAssumption
  <1>2. /\ world \in Worlds
        /\ \A s \in SystemNames :
             /\ world.systems[s] \in SystemRecords /\ world.systems[s].inbox = <<>>
             /\ world.systems[s].enabled
        /\ \A e \in Entities : world.comps[e] = {} /\ world.dirty[e] = {}
    BY <1>1 DEF Init, NewSystem, Worlds, SystemRecords, Statuses
  <1>3. \A s \in SystemNames : Members(world, s) = {}
    BY <1>2, SystemsAssumption DEF SystemsAssumption, Members, Matches
  <1>4. WorldOK(world)
    <2>1. Len(<<>>) = 0 /\ \A i \in 1..0 : FALSE  OBVIOUS
    <2>. QED  BY <1>2, <2>1 DEF WorldOK, SystemOK
  <1>5. Typed
    BY <1>1, <1>4 DEF Init, Typed
  <1>6. Scoped  BY DEF Init, Scoped
  <1>7. ASSUME NEW s \in SystemNames PROVE HasHeard(s)
    <2>1. From(s) = 1 /\ \A e \in Entities : heard[s][e] = 0 /\ Count(s)[e] = 0
      BY DEF Init, From, Count
    <2>. DEFINE box == world.systems[s].inbox
    <2>2. box \in Seq(Events) /\ box = <<>>  BY <1>1, <1>2
    <2>. HIDE DEF box
    <2>3. \A e \in Entities : Leads(box, 1, 0, 0, e)  BY <2>2, LeadsEmpty
    <2>4. Follows(world.systems[s], {}, 1, Count(s))
      BY <2>1, <2>3 DEF Follows, In, box
    <2>. QED  BY <1>3, <2>1, <2>4 DEF HasHeard
  <1>8. Histories  BY <1>2, <1>7 DEF Histories
  <1>9. Debts  BY <1>2 DEF Init, Debts, DirtyIsComing
  <1>10. SaidOK
    BY DEF Init, SaidOK, UpdatesReachMembers, DisabledIsSilent, NoEcho, Nothing
  <1>. QED  BY <1>5, <1>6, <1>8, <1>9, <1>10 DEF IInv

\* The application calls between frames.
LEMMA ActKeeps == IInv /\ Act => IInv'
  <1>. SUFFICES ASSUME IInv, Act PROVE IInv'
    OBVIOUS
  <1>1. turn = 0 /\ ~running  BY DEF Act, Between, IInv, Typed, Scoped
  <1>2. PICK call \in Calls :
          /\ world' = WorldAfter(world, call)
          /\ unheard' = StillOwed(unheard \cup Owed(call), world')
          /\ Pays(call) /\ Pauses(call)
    BY DEF Act
  <1>3. paused' = PausedAfter(call)  BY <1>2 DEF Pauses, PausedAfter
  <1>4. Settled(world', heard, paused', unheard')  BY <1>1, <1>2, <1>3, CallApplies
  <1>5. heard' = heard /\ ~running' /\ queue' = <<>> /\ at' = 1 /\ suppressed' = {}
    BY <1>1, AtRest DEF Act, IInv, Scoped
  <1>6. Typed'
    <2>1. call \in AnyCall /\ left' \in 0..scene.budget
      BY <1>2, CallsAre DEF IInv, Typed, Pays
    <2>2. unheard' \subseteq SystemNames \X Entities \X Components
      BY <1>2, <2>1, OwedAre DEF StillOwed, IInv, Typed
    <2>3. WorldOK(world')  BY <1>4 DEF Settled, Ready
    <2>. QED  BY <2>1, <2>2, <2>3 DEF Act, IInv, Typed
  <1>7. Scoped' /\ Histories' /\ Debts'
    BY <1>4, <1>5, Rests DEF IInv, Typed
  <1>. QED  BY <1>6, <1>7 DEF IInv

\* A frame begins: systems that are pending are built.
LEMMA BeginFrameKeeps == IInv /\ BeginFrame => IInv'
  <1>. SUFFICES ASSUME IInv, BeginFrame PROVE IInv'
    OBVIOUS
  <1>1. turn = 0 /\ ~running  BY DEF BeginFrame, Between, IInv, Typed, Scoped
  <1>2. queue = <<>> /\ Settled(world, heard, paused, unheard)  BY <1>1, AtRest
  <1>3. /\ world' = Flushed(world, <<>>) /\ pipeline' = PipelineOf(world') /\ turn' = 1
        /\ UNCHANGED <<scene, queue, routing, running, at, suppressed, left, heard, paused, unheard>>
    BY <1>2 DEF BeginFrame
  <1>4. Settled(world', heard, paused, unheard)  BY <1>2, <1>3, RestSettles
  <1>5. Typed'
    <2>1. WorldOK(world')  BY <1>4 DEF Settled, Ready
    <2>2. pipeline' \in Seq(SystemNames)  BY <1>3, PipelineIs
    <2>3. turn' \in 0..(Len(pipeline') + 1)  BY <1>3, <2>2
    <2>. QED  BY <1>3, <2>1, <2>2, <2>3 DEF IInv, Typed
  <1>6. Scoped' /\ Histories' /\ Debts'
    BY <1>1, <1>2, <1>3, <1>4, Rests DEF IInv, Typed, Scoped
  <1>. QED  BY <1>5, <1>6 DEF IInv

\* A system has nothing to do.
LEMMA SkipKeeps == IInv /\ Skip => IInv'
  <1>. SUFFICES ASSUME IInv, Skip PROVE IInv'
    OBVIOUS
  <1>1. ~running /\ turn <= Len(pipeline)  BY DEF Skip, HasTurn
  <1>2. queue = <<>> /\ Settled(world, heard, paused, unheard)  BY <1>1, AtRest
  <1>3. /\ world' = Flushed(world, <<>>) /\ queue' = <<>> /\ routing' = NoSystem /\ running' = FALSE
        /\ at' = 1 /\ suppressed' = {} /\ turn' = turn + 1
        /\ UNCHANGED <<scene, pipeline, left, heard, paused, unheard>>
    BY <1>2 DEF Skip, EndsTurn, RoutingAfter
  <1>4. Settled(world', heard, paused, unheard)  BY <1>2, <1>3, RestSettles
  <1>5. Typed'
    <2>1. WorldOK(world')  BY <1>4 DEF Settled, Ready
    <2>2. turn' \in 0..(Len(pipeline') + 1)  BY <1>1, <1>3 DEF IInv, Typed
    <2>. QED  BY <1>3, <2>1, <2>2 DEF IInv, Typed
  <1>6. Scoped' /\ Histories' /\ Debts'
    BY <1>3, <1>4, Rests DEF IInv, Typed
  <1>. QED  BY <1>5, <1>6 DEF IInv

\* A frame ends.
LEMMA EndFrameKeeps == IInv /\ EndFrame => IInv'
  <1>. SUFFICES ASSUME IInv, EndFrame PROVE IInv'
    OBVIOUS
  <1>1. ~running  BY DEF EndFrame, IInv, Typed, Scoped
  <1>2. queue = <<>> /\ Settled(world, heard, paused, unheard)  BY <1>1, AtRest
  <1>3. /\ turn' = 0
        /\ UNCHANGED <<scene, world, queue, routing, pipeline, running, at, suppressed, left, heard,
                       paused, unheard>>
    BY DEF EndFrame
  <1>4. Typed'  BY <1>3 DEF IInv, Typed
  <1>5. Scoped' /\ Histories' /\ Debts'
    BY <1>1, <1>2, <1>3, Rests DEF IInv, Typed, Scoped
  <1>. QED  BY <1>4, <1>5 DEF IInv

\* A system starts to drain its inbox.
LEMMA StartKeeps == IInv /\ Start => IInv'
  <1>. SUFFICES ASSUME IInv, Start PROVE IInv'
    OBVIOUS
  <1>1. /\ ~running /\ turn # 0 /\ turn <= Len(pipeline)
        /\ queue = <<>> /\ at = 1 /\ suppressed = {}
    BY DEF Start, HasTurn, Between, IInv, Scoped
  <1>2. UNCHANGED <<scene, world, queue, routing, pipeline, turn, at, suppressed, left, heard, paused,
                    unheard>>
    BY DEF Start
  <1>3. Typed'  BY <1>2 DEF IInv, Typed
  <1>4. Scoped'  BY <1>1, <1>2 DEF IInv, Typed, Scoped
  <1>5. \A s \in SystemNames : From(s)' = From(s) /\ Count(s)' = Count(s)
    BY <1>1, <1>2 DEF From, Count, This
  <1>6. Histories'  BY <1>2, <1>5 DEF IInv, Histories, HasHeard, Listens
  <1>7. Debts'  BY <1>2, <1>5 DEF IInv, Debts, StillToHear
  <1>. QED  BY <1>3, <1>4, <1>6, <1>7 DEF IInv

\* What the system that drains its inbox comes to.
LEMMA Drains ==
  ASSUME IInv, Draining
  PROVE  LET event == Inbox[at] IN
         /\ turn \in 1..Len(pipeline) /\ This \in SystemNames
         /\ Inbox \in Seq(Events) /\ at \in 1..Len(Inbox) /\ event \in Events
         /\ From(This) = at /\ \A s \in SystemNames \ {This} : From(s) = 1
         /\ world.systems[This].enabled /\ Fits(event, This)
         /\ Stale(world, This, event) <=> event.e \notin Members(world, This)
  <1>1. running /\ turn \in 1..Len(pipeline) /\ This \in SystemNames
    BY DEF Draining, IInv, Typed, Scoped, This
  <1>2. Inbox \in Seq(Events) /\ SystemOK(world.systems[This], This, Members(world, This))
    BY <1>1, InboxesAre DEF IInv, Typed, WorldOK, Inbox
  <1>3. at \in 1..Len(Inbox)  BY <1>2 DEF Draining, IInv, Typed
  <1>4. Inbox[at] \in Events /\ Inbox # <<>>  BY <1>2, <1>3
  <1>5. /\ world.systems[This].enabled /\ Fits(Inbox[at], This)
        /\ Inbox[at].e \in Members(world, This) \/ world.systems[This].exited
    BY <1>2, <1>3, <1>4 DEF SystemOK, Inbox
  <1>6. From(This) = at /\ \A s \in SystemNames \ {This} : From(s) = 1  BY <1>1 DEF From
  <1>. QED  BY <1>1, <1>2, <1>3, <1>4, <1>5, <1>6 DEF Stale

\* How much an event counts, by its kind.
LEMMA CountedIs ==
  ASSUME NEW event \in Events
  PROVE  /\ event.kind = "enter" => Counted(event) = 1
         /\ event.kind = "exit" => Counted(event) = -1
         /\ event.kind = "update" => Counted(event) = 0
         /\ event.kind \in {"enter", "exit", "update"} /\ event.e \in Entities
         /\ Counted(event) \in Int
  BY DEF Events, Counted

\* An entry of an entity that left is suppressed, and its exit with it.
LEMMA PassOverKeeps == IInv /\ PassOver => IInv'
  <1>. SUFFICES ASSUME IInv, PassOver PROVE IInv'
    OBVIOUS
  <1>. DEFINE event == Inbox[at]
              members == Members(world, This)
  <1>1. Draining /\ running /\ ~CallsBack(event)  BY DEF PassOver, Draining
  <1>2. /\ turn \in 1..Len(pipeline) /\ This \in SystemNames
        /\ Inbox \in Seq(Events) /\ at \in 1..Len(Inbox) /\ event \in Events
        /\ From(This) = at /\ \A s \in SystemNames \ {This} : From(s) = 1
        /\ Stale(world, This, event) <=> event.e \notin members
    BY <1>1, Drains
  <1>3. /\ UNCHANGED <<scene, world, queue, routing, pipeline, turn, running, left, heard, paused,
                       unheard>>
        /\ at' = at + 1 /\ This' = This
    BY DEF PassOver, This
  <1>4. /\ event.e \in Entities
        /\ \/ /\ event.kind = "enter" /\ event.e \notin members
              /\ suppressed' = suppressed \cup {event.e} /\ Counted(event) = 1
           \/ /\ event.kind = "exit" /\ event.e \in suppressed
              /\ suppressed' = suppressed \ {event.e} /\ Counted(event) = -1
           \/ /\ event.kind = "update" /\ event.e \notin members
              /\ suppressed' = suppressed /\ Counted(event) = 0
    <2>1. suppressed' = CASE Suppresses(event) -> suppressed \cup {event.e}
                          [] Pairs(event) -> suppressed \ {event.e}
                          [] OTHER -> suppressed
      BY DEF PassOver
    <2>2. Suppresses(event) \/ Pairs(event) \/ Drops(event)  BY <1>1 DEF CallsBack
    <2>. HIDE DEF event
    <2>. QED  BY <1>2, <2>1, <2>2, CountedIs DEF Suppresses, Pairs, Drops
  <1>. HIDE DEF event, members
  <1>5. Typed'
    <2>1. at' \in Nat \ {0} /\ suppressed' \subseteq Entities
      BY <1>2, <1>3, <1>4 DEF IInv, Typed
    <2>. QED  BY <1>3, <2>1 DEF IInv, Typed
  <1>6. Scoped'
    <2>1. suppressed \cap members = {} /\ members' = members
      BY <1>1, <1>3 DEF IInv, Scoped, members
    <2>2. suppressed' \cap members = {}  BY <1>4, <2>1
    <2>. QED  BY <1>1, <1>2, <1>3, <2>1, <2>2 DEF IInv, Scoped, members
  <1>7. /\ From(This)' = at + 1
        /\ \A s \in SystemNames \ {This} : From(s)' = From(s) /\ Count(s)' = Count(s)
    BY <1>1, <1>2, <1>3 DEF From, Count
  <1>8. ASSUME NEW s \in SystemNames, Listens(s), HasHeard(s) PROVE HasHeard(s)'
    <2>1. CASE s # This
      BY <1>3, <1>7, <1>8, <2>1 DEF HasHeard
    <2>2. CASE s = This
      <3>1. ASSUME NEW e \in Entities
            PROVE  Leads(Inbox, at + 1, Count(s)'[e], In(e, members), e)
        <4>1. Leads(Inbox, at, Count(s)[e], In(e, members), e)
          BY <1>2, <1>8, <2>2 DEF HasHeard, Follows, Inbox, members
        <4>2. at <= Len(Inbox) /\ Inbox[at] = event  BY <1>2 DEF event
        <4>3. /\ Count(s)[e] + Swing(event, e) \in {0, 1}
              /\ Leads(Inbox, at + 1, Count(s)[e] + Swing(event, e), In(e, members), e)
          BY <1>2, <4>1, <4>2, LeadsOn
        <4>4. /\ heard[s][e] \in {0, 1}
              /\ Count(s)[e] = heard[s][e] + (IF e \in suppressed THEN 1 ELSE 0)
              /\ Count(s)'[e] = heard[s][e] + (IF e \in suppressed' THEN 1 ELSE 0)
          BY <1>1, <1>3, <1>8, <2>2 DEF HasHeard, Count
        <4>5. Swing(event, e) = IF event.e = e THEN Counted(event) ELSE 0  BY DEF Swing
        <4>6. Count(s)'[e] = Count(s)[e] + Swing(event, e)
          BY <1>4, <4>3, <4>4, <4>5
        <4>. QED  BY <4>3, <4>6
      <3>. QED  BY <1>3, <1>7, <1>8, <2>2, <3>1 DEF HasHeard, Follows, Inbox, members
    <2>. QED  BY <2>1, <2>2
  <1>9. Histories'  BY <1>3, <1>8 DEF IInv, Histories, Listens
  <1>10. ASSUME NEW o \in unheard PROVE StillToHear(o[1], o[2], o[3])'
    <2>1. StillToHear(o[1], o[2], o[3])  BY DEF IInv, Debts
    <2>2. ASSUME o[1] = This, Arriving(Inbox, at, o[2], o[3])
          PROVE  Arriving(Inbox, at + 1, o[2], o[3])
      <3>1. PICK i \in at..Len(Inbox) :
              Inbox[i].kind = "update" /\ Inbox[i].e = o[2] /\ Inbox[i].c = o[3]
        BY <2>2 DEF Arriving
      <3>2. o[2] \in members  BY <2>1, <2>2 DEF StillToHear, members
      <3>3. i # at
        <4>1. ASSUME i = at PROVE event.kind = "update" /\ event.e = o[2]
          BY <3>1, <4>1 DEF event
        <4>. QED  BY <1>4, <3>2, <4>1
      <3>4. i \in (at + 1)..Len(Inbox)  BY <1>2, <3>3
      <3>. QED  BY <3>1, <3>4 DEF Arriving
    <2>3. o[1] \in SystemNames  BY <2>1 DEF StillToHear
    <2>4. CASE o[1] # This
      BY <1>3, <1>7, <2>1, <2>3, <2>4 DEF StillToHear
    <2>5. CASE o[1] = This
      BY <1>2, <1>3, <1>7, <2>1, <2>2, <2>5 DEF StillToHear, Inbox
    <2>. QED  BY <2>4, <2>5
  <1>11. Debts'  BY <1>3, <1>10 DEF IInv, Debts
  <1>. QED  BY <1>5, <1>6, <1>9, <1>11 DEF IInv

\* The world of the system that runs, and the same with its inbox drained.
LEMMA WorldsResemble ==
  ASSUME IInv, turn \in 1..Len(pipeline)
  PROVE  LET emptied == [world EXCEPT !.systems[This] = Drained(@)] IN
         /\ Resembles(world) /\ Resembles(emptied)
         /\ This \in SystemNames /\ emptied.systems[This].inbox = <<>>
         /\ \A s \in SystemNames \ {This} : emptied.systems[s] = world.systems[s]
  <1>. DEFINE emptied == [world EXCEPT !.systems[This] = Drained(@)]
              new == Drained(world.systems[This])
  <1>1. This \in SystemNames /\ WorldOK(world) /\ world \in Worlds
    BY DEF IInv, Typed, This, WorldOK
  <1>2. Resembles(world)  BY <1>1 DEF Resembles, SameData
  <1>3. emptied = WithSystem(world, This, new)  BY <1>1 DEF WithSystem, Worlds
  <1>4. /\ new \in SystemRecords /\ new.inbox = <<>>
        /\ new.status = world.systems[This].status /\ new.enabled = world.systems[This].enabled
    BY <1>1, SilencedIs DEF Worlds
  <1>. HIDE DEF emptied, new
  <1>5. /\ WorldOK(emptied) /\ SameData(world, emptied) /\ emptied.systems[This] = new
        /\ \A s \in SystemNames \ {This} :
             emptied.systems[s] = world.systems[s] /\ Members(emptied, s) = Members(world, s)
        /\ Members(emptied, This) = Members(world, This)
    BY <1>1, <1>3, <1>4, SystemSet
  <1>6. Resembles(emptied)  BY <1>4, <1>5 DEF Resembles
  <1>. QED  BY <1>1, <1>2, <1>4, <1>5, <1>6 DEF emptied

\* A callback is called, and calls.
LEMMA DispatchKeeps == IInv /\ Dispatch => IInv' /\ SaidOK'
  <1>. SUFFICES ASSUME IInv, Dispatch PROVE IInv' /\ SaidOK'
    OBVIOUS
  <1>. DEFINE event == Inbox[at]
              members == Members(world, This)
  <1>1. Draining /\ running /\ CallsBack(event)  BY DEF Dispatch, Draining
  <1>2. /\ turn \in 1..Len(pipeline) /\ This \in SystemNames
        /\ Inbox \in Seq(Events) /\ at \in 1..Len(Inbox) /\ event \in Events
        /\ From(This) = at /\ \A s \in SystemNames \ {This} : From(s) = 1
        /\ world.systems[This].enabled /\ Fits(event, This)
        /\ Stale(world, This, event) <=> event.e \notin members
    BY <1>1, Drains
  <1>3. PICK call \in Calls :
          /\ world' = WorldAfter(world, call)
          /\ queue' = Enqueued(world, call)
          /\ unheard' = StillOwed((unheard \ {<<This, event.e, event.c>>}) \cup Owed(call), world')
          /\ Pays(call) /\ Pauses(call)
    BY DEF Dispatch
  <1>4. /\ UNCHANGED <<scene, routing, pipeline, turn, running, suppressed>>
        /\ at' = at + 1 /\ This' = This
        /\ heard' = IF This \in paused THEN heard
                    ELSE [heard EXCEPT ![This][event.e] = @ + Counted(event)]
        /\ said' = [kind |-> event.kind, s |-> This, e |-> event.e, by |-> event.by,
                    member |-> event.e \in members, enabled |-> world.systems[This].enabled]
    BY DEF Dispatch, This
  <1>5. /\ event.e \in Entities
        /\ \/ event.kind = "enter" /\ event.e \in members /\ Counted(event) = 1
           \/ event.kind = "exit" /\ event.e \notin suppressed /\ Counted(event) = -1
           \/ event.kind = "update" /\ event.e \in members /\ Counted(event) = 0
    <2>1. ~Suppresses(event) /\ ~Pairs(event) /\ ~Drops(event)  BY <1>1 DEF CallsBack
    <2>. HIDE DEF event
    <2>. QED  BY <1>2, <2>1, CountedIs DEF Suppresses, Pairs, Drops
  <1>6. paused' = PausedAfter(call) /\ paused \subseteq paused'
    BY <1>3 DEF Pauses, PausedAfter
  <1>. HIDE DEF event, members
  <1>7. /\ WorldOK(world') /\ world'.comps = world.comps
        /\ Spares(world, world', paused')
        /\ queue' \in Seq(Changes) /\ DirtyIsComing(world', queue', 0)
        /\ \A i \in 1..Len(queue') : queue'[i].by = This
        /\ \A s, e, c : Waiting(queue, 0, s, e, c) => Waiting(queue', 0, s, e, c)
        /\ \A o \in Owed(call) :
             /\ o[1] \in SystemNames /\ o[2] \in Entities /\ o[3] \in Components
             /\ o[3] \in Watches(o[1]) /\ o[2] \in Members(world, o[1]) /\ o[3] \in world.comps[o[2]]
             /\ Waiting(queue', 0, o[1], o[2], o[3])
    <2>1. Resembles(world)  BY <1>2, WorldsResemble
    <2>. QED  BY <1>2, <1>3, <1>6, <2>1, CallDefers
  <1>8. Typed'
    <2>1. call \in AnyCall /\ left' \in 0..scene.budget
      BY <1>3, CallsAre DEF IInv, Typed, Pays
    <2>2. unheard' \subseteq SystemNames \X Entities \X Components
      BY <1>3, <2>1, OwedAre DEF StillOwed, IInv, Typed
    <2>3. heard' \in [SystemNames -> [Entities -> Int]]
      <3>1. heard \in [SystemNames -> [Entities -> Int]]  BY DEF IInv, Typed
      <3>2. Counted(event) \in Int  BY <1>5
      <3>. QED  BY <1>2, <1>4, <1>5, <3>1, <3>2
    <2>4. at' \in Nat \ {0}  BY <1>2, <1>4
    <2>. QED  BY <1>4, <1>7, <2>1, <2>2, <2>3, <2>4 DEF IInv, Typed
  <1>9. Scoped'
    <2>1. Members(world', This) \subseteq members
      BY <1>2, <1>7 DEF Spares, members
    <2>2. suppressed' \cap Members(world', This) = {}
      BY <1>1, <1>4, <2>1 DEF IInv, Scoped, members
    <2>. QED  BY <1>1, <1>2, <1>4, <1>7, <2>2 DEF Scoped
  <1>10. /\ From(This)' = at + 1
         /\ \A s \in SystemNames \ {This} : From(s)' = From(s) /\ Count(s)' = Count(s)
    <2>1. \A s \in SystemNames \ {This} : heard'[s] = heard[s]  BY <1>4 DEF IInv, Typed
    <2>. QED  BY <1>1, <1>2, <1>4, <2>1 DEF From, Count
  <1>11. ASSUME NEW s \in SystemNames \ paused'
         PROVE  /\ world'.systems[s].enabled /\ world'.systems[s].inbox = world.systems[s].inbox
                /\ Members(world', s) = Members(world, s)
    <2>1. world.systems[s].enabled  BY <1>6 DEF IInv, Histories
    <2>. QED  BY <1>7, <2>1 DEF Spares
  <1>12. ASSUME NEW s \in SystemNames \ paused', HasHeard(s) PROVE HasHeard(s)'
    <2>1. CASE s # This
      <3>1. heard'[s] = heard[s]  BY <1>4, <2>1 DEF IInv, Typed
      <3>. QED  BY <1>10, <1>11, <1>12, <2>1, <3>1 DEF HasHeard, Follows
    <2>2. CASE s = This
      <3>1. heard' = [heard EXCEPT ![This][event.e] = @ + Counted(event)]
        BY <1>4, <1>6, <1>12, <2>2
      <3>2. ASSUME NEW e \in Entities
            PROVE  /\ Leads(Inbox, at + 1, Count(s)'[e], In(e, members), e)
                   /\ heard'[s][e] \in {0, 1}
        <4>1. Leads(Inbox, at, Count(s)[e], In(e, members), e)
          BY <1>2, <1>12, <2>2 DEF HasHeard, Follows, Inbox, members
        <4>2. at <= Len(Inbox) /\ Inbox[at] = event  BY <1>2 DEF event
        <4>3. /\ Count(s)[e] + Swing(event, e) \in {0, 1}
              /\ Leads(Inbox, at + 1, Count(s)[e] + Swing(event, e), In(e, members), e)
          BY <1>2, <4>1, <4>2, LeadsOn
        <4>4. Swing(event, e) = IF event.e = e THEN Counted(event) ELSE 0  BY DEF Swing
        <4>5. heard'[s][e] = heard[s][e] + Swing(event, e)
          <5>1. heard \in [SystemNames -> [Entities -> Int]]  BY DEF IInv, Typed
          <5>. QED  BY <1>2, <1>5, <2>2, <3>1, <4>4, <5>1
        <4>6. /\ heard[s][e] \in {0, 1}
              /\ Count(s)[e] = heard[s][e] + (IF e \in suppressed THEN 1 ELSE 0)
              /\ Count(s)'[e] = heard'[s][e] + (IF e \in suppressed THEN 1 ELSE 0)
          BY <1>1, <1>4, <1>12, <2>2 DEF HasHeard, Count
        <4>7. Count(s)'[e] = Count(s)[e] + Swing(event, e)
          BY <1>5, <4>4, <4>5, <4>6
        <4>8. heard'[s][e] \in {0, 1}
          BY <1>5, <4>3, <4>4, <4>5, <4>6
        <4>. QED  BY <4>3, <4>7, <4>8
      <3>. QED  BY <1>4, <1>10, <1>11, <2>2, <3>2 DEF HasHeard, Follows, Inbox, members
    <2>. QED  BY <2>1, <2>2
  <1>13. Histories'  BY <1>6, <1>11, <1>12 DEF IInv, Histories, Listens
  <1>14. ASSUME NEW o \in unheard' PROVE StillToHear(o[1], o[2], o[3])'
    <2>1. /\ o \in (unheard \ {<<This, event.e, event.c>>}) \cup Owed(call)
          /\ world'.systems[o[1]].enabled /\ o[2] \in Members(world', o[1])
          /\ o[3] \in world'.comps[o[2]]
      BY <1>3 DEF StillOwed
    <2>2. CASE o \in Owed(call)
      BY <1>7, <2>1, <2>2 DEF StillToHear
    <2>3. CASE o \in unheard /\ o # <<This, event.e, event.c>>
      <3>1. StillToHear(o[1], o[2], o[3]) /\ o = <<o[1], o[2], o[3]>>
        BY <2>3 DEF IInv, Typed, Debts
      <3>2. o[1] \in SystemNames  BY <3>1 DEF StillToHear
      <3>3. world'.systems[o[1]].inbox = world.systems[o[1]].inbox
        BY <1>7, <2>1, <3>2 DEF Spares
      <3>4. CASE Waiting(queue, 0, o[1], o[2], o[3])
        BY <1>7, <2>1, <3>1, <3>4 DEF StillToHear
      <3>5. CASE o[1] # This /\ Arriving(world.systems[o[1]].inbox, From(o[1]), o[2], o[3])
        BY <1>10, <2>1, <3>1, <3>2, <3>3, <3>5 DEF StillToHear
      <3>6. CASE o[1] = This /\ Arriving(Inbox, at, o[2], o[3])
        <4>1. PICK i \in at..Len(Inbox) :
                Inbox[i].kind = "update" /\ Inbox[i].e = o[2] /\ Inbox[i].c = o[3]
          BY <3>6 DEF Arriving
        <4>2. i # at  BY <2>3, <3>1, <3>6, <4>1 DEF event
        <4>3. i \in (at + 1)..Len(Inbox)  BY <1>2, <4>2
        <4>4. Arriving(Inbox, at + 1, o[2], o[3])  BY <4>1, <4>3 DEF Arriving
        <4>5. From(o[1])' = at + 1 /\ world'.systems[o[1]].inbox = Inbox
          BY <1>4, <1>10, <3>3, <3>6 DEF Inbox
        <4>. QED  BY <2>1, <3>1, <4>4, <4>5 DEF StillToHear
      <3>7. \/ Arriving(world.systems[o[1]].inbox, From(o[1]), o[2], o[3])
            \/ Waiting(queue, 0, o[1], o[2], o[3])
        BY <3>1 DEF StillToHear
      <3>8. o[1] = This => (world.systems[o[1]].inbox = Inbox /\ From(o[1]) = at)
        BY <1>2 DEF Inbox
      <3>. QED  BY <3>4, <3>5, <3>6, <3>7, <3>8
    <2>. QED  BY <2>1, <2>2, <2>3
  <1>15. Debts'  BY <1>7, <1>14 DEF Debts
  <1>16. SaidOK'
    <2>1. /\ said'.kind = event.kind /\ said'.s = This /\ said'.by = event.by
          /\ said'.member = (event.e \in members) /\ said'.enabled
      BY <1>2, <1>4
    <2>2. event.kind = "update" => event.by \notin Ignores(This)  BY <1>2 DEF Fits
    <2>. QED  BY <1>5, <2>1, <2>2 DEF SaidOK, UpdatesReachMembers, DisabledIsSilent, NoEcho
  <1>. QED  BY <1>8, <1>9, <1>13, <1>15, <1>16 DEF IInv

\* The inbox of a system is drained, its run callback called and its queue drained.
LEMMA FinishKeeps == IInv /\ Finish => IInv'
  <1>. SUFFICES ASSUME IInv, Finish PROVE IInv'
    OBVIOUS
  <1>. DEFINE emptied == [world EXCEPT !.systems[This] = Drained(@)]
              members == Members(world, This)
  <1>1. running /\ turn \in 1..Len(pipeline) /\ at > Len(Inbox)
    BY DEF Finish, IInv, Scoped
  <1>2. /\ Resembles(emptied) /\ This \in SystemNames /\ emptied.systems[This].inbox = <<>>
        /\ \A s \in SystemNames \ {This} : emptied.systems[s] = world.systems[s]
    BY <1>1, WorldsResemble
  <1>3. PICK call \in Calls :
          /\ \/ EndsTurn(WorldAfter(emptied, call), Enqueued(emptied, call), turn + 1)
             \/ EndsTurn(WorldAfter(emptied, call), Enqueued(emptied, call), 0)
          /\ unheard' = StillOwed(unheard \cup Owed(call), world')
          /\ Pays(call) /\ Pauses(call)
    <2>1. Idle \in Calls  BY DEF Calls, MayCall, Idle
    <2>. HIDE DEF emptied
    <2>. QED  BY <2>1 DEF Finish, emptied
  <1>. HIDE DEF emptied
  <1>. DEFINE v == WorldAfter(emptied, call)
              q == Enqueued(emptied, call)
  <1>4. /\ world' = Flushed(v, q) /\ queue' = <<>> /\ routing' = NoSystem /\ running' = FALSE
        /\ at' = 1 /\ suppressed' = {} /\ turn' \in {0, turn + 1}
        /\ UNCHANGED <<scene, pipeline, heard>>
    BY <1>3 DEF Finish, EndsTurn, RoutingAfter
  <1>5. paused' = PausedAfter(call) /\ paused \subseteq paused'
    BY <1>3 DEF Pauses, PausedAfter
  <1>6. /\ WorldOK(world) /\ WorldOK(emptied) /\ emptied.comps = world.comps
        /\ queue \in Seq(Changes) /\ DirtyIsComing(emptied, queue, 0)
        /\ \A s \in SystemNames :
             /\ emptied.systems[s].enabled = world.systems[s].enabled
             /\ Members(emptied, s) = Members(world, s)
    BY <1>2 DEF Resembles, SameData, DirtyIsComing, IInv, Typed, Debts
  <1>7. Ready(emptied, queue, heard, paused, unheard)
    <2>1. ASSUME NEW s \in SystemNames \ paused, {"enter", "exit"} \subseteq Hears(s)
          PROVE  /\ \A e \in Entities : heard[s][e] \in {0, 1}
                 /\ Follows(emptied.systems[s], Members(emptied, s), 1, heard[s])
      <3>1. HasHeard(s)  BY <2>1 DEF IInv, Histories, Listens
      <3>2. CASE s # This
        <4>1. From(s) = 1 /\ \A e \in Entities : Count(s)[e] = heard[s][e]
          BY <3>1, <3>2 DEF From, Count, HasHeard
        <4>. QED  BY <1>2, <1>6, <3>1, <3>2, <4>1 DEF HasHeard, Follows
      <3>3. CASE s = This
        <4>1. Inbox \in Seq(Events) /\ Len(Inbox) \in Nat
          BY <1>2, <1>6, InboxesAre DEF WorldOK, Inbox
        <4>2. From(s) = at /\ suppressed \cap members = {}
          BY <1>1, <3>3 DEF From, IInv, Scoped, members
        <4>. DEFINE box == emptied.systems[s].inbox
        <4>3. box = <<>>  BY <1>2, <3>3
        <4>. HIDE DEF box, members
        <4>4. box \in Seq(Events)  BY <4>3
        <4>5. ASSUME NEW e \in Entities PROVE Leads(box, 1, heard[s][e], In(e, members), e)
          <5>1. Leads(Inbox, at, Count(s)[e], In(e, members), e)
            BY <3>1, <3>3, <4>2 DEF HasHeard, Follows, Inbox, members
          <5>2. at \in 1..(Len(Inbox) + 1)  BY <4>1, <5>1, LeadsEnds
          <5>3. at = Len(Inbox) + 1  BY <1>1, <4>1, <5>2
          <5>4. Leads(Inbox, Len(Inbox) + 1, Count(s)[e], In(e, members), e)  BY <5>1, <5>3
          <5>5. Count(s)[e] = In(e, members)  BY <4>1, <5>4, LeadsNowhere
          <5>6. /\ heard[s][e] \in {0, 1}
                /\ Count(s)[e] = heard[s][e] + (IF e \in suppressed THEN 1 ELSE 0)
            BY <1>1, <3>1, <3>3 DEF HasHeard, Count
          <5>7. heard[s][e] = In(e, members)  BY <4>2, <5>5, <5>6 DEF In
          <5>8. Leads(box, 1, heard[s][e], heard[s][e], e)  BY <4>3, <4>4, <5>6, LeadsEmpty
          <5>. QED  BY <5>7, <5>8
        <4>. QED  BY <1>6, <3>1, <3>3, <4>5 DEF HasHeard, Follows, box, members
      <3>. QED  BY <3>2, <3>3
    <2>2. \A s \in SystemNames \ paused : emptied.systems[s].enabled
      BY <1>6 DEF IInv, Histories
    <2>3. ASSUME NEW o \in unheard
          PROVE  /\ o[1] \in SystemNames /\ o[2] \in Entities /\ o[3] \in Components
                 /\ o[3] \in Watches(o[1]) /\ Owing(emptied, queue, 0, o[1], o[2], o[3])
      <3>1. StillToHear(o[1], o[2], o[3])  BY DEF IInv, Debts
      <3>2. CASE Waiting(queue, 0, o[1], o[2], o[3])
        BY <1>6, <3>1, <3>2 DEF StillToHear, Owing
      <3>3. CASE Arriving(world.systems[o[1]].inbox, From(o[1]), o[2], o[3])
        <4>1. o[1] # This
          <5>1. Len(Inbox) \in Nat /\ at \in Nat  BY <1>2, <1>6, InboxesAre DEF WorldOK, Inbox, IInv, Typed
          <5>2. \A i \in at..Len(Inbox) : FALSE  BY <1>1, <5>1
          <5>3. ~Arriving(Inbox, at, o[2], o[3])  BY <5>2 DEF Arriving
          <5>. QED  BY <1>1, <3>3, <5>3 DEF From, Inbox
        <4>2. Arriving(emptied.systems[o[1]].inbox, 1, o[2], o[3])
          BY <1>2, <3>1, <3>3, <4>1 DEF From, StillToHear
        <4>3. Hearing(emptied, o[1], o[2], o[3])  BY <4>2, EmptyOwes
        <4>. QED  BY <3>1, <4>3 DEF StillToHear, Owing
      <3>. QED  BY <3>1, <3>2, <3>3 DEF StillToHear
    <2>. QED  BY <1>6, <2>1, <2>2, <2>3 DEF Ready
  <1>8. \A o \in unheard : emptied.systems[o[1]].enabled
    BY <1>6 DEF IInv, Debts, StillToHear
  <1>9. /\ WorldOK(v) /\ v.comps = emptied.comps
        /\ Spares(emptied, v, paused')
        /\ q \in Seq(Changes) /\ DirtyIsComing(v, q, 0)
        /\ \A s, e, c : Waiting(queue, 0, s, e, c) => Waiting(q, 0, s, e, c)
        /\ \A o \in Owed(call) :
             /\ o[1] \in SystemNames /\ o[2] \in Entities /\ o[3] \in Components
             /\ o[3] \in Watches(o[1]) /\ o[2] \in Members(emptied, o[1])
             /\ o[3] \in emptied.comps[o[2]]
             /\ Waiting(q, 0, o[1], o[2], o[3])
    BY <1>1, <1>2, <1>5, CallDefers
  <1>. HIDE DEF v, q
  <1>10. Ready(v, q, heard, paused', unheard \cup Owed(call))
    BY <1>5, <1>7, <1>8, <1>9, SparesReady
  <1>11. Settled(world', heard, paused', unheard')
    BY <1>3, <1>4, <1>10, DrainSettles
  <1>12. Typed'
    <2>1. call \in AnyCall /\ left' \in 0..scene.budget
      BY <1>3, CallsAre DEF IInv, Typed, Pays
    <2>2. unheard' \subseteq SystemNames \X Entities \X Components
      BY <1>3, <2>1, OwedAre DEF StillOwed, IInv, Typed
    <2>3. WorldOK(world')  BY <1>11 DEF Settled, Ready
    <2>4. turn' \in 0..(Len(pipeline') + 1)  BY <1>1, <1>4 DEF IInv, Typed
    <2>. QED  BY <1>4, <2>1, <2>2, <2>3, <2>4 DEF IInv, Typed
  <1>13. Scoped' /\ Histories' /\ Debts'
    BY <1>4, <1>11, Rests DEF IInv, Typed
  <1>. QED  BY <1>12, <1>13 DEF IInv

-----------------------------------------------------------------------------
(* What follows.                                                            *)

\* Nothing happens.
LEMMA StutterKeeps == IInv /\ SaidOK /\ UNCHANGED vars => IInv' /\ SaidOK'
  <1>. SUFFICES ASSUME IInv, SaidOK, UNCHANGED vars PROVE IInv' /\ SaidOK'
    OBVIOUS
  <1>1. UNCHANGED <<scene, world, queue, routing, pipeline, turn, running, at, suppressed, left, heard,
                    paused, unheard, said>>
    BY DEF vars, frameVars
  <1>2. Typed'  BY <1>1 DEF IInv, Typed
  <1>3. Scoped'  BY <1>1 DEF IInv, Scoped, This
  <1>4. \A s \in SystemNames : From(s)' = From(s) /\ Count(s)' = Count(s)
    BY <1>1 DEF From, Count, This
  <1>5. Histories'  BY <1>1, <1>4 DEF IInv, Histories, HasHeard, Listens
  <1>6. Debts'  BY <1>1, <1>4 DEF IInv, Debts, StillToHear
  <1>7. SaidOK'  BY <1>1 DEF SaidOK, UpdatesReachMembers, DisabledIsSilent, NoEcho
  <1>. QED  BY <1>2, <1>3, <1>5, <1>6, <1>7 DEF IInv

\* Between any two steps of a frame, what is in the inboxes and in the queue leads
\* from what the systems were told to what they are owed, and no step says what is
\* not so (World.progress, System._runDeferred, Deferred._processCommandQueue).
THEOREM SystemsInductive == Spec => [](IInv /\ SaidOK)
  <1>1. Init => IInv /\ SaidOK  BY InitIs
  <1>2. IInv /\ SaidOK /\ [Next]_vars => IInv' /\ SaidOK'
    <2>. SUFFICES ASSUME IInv, SaidOK, [Next]_vars PROVE IInv' /\ SaidOK'
      OBVIOUS
    <2>1. CASE Act
      BY <2>1, ActKeeps, NothingIsSaid DEF Act
    <2>2. CASE BeginFrame
      BY <2>2, BeginFrameKeeps, NothingIsSaid DEF BeginFrame
    <2>3. CASE Skip
      BY <2>3, SkipKeeps, NothingIsSaid DEF Skip
    <2>4. CASE Start
      BY <2>4, StartKeeps, NothingIsSaid DEF Start
    <2>5. CASE PassOver
      BY <2>5, PassOverKeeps, NothingIsSaid DEF PassOver
    <2>6. CASE Dispatch
      BY <2>6, DispatchKeeps
    <2>7. CASE Finish
      BY <2>7, FinishKeeps, NothingIsSaid DEF Finish
    <2>8. CASE EndFrame
      BY <2>8, EndFrameKeeps, NothingIsSaid DEF EndFrame
    <2>9. CASE UNCHANGED vars
      BY <2>9, StutterKeeps
    <2>. QED  BY <2>1, <2>2, <2>3, <2>4, <2>5, <2>6, <2>7, <2>8, <2>9 DEF Next
  <1>. QED  BY <1>1, <1>2, PTL DEF Spec

\* The callbacks of a system tell the history of its members, in whatever order
\* systems are built, told and disabled, whatever their callbacks change and
\* whether or not one throws: for every set of systems and every application
\* (System, Query._notifyEntered, World.progress).
THEOREM SystemsHearTheirMembers == Spec => []HeardAgrees
  <1>1. IInv /\ SaidOK => HeardAgrees
    <2>. SUFFICES ASSUME IInv, SaidOK PROVE HeardAgrees
      OBVIOUS
    <2>1. WorldOK(world) /\ world \in Worlds  BY DEF IInv, Typed, WorldOK
    <2>2. TypeOK
      <3>1. \A e \in Entities : world.comps[e] \subseteq Components /\ world.dirty[e] \subseteq Components
        BY <2>1 DEF Worlds
      <3>2. ASSUME NEW s \in SystemNames, NEW i \in 1..Len(world.systems[s].inbox)
            PROVE  LET event == world.systems[s].inbox[i]
                   IN (event.kind = "update" /\ event.c \in Watches(s)) \/ event.kind \in Hears(s)
        BY <2>1, <3>2 DEF WorldOK, SystemOK, Fits
      <3>3. running => This \in SystemNames  BY DEF IInv, Typed, Scoped, This
      <3>. QED  BY <3>1, <3>2, <3>3 DEF TypeOK, IInv, Typed
    <2>3. EntersAlternate
      <3>1. \A s \in SystemNames : Listens(s) => \A e \in Entities : heard[s][e] \in {0, 1}
        BY DEF IInv, Histories, HasHeard
      <3>. QED  BY <3>1 DEF EntersAlternate
    <2>4. HeardIsMembership
      <3>1. ASSUME NEW s \in SystemNames, Listens(s), world.systems[s].inbox = <<>>,
                   NEW e \in Entities
            PROVE  heard[s][e] = 1 <=> e \in Members(world, s)
        <4>. DEFINE box == world.systems[s].inbox
        <4>1. box \in Seq(Events) /\ Len(box) = 0 /\ HasHeard(s)
          BY <2>1, <3>1, InboxesAre DEF IInv, Histories
        <4>2. Leads(box, From(s), Count(s)[e], In(e, Members(world, s)), e)
          BY <4>1 DEF HasHeard, Follows
        <4>. HIDE DEF box
        <4>3. From(s) \in 1..(Len(box) + 1)  BY <4>1, <4>2, LeadsEnds
        <4>4. From(s) = Len(box) + 1  BY <4>1, <4>3
        <4>5. Count(s)[e] = In(e, Members(world, s))
          <5>1. Leads(box, Len(box) + 1, Count(s)[e], In(e, Members(world, s)), e)
            BY <4>2, <4>4
          <5>. QED  BY <4>1, <5>1, LeadsNowhere
        <4>6. /\ heard[s][e] \in {0, 1}
              /\ Count(s)[e] =
                   heard[s][e] + (IF running /\ s = This /\ e \in suppressed THEN 1 ELSE 0)
          BY <4>1 DEF HasHeard, Count
        <4>7. running /\ s = This /\ e \in suppressed => e \notin Members(world, s)
          BY DEF IInv, Scoped
        <4>. QED  BY <4>5, <4>6, <4>7 DEF In
      <3>2. \A s \in SystemNames : Members(world, s) \subseteq Entities  BY MembersAre
      <3>. QED  BY <3>1, <3>2 DEF HeardIsMembership
    <2>. QED  BY <2>2, <2>3, <2>4 DEF HeardAgrees, SaidOK
  <1>. QED  BY <1>1, SystemsInductive, PTL

\* Every write reaches the systems that watch it: none is swallowed by a mark that
\* stays, by systems that come and go in the middle of a frame or by an entity
\* that leaves and comes back (EntityComponents.modified, World.flush).
THEOREM WritesAreNotLost == Spec => []NoWriteIsLost
  <1>1. IInv => NoWriteIsLost
    <2>. SUFFICES ASSUME IInv PROVE NoWriteIsLost
      OBVIOUS
    <2>1. ASSUME queue = <<>>, NEW o \in unheard PROVE world.systems[o[1]].inbox # <<>>
      <3>1. StillToHear(o[1], o[2], o[3])  BY <2>1 DEF IInv, Debts
      <3>2. ~Waiting(queue, 0, o[1], o[2], o[3])  BY <2>1 DEF Waiting
      <3>3. Arriving(world.systems[o[1]].inbox, From(o[1]), o[2], o[3])
        BY <3>1, <3>2 DEF StillToHear
      <3>4. From(o[1]) \in Nat \ {0}  BY DEF From, IInv, Typed
      <3>5. PICK i \in From(o[1])..Len(world.systems[o[1]].inbox) : TRUE  BY <3>3 DEF Arriving
      <3>6. Len(<<>>) = 0  OBVIOUS
      <3>. QED  BY <3>4, <3>5, <3>6
    <2>2. WritesAreHeard  BY <2>1 DEF WritesAreHeard
    <2>3. DirtyIsQueued  BY DEF IInv, Debts, DirtyIsComing, DirtyIsQueued
    <2>. QED  BY <2>2, <2>3 DEF NoWriteIsLost
  <1>. QED  BY <1>1, SystemsInductive, PTL

\* No system hears of an update made by one that it ignores (System.ignoreSource).
THEOREM NoUpdateEchoes == Spec => []NoEcho
  <1>1. SaidOK => NoEcho  BY DEF SaidOK
  <1>. QED  BY <1>1, SystemsInductive, PTL

-----------------------------------------------------------------------------
(* Tick sources: chains of any length.                                      *)

\* How far a source is from the end of its chain.
IsDepth(depth) ==
  /\ depth \in [Sources -> Nat]
  /\ \A s \in Sources : Upstream(s) \in Sources => depth[Upstream(s)] < depth[s]

\* Every chain of sources ends, at an interval or at the frames.
LEMMA SourcesEnd ==
  /\ \E depth : \E n \in Nat : IsDepth(depth) /\ \A s \in Sources : depth[s] <= n
  /\ \A s \in Sources : /\ s # FrameClock
                        /\ IsInterval(s) \/ Upstream(s) \in Sources \cup {FrameClock}
                        /\ IsInterval(s) => Upstream(s) \notin Sources \cup {FrameClock}
  <1>1. Cardinality(Sources) \in Nat  BY TimersAssumption, FS_CardinalityType
  <1>2. PICK depth \in [Sources -> 0..Cardinality(Sources)] :
          \A s \in Sources : Upstream(s) \in Sources => depth[Upstream(s)] < depth[s]
    BY TimersAssumption
  <1>3. IsDepth(depth) /\ \A s \in Sources : depth[s] <= Cardinality(Sources)
    BY <1>1, <1>2 DEF IsDepth
  <1>4. \A s \in Sources : /\ s # FrameClock
                           /\ IsInterval(s) \/ Upstream(s) \in Sources \cup {FrameClock}
                           /\ IsInterval(s) => Upstream(s) \notin Sources \cup {FrameClock}
    BY TimersAssumption DEF IsInterval
  <1>. QED  BY <1>1, <1>3, <1>4

\* What fails for a source only if it fails for its upstream holds for all.
LEMMA NoLowestSource ==
  ASSUME NEW Bad, Bad \subseteq Sources,
         \A s \in Bad : Upstream(s) \in Bad
  PROVE  Bad = {}
  <1>. SUFFICES ASSUME Bad # {} PROVE FALSE
    OBVIOUS
  <1>1. PICK depth : IsDepth(depth)  BY SourcesEnd
  <1>. DEFINE depths == {depth[s] : s \in Bad}
  <1>2. depths \subseteq Nat /\ depths # {}  BY <1>1 DEF IsDepth
  <1>3. PICK m \in depths : \A n \in depths : m <= n  BY <1>2, LeastMember
  <1>4. PICK s \in Bad : m = depth[s]  BY <1>3
  <1>5. depth[Upstream(s)] \in depths /\ depth[Upstream(s)] < depth[s]
    BY <1>1, <1>4 DEF IsDepth
  <1>6. depth[s] \in Nat /\ depth[Upstream(s)] \in Nat  BY <1>1, <1>4 DEF IsDepth
  <1>7. m <= depth[Upstream(s)]  BY <1>3, <1>5
  <1>. QED  BY <1>4, <1>5, <1>6, <1>7

\* ---- the end of a chain
IsTop(top) ==
  top = [r \in Sources |-> IF Upstream(r) \in Sources THEN top[Upstream(r)]
                           ELSE IF IsInterval(r) THEN r ELSE FrameClock]

\* The end of a chain is defined by recursion along it, and there is one.
LEMMA TopExists == \E top : IsTop(top)
  <1>0. PICK depth : \E n \in Nat : IsDepth(depth) /\ \A s \in Sources : depth[s] <= n
    BY SourcesEnd, Zenon
  <1>1. PICK n \in Nat : IsDepth(depth) /\ \A s \in Sources : depth[s] <= n
    BY <1>0
  <1>. DEFINE Low(k) == {r \in Sources : depth[r] < k}
              Good(top, k) ==
                top = [r \in Low(k) |-> IF Upstream(r) \in Sources THEN top[Upstream(r)]
                                        ELSE IF IsInterval(r) THEN r ELSE FrameClock]
              Bad == {k \in 0..n + 1 : ~ \E top : Good(top, k)}
  <1>2. ASSUME NEW k \in Bad PROVE k # 0 /\ k - 1 \in Bad
    <2>1. \E top : Good(top, 0)
      <3>1. Low(0) = {}  BY <1>1 DEF IsDepth
      <3>2. Good([r \in {} |-> r], 0)  BY <3>1
      <3>. QED  BY <3>2
    <2>2. k # 0 /\ k \in Nat /\ k - 1 \in 0..n + 1  BY <1>2, <2>1
    <2>3. ASSUME NEW top, Good(top, k - 1) PROVE \E new : Good(new, k)
      <3>. DEFINE new == [r \in Low(k) |-> IF Upstream(r) \in Sources THEN top[Upstream(r)]
                                           ELSE IF IsInterval(r) THEN r ELSE FrameClock]
      <3>1. ASSUME NEW r \in Low(k - 1) PROVE r \in Low(k) /\ new[r] = top[r]
        <4>1. r \in Low(k)  BY <1>1, <2>2, <3>1 DEF IsDepth
        <4>. QED  BY <2>3, <3>1, <4>1
      <3>2. ASSUME NEW r \in Low(k), Upstream(r) \in Sources PROVE Upstream(r) \in Low(k - 1)
        BY <1>1, <2>2, <3>2 DEF IsDepth
      <3>3. \A r \in Low(k) : Upstream(r) \in Sources => top[Upstream(r)] = new[Upstream(r)]
        BY <3>1, <3>2
      <3>. HIDE DEF Low
      <3>4. new = [r \in Low(k) |-> IF Upstream(r) \in Sources THEN new[Upstream(r)]
                                    ELSE IF IsInterval(r) THEN r ELSE FrameClock]
        BY <3>3
      <3>. QED  BY <3>4
    <2>. QED  BY <1>2, <2>2, <2>3
  <1>3. Bad = {}
    <2>1. Bad \subseteq 0..n + 1 /\ n + 1 \in Nat  OBVIOUS
    <2>. HIDE DEF Bad
    <2>. QED  BY <1>2, <2>1, NoLeastCounterexample
  <1>4. PICK top : Good(top, n + 1)
    <2>1. n + 1 \in 0..n + 1  OBVIOUS
    <2>. HIDE DEF Good
    <2>. QED  BY <1>3, <2>1
  <1>5. Low(n + 1) = Sources  BY <1>1 DEF IsDepth
  <1>. QED  BY <1>4, <1>5 DEF IsTop

\* A source runs with its upstream; a rate of the frames always does.
LEMMA RunsWithUpstream ==
  ASSUME NEW s \in Sources
  PROVE  /\ IsInterval(s) => (Runs(s) <=> clocks[s].running)
         /\ Upstream(s) \in Sources => (Runs(s) <=> Runs(Upstream(s)))
         /\ Upstream(s) = FrameClock => Runs(s)
  <1>. DEFINE top[r \in Sources] == IF Upstream(r) \in Sources THEN top[Upstream(r)]
                                    ELSE IF IsInterval(r) THEN r ELSE FrameClock
  <1>1. Top(s) = top[s] /\ Top(Upstream(s)) = top[Upstream(s)]  BY DEF Top
  <1>2. IsTop(top)
    <2>1. \E t : IsTop(t)  BY TopExists
    <2>. QED  BY <2>1 DEF IsTop, top
  <1>. HIDE DEF top
  <1>3. top[s] = IF Upstream(s) \in Sources THEN top[Upstream(s)]
                 ELSE IF IsInterval(s) THEN s ELSE FrameClock
    BY <1>2 DEF IsTop
  <1>4. /\ s # FrameClock /\ FrameClock \notin Sources
        /\ IsInterval(s) => Upstream(s) \notin Sources \cup {FrameClock}
    BY SourcesEnd, TimersAssumption
  <1>5. /\ IsInterval(s) => Top(s) = s
        /\ Upstream(s) \in Sources => Top(s) = Top(Upstream(s))
        /\ Upstream(s) = FrameClock => Top(s) \notin Sources
    BY <1>1, <1>3, <1>4
  <1>. QED  BY <1>5, Zenon DEF Runs

-----------------------------------------------------------------------------
(* One evaluation of a source.                                              *)

Clock == [ticked : BOOLEAN, running : BOOLEAN, evaluated : BOOLEAN,
          since : Nat, accumulator : Nat, delta : Nat]

IsEval(eval, c, now) ==
  eval = [r \in Sources \cup {FrameClock} |->
            IF r = FrameClock \/ c[r].evaluated THEN c
            ELSE LET seen == IF AsksUpstream(c, r) THEN eval[Upstream(r)] ELSE c
                 IN [seen EXCEPT ![r] = EvalOnce(seen, r, now)]]

\* So is the evaluation of a source.
LEMMA EvalExists ==
  ASSUME NEW c, NEW now
  PROVE  \E eval : IsEval(eval, c, now)
  <1>0. PICK depth : \E n \in Nat : IsDepth(depth) /\ \A s \in Sources : depth[s] <= n
    BY SourcesEnd, Zenon
  <1>1. PICK n \in Nat : IsDepth(depth) /\ \A s \in Sources : depth[s] <= n
    BY <1>0
  <1>. DEFINE Low(k) == {r \in Sources : depth[r] < k} \cup {FrameClock}
              Value(eval, r) ==
                IF r = FrameClock \/ c[r].evaluated THEN c
                ELSE LET seen == IF AsksUpstream(c, r) THEN eval[Upstream(r)] ELSE c
                     IN [seen EXCEPT ![r] = EvalOnce(seen, r, now)]
              Good(eval, k) == eval = [r \in Low(k) |-> Value(eval, r)]
              Bad == {k \in 0..n + 1 : ~ \E eval : Good(eval, k)}
  <1>2. ASSUME NEW k \in Bad PROVE k # 0 /\ k - 1 \in Bad
    <2>1. \E eval : Good(eval, 0)
      <3>1. Low(0) = {FrameClock}  BY <1>1 DEF IsDepth
      <3>2. Good([r \in {FrameClock} |-> c], 0)  BY <3>1
      <3>. QED  BY <3>2
    <2>2. k # 0 /\ k \in Nat /\ k - 1 \in 0..n + 1  BY <1>2, <2>1
    <2>3. ASSUME NEW eval, Good(eval, k - 1) PROVE \E new : Good(new, k)
      <3>. DEFINE new == [r \in Low(k) |-> Value(eval, r)]
      <3>1. ASSUME NEW r \in Low(k - 1) PROVE r \in Low(k) /\ new[r] = eval[r]
        <4>1. r \in Low(k)  BY <1>1, <2>2, <3>1 DEF IsDepth
        <4>. HIDE DEF Value
        <4>. QED  BY <2>3, <3>1, <4>1
      <3>2. ASSUME NEW r \in Low(k), r # FrameClock, AsksUpstream(c, r)
            PROVE  Upstream(r) \in Low(k - 1)
        <4>1. r \in Sources /\ depth[r] < k  BY <3>2
        <4>2. Upstream(r) \in Sources \cup {FrameClock}
          BY <3>2, <4>1, SourcesEnd DEF AsksUpstream
        <4>. QED  BY <1>1, <2>2, <4>1, <4>2 DEF IsDepth
      <3>3. ASSUME NEW r \in Low(k) PROVE Value(eval, r) = Value(new, r)
        <4>1. (r # FrameClock /\ AsksUpstream(c, r)) => eval[Upstream(r)] = new[Upstream(r)]
          BY <3>1, <3>2
        <4>. HIDE DEF Low, new
        <4>. QED  BY <4>1
      <3>. HIDE DEF Low, Value
      <3>4. new = [r \in Low(k) |-> Value(new, r)]
        BY <3>3
      <3>. QED  BY <3>4
    <2>. QED  BY <1>2, <2>2, <2>3
  <1>3. Bad = {}
    <2>1. Bad \subseteq 0..n + 1 /\ n + 1 \in Nat  OBVIOUS
    <2>. HIDE DEF Bad
    <2>. QED  BY <1>2, <2>1, NoLeastCounterexample
  <1>4. PICK eval : Good(eval, n + 1)
    <2>1. n + 1 \in 0..n + 1  OBVIOUS
    <2>. HIDE DEF Good
    <2>. QED  BY <1>3, <2>1
  <1>5. Low(n + 1) = Sources \cup {FrameClock}  BY <1>1 DEF IsDepth
  <1>. HIDE DEF Low
  <1>. QED  BY <1>4, <1>5 DEF IsEval

\* What an evaluation is, once those of its upstream are known.
LEMMA EvalTickIs ==
  ASSUME NEW c, NEW s \in Sources, NEW now
  PROVE  /\ c[s].evaluated => EvalTick(c, s, now) = c
         /\ ~c[s].evaluated =>
              LET seen == IF AsksUpstream(c, s) /\ Upstream(s) \in Sources
                          THEN EvalTick(c, Upstream(s), now) ELSE c
              IN EvalTick(c, s, now) = [seen EXCEPT ![s] = EvalOnce(seen, s, now)]
  <1>. DEFINE eval[r \in Sources \cup {FrameClock}] ==
                IF r = FrameClock \/ c[r].evaluated THEN c
                ELSE LET seen == IF AsksUpstream(c, r) THEN eval[Upstream(r)] ELSE c
                     IN [seen EXCEPT ![r] = EvalOnce(seen, r, now)]
  <1>1. EvalTick(c, s, now) = eval[s] /\ EvalTick(c, Upstream(s), now) = eval[Upstream(s)]
    BY DEF EvalTick
  <1>2. IsEval(eval, c, now)
    <2>1. \E e : IsEval(e, c, now)  BY EvalExists
    <2>. QED  BY <2>1 DEF IsEval, eval
  <1>. HIDE DEF eval
  <1>3. s # FrameClock /\ (IsInterval(s) \/ Upstream(s) \in Sources \cup {FrameClock})
    BY SourcesEnd
  <1>4. eval[FrameClock] = c  BY <1>2 DEF IsEval
  <1>5. eval[s] = IF c[s].evaluated THEN c
                  ELSE LET seen == IF AsksUpstream(c, s) THEN eval[Upstream(s)] ELSE c
                       IN [seen EXCEPT ![s] = EvalOnce(seen, s, now)]
    BY <1>2, <1>3 DEF IsEval
  <1>6. (AsksUpstream(c, s) /\ Upstream(s) \notin Sources) => eval[Upstream(s)] = c
    BY <1>3, <1>4 DEF AsksUpstream
  <1>. QED  BY <1>1, <1>5, <1>6

\* It is a clock again, evaluated, and it runs if it did.
LEMMA EvalOnceIs ==
  ASSUME NEW c \in [Sources -> Clock], NEW s \in Sources, NEW now \in Nat
  PROVE  /\ EvalOnce(c, s, now) \in Clock
         /\ EvalOnce(c, s, now).evaluated
         /\ EvalOnce(c, s, now).running = c[s].running
  <1>. DEFINE clock == [c[s] EXCEPT !.evaluated = TRUE]
  <1>1. c[s] \in Clock  OBVIOUS
  <1>2. clock \in Clock /\ clock.evaluated /\ clock.running = c[s].running
    BY <1>1 DEF Clock
  <1>. HIDE DEF clock
  <1>3. /\ [clock EXCEPT !.ticked = FALSE] \in Clock
        /\ [clock EXCEPT !.ticked = FALSE].evaluated
        /\ [clock EXCEPT !.ticked = FALSE].running = clock.running
    BY <1>2 DEF Clock
  <1>4. ASSUME NEW t \in Nat, NEW u \in Nat
        PROVE  /\ Advance(s, clock, t, u) \in Clock
               /\ Advance(s, clock, t, u).evaluated
               /\ Advance(s, clock, t, u).running = clock.running
    <2>0. clock.since \in Nat /\ clock.accumulator \in Nat /\ Every(s) \in Nat
      BY <1>2, TimersAssumption DEF Clock
    <2>1. clock.since + t \in Nat /\ clock.accumulator + u \in Nat /\ Every(s) \in Nat
      BY <2>0
    <2>2. clock.accumulator + u >= Every(s) => (clock.accumulator + u) - Every(s) \in Nat
      BY <2>1
    <2>. QED  BY <1>2, <2>1, <2>2 DEF Advance, Clock
  <1>5. ~IsInterval(s) => LastFireDelta(c, Upstream(s), now) \in Nat
    BY SourcesEnd DEF LastFireDelta, Clock
  <1>. QED  BY <1>2, <1>3, <1>4, <1>5 DEF EvalOnce, clock

\* It depends on the source and the upstream it asks.
LEMMA EvalOnceReads ==
  ASSUME NEW a, NEW b, NEW s \in Sources, NEW now, a[s] = b[s],
         (AsksUpstream(a, s) /\ Upstream(s) \in Sources) => a[Upstream(s)] = b[Upstream(s)]
  PROVE  EvalOnce(a, s, now) = EvalOnce(b, s, now)
  <1>1. CASE ~AsksUpstream(a, s)
    BY <1>1 DEF EvalOnce, AsksUpstream
  <1>2. CASE AsksUpstream(a, s)
    <2>1. /\ DidTick(a, Upstream(s)) <=> DidTick(b, Upstream(s))
          /\ LastFireDelta(a, Upstream(s), now) = LastFireDelta(b, Upstream(s), now)
      BY <1>2, SourcesEnd DEF DidTick, LastFireDelta, AsksUpstream
    <2>. QED  BY <1>2, <2>1 DEF EvalOnce, AsksUpstream
  <1>. QED  BY <1>1, <1>2

\* In a frame that began with the clocks c0: source t was evaluated once, and its
\* upstream before it.
Once(c0, c, t, now) ==
  /\ c[t] = EvalOnce([c EXCEPT ![t] = c0[t]], t, now)
  /\ (AsksUpstream(c0, t) /\ Upstream(t) \in Sources) => c[Upstream(t)].evaluated

Sound(c0, c, now) ==
  /\ c \in [Sources -> Clock]
  /\ \A t \in Sources : IF c[t].evaluated THEN Once(c0, c, t, now) ELSE c[t] = c0[t]

\* A source is evaluated when its upstream is, or needs none.
LEMMA OneMoreSource ==
  ASSUME NEW c0 \in [Sources -> Clock], NEW c, NEW now \in Nat, Sound(c0, c, now),
         NEW s \in Sources, ~c[s].evaluated,
         (AsksUpstream(c0, s) /\ Upstream(s) \in Sources) => c[Upstream(s)].evaluated
  PROVE  LET v == [c EXCEPT ![s] = EvalOnce(c, s, now)]
         IN Sound(c0, v, now) /\ v[s].evaluated /\ \A t \in Sources \ {s} : v[t] = c[t]
  <1>. DEFINE new == EvalOnce(c, s, now)
              v == [c EXCEPT ![s] = new]
  <1>1. c \in [Sources -> Clock] /\ c[s] = c0[s]  BY DEF Sound
  <1>2. new \in Clock /\ new.evaluated  BY <1>1, EvalOnceIs
  <1>. HIDE DEF new
  <1>3. /\ v \in [Sources -> Clock] /\ v[s] = new
        /\ \A t \in Sources \ {s} : v[t] = c[t]
    BY <1>1, <1>2
  <1>4. Upstream(s) # s
    <2>1. PICK depth : IsDepth(depth)  BY SourcesEnd
    <2>. QED  BY <2>1 DEF IsDepth
  <1>5. Once(c0, v, s, now)
    <2>1. [v EXCEPT ![s] = c0[s]] = c  BY <1>1, <1>3
    <2>2. Upstream(s) \in Sources => v[Upstream(s)] = c[Upstream(s)]  BY <1>3, <1>4
    <2>. HIDE DEF v
    <2>. QED  BY <1>3, <2>1, <2>2 DEF Once, new
  <1>6. ASSUME NEW t \in Sources, t # s, c[t].evaluated PROVE Once(c0, v, t, now)
    <2>1. Once(c0, c, t, now)  BY <1>6 DEF Sound
    <2>2. (AsksUpstream(c0, t) /\ Upstream(t) \in Sources) =>
             Upstream(t) # s /\ v[Upstream(t)] = c[Upstream(t)]
      BY <1>3, <2>1 DEF Once
    <2>. DEFINE a == [c EXCEPT ![t] = c0[t]]
                b == [v EXCEPT ![t] = c0[t]]
    <2>3. /\ a[t] = c0[t] /\ b[t] = c0[t]
          /\ \A r \in Sources \ {t} : a[r] = c[r] /\ b[r] = v[r]
      BY <1>1, <1>3
    <2>4. Upstream(t) # t
      <3>1. PICK depth : IsDepth(depth)  BY SourcesEnd
      <3>. QED  BY <3>1 DEF IsDepth
    <2>. HIDE DEF a, b, v
    <2>5. EvalOnce(a, t, now) = EvalOnce(b, t, now)
      <3>1. AsksUpstream(a, t) <=> AsksUpstream(c0, t)  BY <2>3 DEF AsksUpstream
      <3>2. (AsksUpstream(a, t) /\ Upstream(t) \in Sources) => a[Upstream(t)] = b[Upstream(t)]
        BY <2>2, <2>3, <2>4, <3>1
      <3>. QED  BY <2>3, <3>2, EvalOnceReads
    <2>. QED  BY <1>3, <1>6, <2>1, <2>2, <2>5 DEF Once, a, b
  <1>. HIDE DEF v
  <1>7. Sound(c0, v, now)  BY <1>2, <1>3, <1>5, <1>6 DEF Sound
  <1>. QED  BY <1>2, <1>3, <1>7 DEF v, new

\* An evaluation takes a source and what is upstream of it, and no other.
Advances(c0, c, v, s, now, depth) ==
  /\ Sound(c0, v, now) /\ v[s].evaluated
  /\ \A t \in Sources : c[t].evaluated => v[t] = c[t]
  /\ \A t \in Sources : depth[t] > depth[s] => v[t] = c[t]

\* Evaluating s keeps what holds within a frame.
LEMMA EvalAdvances ==
  ASSUME NEW c0 \in [Sources -> Clock], NEW c, NEW now \in Nat, Sound(c0, c, now),
         NEW depth, IsDepth(depth), NEW s \in Sources
  PROVE  Advances(c0, c, EvalTick(c, s, now), s, now, depth)
  <1>. DEFINE v(r) == EvalTick(c, r, now)
              Bad == {r \in Sources : ~Advances(c0, c, v(r), r, now, depth)}
  <1>1. ASSUME NEW r \in Sources,
               Upstream(r) \in Sources => Advances(c0, c, v(Upstream(r)), Upstream(r), now, depth)
        PROVE  Advances(c0, c, v(r), r, now, depth)
    <2>1. CASE c[r].evaluated
      <3>1. v(r) = c  BY <2>1, EvalTickIs
      <3>. HIDE DEF v
      <3>. QED  BY <2>1, <3>1 DEF Advances
    <2>2. CASE ~c[r].evaluated
      <3>. DEFINE asks == AsksUpstream(c, r) /\ Upstream(r) \in Sources
                  seen == IF asks THEN v(Upstream(r)) ELSE c
      <3>1. v(r) = [seen EXCEPT ![r] = EvalOnce(seen, r, now)]  BY <2>2, EvalTickIs
      <3>. HIDE DEF v
      <3>2. c[r] = c0[r]  BY <2>2 DEF Sound
      <3>3. /\ Sound(c0, seen, now)
            /\ asks => seen[Upstream(r)].evaluated
            /\ \A t \in Sources : c[t].evaluated => seen[t] = c[t]
            /\ \A t \in Sources : depth[t] >= depth[r] => seen[t] = c[t]
        <4>1. CASE ~asks
          BY <4>1
        <4>2. CASE asks
          <5>1. Advances(c0, c, seen, Upstream(r), now, depth)  BY <1>1, <4>2
          <5>2. depth[Upstream(r)] < depth[r] /\ depth \in [Sources -> Nat]
            BY <4>2 DEF IsDepth
          <5>3. \A t \in Sources : depth[t] >= depth[r] => depth[t] > depth[Upstream(r)]
            BY <4>2, <5>2
          <5>. HIDE DEF seen, asks
          <5>. QED  BY <5>1, <5>3 DEF Advances
        <4>. QED  BY <4>1, <4>2
      <3>4. seen[r] = c[r]  BY <3>3 DEF IsDepth
      <3>5. (AsksUpstream(c0, r) /\ Upstream(r) \in Sources) => asks
        BY <3>2 DEF AsksUpstream
      <3>. HIDE DEF seen, asks
      <3>6. (AsksUpstream(c0, r) /\ Upstream(r) \in Sources) => seen[Upstream(r)].evaluated
        BY <3>3, <3>5, Zenon
      <3>7. /\ Sound(c0, v(r), now) /\ v(r)[r].evaluated
            /\ \A t \in Sources \ {r} : v(r)[t] = seen[t]
        <4>. DEFINE w == [seen EXCEPT ![r] = EvalOnce(seen, r, now)]
        <4>1. ~seen[r].evaluated  BY <2>2, <3>4
        <4>2. Sound(c0, seen, now)  BY <3>3
        <4>3. /\ Sound(c0, w, now) /\ w[r].evaluated
              /\ \A t \in Sources \ {r} : w[t] = seen[t]
          BY <3>6, <4>1, <4>2, OneMoreSource
        <4>. QED  BY <3>1, <4>3
      <3>. QED  BY <2>2, <3>3, <3>7 DEF Advances, IsDepth
    <2>. QED  BY <2>1, <2>2
  <1>. HIDE DEF v
  <1>2. Bad = {}
    <2>1. \A r \in Bad : Upstream(r) \in Bad  BY <1>1
    <2>2. Bad \subseteq Sources  OBVIOUS
    <2>. HIDE DEF Bad
    <2>. QED  BY <2>1, <2>2, NoLowestSource
  <1>. QED  BY <1>2 DEF v

\* After beginFrame each source was evaluated once, its upstream before it.
LEMMA EvaluatedIs ==
  ASSUME NEW c \in [Sources -> Clock], NEW now \in Nat
  PROVE  LET c0 == [s \in Sources |-> [c[s] EXCEPT !.evaluated = FALSE]]
             v == Evaluated(c, now)
         IN Sound(c0, v, now) /\ \A s \in Sources : v[s].evaluated
  <1>. DEFINE c0 == [s \in Sources |-> [c[s] EXCEPT !.evaluated = FALSE]]
              n == Len(Registered)
              after[i \in 0..n] == IF i = 0 THEN c0
                                   ELSE EvalTick(after[i - 1], Registered[i], now)
              IsFold(a, k) == a = [i \in 0..k |-> IF i = 0 THEN c0
                                                  ELSE EvalTick(a[i - 1], Registered[i], now)]
  <1>1. Evaluated(c, now) = after[n]  BY DEF Evaluated
  <1>2. n \in Nat /\ \A i \in 1..n : Registered[i] \in Sources
    BY TimersAssumption
  <1>3. c0 \in [Sources -> Clock] /\ \A s \in Sources : ~c0[s].evaluated
    BY DEF Clock
  <1>. HIDE DEF c0, n
  <1>4. \E a : IsFold(a, n)
    <2>. DEFINE Bad == {k \in 0..n : ~ \E a : IsFold(a, k)}
    <2>1. ASSUME NEW k \in Bad PROVE k # 0 /\ k - 1 \in Bad
      <3>1. IsFold([i \in 0..0 |-> c0], 0)  OBVIOUS
      <3>2. \E a : IsFold(a, 0)  BY <3>1
      <3>3. k # 0 /\ k \in Nat /\ k - 1 \in 0..n
        <4>. HIDE DEF IsFold
        <4>. QED  BY <1>2, <2>1, <3>2
      <3>4. ASSUME NEW a, IsFold(a, k - 1) PROVE \E b : IsFold(b, k)
        <4>. DEFINE b == [i \in 0..k |-> IF i = k THEN EvalTick(a[k - 1], Registered[k], now)
                                         ELSE a[i]]
        <4>1. \A i \in 0..k : i # 0 => i - 1 \in 0..(k - 1) /\ b[i - 1] = a[i - 1]
          BY <3>3
        <4>2. \A i \in 0..k : i # k => i \in 0..(k - 1)  BY <3>3
        <4>3. IsFold(b, k)  BY <3>3, <3>4, <4>1, <4>2
        <4>. QED  BY <4>3
      <3>. QED  BY <2>1, <3>3, <3>4
    <2>2. Bad = {}
      <3>1. Bad \subseteq 0..n /\ n \in Nat  BY <1>2
      <3>. HIDE DEF Bad
      <3>. QED  BY <2>1, <3>1, NoLeastCounterexample
    <2>3. n \in 0..n  BY <1>2
    <2>. HIDE DEF IsFold
    <2>. QED  BY <2>2, <2>3
  <1>5. after = [i \in 0..n |-> IF i = 0 THEN c0 ELSE EvalTick(after[i - 1], Registered[i], now)]
    BY <1>4 DEF after
  <1>. HIDE DEF after
  <1>. DEFINE Done(i) == /\ Sound(c0, after[i], now)
                         /\ \A j \in 1..i : after[i][Registered[j]].evaluated
              Bad == {i \in 0..n : ~Done(i)}
  <1>6. ASSUME NEW i \in Bad PROVE i # 0 /\ i - 1 \in Bad
    <2>1. Done(0)
      <3>1. after[0] = c0  BY <1>2, <1>5
      <3>. HIDE DEF after
      <3>. QED  BY <1>3, <3>1 DEF Sound
    <2>2. i # 0 /\ i \in 1..n /\ i - 1 \in 0..n  BY <1>2, <1>6, <2>1
    <2>3. Done(i - 1) => Done(i)
      <3>. SUFFICES ASSUME Done(i - 1) PROVE Done(i)
        OBVIOUS
      <3>1. after[i] = EvalTick(after[i - 1], Registered[i], now)  BY <1>5, <2>2
      <3>2. PICK depth : IsDepth(depth)  BY SourcesEnd
      <3>3. Registered[i] \in Sources  BY <1>2, <2>2
      <3>4. Advances(c0, after[i - 1], after[i], Registered[i], now, depth)
        BY <1>3, <3>1, <3>2, <3>3, EvalAdvances
      <3>5. \A j \in 1..i : j = i \/ j \in 1..(i - 1)  BY <2>2
      <3>6. \A j \in 1..(i - 1) : Registered[j] \in Sources  BY <1>2, <2>2
      <3>. QED  BY <3>4, <3>5, <3>6 DEF Advances
    <2>. HIDE DEF Done
    <2>. QED  BY <1>6, <2>2, <2>3
  <1>7. Bad = {}
    <2>1. Bad \subseteq 0..n /\ n \in Nat  BY <1>2
    <2>. HIDE DEF Bad
    <2>. QED  BY <1>6, <2>1, NoLeastCounterexample
  <1>8. Done(n)
    <2>1. n \in 0..n  BY <1>2
    <2>. HIDE DEF Done
    <2>. QED  BY <1>7, <2>1
  <1>9. \A s \in Sources : after[n][s].evaluated
    <2>1. ASSUME NEW s \in Sources PROVE after[n][s].evaluated
      <3>1. PICK j \in 1..n : Registered[j] = s  BY TimersAssumption DEF n
      <3>. QED  BY <1>8, <3>1
    <2>. QED  BY <2>1
  <1>. QED  BY <1>1, <1>8, <1>9 DEF c0

-----------------------------------------------------------------------------
(* What the clocks say of the time.                                         *)

\* Remainders: tlapm knows the quotient, and that there is one remainder.
LEMMA RemainderIs ==
  ASSUME NEW a \in Nat, NEW e \in Nat \ {0}
  PROVE  a % e \in 0..(e - 1) /\ \E q \in Int : a = q * e + (a % e)
  <1>1. a % e = a - e * (a \div e)  BY Z3
  <1>2. a \div e \in Int /\ a % e \in 0..(e - 1)  OBVIOUS
  <1>. DEFINE q == a \div e
  <1>3. q \in Int /\ a % e = a - e * q  BY <1>1, <1>2
  <1>. HIDE DEF q
  <1>4. a = q * e + (a % e)  BY <1>2, <1>3
  <1>. QED  BY <1>2, <1>3, <1>4

\* A remainder is the only one.
LEMMA OneRemainder ==
  ASSUME NEW a \in Nat, NEW e \in Nat \ {0}, NEW q \in Int, NEW r \in 0..(e - 1), a = q * e + r
  PROVE  a % e = r
  OBVIOUS

\* What is carried over may be reduced before more is added.
LEMMA RemainderOfSum ==
  ASSUME NEW a \in Nat, NEW d \in Nat, NEW e \in Nat \ {0}
  PROVE  ((a % e) + d) % e = (a + d) % e
  <1>1. PICK q \in Int : a = q * e + (a % e)  BY RemainderIs
  <1>. DEFINE r == a % e
  <1>2. r \in Nat  BY RemainderIs
  <1>3. a = q * e + r  BY <1>1
  <1>. HIDE DEF r
  <1>. DEFINE x == r + d
              t == x % e
  <1>4. x \in Nat  BY <1>2
  <1>. HIDE DEF x
  <1>5. PICK p \in Int : x = p * e + t  BY <1>4, RemainderIs
  <1>6. t \in 0..(e - 1)  BY <1>4, RemainderIs
  <1>. HIDE DEF t
  <1>7. a + d = (q + p) * e + t
    <2>1. a + d = q * e + (p * e + t)
      <3>1. q * e \in Int /\ p * e \in Int  OBVIOUS
      <3>2. r + d = p * e + t  BY <1>5 DEF x
      <3>. QED  BY <1>2, <1>3, <1>6, <3>1, <3>2
    <2>2. (q + p) * e = q * e + p * e  OBVIOUS
    <2>3. q * e \in Int /\ p * e \in Int /\ t \in Int  BY <1>6
    <2>. QED  BY <2>1, <2>2, <2>3
  <1>8. (a + d) % e = t
    <2>1. a + d \in Nat /\ q + p \in Int  OBVIOUS
    <2>. QED  BY <1>6, <1>7, <2>1, OneRemainder
  <1>. QED  BY <1>8 DEF t, r, x

\* A whole interval leaves the remainder alone.
LEMMA RemainderOfDifference ==
  ASSUME NEW a \in Nat, NEW e \in Nat \ {0}, a >= e
  PROVE  (a - e) % e = a % e
  <1>1. a - e \in Nat  OBVIOUS
  <1>. DEFINE b == a - e
              r == b % e
  <1>. HIDE DEF b
  <1>2. PICK q \in Int : b = q * e + r  BY <1>1, RemainderIs DEF b
  <1>3. r \in 0..(e - 1)  BY <1>1, RemainderIs DEF b
  <1>. HIDE DEF r
  <1>4. a = (q + 1) * e + r  BY <1>1, <1>2, <1>3 DEF b
  <1>5. a % e = r
    <2>1. q + 1 \in Int  OBVIOUS
    <2>. QED  BY <1>3, <1>4, <2>1, OneRemainder
  <1>. QED  BY <1>5 DEF r, b

\* The time since s last ticked, as it is carried into the next frame.
Residue(s) == IF s \in Sources /\ ~clocks[s].ticked THEN elapsed[s] ELSE 0

\* The time since a rate last ticked is what it was handed by its upstream, and
\* what its upstream has still to hand on.
ClockInv ==
  /\ scene \in Scenes
  /\ clocks \in [Sources -> Clock] /\ elapsed \in [Sources -> Nat]
  /\ \A s \in Sources :
       /\ clocks[s].ticked => clocks[s].delta = elapsed[s]
       /\ IsInterval(s) => Residue(s) = clocks[s].since
       /\ ~IsInterval(s) => /\ clocks[s].running
                            /\ Residue(s) = clocks[s].since + Residue(Upstream(s))
  /\ NoDrift

\* What is stopped or started is an interval, and nothing else of it changes.
LEMMA CallsSpareClocks ==
  ASSUME ClockInv, NEW call \in Calls, clocks' = ClocksAfter(call),
         UNCHANGED <<scene, elapsed, phase>>
  PROVE  ClockInv'
  <1>1. /\ clocks' \in [Sources -> Clock]
        /\ \A s \in Sources :
             /\ clocks'[s].ticked = clocks[s].ticked /\ clocks'[s].since = clocks[s].since
             /\ clocks'[s].delta = clocks[s].delta
             /\ clocks'[s].accumulator = clocks[s].accumulator
             /\ ~IsInterval(s) => clocks'[s].running = clocks[s].running
    <2>1. CASE call.op \notin {"stop", "start"}
      BY <2>1 DEF ClocksAfter, ClockInv
    <2>2. CASE call.op \in {"stop", "start"}
      <3>1. call \in AnyCall
        BY PipelineAssumption DEF Calls, ClockInv, AnyCall
      <3>2. call.source \in Sources /\ IsInterval(call.source)
        BY <2>2, <3>1 DEF AnyCall, Idle, ChangeCalls, DestroyCalls, SystemCalls, ClockCalls
      <3>3. clocks[call.source] \in Clock  BY <3>2 DEF ClockInv
      <3>. DEFINE clock == [clocks[call.source] EXCEPT !.running = (call.op = "start")]
      <3>4. /\ clock \in Clock /\ clock.ticked = clocks[call.source].ticked
            /\ clock.since = clocks[call.source].since
            /\ clock.delta = clocks[call.source].delta
            /\ clock.accumulator = clocks[call.source].accumulator
        BY <3>3 DEF Clock
      <3>5. clocks' = [clocks EXCEPT ![call.source] = clock]  BY <2>2 DEF ClocksAfter
      <3>. HIDE DEF clock
      <3>. QED  BY <3>2, <3>4, <3>5 DEF ClockInv
    <2>. QED  BY <2>1, <2>2
  <1>2. elapsed' = elapsed /\ phase' = phase /\ scene' = scene  OBVIOUS
  <1>3. \A s : Residue(s)' = Residue(s)  BY <1>1, <1>2 DEF Residue
  <1>. QED  BY <1>1, <1>2, <1>3 DEF ClockInv, NoDrift

\* What an advance leaves.
LEMMA AdvanceIs ==
  ASSUME NEW s \in Sources, NEW clock \in Clock, NEW t \in Nat, NEW u \in Nat
  PROVE  LET v == Advance(s, clock, t, u)
         IN /\ v.ticked => v.delta = clock.since + t /\ v.since = 0
            /\ ~v.ticked => v.since = clock.since + t
            /\ v.running = clock.running
            /\ IsInterval(s) => v.accumulator % Every(s) = (clock.accumulator + u) % Every(s)
  <1>1. /\ clock.accumulator + u \in Nat /\ Every(s) \in Nat \ {0}
        /\ clock.since + t \in Nat
    <2>1. clock.accumulator \in Nat /\ clock.since \in Nat  BY DEF Clock
    <2>2. Every(s) \in Nat \ {0}  BY TimersAssumption
    <2>. QED  BY <2>1, <2>2
  <1>. DEFINE gathered == clock.accumulator + u
              since == clock.since + t
  <1>2. CASE gathered >= Every(s)
    <2>1. Advance(s, clock, t, u) =
            [clock EXCEPT !.ticked = TRUE, !.delta = since, !.since = 0,
               !.accumulator = IF IsInterval(s) THEN gathered - Every(s) ELSE 0]
      BY <1>2 DEF Advance
    <2>2. (gathered - Every(s)) % Every(s) = gathered % Every(s)
      BY <1>1, <1>2, RemainderOfDifference
    <2>. HIDE DEF gathered, since
    <2>. QED  BY <2>1, <2>2 DEF Clock, gathered, since
  <1>3. CASE ~(gathered >= Every(s))
    <2>1. Advance(s, clock, t, u) =
            [clock EXCEPT !.ticked = FALSE, !.since = since, !.accumulator = gathered]
      BY <1>3 DEF Advance
    <2>. HIDE DEF gathered, since
    <2>. QED  BY <2>1 DEF Clock, gathered, since
  <1>. QED  BY <1>2, <1>3

\* What a frame makes of each clock, given what it makes of its upstream.
Taken(s, now) ==
  LET delta == IF Upstream(s) \in Sources THEN clocks'[Upstream(s)].delta ELSE now
      hears == IsInterval(s) \/ (Upstream(s) \in Sources => clocks'[Upstream(s)].ticked)
      more  == IF IsInterval(s) THEN now ELSE delta
  IN IF clocks[s].running /\ hears
     THEN /\ clocks'[s].ticked => clocks'[s].delta = clocks[s].since + more /\ clocks'[s].since = 0
          /\ ~clocks'[s].ticked => clocks'[s].since = clocks[s].since + more
          /\ IsInterval(s) => clocks'[s].accumulator % Every(s)
                                 = (clocks[s].accumulator + now) % Every(s)
     ELSE /\ ~clocks'[s].ticked /\ clocks'[s].since = clocks[s].since
          /\ clocks'[s].accumulator = clocks[s].accumulator

\* Every source takes what its upstream hands it in the frame.
LEMMA FrameTakes ==
  ASSUME clocks \in [Sources -> Clock], NEW now \in Nat, clocks' = Evaluated(clocks, now),
         NEW s \in Sources
  PROVE  /\ clocks' \in [Sources -> Clock] /\ Taken(s, now)
         /\ clocks'[s].running = clocks[s].running
  <1>. DEFINE c0 == [r \in Sources |-> [clocks[r] EXCEPT !.evaluated = FALSE]]
              v == clocks'
              u == Upstream(s)
              seen == [v EXCEPT ![s] = c0[s]]
              clock == [seen[s] EXCEPT !.evaluated = TRUE]
  <1>1. Sound(c0, v, now) /\ \A r \in Sources : v[r].evaluated  BY EvaluatedIs
  <1>2. /\ c0[s] \in Clock /\ c0[s].running = clocks[s].running
        /\ c0[s].since = clocks[s].since /\ c0[s].accumulator = clocks[s].accumulator
    BY DEF Clock
  <1>. HIDE DEF c0
  <1>3. v \in [Sources -> Clock] /\ v[s] = EvalOnce(seen, s, now)
    BY <1>1 DEF Sound, Once
  <1>4. seen[s] = c0[s] /\ (u \in Sources => seen[u] = v[u])
    <2>1. u # s
      <3>1. PICK depth : IsDepth(depth)  BY SourcesEnd
      <3>. QED  BY <3>1 DEF IsDepth
    <2>. QED  BY <1>3, <2>1
  <1>. HIDE DEF seen
  <1>5. /\ clock \in Clock /\ clock.running = clocks[s].running
        /\ clock.since = clocks[s].since /\ clock.accumulator = clocks[s].accumulator
    BY <1>2, <1>4 DEF Clock
  <1>. HIDE DEF v
  <1>6. /\ ~IsInterval(s) => u \in Sources \cup {FrameClock}
        /\ IsInterval(s) => u \notin Sources
        /\ FrameClock \notin Sources
    BY SourcesEnd, TimersAssumption
  <1>7. CASE ~clock.running \/ (~IsInterval(s) /\ ~DidTick(seen, u))
    <2>1. v[s] = [clock EXCEPT !.ticked = FALSE]  BY <1>3, <1>7 DEF EvalOnce
    <2>2. /\ ~v[s].ticked /\ v[s].since = clocks[s].since /\ v[s].running = clocks[s].running
          /\ v[s].accumulator = clocks[s].accumulator
      BY <1>5, <2>1 DEF Clock
    <2>3. ~(clocks[s].running /\ (IsInterval(s) \/ (u \in Sources => v[u].ticked)))
      BY <1>4, <1>5, <1>7 DEF DidTick
    <2>. QED  BY <1>3, <2>2, <2>3 DEF Taken, v
  <1>8. CASE clock.running /\ IsInterval(s)
    <2>1. v[s] = Advance(s, clock, now, now)  BY <1>3, <1>8 DEF EvalOnce
    <2>. HIDE DEF clock
    <2>2. /\ v[s].ticked => v[s].delta = clock.since + now /\ v[s].since = 0
          /\ ~v[s].ticked => v[s].since = clock.since + now
          /\ v[s].running = clock.running
          /\ v[s].accumulator % Every(s) = (clock.accumulator + now) % Every(s)
      <3>. DEFINE w == Advance(s, clock, now, now)
      <3>1. /\ w.ticked => w.delta = clock.since + now /\ w.since = 0
            /\ ~w.ticked => w.since = clock.since + now
            /\ w.running = clock.running
            /\ IsInterval(s) => w.accumulator % Every(s) = (clock.accumulator + now) % Every(s)
        BY <1>5, AdvanceIs
      <3>. HIDE DEF w
      <3>2. v[s] = w  BY <2>1 DEF w
      <3>. QED  BY <1>8, <3>1, <3>2
    <2>. QED  BY <1>3, <1>5, <1>8, <2>2 DEF Taken, v
  <1>9. CASE clock.running /\ ~IsInterval(s) /\ DidTick(seen, u)
    <2>. DEFINE more == LastFireDelta(seen, u, now)
    <2>1. v[s] = Advance(s, clock, more, 1)  BY <1>3, <1>9 DEF EvalOnce
    <2>2. more = IF u \in Sources THEN v[u].delta ELSE now
      BY <1>4, <1>6, <1>9 DEF LastFireDelta
    <2>3. more \in Nat  BY <1>3, <2>2 DEF Clock
    <2>. HIDE DEF clock, more
    <2>4. /\ v[s].ticked => v[s].delta = clock.since + more /\ v[s].since = 0
          /\ ~v[s].ticked => v[s].since = clock.since + more
          /\ v[s].running = clock.running
      BY <1>5, <2>1, <2>3, AdvanceIs
    <2>5. u \in Sources => v[u].ticked  BY <1>4, <1>9 DEF DidTick
    <2>. QED  BY <1>3, <1>5, <1>9, <2>2, <2>4, <2>5 DEF Taken, v
  <1>. QED  BY <1>7, <1>8, <1>9

\* A frame keeps the sums of times.
LEMMA FrameKeepsClocks ==
  ASSUME ClockInv, BeginFrame
  PROVE  ClockInv'
  <1>1. PICK now \in scene.frames :
          /\ clocks' = Evaluated(clocks, now)
          /\ elapsed' = [s \in Sources |-> (IF clocks[s].ticked THEN 0 ELSE elapsed[s])
                                             + (IF Runs(s) THEN now ELSE 0)]
          /\ phase' = [s \in Sources |-> IF IsInterval(s) /\ Runs(s)
                                          THEN (phase[s] + now) % Every(s) ELSE phase[s]]
    BY DEF BeginFrame
  <1>2. scene \in Scenes /\ scene' = scene /\ now \in Nat
    BY PipelineAssumption DEF ClockInv, BeginFrame
  <1>3. /\ clocks \in [Sources -> Clock] /\ elapsed \in [Sources -> Nat]
        /\ \A s \in Sources : clocks[s].since \in Nat /\ Residue(s) \in Nat
    BY DEF ClockInv, Clock, Residue
  <1>4. /\ clocks' \in [Sources -> Clock]
        /\ \A s \in Sources : Taken(s, now) /\ clocks'[s].running = clocks[s].running
    <2>1. ASSUME NEW s \in Sources
          PROVE  /\ clocks' \in [Sources -> Clock] /\ Taken(s, now)
                 /\ clocks'[s].running = clocks[s].running
      BY <1>1, <1>2, <1>3, FrameTakes
    <2>2. Sources = {} => clocks' \in [Sources -> Clock]
      BY <1>1, <1>2, <1>3, EvaluatedIs DEF Sound
    <2>. QED  BY <2>1, <2>2
  <1>5. \A s \in Sources :
          elapsed'[s] = Residue(s) + (IF Runs(s) THEN now ELSE 0)
    BY <1>1 DEF Residue
  <1>6. elapsed' \in [Sources -> Nat]
    BY <1>1, <1>2, <1>3
  <1>7. \A s \in Sources : clocks'[s].since \in Nat  BY <1>4 DEF Clock
  <1>8. FrameClock \notin Sources  BY TimersAssumption
  <1>9. ASSUME NEW s \in Sources, IsInterval(s)
        PROVE  /\ clocks'[s].ticked => clocks'[s].delta = elapsed'[s]
               /\ Residue(s)' = clocks'[s].since
               /\ clocks'[s].accumulator % Every(s) = phase'[s]
    <2>1. Runs(s) <=> clocks[s].running  BY <1>9, RunsWithUpstream
    <2>2. Residue(s) = clocks[s].since  BY <1>9 DEF ClockInv
    <2>3. Taken(s, now)  BY <1>4
    <2>4. clocks[s].accumulator \in Nat /\ Every(s) \in Nat \ {0}
          /\ phase[s] = clocks[s].accumulator % Every(s)
      BY <1>3, <1>9, TimersAssumption DEF ClockInv, NoDrift, Clock
    <2>5. (phase[s] + now) % Every(s) = (clocks[s].accumulator + now) % Every(s)
      BY <1>2, <2>4, RemainderOfSum
    <2>6. CASE clocks[s].running
      <3>1. elapsed'[s] = clocks[s].since + now  BY <1>5, <2>1, <2>2, <2>6
      <3>2. phase'[s] = (phase[s] + now) % Every(s)  BY <1>1, <1>9, <2>1, <2>6
      <3>3. /\ clocks'[s].ticked => clocks'[s].delta = clocks[s].since + now /\ clocks'[s].since = 0
            /\ ~clocks'[s].ticked => clocks'[s].since = clocks[s].since + now
            /\ clocks'[s].accumulator % Every(s) = (clocks[s].accumulator + now) % Every(s)
        BY <1>9, <2>3, <2>6 DEF Taken
      <3>. QED  BY <2>5, <3>1, <3>2, <3>3 DEF Residue
    <2>7. CASE ~clocks[s].running
      <3>1. elapsed'[s] = clocks[s].since  BY <1>3, <1>5, <2>1, <2>2, <2>7
      <3>2. phase'[s] = phase[s]  BY <1>1, <1>9, <2>1, <2>7
      <3>3. /\ ~clocks'[s].ticked /\ clocks'[s].since = clocks[s].since
            /\ clocks'[s].accumulator = clocks[s].accumulator
        BY <2>3, <2>7 DEF Taken
      <3>. QED  BY <2>4, <3>1, <3>2, <3>3 DEF Residue
    <2>. QED  BY <2>6, <2>7
  <1>10. ASSUME NEW s \in Sources, ~IsInterval(s),
                Upstream(s) \in Sources =>
                  (clocks'[Upstream(s)].ticked =>
                     clocks'[Upstream(s)].delta = elapsed'[Upstream(s)])
         PROVE  /\ clocks'[s].ticked => clocks'[s].delta = elapsed'[s]
                /\ Residue(s)' = clocks'[s].since + Residue(Upstream(s))'
    <2>. DEFINE u == Upstream(s)
                handed == IF u \in Sources THEN elapsed'[u] ELSE now
    <2>1. u \in Sources \cup {FrameClock}  BY <1>10, SourcesEnd
    <2>2. Residue(s) = clocks[s].since + Residue(u) /\ clocks[s].running
      BY <1>10 DEF ClockInv
    <2>3. elapsed'[s] = clocks[s].since + handed
      <3>1. CASE u \in Sources
        <4>1. Runs(s) <=> Runs(u)  BY <3>1, RunsWithUpstream
        <4>2. /\ elapsed'[s] = Residue(s) + (IF Runs(s) THEN now ELSE 0)
              /\ elapsed'[u] = Residue(u) + (IF Runs(u) THEN now ELSE 0)
          BY <1>5, <3>1
        <4>3. clocks[s].since \in Nat /\ Residue(u) \in Nat  BY <1>3, <3>1
        <4>. QED  BY <1>2, <2>2, <3>1, <4>1, <4>2, <4>3
      <3>2. CASE u = FrameClock
        <4>1. Runs(s)  BY <3>2, RunsWithUpstream
        <4>2. Residue(u) = 0  BY <1>8, <3>2 DEF Residue
        <4>. QED  BY <1>2, <1>3, <1>5, <1>8, <2>2, <3>2, <4>1, <4>2
      <3>. QED  BY <2>1, <3>1, <3>2
    <2>4. Taken(s, now)  BY <1>4
    <2>5. CASE u \in Sources => clocks'[u].ticked
      <3>1. /\ clocks'[s].ticked => clocks'[s].delta = elapsed'[s] /\ clocks'[s].since = 0
            /\ ~clocks'[s].ticked => clocks'[s].since = elapsed'[s]
        BY <1>10, <2>2, <2>3, <2>4, <2>5 DEF Taken
      <3>2. Residue(u)' = 0  BY <2>5 DEF Residue
      <3>3. elapsed'[s] \in Nat  BY <1>6
      <3>. QED  BY <1>7, <3>1, <3>2, <3>3 DEF Residue
    <2>6. CASE u \in Sources /\ ~clocks'[u].ticked
      <3>1. ~clocks'[s].ticked /\ clocks'[s].since = clocks[s].since
        BY <1>10, <2>4, <2>6 DEF Taken
      <3>2. Residue(u)' = elapsed'[u] /\ Residue(s)' = elapsed'[s]  BY <2>6, <3>1 DEF Residue
      <3>. QED  BY <2>3, <2>6, <3>1, <3>2
    <2>. QED  BY <2>5, <2>6
  <1>. DEFINE Bad == {s \in Sources : ~(clocks'[s].ticked => clocks'[s].delta = elapsed'[s])}
  <1>11. Bad = {}
    <2>1. \A s \in Bad : Upstream(s) \in Bad  BY <1>9, <1>10
    <2>2. Bad \subseteq Sources  OBVIOUS
    <2>. HIDE DEF Bad
    <2>. QED  BY <2>1, <2>2, NoLowestSource
  <1>12. NoDrift'  BY <1>9 DEF NoDrift
  <1>13. \A s \in Sources : ~IsInterval(s) => clocks'[s].running
    BY <1>4 DEF ClockInv
  <1>. QED  BY <1>2, <1>4, <1>6, <1>9, <1>10, <1>11, <1>12, <1>13 DEF ClockInv

\* The clocks account for all the time that passed, in chains of rates of any length,
\* whichever source is evaluated first and whatever intervals are stopped and
\* started (IntervalTickSource, RateTickSource, World.progress).
THEOREM ClocksAreRight == Spec => []ClocksAgree
  <1>1. Init => ClockInv
    <2>. SUFFICES ASSUME Init PROVE ClockInv
      OBVIOUS
    <2>1. /\ clocks = [s \in Sources |-> NewClock] /\ elapsed = [s \in Sources |-> 0]
          /\ phase = [s \in Sources |-> 0] /\ scene \in Scenes
      BY DEF Init
    <2>2. \A s : Residue(s) = 0  BY <2>1 DEF Residue
    <2>3. NoDrift
      <3>1. \A s \in Sources : Every(s) \in Nat \ {0} /\ 0 = 0 * Every(s) + 0
        BY TimersAssumption
      <3>2. \A s \in Sources : 0 % Every(s) = 0  BY <3>1, OneRemainder
      <3>. QED  BY <2>1, <3>2 DEF NoDrift, NewClock
    <2>4. clocks \in [Sources -> Clock] /\ elapsed \in [Sources -> Nat]
      BY <2>1 DEF NewClock, Clock
    <2>. QED  BY <2>1, <2>2, <2>3, <2>4 DEF ClockInv, NewClock
  <1>2. ClockInv /\ [Next]_vars => ClockInv'
    <2>. SUFFICES ASSUME ClockInv, [Next]_vars PROVE ClockInv'
      OBVIOUS
    <2>1. CASE Act
      BY <2>1, CallsSpareClocks DEF Act
    <2>2. CASE BeginFrame
      BY <2>2, FrameKeepsClocks
    <2>3. CASE Dispatch
      BY <2>3, CallsSpareClocks DEF Dispatch
    <2>4. CASE Finish
      <3>1. Idle \in Calls  BY DEF Calls, MayCall, Idle
      <3>. QED  BY <2>4, <3>1, CallsSpareClocks DEF Finish
    <2>5. CASE Skip \/ Start \/ PassOver \/ EndFrame \/ UNCHANGED vars
      <3>1. UNCHANGED <<scene, clocks, elapsed, phase>>
        BY <2>5 DEF Skip, Start, PassOver, EndFrame, vars, frameVars
      <3>2. \A s : Residue(s)' = Residue(s)  BY <3>1 DEF Residue
      <3>. QED  BY <3>1, <3>2 DEF ClockInv, NoDrift
    <2>. QED  BY <2>1, <2>2, <2>3, <2>4, <2>5 DEF Next
  <1>3. ClockInv => ClocksAgree
    BY DEF ClockInv, ClocksAgree, DeltaIsElapsed
  <1>. QED  BY <1>1, <1>2, <1>3, PTL DEF Spec

================================================================================

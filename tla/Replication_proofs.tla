-------------------------- MODULE Replication_proofs --------------------------
(***************************************************************************)
(* Diffs, the client's buffer and replication, for every value of their    *)
(* constants.                                                              *)
(*                                                                         *)
(* First the operators on diffs and on the client's buffer: joining diffs  *)
(* tells the truth about the server's views, and a buffer fed with true    *)
(* diffs never fails and renders true views.  So for every history of      *)
(* views, of any length, of any number of entities and components,         *)
(* whatever spans of it arrive, in any order and any number of times, the  *)
(* client renders views the server had, and never goes back.               *)
(*                                                                         *)
(* Then Replication.  It implements AckProtocol: every step of the server, *)
(* the channel and the client with its buffer is a step of the protocol of *)
(* frame numbers, or leaves them alone, so what is proved of the protocol  *)
(* holds of the server and the client with their data.  And the client     *)
(* renders, at every version it reaches, the server's view of that frame.  *)
(***************************************************************************)
EXTENDS Replication, FiniteSetTheorems, WellFoundedInduction, TLAPS

-----------------------------------------------------------------------------
(* Recursion.                                                               *)

\* A nonempty set of naturals has a least member.
LEMMA LeastMember ==
  ASSUME NEW S, S \subseteq Nat, S # {}
  PROVE  \E m \in S : \A n \in S : m <= n
  <1>. DEFINE Less == OpToRel(<, Nat)
  <1>1. \A n, m \in Nat : <<n, m>> \in Less <=> n < m  BY DEF OpToRel
  <1>2. IsWellFoundedOn(Less, Nat)  BY NatLessThanWellFounded
  <1>. HIDE DEF Less
  <1>3. PICK m \in S : \A n \in S : ~ (<<n, m>> \in Less)  BY <1>2, WFMin
  <1>4. \A n \in S : ~ (n < m)  BY <1>1, <1>3, Zenon
  <1>5. \A n \in S : m <= n  BY <1>4
  <1>. QED  BY <1>5

\* What holds of 0, and of a number if it holds of the one before, holds of all:
\* a set of naturals that has no least member is empty.
LEMMA NoLeastCounterexample ==
  ASSUME NEW k \in Nat, NEW Bad, Bad \subseteq 0..k,
         \A n \in Bad : n # 0 /\ n - 1 \in Bad
  PROVE  Bad = {}
  <1>. SUFFICES ASSUME Bad # {} PROVE FALSE
    OBVIOUS
  <1>1. Bad \subseteq Nat  OBVIOUS
  <1>2. PICK m \in Bad : \A n \in Bad : m <= n  BY <1>1, LeastMember
  <1>. QED  BY <1>1, <1>2

\* The rounds of releaseHeld are well defined.
LEMMA RoundsExist ==
  ASSUME NEW buf, NEW k \in Nat
  PROVE  \E r : r = [n \in 0..k |-> IF n = 0 THEN buf ELSE ReleaseOne(r[n - 1])]
  <1>. DEFINE Rounds(j, r) == r = [n \in 0..j |-> IF n = 0 THEN buf ELSE ReleaseOne(r[n - 1])]
              Bad == {j \in 0..k : ~ \E r : Rounds(j, r)}
  <1>1. ASSUME NEW j \in Bad PROVE j # 0
    <2>1. Rounds(0, [n \in 0..0 |-> buf])  OBVIOUS
    <2>. QED  BY <1>1, <2>1
  <1>2. ASSUME NEW j \in Bad PROVE j - 1 \in Bad
    <2>. SUFFICES ASSUME j - 1 \notin Bad PROVE FALSE
      OBVIOUS
    <2>1. j \in Nat /\ j # 0 /\ j - 1 \in 0..k  BY <1>1
    <2>2. PICK r : Rounds(j - 1, r)  BY <2>1
    <2>. DEFINE s == [n \in 0..j |-> IF n = j THEN ReleaseOne(r[j - 1]) ELSE r[n]]
    <2>3. ASSUME NEW n \in 0..j
          PROVE  s[n] = IF n = 0 THEN buf ELSE ReleaseOne(s[n - 1])
      <3>1. CASE n = j
        <4>1. j - 1 \in 0..j /\ j - 1 # j  BY <2>1
        <4>. QED  BY <2>1, <3>1, <4>1
      <3>2. CASE n # j
        <4>1. n \in 0..j - 1 /\ (n # 0 => n - 1 \in 0..j /\ n - 1 # j)  BY <2>1, <3>2
        <4>2. s[n] = r[n] /\ (n # 0 => s[n - 1] = r[n - 1])  BY <3>2, <4>1
        <4>. HIDE DEF s
        <4>. QED  BY <2>2, <4>1, <4>2
      <3>. QED  BY <3>1, <3>2
    <2>4. Rounds(j, s)
      <3>1. s = [n \in 0..j |-> s[n]]  OBVIOUS
      <3>. HIDE DEF s
      <3>. QED  BY <2>3, <3>1
    <2>. QED  BY <2>4
  <1>. HIDE DEF Rounds
  <1>3. Bad = {}
    <2>1. Bad \subseteq 0..k  OBVIOUS
    <2>. HIDE DEF Bad
    <2>. QED  BY <1>1, <1>2, <2>1, NoLeastCounterexample
  <1>4. k \in 0..k /\ k \notin Bad  BY <1>3
  <1>5. \E r : Rounds(k, r)  BY <1>4
  <1>. QED  BY <1>5 DEF Rounds

\* The spans HistoryPull folds, one for each frame it reaches.
IsSpan(s, window, from, to, frames) ==
  s = [f \in from..to |->
         IF f = from THEN EmptyDiff(from, to)
         ELSE IF f \in frames THEN FoldFrame(s[f - 1], window[f]) ELSE s[f - 1]]

\* The frames of a span are folded one after another.
LEMMA SpanExists ==
  ASSUME NEW window, NEW from \in Nat, NEW to \in Nat, NEW frames, from <= to
  PROVE  \E s : IsSpan(s, window, from, to, frames)
  <1>. DEFINE Span(j, s) == s = [f \in from..from + j |->
                       IF f = from THEN EmptyDiff(from, to)
                       ELSE IF f \in frames THEN FoldFrame(s[f - 1], window[f]) ELSE s[f - 1]]
              k == to - from
              Bad == {j \in 0..k : ~ \E s : Span(j, s)}
  <1>1. ASSUME NEW j \in Bad PROVE j # 0
    <2>1. Span(0, [f \in from..from + 0 |-> EmptyDiff(from, to)])  OBVIOUS
    <2>. QED  BY <1>1, <2>1
  <1>2. ASSUME NEW j \in Bad PROVE j - 1 \in Bad
    <2>. SUFFICES ASSUME j - 1 \notin Bad PROVE FALSE
      OBVIOUS
    <2>1. j \in Nat /\ j # 0 /\ j - 1 \in 0..k  BY <1>1
    <2>2. PICK r : Span(j - 1, r)  BY <2>1
    <2>. DEFINE g == from + j
                last == IF g \in frames THEN FoldFrame(r[g - 1], window[g]) ELSE r[g - 1]
                s == [f \in from..g |-> IF f = g THEN last ELSE r[f]]
    <2>3. g \in Nat /\ g - 1 \in from..g /\ g # from /\ g - 1 # g  BY <2>1
    <2>4. ASSUME NEW f \in from..g
          PROVE  s[f] = IF f = from THEN EmptyDiff(from, to)
                        ELSE IF f \in frames THEN FoldFrame(s[f - 1], window[f]) ELSE s[f - 1]
      <3>1. CASE f = g
        BY <2>3, <3>1
      <3>2. CASE f # g
        <4>1. f \in from..from + (j - 1) /\ (f # from => f - 1 \in from..g /\ f - 1 # g)
          BY <2>1, <3>2
        <4>2. s[f] = r[f] /\ (f # from => s[f - 1] = r[f - 1])  BY <3>2, <4>1
        <4>. HIDE DEF s
        <4>. QED  BY <2>2, <4>1, <4>2
      <3>. QED  BY <3>1, <3>2
    <2>5. Span(j, s)
      <3>1. s = [f \in from..g |-> s[f]]  OBVIOUS
      <3>. HIDE DEF s
      <3>. QED  BY <2>4, <3>1
    <2>. QED  BY <2>5
  <1>. HIDE DEF Span
  <1>3. k \in Nat /\ from + k = to  OBVIOUS
  <1>4. Bad = {}
    <2>1. Bad \subseteq 0..k  OBVIOUS
    <2>. HIDE DEF Bad, k
    <2>. QED  BY <1>1, <1>2, <1>3, <2>1, NoLeastCounterexample
  <1>5. k \in 0..k
    <2>. HIDE DEF k
    <2>. QED  BY <1>3
  <1>6. \E s : Span(k, s)
    <2>. HIDE DEF k
    <2>. QED  BY <1>4, <1>5
  <1>. QED  BY <1>3, <1>6 DEF Span, IsSpan

-----------------------------------------------------------------------------
(* What a diff claims about a history h of the server's views.              *)

Val(h, f, c) == h[f][Eid(c)].components[c[2]]

\* What it says, it says of the view at its end.
Truthful(d, h) ==
  /\ \A c \in Cids : d.snapshots[c] # 0 => d.snapshots[c] = Val(h, d.to, c)
  /\ \A c \in d.removed : d.snapshots[c] = 0 /\ Val(h, d.to, c) = 0
  /\ \A e \in Eids : /\ d.resets[e] <= d.to
                     /\ d.resets[e] # 0 => LeftAt(h, e, d.resets[e])

\* What it does not say has not changed since the view of frame v, which is a
\* cleared one if it resets the entity.
CoversAt(d, v, h) ==
  /\ \A c \in Cids : d.snapshots[c] = 0 /\ c \notin d.removed =>
       Val(h, d.to, c) = IF d.resets[Eid(c)] > v THEN 0 ELSE Val(h, v, c)
  /\ v # 0 => \A e \in Eids, f \in (v + 1)..d.to : LeftAt(h, e, f) => f <= d.resets[e]

\* A diff that holds everything after frame lo.
SoundFrom(d, lo, h) ==
  /\ Truthful(d, h)
  /\ \A v \in lo..d.to : CoversAt(d, v, h)
  /\ \A e \in Eids : d.resets[e] # 0 => d.resets[e] > lo

-----------------------------------------------------------------------------
(* merge.                                                                   *)

LEMMA EidOfCid == \A c \in Cids : Eid(c) \in Eids  BY DEF Cids, Eid

LEMMA MergeFields ==
  ASSUME NEW a \in Diffs, NEW b \in Diffs
  PROVE  LET m == MergeDiffs(a, b) IN
         /\ m \in Diffs /\ m.from = a.from /\ m.to = b.to
         /\ \A e \in Eids : m.resets[e] = IF b.resets[e] > a.resets[e] THEN b.resets[e]
                                          ELSE a.resets[e]
         /\ \A c \in Cids :
              /\ c \in m.removed <=>
                   /\ b.snapshots[c] = 0
                   /\ c \in b.removed \/ (c \in a.removed /\ ~(b.resets[Eid(c)] > a.resets[Eid(c)]))
              /\ m.snapshots[c] = IF b.snapshots[c] # 0 THEN b.snapshots[c]
                                  ELSE IF c \in m.removed \/ b.resets[Eid(c)] > a.resets[Eid(c)]
                                  THEN 0 ELSE a.snapshots[c]
  <1>. DEFINE m == MergeDiffs(a, b)
              over(e) == b.resets[e] > a.resets[e]
  <1>1. /\ a.snapshots \in [Cids -> Nat] /\ b.snapshots \in [Cids -> Nat]
        /\ a.resets \in [Eids -> Nat] /\ b.resets \in [Eids -> Nat]
        /\ a.removed \subseteq Cids /\ b.removed \subseteq Cids
        /\ a.from \in Nat /\ b.to \in Nat
    BY DEF Diffs
  <1>2. m.from = a.from /\ m.to = b.to  BY DEF MergeDiffs
  <1>3. m.resets = [e \in Eids |-> IF over(e) THEN b.resets[e] ELSE a.resets[e]]
    BY DEF MergeDiffs, MergeResets, SupersededBy
  <1>4. m.removed = {c \in b.removed \cup {c \in a.removed : ~over(Eid(c))} : b.snapshots[c] = 0}
    BY DEF MergeDiffs, SupersededBy
  <1>5. m.snapshots = [c \in Cids |-> IF b.snapshots[c] # 0 THEN b.snapshots[c]
                                     ELSE IF c \in m.removed \/ over(Eid(c)) THEN 0
                                     ELSE a.snapshots[c]]
    BY DEF MergeDiffs, SupersededBy
  <1>6. m = [from |-> m.from, to |-> m.to, snapshots |-> m.snapshots,
             removed |-> m.removed, resets |-> m.resets]
    BY DEF MergeDiffs
  <1>. HIDE DEF m
  <1>7. m.snapshots \in [Cids -> Nat]  BY <1>1, <1>5
  <1>8. m.resets \in [Eids -> Nat]  BY <1>1, <1>3
  <1>9. m.removed \subseteq Cids  BY <1>1, <1>4
  <1>10. m \in Diffs  BY <1>1, <1>2, <1>6, <1>7, <1>8, <1>9 DEF Diffs
  <1>11. ASSUME NEW c \in Cids
         PROVE  c \in m.removed <=>
                   /\ b.snapshots[c] = 0
                   /\ c \in b.removed \/ (c \in a.removed /\ ~over(Eid(c)))
    BY <1>4
  <1>. QED  BY <1>2, <1>3, <1>5, <1>10, <1>11 DEF m

\* If b resets an entity and says no more of a component, it is gone.
LEMMA ResetClears ==
  ASSUME NEW h, NEW b \in Diffs, NEW lo \in Nat, SoundFrom(b, lo, h), lo <= b.to,
         NEW c \in Cids, b.snapshots[c] = 0, c \notin b.removed, b.resets[Eid(c)] # 0
  PROVE  Val(h, b.to, c) = 0
  <1>1. lo \in lo..b.to  BY DEF Diffs
  <1>2. b.resets[Eid(c)] > lo  BY EidOfCid DEF SoundFrom
  <1>. QED  BY <1>1, <1>2 DEF SoundFrom, CoversAt

\* Joined to a diff that covers the view at v, a sound one that overlaps it gives
\* a diff that covers the view at v.
LEMMA MergeCovers ==
  ASSUME NEW h, NEW a \in Diffs, NEW b \in Diffs, NEW v \in Nat, NEW lo \in Nat,
         Truthful(a, h), CoversAt(a, v, h), SoundFrom(b, lo, h),
         v <= a.to, lo <= a.to, a.to <= b.to
  PROVE  Truthful(MergeDiffs(a, b), h) /\ CoversAt(MergeDiffs(a, b), v, h)
  <1>. DEFINE m == MergeDiffs(a, b)
              over(e) == b.resets[e] > a.resets[e]
  <1>1. /\ m.to = b.to
        /\ \A e \in Eids : m.resets[e] = IF over(e) THEN b.resets[e] ELSE a.resets[e]
        /\ \A c \in Cids :
             /\ c \in m.removed <=>
                  /\ b.snapshots[c] = 0
                  /\ c \in b.removed \/ (c \in a.removed /\ ~over(Eid(c)))
             /\ m.snapshots[c] = IF b.snapshots[c] # 0 THEN b.snapshots[c]
                                 ELSE IF c \in m.removed \/ over(Eid(c))
                                 THEN 0 ELSE a.snapshots[c]
        /\ m.removed \subseteq Cids
    BY MergeFields DEF Diffs
  <1>. HIDE DEF m
  <1>2. /\ a.to \in Nat /\ b.to \in Nat
        /\ \A e \in Eids : a.resets[e] \in Nat /\ b.resets[e] \in Nat
    BY DEF Diffs
  <1>3. a.to \in lo..b.to /\ Truthful(b, h) /\ CoversAt(b, a.to, h)
    BY <1>2 DEF SoundFrom
  \* What neither says of c: it kept its value from a's end to b's.
  <1>4. ASSUME NEW c \in Cids, b.snapshots[c] = 0, c \notin b.removed, ~over(Eid(c))
        PROVE  Val(h, b.to, c) = Val(h, a.to, c)
    <2>1. Eid(c) \in Eids  BY EidOfCid
    <2>2. ~(b.resets[Eid(c)] > a.to)  BY <1>2, <1>4, <2>1 DEF Truthful
    <2>. QED  BY <1>3, <1>4, <2>2 DEF CoversAt
  <1>5. ASSUME NEW c \in Cids, m.snapshots[c] # 0 PROVE m.snapshots[c] = Val(h, b.to, c)
    BY <1>1, <1>3, <1>4, <1>5 DEF Truthful
  <1>6. ASSUME NEW c \in m.removed PROVE m.snapshots[c] = 0 /\ Val(h, b.to, c) = 0
    BY <1>1, <1>3, <1>4 DEF Truthful
  <1>7. ASSUME NEW e \in Eids
        PROVE  m.resets[e] <= b.to /\ (m.resets[e] # 0 => LeftAt(h, e, m.resets[e]))
    BY <1>1, <1>2, <1>3 DEF Truthful
  <1>8. ASSUME NEW c \in Cids, m.snapshots[c] = 0, c \notin m.removed
        PROVE  Val(h, b.to, c) = IF m.resets[Eid(c)] > v THEN 0 ELSE Val(h, v, c)
    <2>1. Eid(c) \in Eids /\ b.snapshots[c] = 0 /\ c \notin b.removed
      BY <1>1, <1>8, EidOfCid
    <2>2. CASE over(Eid(c))
      <3>1. m.resets[Eid(c)] = b.resets[Eid(c)] /\ b.resets[Eid(c)] # 0
        BY <1>1, <1>2, <2>1, <2>2
      <3>2. Val(h, b.to, c) = 0  BY <1>2, <2>1, <3>1, ResetClears
      <3>3. CASE b.resets[Eid(c)] <= v
        <4>1. v \in lo..b.to  BY <1>2, <2>1, <3>1, <3>3 DEF SoundFrom
        <4>. QED  BY <1>2, <2>1, <3>1, <3>2, <3>3, <4>1 DEF SoundFrom, CoversAt
      <3>. QED  BY <1>2, <2>1, <3>1, <3>2, <3>3
    <2>3. CASE ~over(Eid(c))
      <3>1. a.snapshots[c] = 0 /\ c \notin a.removed /\ m.resets[Eid(c)] = a.resets[Eid(c)]
        BY <1>1, <1>8, <2>1, <2>3
      <3>. QED  BY <1>4, <2>1, <2>3, <3>1 DEF CoversAt
    <2>. QED  BY <2>2, <2>3
  <1>9. ASSUME v # 0, NEW e \in Eids, NEW f \in (v + 1)..b.to, LeftAt(h, e, f)
        PROVE  f <= m.resets[e]
    <2>1. CASE f <= a.to
      <3>1. f \in (v + 1)..a.to  BY <1>2, <2>1
      <3>2. f <= a.resets[e]  BY <1>9, <3>1 DEF CoversAt
      <3>. QED  BY <1>1, <1>2, <3>2
    <2>2. CASE f > a.to
      <3>1. f \in (a.to + 1)..b.to /\ a.to # 0  BY <1>2, <1>9, <2>2
      <3>2. f <= b.resets[e]  BY <1>3, <1>9, <3>1 DEF CoversAt
      <3>. QED  BY <1>1, <1>2, <3>2
    <2>. QED  BY <1>2, <2>1, <2>2
  <1>. QED  BY <1>1, <1>5, <1>6, <1>7, <1>8, <1>9 DEF Truthful, CoversAt, m

\* Two sound diffs that end at one frame join to one that is sound from where the
\* longer of them starts.
LEMMA MergeSameEnd ==
  ASSUME NEW h, NEW a \in Diffs, NEW b \in Diffs, NEW la \in Nat, NEW lb \in Nat,
         SoundFrom(a, la, h), SoundFrom(b, lb, h), la <= a.to, lb <= a.to, a.to = b.to
  PROVE  \E lo \in Nat : lo <= la /\ SoundFrom(MergeDiffs(a, b), lo, h)
  <1>. DEFINE m == MergeDiffs(a, b)
              over(e) == b.resets[e] > a.resets[e]
              lo == IF la <= lb THEN la ELSE lb
  <1>1. /\ m.to = b.to
        /\ \A e \in Eids : m.resets[e] = IF over(e) THEN b.resets[e] ELSE a.resets[e]
        /\ \A c \in Cids :
             /\ c \in m.removed <=>
                  /\ b.snapshots[c] = 0
                  /\ c \in b.removed \/ (c \in a.removed /\ ~over(Eid(c)))
             /\ m.snapshots[c] = IF b.snapshots[c] # 0 THEN b.snapshots[c]
                                 ELSE IF c \in m.removed \/ over(Eid(c))
                                 THEN 0 ELSE a.snapshots[c]
    BY MergeFields
  <1>2. /\ a.to \in Nat /\ b.to \in Nat
        /\ \A e \in Eids : a.resets[e] \in Nat /\ b.resets[e] \in Nat
    BY DEF Diffs
  <1>3. la \in la..a.to /\ lo \in Nat /\ lo <= la /\ lo <= lb
    BY <1>2
  <1>4. Truthful(m, h)
    BY <1>2, <1>3, MergeCovers DEF SoundFrom
  <1>5. ASSUME NEW v \in lo..b.to PROVE CoversAt(m, v, h)
    <2>1. CASE v >= la
      <3>1. v \in Nat /\ v \in la..a.to  BY <1>2, <1>3, <2>1
      <3>. QED  BY <1>2, <3>1, MergeCovers DEF SoundFrom
    <2>2. CASE v < la
      <3>1. v \in lb..b.to /\ CoversAt(b, v, h)  BY <1>2, <1>3, <2>2 DEF SoundFrom
      <3>. HIDE DEF m, lo
      <3>2. ASSUME NEW c \in Cids, m.snapshots[c] = 0, c \notin m.removed
            PROVE  Val(h, b.to, c) = IF m.resets[Eid(c)] > v THEN 0 ELSE Val(h, v, c)
        <4>1. Eid(c) \in Eids /\ b.snapshots[c] = 0 /\ c \notin b.removed
          BY <1>1, <3>2, EidOfCid
        <4>2. CASE over(Eid(c))
          BY <1>1, <3>1, <4>1, <4>2 DEF CoversAt
        <4>3. CASE ~over(Eid(c))
          <5>1. a.snapshots[c] = 0 /\ c \notin a.removed /\ m.resets[Eid(c)] = a.resets[Eid(c)]
            BY <1>1, <3>2, <4>1, <4>3
          <5>2. CASE a.resets[Eid(c)] > v
            <6>1. a.resets[Eid(c)] # 0  BY <1>2, <1>3, <4>1, <5>2
            <6>2. Val(h, a.to, c) = 0  BY <1>2, <5>1, <6>1, ResetClears
            <6>. QED  BY <5>1, <5>2, <6>2
          <5>3. CASE ~(a.resets[Eid(c)] > v)
            <6>1. ~(b.resets[Eid(c)] > v)  BY <1>2, <1>3, <4>1, <4>3, <5>3
            <6>. QED  BY <3>1, <4>1, <5>1, <5>3, <6>1 DEF CoversAt
          <5>. QED  BY <5>2, <5>3
        <4>. QED  BY <4>2, <4>3
      <3>3. ASSUME v # 0, NEW e \in Eids, NEW f \in (v + 1)..b.to, LeftAt(h, e, f)
            PROVE  f <= m.resets[e]
        <4>1. f <= b.resets[e]  BY <3>1, <3>3 DEF CoversAt
        <4>. QED  BY <1>1, <1>2, <3>1, <4>1
      <3>. QED  BY <1>1, <3>2, <3>3 DEF CoversAt
    <2>. QED  BY <1>2, <1>3, <2>1, <2>2
  <1>6. ASSUME NEW e \in Eids, m.resets[e] # 0 PROVE m.resets[e] > lo
    BY <1>1, <1>2, <1>3, <1>6 DEF SoundFrom
  <1>7. SoundFrom(m, lo, h)
    BY <1>1, <1>4, <1>5, <1>6 DEF SoundFrom
  <1>. QED  BY <1>3, <1>7

\* Onto an empty diff at frame v, a diff that covers the view at v stays as it is.
LEMMA MergeOntoEmpty ==
  ASSUME NEW h, NEW v \in Nat, NEW d \in Diffs, Truthful(d, h), CoversAt(d, v, h), v <= d.to
  PROVE  LET m == Merge(EmptyDiff(v, v), d) IN
         m \in Diffs /\ m.from = v /\ m.to = d.to /\ Truthful(m, h) /\ CoversAt(m, v, h)
  <1>. DEFINE a == EmptyDiff(v, v)
              m == MergeDiffs(a, d)
  <1>1. a \in Diffs /\ a.from = v /\ a.removed = {}  BY DEF EmptyDiff, Diffs
  <1>2. \A e \in Eids : a.resets[e] = 0  BY DEF EmptyDiff
  <1>3. \A c \in Cids : a.snapshots[c] = 0  BY DEF EmptyDiff
  <1>4. a # NoDiff /\ d # NoDiff
    BY DEF EmptyDiff, NoDiff, NoFrame, Diffs
  <1>5. Merge(a, d) = m  BY <1>4 DEF Merge
  <1>. HIDE DEF a
  <1>6. /\ m \in Diffs /\ m.from = v /\ m.to = d.to
        /\ \A e \in Eids : m.resets[e] = d.resets[e]
        /\ \A c \in Cids : /\ c \in m.removed <=> d.snapshots[c] = 0 /\ c \in d.removed
                           /\ m.snapshots[c] = d.snapshots[c]
    <2>1. \A e \in Eids : d.resets[e] \in Nat  BY DEF Diffs
    <2>2. ASSUME NEW e \in Eids PROVE d.resets[e] > a.resets[e] \/ d.resets[e] = a.resets[e]
      <3>1. d.resets[e] \in Nat /\ a.resets[e] = 0  BY <1>2, <2>1
      <3>. QED  BY <3>1
    <2>3. /\ m \in Diffs /\ m.from = a.from /\ m.to = d.to
          /\ \A e \in Eids : m.resets[e] = IF d.resets[e] > a.resets[e] THEN d.resets[e]
                                           ELSE a.resets[e]
          /\ \A c \in Cids :
               /\ c \in m.removed <=>
                    /\ d.snapshots[c] = 0
                    /\ \/ c \in d.removed
                       \/ c \in a.removed /\ ~(d.resets[Eid(c)] > a.resets[Eid(c)])
               /\ m.snapshots[c] = IF d.snapshots[c] # 0 THEN d.snapshots[c]
                                   ELSE IF \/ c \in m.removed
                                           \/ d.resets[Eid(c)] > a.resets[Eid(c)]
                                   THEN 0 ELSE a.snapshots[c]
      BY <1>1, MergeFields
    <2>. HIDE DEF m
    <2>. QED  BY <1>1, <1>2, <1>3, <2>2, <2>3
  <1>. HIDE DEF m
  <1>7. m.removed \subseteq Cids /\ d.removed \subseteq Cids  BY <1>6 DEF Diffs
  <1>8. Truthful(m, h)  BY <1>6, <1>7 DEF Truthful
  <1>9. CoversAt(m, v, h)  BY <1>6, <1>7, EidOfCid DEF CoversAt, Truthful
  <1>. QED  BY <1>5, <1>6, <1>8, <1>9 DEF a

-----------------------------------------------------------------------------
(* The server: what one frame, and a span of frames, says.                  *)

\* A history of views up to frame n, from an empty one.
IsHistory(h, n) ==
  /\ h \in [0..n -> Views]
  /\ h[0] = EmptyView
  /\ \A f \in 0..n, e \in Eids, t \in Types : ~h[f][e].in => h[f][e].components[t] = 0

\* The diff of frame f.
FrameDiff(h, f) == LatestDiff(h[f - 1], h[f], f, FALSE)

\* Nothing the client is told of changes in frame f.
Quiet(h, f) ==
  /\ \A c \in Cids : Val(h, f, c) = Val(h, f - 1, c)
  /\ \A e \in Eids : ~LeftAt(h, e, f)

\* What is said of a frame, in the terms of one component.
LEMMA LatestFields ==
  ASSUME NEW n \in Nat, NEW h, IsHistory(h, n), NEW f \in 1..n, NEW entered, NEW d,
         d = [from |-> f - 1, to |-> f,
              snapshots |-> [c \in Cids |->
                 IF Eid(c) \in entered \/ Val(h, f, c) # Val(h, f - 1, c)
                 THEN Val(h, f, c) ELSE 0],
              removed |-> {c \in Cids : /\ h[f][Eid(c)].in /\ Eid(c) \notin entered
                                        /\ Val(h, f - 1, c) # 0 /\ Val(h, f, c) = 0},
              resets |-> [e \in Eids |-> IF LeftAt(h, e, f) THEN f ELSE 0]]
  PROVE  /\ d \in Diffs /\ d.from = f - 1 /\ d.to = f
         /\ \A e \in Eids : d.resets[e] = IF LeftAt(h, e, f) THEN f ELSE 0
         /\ \A c \in Cids :
              /\ c \in d.removed <=> /\ h[f][Eid(c)].in /\ Eid(c) \notin entered
                                     /\ Val(h, f - 1, c) # 0 /\ Val(h, f, c) = 0
              /\ d.snapshots[c] = IF Eid(c) \in entered \/ Val(h, f, c) # Val(h, f - 1, c)
                                  THEN Val(h, f, c) ELSE 0
  <1>1. f - 1 \in 0..n /\ f \in 0..n /\ f - 1 \in Nat /\ f \in Nat  OBVIOUS
  <1>2. \A c \in Cids : Val(h, f, c) \in Nat
    BY <1>1 DEF IsHistory, Views, Val, Cids, Eid
  <1>3. d.snapshots \in [Cids -> Nat] /\ d.resets \in [Eids -> Nat] /\ d.removed \subseteq Cids
    BY <1>1, <1>2
  <1>4. d \in Diffs  BY <1>1, <1>3 DEF Diffs
  <1>. QED  BY <1>4

\* The diff of a frame, component by component.
LEMMA FrameFields ==
  ASSUME NEW n \in Nat, NEW h, IsHistory(h, n), NEW f \in 1..n
  PROVE  LET d == FrameDiff(h, f) IN
         /\ d \in Diffs /\ d.from = f - 1 /\ d.to = f
         /\ \A e \in Eids : d.resets[e] = IF LeftAt(h, e, f) THEN f ELSE 0
         /\ \A c \in Cids :
              /\ d.snapshots[c] # 0 => d.snapshots[c] = Val(h, f, c)
              /\ c \in d.removed => d.snapshots[c] = 0 /\ Val(h, f, c) = 0
              /\ d.snapshots[c] = 0 /\ c \notin d.removed =>
                   Val(h, f, c) = IF d.resets[Eid(c)] # 0 THEN 0 ELSE Val(h, f - 1, c)
  <1>. DEFINE d == FrameDiff(h, f)
  <1>1. /\ d \in Diffs /\ d.from = f - 1 /\ d.to = f
        /\ \A e \in Eids : d.resets[e] = IF LeftAt(h, e, f) THEN f ELSE 0
        /\ \A c \in Cids :
              LET entered == h[f][Eid(c)].in /\ ~h[f - 1][Eid(c)].in IN
              /\ c \in d.removed <=> /\ h[f][Eid(c)].in /\ ~entered
                                     /\ Val(h, f - 1, c) # 0 /\ Val(h, f, c) = 0
              /\ d.snapshots[c] = IF entered \/ Val(h, f, c) # Val(h, f - 1, c)
                                  THEN Val(h, f, c) ELSE 0
    <2>. DEFINE entered == {e \in Eids : h[f][e].in /\ ~h[f - 1][e].in}
    <2>1. \A c \in Cids : Eid(c) \in entered <=> h[f][Eid(c)].in /\ ~h[f - 1][Eid(c)].in
      BY EidOfCid
    <2>2. d = [from |-> f - 1, to |-> f,
               snapshots |-> [c \in Cids |->
                  IF Eid(c) \in entered \/ Val(h, f, c) # Val(h, f - 1, c)
                  THEN Val(h, f, c) ELSE 0],
               removed |-> {c \in Cids : /\ h[f][Eid(c)].in /\ Eid(c) \notin entered
                                         /\ Val(h, f - 1, c) # 0 /\ Val(h, f, c) = 0},
               resets |-> [e \in Eids |-> IF LeftAt(h, e, f) THEN f ELSE 0]]
      <3>. HIDE DEF entered
      <3>. QED  BY <2>1 DEF FrameDiff, LatestDiff, Val, LeftAt
    <2>. HIDE DEF d, entered
    <2>3. LET entr(c) == Eid(c) \in entered IN
          /\ d \in Diffs /\ d.from = f - 1 /\ d.to = f
          /\ \A e \in Eids : d.resets[e] = IF LeftAt(h, e, f) THEN f ELSE 0
          /\ \A c \in Cids :
               /\ c \in d.removed <=> /\ h[f][Eid(c)].in /\ ~entr(c)
                                      /\ Val(h, f - 1, c) # 0 /\ Val(h, f, c) = 0
               /\ d.snapshots[c] = IF entr(c) \/ Val(h, f, c) # Val(h, f - 1, c)
                                   THEN Val(h, f, c) ELSE 0
      BY <2>2, LatestFields
    <2>. QED  BY <2>1, <2>3
  <1>. HIDE DEF d
  <1>2. f - 1 \in 0..n /\ f \in 0..n /\ f # 0  OBVIOUS
  <1>3. \A c \in Cids : /\ ~h[f][Eid(c)].in => Val(h, f, c) = 0
                        /\ ~h[f - 1][Eid(c)].in => Val(h, f - 1, c) = 0
    BY <1>2 DEF IsHistory, Val, Cids, Eid
  <1>4. \A e \in Eids : h[f][e].in \in BOOLEAN /\ h[f - 1][e].in \in BOOLEAN
    BY <1>2 DEF IsHistory, Views
  <1>5. ASSUME NEW c \in Cids
        PROVE  /\ d.snapshots[c] # 0 => d.snapshots[c] = Val(h, f, c)
               /\ c \in d.removed => d.snapshots[c] = 0 /\ Val(h, f, c) = 0
               /\ d.snapshots[c] = 0 /\ c \notin d.removed =>
                   Val(h, f, c) = IF d.resets[Eid(c)] # 0 THEN 0 ELSE Val(h, f - 1, c)
    BY <1>1, <1>2, <1>3, <1>4, EidOfCid DEF LeftAt
  <1>. QED  BY <1>1, <1>5 DEF d

\* The diff of a frame without content leaves the client's view alone.
LEMMA NoContentIsQuiet ==
  ASSUME NEW n \in Nat, NEW h, IsHistory(h, n), NEW f \in 1..n, ~HasContent(FrameDiff(h, f))
  PROVE  Quiet(h, f)
  <1>. DEFINE d == FrameDiff(h, f)
  <1>1. /\ \A c \in Cids : d.snapshots[c] = 0 /\ c \notin d.removed
        /\ \A e \in Eids : d.resets[e] = 0
    BY DEF HasContent
  <1>. QED  BY <1>1, FrameFields, EidOfCid DEF Quiet

\* The diff of a frame is sound from the frame before.
LEMMA FrameIsSound ==
  ASSUME NEW n \in Nat, NEW h, IsHistory(h, n), NEW f \in 1..n
  PROVE  SoundFrom(FrameDiff(h, f), f - 1, h)
  <1>. DEFINE d == FrameDiff(h, f)
  <1>1. /\ d \in Diffs /\ d.from = f - 1 /\ d.to = f
        /\ \A e \in Eids : d.resets[e] = IF LeftAt(h, e, f) THEN f ELSE 0
        /\ \A c \in Cids :
              /\ d.snapshots[c] # 0 => d.snapshots[c] = Val(h, f, c)
              /\ c \in d.removed => d.snapshots[c] = 0 /\ Val(h, f, c) = 0
              /\ d.snapshots[c] = 0 /\ c \notin d.removed =>
                   Val(h, f, c) = IF d.resets[Eid(c)] # 0 THEN 0 ELSE Val(h, f - 1, c)
    BY FrameFields
  <1>. HIDE DEF d
  <1>2. d.removed \subseteq Cids  BY <1>1 DEF Diffs
  <1>3. Truthful(d, h)  BY <1>1, <1>2 DEF Truthful
  <1>4. CoversAt(d, f, h)  BY <1>1, EidOfCid DEF CoversAt
  <1>5. CoversAt(d, f - 1, h)  BY <1>1, EidOfCid DEF CoversAt
  <1>6. \A v \in (f - 1)..f : v = f \/ v = f - 1  OBVIOUS
  <1>7. \A e \in Eids : d.resets[e] # 0 => d.resets[e] > f - 1  BY <1>1
  <1>. QED  BY <1>1, <1>3, <1>4, <1>5, <1>6, <1>7 DEF SoundFrom, d

\* The baseline of a frame: the whole view, from no frame.
WholeView(h, f) == [LatestDiff(h[f - 1], h[f], f, TRUE) EXCEPT !.from = 0]

\* It holds all there is to tell an empty client.
LEMMA BaselineCovers ==
  ASSUME NEW n \in Nat, NEW h, IsHistory(h, n), NEW f \in 1..n
  PROVE  LET d == WholeView(h, f) IN
         d \in Diffs /\ d.from = 0 /\ d.to = f /\ Truthful(d, h) /\ CoversAt(d, 0, h)
  <1>. DEFINE l == LatestDiff(h[f - 1], h[f], f, TRUE)
              d == [l EXCEPT !.from = 0]
  <1>1. /\ l \in Diffs /\ l.to = f
        /\ \A e \in Eids : l.resets[e] = IF LeftAt(h, e, f) THEN f ELSE 0
        /\ \A c \in Cids :
              /\ c \notin l.removed
              /\ l.snapshots[c] = IF h[f][Eid(c)].in \/ Val(h, f, c) # Val(h, f - 1, c)
                                  THEN Val(h, f, c) ELSE 0
    <2>. DEFINE entered == {e \in Eids : h[f][e].in}
    <2>1. \A c \in Cids : Eid(c) \in entered <=> h[f][Eid(c)].in
      BY EidOfCid
    <2>2. l = [from |-> f - 1, to |-> f,
               snapshots |-> [c \in Cids |->
                  IF Eid(c) \in entered \/ Val(h, f, c) # Val(h, f - 1, c)
                  THEN Val(h, f, c) ELSE 0],
               removed |-> {c \in Cids : /\ h[f][Eid(c)].in /\ Eid(c) \notin entered
                                         /\ Val(h, f - 1, c) # 0 /\ Val(h, f, c) = 0},
               resets |-> [e \in Eids |-> IF LeftAt(h, e, f) THEN f ELSE 0]]
      <3>. HIDE DEF entered
      <3>. QED  BY <2>1 DEF LatestDiff, Val, LeftAt
    <2>. HIDE DEF l, entered
    <2>. QED  BY <2>1, <2>2, LatestFields
  <1>. HIDE DEF l
  <1>2. /\ d \in Diffs /\ d.from = 0 /\ d.to = f
        /\ d.snapshots = l.snapshots /\ d.removed = l.removed /\ d.resets = l.resets
    BY <1>1 DEF Diffs
  <1>. HIDE DEF d
  <1>3. f \in 0..n /\ 0 \in 0..n  OBVIOUS
  <1>4. \A c \in Cids : ~h[f][Eid(c)].in => Val(h, f, c) = 0
    BY <1>3 DEF IsHistory, Val, Cids, Eid
  <1>5. \A c \in Cids : Val(h, 0, c) = 0
    BY <1>3 DEF IsHistory, Val, Cids, Eid, EmptyView, NotInView
  <1>6. d.removed \subseteq Cids  BY <1>2 DEF Diffs
  <1>7. Truthful(d, h)  BY <1>1, <1>2, <1>6 DEF Truthful
  <1>8. CoversAt(d, 0, h)  BY <1>1, <1>2, <1>4, <1>5 DEF CoversAt
  <1>. QED  BY <1>2, <1>7, <1>8 DEF d, l, WholeView

\* An accumulator that is sound up to a frame before its end.
SoundTo(acc, from, f, h) == SoundFrom([acc EXCEPT !.to = f], from, h)

\* A frame joins the span of the frames before it.
LEMMA FoldFrameSound ==
  ASSUME NEW n \in Nat, NEW h, IsHistory(h, n), NEW f \in 1..n, NEW from \in Nat, from < f,
         NEW acc \in Diffs, SoundTo(acc, from, f - 1, h)
  PROVE  LET new == FoldFrame(acc, FrameDiff(h, f)) IN
         new \in Diffs /\ new.from = acc.from /\ new.to = acc.to /\ SoundTo(new, from, f, h)
  <1>. DEFINE d == FrameDiff(h, f)
              new == FoldFrame(acc, d)
              old == [acc EXCEPT !.to = f - 1]
              now == [new EXCEPT !.to = f]
  <1>1. /\ d \in Diffs /\ d.from = f - 1 /\ d.to = f
        /\ \A e \in Eids : d.resets[e] = IF LeftAt(h, e, f) THEN f ELSE 0
        /\ \A c \in Cids :
              /\ d.snapshots[c] # 0 => d.snapshots[c] = Val(h, f, c)
              /\ c \in d.removed => d.snapshots[c] = 0 /\ Val(h, f, c) = 0
              /\ d.snapshots[c] = 0 /\ c \notin d.removed =>
                   Val(h, f, c) = IF d.resets[Eid(c)] # 0 THEN 0 ELSE Val(h, f - 1, c)
    BY FrameFields
  <1>2. f \in Nat /\ f # 0 /\ f - 1 \in Nat  OBVIOUS
  <1>. HIDE DEF d
  <1>3. /\ acc.snapshots \in [Cids -> Nat] /\ acc.resets \in [Eids -> Nat]
        /\ acc.removed \subseteq Cids /\ acc.from \in Nat /\ acc.to \in Nat
        /\ d.snapshots \in [Cids -> Nat] /\ d.resets \in [Eids -> Nat]
        /\ d.removed \subseteq Cids
    BY <1>1 DEF Diffs
  <1>4. /\ new.from = acc.from /\ new.to = acc.to
        /\ new.resets = [e \in Eids |-> IF d.resets[e] # 0 THEN d.resets[e] ELSE acc.resets[e]]
        /\ new.snapshots =
             [c \in Cids |-> IF c \in d.removed THEN 0
                             ELSE IF d.snapshots[c] # 0 THEN d.snapshots[c]
                             ELSE IF d.resets[Eid(c)] # 0 THEN 0
                             ELSE acc.snapshots[c]]
        /\ new.removed =
             d.removed \cup {c \in acc.removed : d.snapshots[c] = 0 /\ d.resets[Eid(c)] = 0}
    BY DEF FoldFrame, Diffs
  <1>5. new \in Diffs
    <2>1. /\ new.resets \in [Eids -> Nat] /\ new.snapshots \in [Cids -> Nat]
          /\ new.removed \subseteq Cids
      BY <1>3, <1>4
    <2>2. new = [acc EXCEPT !.resets = new.resets, !.snapshots = new.snapshots,
                            !.removed = new.removed]
      BY <1>4 DEF FoldFrame
    <2>. HIDE DEF new
    <2>3. [acc EXCEPT !.resets = new.resets, !.snapshots = new.snapshots,
                      !.removed = new.removed] \in Diffs
      BY <2>1 DEF Diffs
    <2>. QED  BY <2>2, <2>3
  <1>. HIDE DEF new
  <1>6. /\ old.to = f - 1 /\ old.snapshots = acc.snapshots /\ old.removed = acc.removed
        /\ old.resets = acc.resets
        /\ now.to = f /\ now.snapshots = new.snapshots /\ now.removed = new.removed
        /\ now.resets = new.resets
    BY <1>5 DEF Diffs
  <1>7. SoundFrom(old, from, h)  BY DEF SoundTo
  <1>. HIDE DEF old, now
  <1>8. ASSUME NEW e \in Eids
        PROVE  now.resets[e] = IF d.resets[e] # 0 THEN f ELSE old.resets[e]
    <2>1. d.resets[e] # 0 => d.resets[e] = f  BY <1>1
    <2>. QED  BY <1>4, <1>6, <2>1
  <1>9. \A c \in Cids :
          /\ now.snapshots[c] = IF c \in d.removed THEN 0
                                ELSE IF d.snapshots[c] # 0 THEN d.snapshots[c]
                                ELSE IF d.resets[Eid(c)] # 0 THEN 0
                                ELSE old.snapshots[c]
          /\ c \in now.removed <=>
               \/ c \in d.removed
               \/ c \in old.removed /\ d.snapshots[c] = 0 /\ d.resets[Eid(c)] = 0
    BY <1>4, <1>6
  <1>10. /\ now.removed \subseteq Cids
         /\ \A e \in Eids : old.resets[e] \in Nat /\ old.resets[e] <= f - 1
    <2>1. now.removed \subseteq Cids  BY <1>5, <1>6 DEF Diffs
    <2>2. \A e \in Eids : old.resets[e] <= f - 1  BY <1>6, <1>7 DEF SoundFrom, Truthful
    <2>. QED  BY <1>3, <1>6, <2>1, <2>2
  \* What the frame says nothing of, it leaves alone.
  <1>11. ASSUME NEW c \in Cids, d.snapshots[c] = 0, c \notin d.removed, d.resets[Eid(c)] = 0
         PROVE  Val(h, f, c) = Val(h, f - 1, c)
    BY <1>1, <1>11
  <1>12. Truthful(now, h)
    <2>1. Truthful(old, h)  BY <1>7 DEF SoundFrom
    <2>2. ASSUME NEW c \in Cids, now.snapshots[c] # 0
          PROVE  now.snapshots[c] = Val(h, f, c)
      BY <1>1, <1>6, <1>9, <1>11, <2>1, <2>2 DEF Truthful
    <2>3. ASSUME NEW c \in Cids, c \in now.removed
          PROVE  now.snapshots[c] = 0 /\ Val(h, f, c) = 0
      BY <1>1, <1>6, <1>9, <1>11, <2>1, <2>3 DEF Truthful
    <2>4. ASSUME NEW e \in Eids
          PROVE  now.resets[e] <= f /\ (now.resets[e] # 0 => LeftAt(h, e, now.resets[e]))
      BY <1>1, <1>2, <1>8, <1>10, <2>1 DEF Truthful
    <2>. QED  BY <1>6, <1>10, <2>2, <2>3, <2>4 DEF Truthful
  <1>13. ASSUME NEW v \in from..f PROVE CoversAt(now, v, h)
    <2>1. CASE v = f
      <3>1. ASSUME NEW e \in Eids PROVE ~(now.resets[e] > f)
        BY <1>2, <1>8, <1>10
      <3>. QED  BY <1>2, <1>6, <2>1, <3>1, EidOfCid DEF CoversAt
    <2>2. CASE v # f
      <3>1. v \in from..(f - 1) /\ CoversAt(old, v, h)
        BY <1>6, <1>7, <2>2 DEF SoundFrom
      <3>2. ASSUME NEW c \in Cids, now.snapshots[c] = 0, c \notin now.removed
            PROVE  Val(h, f, c) = IF now.resets[Eid(c)] > v THEN 0 ELSE Val(h, v, c)
        <4>1. Eid(c) \in Eids /\ c \notin d.removed /\ d.snapshots[c] = 0
          BY <1>9, <3>2, EidOfCid
        <4>2. CASE d.resets[Eid(c)] # 0
          <5>1. now.resets[Eid(c)] > v  BY <1>8, <3>1, <4>1, <4>2
          <5>2. Val(h, f, c) = 0  BY <1>1, <4>1, <4>2
          <5>. QED  BY <5>1, <5>2
        <4>3. CASE d.resets[Eid(c)] = 0
          <5>1. old.snapshots[c] = 0 /\ c \notin old.removed
                /\ now.resets[Eid(c)] = old.resets[Eid(c)]
            BY <1>8, <1>9, <3>2, <4>1, <4>3
          <5>2. Val(h, f - 1, c) = IF old.resets[Eid(c)] > v THEN 0 ELSE Val(h, v, c)
            BY <1>6, <3>1, <5>1 DEF CoversAt
          <5>. QED  BY <1>11, <4>1, <4>3, <5>1, <5>2
        <4>. QED  BY <4>2, <4>3
      <3>3. ASSUME v # 0, NEW e \in Eids, NEW g \in (v + 1)..f, LeftAt(h, e, g)
            PROVE  g <= now.resets[e]
        <4>1. CASE g = f
          BY <1>1, <1>2, <1>8, <3>3, <4>1
        <4>2. CASE g # f
          <5>1. g \in (v + 1)..(f - 1)  BY <1>2, <3>1, <4>2
          <5>2. g <= old.resets[e]  BY <1>6, <3>1, <3>3, <5>1 DEF CoversAt
          <5>. QED  BY <1>2, <1>8, <1>10, <4>2, <5>2
        <4>. QED  BY <4>1, <4>2
      <3>. QED  BY <1>6, <3>2, <3>3 DEF CoversAt
    <2>. QED  BY <2>1, <2>2
  <1>14. ASSUME NEW e \in Eids, now.resets[e] # 0 PROVE now.resets[e] > from
    BY <1>2, <1>7, <1>8, <1>14 DEF SoundFrom
  <1>15. SoundFrom(now, from, h)
    BY <1>6, <1>12, <1>13, <1>14 DEF SoundFrom
  <1>. QED  BY <1>4, <1>5, <1>15 DEF SoundTo, now, new, d

\* A frame that changes nothing may be left out.
LEMMA QuietFrameSound ==
  ASSUME NEW h, NEW f \in Nat, NEW from \in Nat, from < f, Quiet(h, f),
         NEW acc \in Diffs, SoundTo(acc, from, f - 1, h)
  PROVE  SoundTo(acc, from, f, h)
  <1>. DEFINE old == [acc EXCEPT !.to = f - 1]
              now == [acc EXCEPT !.to = f]
  <1>1. /\ old.to = f - 1 /\ now.to = f /\ now.snapshots = old.snapshots
        /\ now.removed = old.removed /\ now.resets = old.resets
        /\ old.removed \subseteq Cids
        /\ \A e \in Eids : old.resets[e] \in Nat
    BY DEF Diffs
  <1>2. SoundFrom(old, from, h)  BY DEF SoundTo
  <1>. HIDE DEF old, now
  <1>3. \A c \in Cids : Val(h, f, c) = Val(h, f - 1, c)  BY DEF Quiet
  <1>4. Truthful(old, h)  BY <1>2 DEF SoundFrom
  <1>5. Truthful(now, h)  BY <1>1, <1>3, <1>4 DEF Truthful
  <1>6. ASSUME NEW v \in from..f PROVE CoversAt(now, v, h)
    <2>1. CASE v = f
      <3>1. ASSUME NEW e \in Eids PROVE ~(now.resets[e] > f)
        BY <1>1, <1>4 DEF Truthful
      <3>. QED  BY <1>1, <2>1, <3>1, EidOfCid DEF CoversAt
    <2>2. CASE v # f
      <3>1. v \in from..(f - 1) /\ CoversAt(old, v, h)
        BY <1>1, <1>2, <2>2 DEF SoundFrom
      <3>2. ASSUME v # 0, NEW e \in Eids, NEW g \in (v + 1)..f, LeftAt(h, e, g)
            PROVE  g <= now.resets[e]
        <4>1. g # f  BY <3>2 DEF Quiet
        <4>2. g \in (v + 1)..(f - 1)  BY <3>1, <4>1
        <4>. QED  BY <1>1, <3>1, <3>2, <4>2 DEF CoversAt
      <3>. QED  BY <1>1, <1>3, <3>1, <3>2 DEF CoversAt
    <2>. QED  BY <2>1, <2>2
  <1>7. SoundFrom(now, from, h)  BY <1>1, <1>2, <1>5, <1>6 DEF SoundFrom
  <1>. QED  BY <1>7 DEF SoundTo, now

(***************************************************************************)
(* History.pull tells a client everything that changed after `from`, and   *)
(* nothing that is not true of the server's views, when the window holds   *)
(* every one of the frames after `from` that changed something.            *)
(***************************************************************************)
THEOREM PullIsSound ==
  ASSUME NEW n \in Nat, NEW h, IsHistory(h, n), NEW from \in Nat, NEW to \in Nat,
         from <= to, to <= n, NEW window,
         \A f \in (from + 1)..to : IF f \in DOMAIN window THEN window[f] = FrameDiff(h, f)
                                   ELSE Quiet(h, f)
  PROVE  LET d == HistoryPull(window, from, to) IN
         d \in Diffs /\ d.from = from /\ d.to = to /\ SoundFrom(d, from, h)
  <1>. DEFINE frames == {f \in DOMAIN window : from < f /\ f <= to}
              span[f \in from..to] ==
                IF f = from THEN EmptyDiff(from, to)
                ELSE IF f \in frames THEN FoldFrame(span[f - 1], window[f]) ELSE span[f - 1]
  <1>1. HistoryPull(window, from, to) = span[to]  BY DEF HistoryPull
  <1>2. \A f \in (from + 1)..to : IF f \in frames THEN window[f] = FrameDiff(h, f)
                                  ELSE Quiet(h, f)
    OBVIOUS
  <1>. HIDE DEF frames
  <1>3. span = [f \in from..to |->
                  IF f = from THEN EmptyDiff(from, to)
                  ELSE IF f \in frames THEN FoldFrame(span[f - 1], window[f])
                  ELSE span[f - 1]]
    <2>1. \E s : IsSpan(s, window, from, to, frames)  BY SpanExists
    <2>. QED  BY <2>1 DEF IsSpan, span
  <1>. HIDE DEF span
  <1>. DEFINE Good(f) == /\ span[f] \in Diffs /\ span[f].from = from /\ span[f].to = to
                         /\ SoundTo(span[f], from, f, h)
              Bad == {j \in 0..to - from : ~Good(from + j)}
  <1>4. Good(from)
    <2>. DEFINE d == EmptyDiff(from, to)
                e == [d EXCEPT !.to = from]
    <2>1. span[from] = d /\ d \in Diffs /\ d.from = from /\ d.to = to
      BY <1>3 DEF EmptyDiff, Diffs
    <2>2. /\ e.to = from /\ e.removed = {}
          /\ \A c \in Cids : e.snapshots[c] = 0
          /\ \A i \in Eids : e.resets[i] = 0
      BY DEF EmptyDiff
    <2>. HIDE DEF e
    <2>3. SoundFrom(e, from, h)
      BY <2>2, EidOfCid DEF SoundFrom, Truthful, CoversAt
    <2>. QED  BY <2>1, <2>3 DEF SoundTo, e
  <1>5. ASSUME NEW j \in Bad PROVE j # 0 /\ j - 1 \in Bad
    <2>1. j \in Nat /\ from + j \in from..to /\ j # 0  BY <1>4, <1>5
    <2>. DEFINE f == from + j
    <2>2. /\ f # from /\ from + (j - 1) = f - 1 /\ j - 1 \in 0..to - from
          /\ f - 1 \in from..to /\ f \in from..to /\ f \in (from + 1)..to /\ f \in 1..n /\ from < f /\ f \in Nat
      BY <2>1
    <2>. HIDE DEF f
    <2>3. ASSUME Good(f - 1) PROVE Good(f)
      <3>1. CASE f \in frames
        <4>1. span[f] = FoldFrame(span[f - 1], FrameDiff(h, f))
          BY <1>2, <1>3, <2>2, <3>1
        <4>. QED  BY <2>2, <2>3, <4>1, FoldFrameSound
      <3>2. CASE f \notin frames
        <4>1. span[f] = span[f - 1]  BY <1>3, <2>2, <3>2
        <4>2. Quiet(h, f)  BY <1>2, <2>2, <3>2
        <4>. QED  BY <2>2, <2>3, <4>1, <4>2, QuietFrameSound
      <3>. QED  BY <3>1, <3>2
    <2>. QED  BY <1>5, <2>1, <2>2, <2>3 DEF f
  <1>6. Bad = {}
    <2>1. Bad \subseteq 0..to - from /\ to - from \in Nat  OBVIOUS
    <2>. HIDE DEF Bad
    <2>. QED  BY <1>5, <2>1, NoLeastCounterexample
  <1>7. to - from \in 0..to - from /\ from + (to - from) = to  OBVIOUS
  <1>8. Good(to)  BY <1>6, <1>7
  <1>9. [span[to] EXCEPT !.to = to] = span[to]  BY <1>8 DEF Diffs
  <1>. QED  BY <1>1, <1>8, <1>9 DEF SoundTo

-----------------------------------------------------------------------------
(* The client's entities.                                                   *)

\* An entity that is in the view and does not leave it stays in.
LEMMA StaysIn ==
  ASSUME NEW n \in Nat, NEW h, IsHistory(h, n), NEW e \in Eids, NEW v \in Nat, NEW w \in 0..n,
         v <= w, h[v][e].in, \A f \in (v + 1)..w : ~LeftAt(h, e, f)
  PROVE  h[w][e].in
  <1>. DEFINE Bad == {j \in 0..w - v : ~h[v + j][e].in}
  <1>1. ASSUME NEW j \in Bad PROVE j # 0 /\ j - 1 \in Bad
    <2>1. j \in Nat /\ v + j <= w /\ j # 0  BY <1>1
    <2>2. v + j \in (v + 1)..w /\ (v + j) - 1 = v + (j - 1) /\ j - 1 \in 0..w - v
      BY <2>1
    <2>3. ~h[v + (j - 1)][e].in  BY <1>1, <2>2 DEF LeftAt
    <2>. QED  BY <2>1, <2>2, <2>3
  <1>2. Bad = {}
    <2>1. Bad \subseteq 0..w - v /\ w - v \in Nat  OBVIOUS
    <2>. HIDE DEF Bad
    <2>. QED  BY <1>1, <2>1, NoLeastCounterexample
  <1>3. w - v \in 0..w - v /\ v + (w - v) = w  OBVIOUS
  <1>. QED  BY <1>2, <1>3

\* Applying a diff that covers the rendered view renders the view at its end.
LEMMA ApplyIsSound ==
  ASSUME NEW n \in Nat, NEW h, IsHistory(h, n), NEW d \in Diffs, NEW v \in Nat,
         d.from = v, v <= d.to, d.to <= n, Truthful(d, h), CoversAt(d, v, h),
         NEW w \in Worlds, SameComponents(w, h[v])
  PROVE  LET next == ApplyDiff(w, DropAppliedResets(d)) IN
         next \in Worlds /\ SameComponents(next, h[d.to])
  <1>. DEFINE a == DropAppliedResets(d)
              next == ApplyDiff(w, a)
  <1>1. /\ d.snapshots \in [Cids -> Nat] /\ d.resets \in [Eids -> Nat]
        /\ d.removed \subseteq Cids /\ d.to \in Nat
    BY DEF Diffs
  <1>2. /\ a.snapshots = d.snapshots /\ a.removed = d.removed /\ a.to = d.to
        /\ \A e \in Eids : a.resets[e] = IF d.resets[e] <= v THEN 0 ELSE d.resets[e]
    BY DEF DropAppliedResets, Diffs
  <1>. HIDE DEF a
  <1>. DEFINE kept(e) == IF a.resets[e] # 0 THEN NoEntity ELSE w[e]
              written(e) == {t \in Types : d.snapshots[<<e, t>>] # 0}
              entity(e) == IF written(e) # {} /\ ~Exists(kept(e))
                           THEN [kept(e) EXCEPT !.born = d.to] ELSE kept(e)
              comps(e) == [t \in Types |-> IF <<e, t>> \in d.removed THEN 0
                                           ELSE IF t \in written(e) THEN d.snapshots[<<e, t>>]
                                           ELSE kept(e).components[t]]
  <1>3. ASSUME NEW e \in Eids
        PROVE  /\ kept(e) \in [born : Nat \cup {NoFrame}, components : [Types -> Nat]]
               /\ entity(e) \in [born : Nat \cup {NoFrame}, components : [Types -> Nat]]
               /\ entity(e).components = kept(e).components
    <2>1. kept(e) \in [born : Nat \cup {NoFrame}, components : [Types -> Nat]]
      BY DEF Worlds, NoEntity
    <2>. HIDE DEF kept, written
    <2>. QED  BY <1>1, <2>1
  <1>4. next = [e \in Eids |-> [entity(e) EXCEPT !.components = comps(e)]]
    <2>1. next = [e \in Eids |->
            [entity(e) EXCEPT !.components =
               [t \in Types |-> IF <<e, t>> \in d.removed THEN 0
                                ELSE IF t \in written(e) THEN d.snapshots[<<e, t>>]
                                ELSE @[t]]]]
      BY <1>2 DEF ApplyDiff
    <2>2. \A e \in Eids :
            [entity(e) EXCEPT !.components =
               [t \in Types |-> IF <<e, t>> \in d.removed THEN 0
                                ELSE IF t \in written(e) THEN d.snapshots[<<e, t>>]
                                ELSE @[t]]] = [entity(e) EXCEPT !.components = comps(e)]
      <3>. HIDE DEF entity, written, kept
      <3>. QED  BY <1>3
    <2>. HIDE DEF next, entity, written, kept, comps
    <2>. QED  BY <2>1, <2>2
  <1>5. ASSUME NEW e \in Eids PROVE comps(e) = h[d.to][e].components
    <2>1. d.to \in 0..n /\ v \in 0..n  BY <1>1
    <2>2. h[d.to][e].components \in [Types -> Nat] /\ h[v][e].components \in [Types -> Nat]
      BY <2>1 DEF IsHistory, Views
    <2>3. ASSUME NEW t \in Types PROVE comps(e)[t] = h[d.to][e].components[t]
      <3>. DEFINE c == <<e, t>>
      <3>1. /\ c \in Cids /\ Eid(c) = e /\ Val(h, d.to, c) = h[d.to][e].components[t]
            /\ Val(h, v, c) = h[v][e].components[t]
        BY DEF Cids, Eid, Val
      <3>2. d.resets[e] \in Nat /\ w[e].components = h[v][e].components
        BY <1>1 DEF SameComponents
      <3>3. comps(e)[t] = IF c \in d.removed THEN 0
                          ELSE IF d.snapshots[c] # 0 THEN d.snapshots[c]
                          ELSE kept(e).components[t]
        OBVIOUS
      <3>4. kept(e).components[t] = IF d.resets[e] > v THEN 0 ELSE Val(h, v, c)
        <4>1. CASE d.resets[e] > v
          BY <1>2, <3>2, <4>1 DEF NoEntity
        <4>2. CASE ~(d.resets[e] > v)
          BY <1>2, <3>1, <3>2, <4>2
        <4>. QED  BY <4>1, <4>2
      <3>. HIDE DEF c, comps, kept
      <3>. QED  BY <3>1, <3>3, <3>4 DEF Truthful, CoversAt
    <2>. QED  BY <2>2, <2>3
  <1>. HIDE DEF entity, comps, kept, written
  <1>6. ASSUME NEW e \in Eids
        PROVE  /\ next[e] \in [born : Nat \cup {NoFrame}, components : [Types -> Nat]]
               /\ next[e].components = h[d.to][e].components
    <2>1. h[d.to][e].components \in [Types -> Nat]
      BY <1>1 DEF IsHistory, Views
    <2>2. next[e] = [entity(e) EXCEPT !.components = comps(e)]  BY <1>4
    <2>3. comps(e) = h[d.to][e].components  BY <1>5
    <2>4. entity(e) \in [born : Nat \cup {NoFrame}, components : [Types -> Nat]]  BY <1>3
    <2>. HIDE DEF next
    <2>. QED  BY <2>1, <2>2, <2>3, <2>4
  <1>7. next \in Worlds  BY <1>4, <1>6 DEF Worlds
  <1>. QED  BY <1>6, <1>7 DEF SameComponents, a

\* Applying it leaves no entity that outlives a reset of its id, and replaces only
\* entities that left the view on the way.
LEMMA ApplyKeepsFresh ==
  ASSUME NEW n \in Nat, NEW h, IsHistory(h, n), NEW d \in Diffs, NEW v \in Nat,
         d.from = v, v <= d.to, d.to <= n, Truthful(d, h), CoversAt(d, v, h),
         NEW w \in Worlds
  PROVE  LET next == ApplyDiff(w, DropAppliedResets(d)) IN
         /\ NoneStale(w, h, v) => NoneStale(next, h, d.to)
         /\ ReplacedOnlyByReset(w, next, h, v, d.to)
  <1>. DEFINE a == DropAppliedResets(d)
              next == ApplyDiff(w, a)
              none == [t \in Types |-> 0]
  <1>1. /\ d.snapshots \in [Cids -> Nat] /\ d.resets \in [Eids -> Nat]
        /\ d.removed \subseteq Cids /\ d.to \in Nat /\ d.to \in 0..n /\ v \in 0..n
    BY DEF Diffs
  <1>2. /\ a.snapshots = d.snapshots /\ a.removed = d.removed /\ a.to = d.to
        /\ \A e \in Eids : a.resets[e] = IF d.resets[e] <= v THEN 0 ELSE d.resets[e]
    BY DEF DropAppliedResets, Diffs
  <1>. HIDE DEF a
  <1>. DEFINE kept(e) == IF a.resets[e] # 0 THEN NoEntity ELSE w[e]
              written(e) == {t \in Types : d.snapshots[<<e, t>>] # 0}
              entity(e) == IF written(e) # {} /\ ~Exists(kept(e))
                           THEN [kept(e) EXCEPT !.born = d.to] ELSE kept(e)
              set(e, t, was) == IF <<e, t>> \in d.removed THEN 0
                                ELSE IF t \in written(e) THEN d.snapshots[<<e, t>>] ELSE was
  <1>0. ASSUME NEW e \in Eids
        PROVE  next[e] = [entity(e) EXCEPT !.components = [t \in Types |-> set(e, t, @[t])]]
    BY <1>2 DEF ApplyDiff
  <1>9. ASSUME NEW e \in Eids PROVE next[e].born = entity(e).born
    <2>1. entity(e) \in [born : Nat \cup {NoFrame}, components : [Types -> Nat]]
      <3>1. kept(e) \in [born : Nat \cup {NoFrame}, components : [Types -> Nat]]
        BY DEF Worlds, NoEntity
      <3>. HIDE DEF kept, written
      <3>. QED  BY <1>1, <3>1
    <2>. HIDE DEF next, entity, set
    <2>. QED  BY <1>0, <2>1
  \* An entity that is kept keeps its birth; another one is born now, or is none.
  <1>3. ASSUME NEW e \in Eids, Exists(kept(e))
        PROVE  kept(e) = w[e] /\ next[e].born = w[e].born /\ ~(d.resets[e] > v)
    <2>1. a.resets[e] = 0 /\ kept(e) = w[e]  BY <1>3 DEF Exists
    <2>2. d.resets[e] \in Nat  BY <1>1
    <2>3. ~(d.resets[e] > v)  BY <1>2, <2>1, <2>2
    <2>4. entity(e) = w[e]  BY <1>3, <2>1
    <2>5. next[e].born = entity(e).born  BY <1>9
    <2>. QED  BY <2>1, <2>3, <2>4, <2>5
  <1>4. ASSUME NEW e \in Eids, ~Exists(kept(e)), Exists(next[e])
        PROVE  h[d.to][e].in /\ next[e].born = d.to
    <2>1. kept(e) = NoEntity  BY <1>4 DEF Exists
    <2>2. written(e) # {}
      <3>. SUFFICES ASSUME written(e) = {} PROVE FALSE
        OBVIOUS
      <3>1. entity(e) = NoEntity  BY <2>1
      <3>2. next[e] = [NoEntity EXCEPT !.components = [t \in Types |-> set(e, t, @[t])]]
        <4>. HIDE DEF next, entity, set
        <4>. QED  BY <1>0, <3>1
      <3>3. next[e] = [NoEntity EXCEPT !.components = none]
        <4>1. NoEntity.components = none  BY DEF NoEntity
        <4>2. [t \in Types |-> set(e, t, none[t])] = none  OBVIOUS
        <4>. HIDE DEF next, set, none
        <4>. QED  BY <3>2, <4>1, <4>2
      <3>4. next[e] = NoEntity  BY <3>3 DEF NoEntity
      <3>. QED  BY <1>4, <3>4 DEF Exists
    <2>3. PICK t \in Types : d.snapshots[<<e, t>>] # 0  BY <2>2
    <2>4. <<e, t>> \in Cids /\ Eid(<<e, t>>) = e  BY DEF Cids, Eid
    <2>5. h[d.to][e].components[t] # 0  BY <2>3, <2>4 DEF Truthful, Val
    <2>6. h[d.to][e].in  BY <1>1, <2>5 DEF IsHistory
    <2>7. entity(e).born = d.to
      BY <1>4, <2>1, <2>2 DEF NoEntity
    <2>8. next[e].born = entity(e).born  BY <1>9
    <2>. QED  BY <2>6, <2>7, <2>8
  <1>. HIDE DEF kept, written, entity, set, next, a
  <1>5. ASSUME NoneStale(w, h, v), NEW e \in Eids, Exists(next[e])
        PROVE  h[d.to][e].in /\ \A f \in 1..d.to : f > next[e].born => ~LeftAt(h, e, f)
    <2>1. CASE ~Exists(kept(e))
      <3>1. h[d.to][e].in /\ next[e].born = d.to  BY <1>4, <1>5, <2>1
      <3>. QED  BY <1>1, <3>1
    <2>2. CASE Exists(kept(e))
      <3>1. kept(e) = w[e] /\ next[e].born = w[e].born /\ ~(d.resets[e] > v)
        BY <1>3, <2>2
      <3>2. h[v][e].in /\ \A f \in 1..v : f > w[e].born => ~LeftAt(h, e, f)
        BY <1>5, <2>2, <3>1 DEF NoneStale
      <3>3. v # 0
        <4>1. ~h[0][e].in  BY DEF IsHistory, EmptyView, NotInView
        <4>. QED  BY <3>2, <4>1
      <3>4. \A f \in (v + 1)..d.to : ~LeftAt(h, e, f)
        <4>. SUFFICES ASSUME NEW f \in (v + 1)..d.to, LeftAt(h, e, f) PROVE FALSE
          OBVIOUS
        <4>1. f <= d.resets[e] /\ d.resets[e] \in Nat  BY <1>1, <3>3 DEF CoversAt
        <4>. QED  BY <1>1, <3>1, <4>1
      <3>5. \A f \in 1..d.to : f \in 1..v \/ f \in (v + 1)..d.to
        BY <1>1
      <3>6. \A f \in 1..d.to : f > next[e].born => ~LeftAt(h, e, f)
        BY <3>1, <3>2, <3>4, <3>5
      <3>7. h[d.to][e].in
        BY <1>1, <3>2, <3>4, StaysIn
      <3>. QED  BY <3>6, <3>7
    <2>. QED  BY <2>1, <2>2
  <1>6. ASSUME NEW e \in Eids, Exists(w[e]), next[e].born # w[e].born
        PROVE  \E f \in (v + 1)..d.to : LeftAt(h, e, f)
    <2>1. ~Exists(kept(e))  BY <1>3, <1>6
    <2>2. a.resets[e] # 0  BY <1>6, <2>1 DEF kept
    <2>3. d.resets[e] \in Nat /\ d.resets[e] > v  BY <1>1, <1>2, <2>2
    <2>4. d.resets[e] # 0 /\ d.resets[e] <= d.to  BY <2>3 DEF Truthful
    <2>5. LeftAt(h, e, d.resets[e])  BY <2>4 DEF Truthful
    <2>6. d.resets[e] \in (v + 1)..d.to  BY <1>1, <2>3, <2>4
    <2>. QED  BY <2>5, <2>6
  <1>. QED  BY <1>5, <1>6 DEF NoneStale, ReplacedOnlyByReset, next, a

-----------------------------------------------------------------------------
(* The bucket.                                                              *)

Buckets == [Slots -> Diffs \cup {NoDiff}]

Filled(bucket, i) == bucket[i] # NoDiff

\* A slot connects to an older one: what it holds starts no later than that ends.
Connects(bucket, from, i) ==
  \E j \in 0..(i - 1) : Filled(bucket, j) /\ from <= bucket[j].to

\* The slots tell all there is to tell after frame v, which the client renders.
\* Slot 0 may hold many frames folded into one; a later slot holds one frame, from
\* no later than an older slot ends.
Chain(bucket, base, v, h) ==
  /\ Filled(bucket, 0) /\ bucket[0].to <= base
  /\ Truthful(bucket[0], h) /\ CoversAt(bucket[0], v, h) /\ v <= bucket[0].to
  /\ \A i \in 1..(MaxLength - 1) : Filled(bucket, i) =>
       /\ bucket[i].to = base + i
       /\ Connects(bucket, bucket[i].from, i)
       /\ \E lo \in Nat : lo <= bucket[i].from /\ SoundFrom(bucket[i], lo, h)

LEMMA SlotNumbers == MaxLength \in Nat /\ MaxLength >= 2 /\ Slots = 0..(MaxLength - 1)
  BY BufferAssumption DEF Slots

LEMMA NoDiffIsNone == NoDiff \notin Diffs /\ NoDiff.to = NoFrame
  BY DEF NoDiff, EmptyDiff, NoFrame, Diffs

\* The folds of ever more slots.
IsFold(g, d, bucket, n) ==
  g = [i \in -1..n |-> IF i = -1 THEN d ELSE Merge(g[i - 1], bucket[i])]

LEMMA FoldExists ==
  ASSUME NEW d, NEW bucket, NEW n \in Nat
  PROVE  \E g : IsFold(g, d, bucket, n)
  <1>. DEFINE Bad == {j \in 0..n + 1 : ~ \E g : IsFold(g, d, bucket, j - 1)}
  <1>1. ASSUME NEW j \in Bad PROVE j # 0
    <2>1. IsFold([i \in -1..-1 |-> d], d, bucket, -1)  BY DEF IsFold
    <2>2. 0 - 1 = -1  OBVIOUS
    <2>. QED  BY <1>1, <2>1, <2>2
  <1>2. ASSUME NEW j \in Bad PROVE j - 1 \in Bad
    <2>. SUFFICES ASSUME j - 1 \notin Bad PROVE FALSE
      OBVIOUS
    <2>. DEFINE k == j - 1
    <2>1. k \in Nat /\ k \in 0..n + 1 /\ -1 <= k - 1  BY <1>1
    <2>2. PICK r : IsFold(r, d, bucket, k - 1)  BY <2>1
    <2>. HIDE DEF k
    <2>. DEFINE g == [i \in -1..k |-> IF i = k THEN Merge(r[k - 1], bucket[k]) ELSE r[i]]
    <2>3. ASSUME NEW i \in -1..k
          PROVE  g[i] = IF i = -1 THEN d ELSE Merge(g[i - 1], bucket[i])
      <3>1. CASE i = k
        <4>1. k - 1 \in -1..k /\ k - 1 # k /\ k # -1 /\ k \in -1..k  BY <2>1
        <4>2. g[k] = Merge(r[k - 1], bucket[k]) /\ g[k - 1] = r[k - 1]  BY <4>1
        <4>. HIDE DEF g
        <4>. QED  BY <3>1, <4>1, <4>2
      <3>2. CASE i # k
        <4>1. i \in -1..k - 1 /\ (i # -1 => i - 1 \in -1..k /\ i - 1 # k)  BY <2>1, <3>2
        <4>2. g[i] = r[i] /\ (i # -1 => g[i - 1] = r[i - 1])  BY <3>2, <4>1
        <4>. HIDE DEF g
        <4>. QED  BY <2>2, <4>1, <4>2 DEF IsFold
      <3>. QED  BY <3>1, <3>2
    <2>4. IsFold(g, d, bucket, k)
      <3>1. g = [i \in -1..k |-> g[i]]  OBVIOUS
      <3>. HIDE DEF g
      <3>. QED  BY <2>3, <3>1 DEF IsFold
    <2>. QED  BY <2>4 DEF k
  <1>3. Bad = {}
    <2>1. Bad \subseteq 0..n + 1 /\ n + 1 \in Nat  OBVIOUS
    <2>. HIDE DEF Bad
    <2>. QED  BY <1>1, <1>2, <2>1, NoLeastCounterexample
  <1>4. n + 1 \in 0..n + 1 /\ (n + 1) - 1 = n  OBVIOUS
  <1>. QED  BY <1>3, <1>4

\* Merging what is there of two slots.
LEMMA MergeTwo ==
  ASSUME NEW a \in Diffs, NEW b \in Diffs
  PROVE  /\ Merge(a, b) = MergeDiffs(a, b) /\ Merge(a, NoDiff) = a
         /\ Merge(NoDiff, b) = b
  BY NoDiffIsNone DEF Merge

\* The fold of a chain's oldest slots, onto nothing or onto the rendered frame, ends
\* where the last of them ends and covers the rendered view.
FoldOK(p, d, bucket, base, k, v, h) ==
  /\ p \in Diffs /\ Truthful(p, h) /\ CoversAt(p, v, h) /\ v <= p.to
  /\ d # NoDiff => p.from = v
  /\ p.to <= base + k
  /\ \A j \in 0..k : Filled(bucket, j) => bucket[j].to <= p.to
  /\ \E j \in 0..k : Filled(bucket, j) /\ p.to = bucket[j].to

LEMMA FoldFirst ==
  ASSUME NEW h, NEW bucket \in Buckets, NEW base \in Nat, NEW v \in Nat,
         Chain(bucket, base, v, h), NEW d \in {NoDiff, EmptyDiff(v, v)}
  PROVE  FoldOK(Merge(d, bucket[0]), d, bucket, base, 0, v, h)
  <1>1. bucket[0] \in Diffs
    BY SlotNumbers DEF Buckets, Chain, Filled
  <1>2. \A j \in 0..0 : j = 0  OBVIOUS
  <1>3. 0 \in 0..0 /\ base + 0 = base  OBVIOUS
  <1>4. bucket[0].to \in Nat  BY <1>1 DEF Diffs
  <1>5. CASE d = NoDiff
    <2>1. Merge(d, bucket[0]) = bucket[0]  BY <1>1, <1>5, MergeTwo
    <2>. QED  BY <1>1, <1>2, <1>3, <1>4, <1>5, <2>1 DEF FoldOK, Chain
  <1>6. CASE d = EmptyDiff(v, v)
    <2>1. LET m == Merge(d, bucket[0]) IN
          /\ m \in Diffs /\ m.from = v /\ m.to = bucket[0].to
          /\ Truthful(m, h) /\ CoversAt(m, v, h)
      BY <1>1, <1>6, MergeOntoEmpty DEF Chain
    <2>. QED  BY <1>2, <1>3, <1>4, <2>1 DEF FoldOK, Chain
  <1>. QED  BY <1>5, <1>6

LEMMA FoldNext ==
  ASSUME NEW h, NEW bucket \in Buckets, NEW base \in Nat, NEW v \in Nat,
         Chain(bucket, base, v, h), NEW d, NEW k \in 1..(MaxLength - 1), NEW p,
         FoldOK(p, d, bucket, base, k - 1, v, h)
  PROVE  FoldOK(Merge(p, bucket[k]), d, bucket, base, k, v, h)
  <1>1. k \in Slots /\ k \in Nat /\ \A j \in 0..k : j = k \/ j \in 0..(k - 1)
    BY SlotNumbers
  <1>2. p \in Diffs /\ p.to \in Nat  BY DEF FoldOK, Diffs
  <1>3. CASE ~Filled(bucket, k)
    <2>1. Merge(p, bucket[k]) = p  BY <1>2, <1>3, MergeTwo DEF Filled
    <2>2. \A j \in 0..(k - 1) : j \in 0..k  OBVIOUS
    <2>. QED  BY <1>1, <1>2, <1>3, <2>1, <2>2 DEF FoldOK
  <1>4. CASE Filled(bucket, k)
    <2>. DEFINE b == bucket[k]
                m == MergeDiffs(p, b)
    <2>1. b \in Diffs  BY <1>1, <1>4 DEF Buckets, Filled
    <2>2. Merge(p, b) = m /\ m \in Diffs /\ m.from = p.from /\ m.to = b.to
      BY <1>2, <2>1, MergeTwo, MergeFields
    <2>3. b.to = base + k /\ Connects(bucket, b.from, k)  BY <1>4 DEF Chain
    <2>4. PICK lo \in Nat : lo <= b.from /\ SoundFrom(b, lo, h)  BY <1>4 DEF Chain
    <2>5. b.from \in Nat /\ b.to \in Nat /\ v <= p.to /\ p.to <= base + (k - 1)
      BY <2>1 DEF Diffs, FoldOK
    <2>6. b.from <= p.to
      <3>1. PICK j \in 0..(k - 1) : Filled(bucket, j) /\ b.from <= bucket[j].to
        BY <2>3 DEF Connects
      <3>2. bucket[j] \in Diffs /\ bucket[j].to \in Nat
        BY <3>1, SlotNumbers DEF Buckets, Filled, Diffs
      <3>3. bucket[j].to <= p.to  BY <3>1 DEF FoldOK
      <3>. QED  BY <1>2, <2>5, <3>1, <3>2, <3>3
    <2>7. lo <= p.to /\ p.to <= b.to  BY <1>1, <1>2, <2>3, <2>4, <2>5, <2>6
    <2>8. Truthful(m, h) /\ CoversAt(m, v, h)
      BY <1>2, <2>1, <2>4, <2>5, <2>7, MergeCovers DEF FoldOK
    <2>9. ASSUME NEW j \in 0..k, Filled(bucket, j) PROVE bucket[j].to <= b.to
      <3>1. CASE j = k
        BY <2>5, <3>1
      <3>2. CASE j \in 0..(k - 1)
        <4>1. bucket[j] \in Diffs /\ bucket[j].to \in Nat
          BY <2>9, SlotNumbers DEF Buckets, Filled, Diffs
        <4>2. bucket[j].to <= p.to  BY <2>9, <3>2 DEF FoldOK
        <4>. QED  BY <1>2, <2>5, <2>7, <4>1, <4>2
      <3>. QED  BY <1>1, <3>1, <3>2
    <2>10. v <= b.to  BY <1>2, <2>5, <2>7
    <2>. QED  BY <1>1, <1>4, <2>2, <2>3, <2>5, <2>8, <2>9, <2>10 DEF FoldOK
  <1>. QED  BY <1>3, <1>4

LEMMA FoldIsSound ==
  ASSUME NEW h, NEW bucket \in Buckets, NEW base \in Nat, NEW v \in Nat,
         Chain(bucket, base, v, h), NEW d \in {NoDiff, EmptyDiff(v, v)},
         NEW k \in 0..(MaxLength - 1)
  PROVE  FoldOK(Fold(d, bucket, k), d, bucket, base, k, v, h)
  <1>. DEFINE fold[i \in -1..k] == IF i = -1 THEN d ELSE Merge(fold[i - 1], bucket[i])
  <1>1. Fold(d, bucket, k) = fold[k]  BY DEF Fold
  <1>2. fold = [i \in -1..k |-> IF i = -1 THEN d ELSE Merge(fold[i - 1], bucket[i])]
    <2>1. k \in Nat  OBVIOUS
    <2>2. \E g : IsFold(g, d, bucket, k)  BY <2>1, FoldExists
    <2>. QED  BY <2>2 DEF IsFold, fold
  <1>. HIDE DEF fold
  <1>. DEFINE Good(i) == FoldOK(fold[i], d, bucket, base, i, v, h)
              Bad == {i \in 0..k : ~Good(i)}
  <1>3. Good(0)
    <2>1. -1 \in -1..k /\ 0 \in -1..k /\ 0 - 1 = -1  BY SlotNumbers
    <2>2. fold[-1] = d  BY <1>2, <2>1
    <2>3. fold[0] = Merge(fold[-1], bucket[0])  BY <1>2, <2>1
    <2>. QED  BY <2>2, <2>3, FoldFirst
  <1>4. ASSUME NEW i \in Bad PROVE i # 0 /\ i - 1 \in Bad
    <2>1. i \in 0..k /\ i # 0  BY <1>3, <1>4
    <2>2. i \in -1..k /\ i # -1 /\ i - 1 \in 0..k /\ i \in 1..(MaxLength - 1)
      BY <2>1, SlotNumbers
    <2>3. fold[i] = Merge(fold[i - 1], bucket[i])  BY <1>2, <2>2
    <2>4. Good(i - 1) => Good(i)  BY <2>2, <2>3, FoldNext
    <2>. QED  BY <1>4, <2>1, <2>2, <2>4
  <1>5. Bad = {}
    <2>1. Bad \subseteq 0..k /\ k \in Nat  OBVIOUS
    <2>. HIDE DEF Bad
    <2>. QED  BY <1>4, <2>1, NoLeastCounterexample
  <1>6. k \in 0..k  BY SlotNumbers
  <1>. QED  BY <1>1, <1>5, <1>6

-----------------------------------------------------------------------------
(* What the buffer holds.                                                   *)

\* The slots, with the newest frame received and the frame v that is rendered.
BucketInv(bucket, base, version, v, h) ==
  IF base = NoFrame
  THEN bucket = EmptyBucket /\ (version = v \/ (version = NoFrame /\ v = 0))
  ELSE /\ base \in Nat /\ version \in Nat
       /\ Chain(bucket, base, v, h)
       /\ \A i \in Slots : Filled(bucket, i) => bucket[i].to <= version
       /\ \E i \in Slots : Filled(bucket, i) /\ bucket[i].to = version

\* A delta: it holds everything after its first frame.
IsDelta(d, h) == d \in Diffs /\ d.from < d.to /\ SoundFrom(d, d.from, h)

LEMMA SlotDiff ==
  ASSUME NEW bucket \in Buckets, NEW i \in Slots, Filled(bucket, i)
  PROVE  bucket[i] \in Diffs /\ bucket[i].from \in Nat /\ bucket[i].to \in Nat
  <1>1. bucket[i] \in Diffs  BY DEF Buckets, Filled
  <1>. QED  BY <1>1 DEF Diffs

\* A diff that is not covered by a later one starts no later than the slots before
\* its own reach.
LEMMA Connect ==
  ASSUME NEW h, NEW bucket \in Buckets, NEW base \in Nat, NEW version \in Nat,
         NEW v \in Nat, BucketInv(bucket, base, version, v, h),
         NEW d \in Diffs, d.from <= version, NEW index \in Slots, d.to = base + index,
         ~ \E i \in Slots : /\ i > index /\ Filled(bucket, i)
                            /\ d.from > bucket[0].to
                            /\ bucket[i].from <= d.from
  PROVE  /\ index = 0 => d.from <= bucket[0].to
         /\ index # 0 /\ ~Filled(bucket, index) => Connects(bucket, d.from, index)
  <1>1. /\ Chain(bucket, base, v, h) /\ 0 \in Slots /\ Filled(bucket, 0)
        /\ bucket[0].to \in Nat /\ d.from \in Nat /\ base # NoFrame
    <2>1. base # NoFrame  BY DEF NoFrame
    <2>2. Chain(bucket, base, v, h)  BY <2>1 DEF BucketInv
    <2>3. 0 \in Slots /\ Filled(bucket, 0)  BY <2>2, SlotNumbers DEF Chain
    <2>. QED  BY <2>1, <2>2, <2>3, SlotDiff DEF Diffs
  <1>2. CASE d.from <= bucket[0].to
    <2>1. index # 0 => 0 \in 0..(index - 1)  BY SlotNumbers
    <2>. QED  BY <1>1, <1>2, <2>1 DEF Connects
  <1>3. CASE d.from > bucket[0].to
    <2>1. PICK j \in Slots : Filled(bucket, j) /\ bucket[j].to = version
      BY <1>1 DEF BucketInv
    <2>. DEFINE Later == {i \in Slots : i > index /\ Filled(bucket, i)}
    <2>2. CASE Later = {}
      <3>1. j <= index  BY <2>1, <2>2, SlotNumbers
      <3>2. j # 0  BY <1>1, <1>3, <2>1
      <3>3. j # index => j \in 0..(index - 1)  BY <2>1, <3>1, SlotNumbers
      <3>4. index # 0  BY <3>1, <3>2, SlotNumbers
      <3>. QED  BY <2>1, <3>3, <3>4 DEF Connects
    <2>3. CASE Later # {}
      <3>1. Later \subseteq Nat  BY SlotNumbers
      <3>2. PICK i \in Later : \A k \in Later : i <= k
        <4>. HIDE DEF Later
        <4>. QED  BY <2>3, <3>1, LeastMember
      <3>3. i \in 1..(MaxLength - 1) /\ i \in Slots /\ i > index /\ Filled(bucket, i)
        BY SlotNumbers
      <3>4. bucket[i].from > d.from  
        <4>1. bucket[i].from \in Nat  BY <3>3, SlotDiff
        <4>. QED  BY <1>1, <1>3, <3>3, <4>1
      <3>5. PICK k \in 0..(i - 1) : Filled(bucket, k) /\ bucket[i].from <= bucket[k].to
        BY <1>1, <3>3 DEF Chain, Connects
      <3>6. k \in Slots /\ ~(k \in Later)  BY <3>2, <3>3, <3>5, SlotNumbers
      <3>7. k <= index /\ k \in Nat  BY <3>5, <3>6, SlotNumbers
      <3>8. d.from <= bucket[k].to
        <4>1. bucket[i].from \in Nat /\ bucket[k].to \in Nat
          BY <3>3, <3>5, <3>6, SlotDiff
        <4>. QED  BY <1>1, <3>4, <3>5, <4>1
      <3>9. k # 0  BY <1>1, <1>3, <3>8
      <3>10. index # 0 /\ (k # index => k \in 0..(index - 1))
        BY <3>7, <3>9, SlotNumbers
      <3>. QED  BY <3>5, <3>8, <3>10 DEF Connects
    <2>. QED  BY <2>2, <2>3
  <1>. QED  BY <1>1, <1>2, <1>3

LEMMA MergeEnds ==
  ASSUME NEW a \in Diffs, NEW b \in Diffs
  PROVE  LET m == Merge(a, b) IN
         m = MergeDiffs(a, b) /\ m \in Diffs /\ m.from = a.from /\ m.to = b.to
  <1>1. Merge(a, b) = MergeDiffs(a, b)  BY MergeTwo
  <1>2. LET m == MergeDiffs(a, b) IN m \in Diffs /\ m.from = a.from /\ m.to = b.to
    BY MergeFields
  <1>. QED  BY <1>1, <1>2

\* Placing a delta in its slot.
LEMMA PlaceInSlot ==
  ASSUME NEW h, NEW bucket \in Buckets, NEW base \in Nat, NEW version \in Nat,
         NEW v \in Nat, BucketInv(bucket, base, version, v, h),
         NEW d, IsDelta(d, h), NEW index \in Slots, d.to = base + index,
         index = 0 => d.from <= bucket[0].to,
         index # 0 /\ ~Filled(bucket, index) => Connects(bucket, d.from, index)
  PROVE  LET new == [bucket EXCEPT ![index] = Merge(@, d)] IN
         /\ new \in Buckets /\ ~CannotMerge(bucket[index], d)
         /\ BucketInv(new, base, IF d.to > version THEN d.to ELSE version, v, h)
  <1>. DEFINE new == [bucket EXCEPT ![index] = Merge(@, d)]
              m == Merge(bucket[index], d)
              newest == IF d.to > version THEN d.to ELSE version
  <1>1. /\ Chain(bucket, base, v, h) /\ 0 \in Slots /\ Filled(bucket, 0)
        /\ bucket[0].to \in Nat /\ bucket[0].to <= base /\ base # NoFrame
        /\ d \in Diffs /\ d.from \in Nat /\ d.to \in Nat /\ d.from < d.to
        /\ d.from \in Nat
    <2>1. base # NoFrame  BY DEF NoFrame
    <2>2. Chain(bucket, base, v, h)  BY <2>1 DEF BucketInv
    <2>3. 0 \in Slots /\ Filled(bucket, 0)  BY <2>2, SlotNumbers DEF Chain
    <2>4. d \in Diffs /\ d.from < d.to  BY DEF IsDelta
    <2>. QED  BY <2>1, <2>2, <2>3, <2>4, SlotDiff DEF Diffs, Chain
  <1>2. SoundFrom(d, d.from, h)  BY DEF IsDelta
  \* The slot, after.
  <1>3. /\ m \in Diffs /\ m.to = d.to /\ ~CannotMerge(bucket[index], d)
        /\ Truthful(m, h)
        /\ index = 0 => CoversAt(m, v, h) /\ v <= m.to
        /\ index # 0 => /\ Connects(bucket, m.from, index)
                       /\ \E lo \in Nat : lo <= m.from /\ SoundFrom(m, lo, h)
    <2>1. CASE ~Filled(bucket, index)
      <3>1. m = d /\ index # 0 /\ ~CannotMerge(bucket[index], d)
        BY <1>1, <2>1, MergeTwo DEF Filled, CannotMerge
      <3>2. d.from <= d.from  BY <1>1
      <3>. QED  BY <1>1, <1>2, <2>1, <3>1, <3>2 DEF SoundFrom
    <2>2. CASE Filled(bucket, index) /\ index = 0
      <3>1. bucket[0] \in Diffs  BY <1>1, SlotDiff
      <3>2. m = MergeDiffs(bucket[0], d) /\ m \in Diffs /\ m.to = d.to
        BY <1>1, <2>2, <3>1, MergeEnds
      <3>3. v <= bucket[0].to /\ d.from <= bucket[0].to /\ bucket[0].to <= d.to
        BY <1>1, <2>2 DEF Chain
      <3>4. Truthful(m, h) /\ CoversAt(m, v, h)
        BY <1>1, <1>2, <3>1, <3>2, <3>3, MergeCovers DEF Chain
      <3>5. v <= m.to  BY <1>1, <3>2, <3>3
      <3>6. ~CannotMerge(bucket[0], d)  BY <1>1, <3>3 DEF CannotMerge
      <3>. QED  BY <2>2, <3>2, <3>4, <3>5, <3>6
    <2>3. CASE Filled(bucket, index) /\ index # 0
      <3>. DEFINE b == bucket[index]
      <3>1. b \in Diffs /\ b.from \in Nat /\ b.to \in Nat  BY <2>3, SlotDiff
      <3>2. m = MergeDiffs(b, d) /\ m \in Diffs /\ m.to = d.to /\ m.from = b.from
        BY <1>1, <3>1, MergeEnds
      <3>3. index \in 1..(MaxLength - 1)  BY <2>3, SlotNumbers
      <3>4. b.to = d.to /\ Connects(bucket, b.from, index)  BY <1>1, <2>3, <3>3 DEF Chain
      <3>5. PICK la \in Nat : la <= b.from /\ SoundFrom(b, la, h)
        BY <1>1, <2>3, <3>3 DEF Chain
      <3>6. la <= b.to
        <4>1. PICK j \in 0..(index - 1) : Filled(bucket, j) /\ b.from <= bucket[j].to
          BY <3>4 DEF Connects
        <4>2. j \in Slots /\ j <= index /\ j \in Nat  BY <4>1, SlotNumbers
        <4>3. bucket[j].to <= base + j
          <5>1. j # 0 => j \in 1..(MaxLength - 1)  BY <4>2, SlotNumbers
          <5>2. base + 0 = base  OBVIOUS
          <5>3. \A x \in Nat : x <= x  OBVIOUS
          <5>4. j # 0 => bucket[j].to = base + j  BY <1>1, <4>1, <5>1 DEF Chain
          <5>5. j = 0 => bucket[j].to <= base + j  BY <1>1, <5>2
          <5>6. base + j \in Nat  BY <4>2
          <5>. QED  BY <5>3, <5>4, <5>5, <5>6
        <4>4. bucket[j].to \in Nat  BY <4>1, <4>2, SlotDiff
        <4>. QED  BY <1>1, <3>1, <3>4, <3>5, <4>1, <4>2, <4>3, <4>4, SlotNumbers
      <3>7. \E lo \in Nat : lo <= la /\ SoundFrom(m, lo, h)
        <4>1. d.from <= d.to  BY <1>1
        <4>. QED  BY <1>1, <1>2, <3>1, <3>2, <3>4, <3>5, <3>6, <4>1, MergeSameEnd
      <3>8. PICK lo \in Nat : lo <= la /\ SoundFrom(m, lo, h)  BY <3>7
      <3>9. lo <= m.from  BY <3>1, <3>2, <3>5, <3>8
      <3>10. ~CannotMerge(b, d)  BY <1>1, <3>4 DEF CannotMerge
      <3>. QED  BY <2>3, <3>2, <3>4, <3>8, <3>9, <3>10 DEF SoundFrom
    <2>. QED  BY <1>1, <2>1, <2>2, <2>3
  <1>4. new[index] = m /\ \A i \in Slots : i # index => new[i] = bucket[i]
    BY DEF Buckets
  <1>5. new \in Buckets  BY <1>3 DEF Buckets
  <1>. HIDE DEF new, m
  <1>6. Filled(new, index) /\ \A i \in Slots : Filled(bucket, i) => Filled(new, i)
    BY <1>3, <1>4, NoDiffIsNone DEF Filled
  \* A slot reaches no less far than before.
  <1>7. ASSUME NEW i \in Slots, Filled(bucket, i) PROVE bucket[i].to <= new[i].to
    <2>1. bucket[i].to \in Nat  BY <1>7, SlotDiff
    <2>2. CASE i # index
      BY <1>4, <2>1, <2>2
    <2>3. CASE i = index /\ i = 0
      BY <1>1, <1>3, <1>4, <2>3
    <2>4. CASE i = index /\ i # 0
      <3>1. i \in 1..(MaxLength - 1)  BY <2>4, SlotNumbers
      <3>2. bucket[i].to = base + i  BY <1>1, <1>7, <3>1 DEF Chain
      <3>. QED  BY <1>1, <1>3, <1>4, <2>4, <3>2
    <2>. QED  BY <2>2, <2>3, <2>4
  <1>8. ASSUME NEW i \in Slots, NEW from \in Nat, Connects(bucket, from, i)
        PROVE  Connects(new, from, i)
    <2>1. PICK j \in 0..(i - 1) : Filled(bucket, j) /\ from <= bucket[j].to
      BY <1>8 DEF Connects
    <2>2. j \in Slots  BY SlotNumbers
    <2>3. bucket[j].to \in Nat /\ new[j].to \in Nat
      BY <1>5, <1>6, <2>1, <2>2, SlotDiff
    <2>4. from <= new[j].to  BY <1>7, <2>1, <2>2, <2>3
    <2>. QED  BY <1>6, <2>1, <2>2, <2>4 DEF Connects
  <1>9. Chain(new, base, v, h)
    <2>1. /\ Filled(new, 0) /\ new[0].to <= base /\ Truthful(new[0], h)
          /\ CoversAt(new[0], v, h) /\ v <= new[0].to
      <3>1. CASE index = 0
        BY <1>1, <1>3, <1>4, <1>6, <3>1
      <3>2. CASE index # 0
        BY <1>1, <1>4, <1>6, <3>2 DEF Chain
      <3>. QED  BY <3>1, <3>2
    <2>2. ASSUME NEW i \in 1..(MaxLength - 1), Filled(new, i)
          PROVE  /\ new[i].to = base + i /\ Connects(new, new[i].from, i)
                 /\ \E lo \in Nat : lo <= new[i].from /\ SoundFrom(new[i], lo, h)
      <3>1. i \in Slots /\ i # 0 /\ new[i].from \in Nat
        BY <1>5, <2>2, SlotNumbers, SlotDiff
      <3>2. CASE i = index
        BY <1>3, <1>4, <1>8, <3>1, <3>2
      <3>3. CASE i # index
        <4>1. new[i] = bucket[i] /\ Filled(bucket, i)  BY <1>4, <2>2, <3>1, <3>3 DEF Filled
        <4>. QED  BY <1>1, <1>8, <3>1, <4>1 DEF Chain
      <3>. QED  BY <3>2, <3>3
    <2>. QED  BY <2>1, <2>2 DEF Chain
  <1>10. newest \in Nat /\ newest >= version /\ newest >= d.to  BY <1>1
  <1>11. ASSUME NEW i \in Slots, Filled(new, i) PROVE new[i].to <= newest
    <2>1. CASE i = index
      BY <1>3, <1>4, <1>10, <2>1
    <2>2. CASE i # index
      <3>1. new[i] = bucket[i] /\ Filled(bucket, i) /\ bucket[i].to \in Nat
        BY <1>4, <1>11, <2>2, SlotDiff DEF Filled
      <3>2. bucket[i].to <= version  BY <1>1, <3>1 DEF BucketInv
      <3>. QED  BY <1>10, <3>1, <3>2
    <2>. QED  BY <2>1, <2>2
  <1>12. \E i \in Slots : Filled(new, i) /\ new[i].to = newest
    <2>1. CASE d.to > version
      BY <1>3, <1>4, <1>6, <2>1
    <2>2. CASE ~(d.to > version)
      <3>1. PICK i \in Slots : Filled(bucket, i) /\ bucket[i].to = version
        BY <1>1 DEF BucketInv
      <3>2. Filled(new, i) /\ new[i].to \in Nat  BY <1>5, <1>6, <3>1, SlotDiff
      <3>3. new[i].to = newest  BY <1>7, <1>10, <1>11, <2>2, <3>1, <3>2
      <3>. QED  BY <3>2, <3>3
    <2>. QED  BY <2>1, <2>2
  <1>. QED  BY <1>1, <1>3, <1>5, <1>9, <1>10, <1>11, <1>12 DEF BucketInv, new

\* The slot after a fold starts no later than the fold ends.
LEMMA JoinsFold ==
  ASSUME NEW h, NEW bucket \in Buckets, NEW base \in Nat, NEW v \in Nat,
         Chain(bucket, base, v, h), NEW d, NEW k \in 0..(MaxLength - 1), NEW p,
         FoldOK(p, d, bucket, base, k, v, h),
         NEW i \in 1..(MaxLength - 1), k < i, \A j \in (k + 1)..(i - 1) : ~Filled(bucket, j),
         Filled(bucket, i)
  PROVE  bucket[i].from <= p.to
  <1>1. PICK j \in 0..(i - 1) : Filled(bucket, j) /\ bucket[i].from <= bucket[j].to
    BY DEF Chain, Connects
  <1>2. j \in 0..k /\ j \in Slots /\ i \in Slots
    <2>1. j \in (k + 1)..(i - 1) \/ j \in 0..k  BY SlotNumbers
    <2>2. j \in 0..k  BY <1>1, <2>1
    <2>. QED  BY <2>2, SlotNumbers
  <1>3. bucket[j].to \in Nat /\ bucket[i].from \in Nat  BY <1>1, <1>2, SlotDiff
  <1>4. bucket[j].to <= p.to /\ p.to \in Nat  BY <1>1, <1>2 DEF FoldOK, Diffs
  <1>. QED  BY <1>1, <1>3, <1>4

\* The slots after the n oldest are folded into one.
LastFolded(n) == IF n < MaxLength THEN n ELSE MaxLength - 1
Compacted(bucket, n) ==
  [Shift(bucket, n) EXCEPT ![0] = Fold(NoDiff, bucket, LastFolded(n))]

LEMMA CompactSlots ==
  ASSUME NEW h, NEW bucket \in Buckets, NEW base \in Nat, NEW version \in Nat,
         NEW v \in Nat, BucketInv(bucket, base, version, v, h), NEW n \in Nat, n >= 1
  PROVE  /\ Compacted(bucket, n) \in Buckets
         /\ BucketInv(Compacted(bucket, n), base + n, version, v, h)
         /\ \A i \in 1..LastFolded(n) : ~CannotMerge(Fold(NoDiff, bucket, i - 1), bucket[i])
         /\ n >= MaxLength => Compacted(bucket, n)[0].to = version
         /\ ~Filled(Compacted(bucket, n), MaxLength - 1)
  <1>. DEFINE last == LastFolded(n)
              p == Fold(NoDiff, bucket, last)
              new == [Shift(bucket, n) EXCEPT ![0] = p]
  <1>0. last \in 0..(MaxLength - 1) /\ last = IF n < MaxLength THEN n ELSE MaxLength - 1
    BY SlotNumbers DEF LastFolded
  <1>. HIDE DEF last
  <1>1. Chain(bucket, base, v, h)  BY DEF BucketInv, NoFrame
  <1>2. \A k \in 0..(MaxLength - 1) : FoldOK(Fold(NoDiff, bucket, k), NoDiff, bucket, base, k, v, h)
    BY <1>1, FoldIsSound
  <1>3. /\ p \in Diffs /\ p.to \in Nat /\ Truthful(p, h) /\ CoversAt(p, v, h) /\ v <= p.to
        /\ p.to <= base + last
        /\ \A j \in 0..last : Filled(bucket, j) => bucket[j].to <= p.to
        /\ \E j \in 0..last : Filled(bucket, j) /\ p.to = bucket[j].to
    BY <1>0, <1>2 DEF FoldOK, Diffs
  <1>4. ASSUME NEW i \in 1..last PROVE ~CannotMerge(Fold(NoDiff, bucket, i - 1), bucket[i])
    <2>. DEFINE q == Fold(NoDiff, bucket, i - 1)
    <2>1. /\ i - 1 \in 0..(MaxLength - 1) /\ i \in 1..(MaxLength - 1) /\ i - 1 < i
          /\ \A j \in ((i - 1) + 1)..(i - 1) : FALSE
          /\ i \in Slots
      BY <1>0, SlotNumbers
    <2>2. FoldOK(q, NoDiff, bucket, base, i - 1, v, h)  BY <1>2, <2>1
    <2>. HIDE DEF q
    <2>3. Filled(bucket, i) => bucket[i].from <= q.to  BY <1>1, <2>1, <2>2, JoinsFold
    <2>4. q.to \in Nat /\ (Filled(bucket, i) => bucket[i].from \in Nat)
      BY <2>1, <2>2, SlotDiff DEF FoldOK, Diffs
    <2>5. ~CannotMerge(q, bucket[i])  BY <2>3, <2>4 DEF CannotMerge, Filled
    <2>. QED  BY <2>5 DEF q
  <1>. HIDE DEF p
  <1>5. /\ new[0] = p
        /\ \A i \in 1..(MaxLength - 1) :
             new[i] = IF i + n <= MaxLength - 1 THEN bucket[i + n] ELSE NoDiff
    BY SlotNumbers DEF Shift
  <1>6. new \in Buckets
    <2>1. Shift(bucket, n) \in Buckets  BY DEF Shift, Buckets
    <2>. QED  BY <1>3, <2>1 DEF Buckets
  <1>. HIDE DEF new
  <1>7. Filled(new, 0) /\ new[0].to <= base + n
    <2>1. last <= n /\ last \in Nat  BY <1>0, SlotNumbers
    <2>2. p.to <= base + n  BY <1>3, <2>1
    <2>. QED  BY <1>3, <1>5, <2>2, NoDiffIsNone DEF Filled
  <1>8. ASSUME NEW i \in 1..(MaxLength - 1), Filled(new, i)
        PROVE  /\ i + n \in 1..(MaxLength - 1) /\ new[i] = bucket[i + n]
               /\ Filled(bucket, i + n) /\ last = n
    <2>1. i + n <= MaxLength - 1 /\ new[i] = bucket[i + n]  BY <1>5, <1>8 DEF Filled
    <2>2. Filled(bucket, i + n)  BY <1>8, <2>1 DEF Filled
    <2>3. n < MaxLength /\ i + n \in 1..(MaxLength - 1)  BY <2>1, SlotNumbers
    <2>4. last = n  BY <1>0, <2>3
    <2>. QED  BY <2>1, <2>2, <2>3, <2>4
  <1>9. ASSUME NEW i \in 1..(MaxLength - 1), Filled(new, i)
        PROVE  /\ new[i].to = base + n + i /\ Connects(new, new[i].from, i)
               /\ \E lo \in Nat : lo <= new[i].from /\ SoundFrom(new[i], lo, h)
    <2>1. /\ bucket[i + n].to = base + (i + n)
          /\ Connects(bucket, bucket[i + n].from, i + n)
          /\ \E lo \in Nat : lo <= bucket[i + n].from /\ SoundFrom(bucket[i + n], lo, h)
      BY <1>1, <1>8, <1>9 DEF Chain
    <2>2. PICK j \in 0..((i + n) - 1) : Filled(bucket, j) /\ bucket[i + n].from <= bucket[j].to
      BY <2>1 DEF Connects
    <2>3. i + n \in Slots /\ j \in Slots  BY <1>8, <1>9, SlotNumbers
    <2>4. bucket[i + n].from \in Nat /\ bucket[j].to \in Nat
      BY <1>8, <1>9, <2>2, <2>3, SlotDiff
    <2>5. Connects(new, bucket[i + n].from, i)
      <3>1. CASE j <= n
        <4>1. j \in 0..last  BY <1>8, <1>9, <3>1, SlotNumbers
        <4>2. bucket[i + n].from <= p.to  BY <1>3, <2>2, <2>4, <4>1
        <4>3. 0 \in 0..(i - 1)  BY SlotNumbers
        <4>. QED  BY <1>5, <1>7, <4>2, <4>3 DEF Connects
      <3>2. CASE j > n
        <4>1. j - n \in 0..(i - 1) /\ j - n \in 1..(MaxLength - 1) /\ (j - n) + n = j
              /\ j <= MaxLength - 1
          BY <2>3, <3>2, SlotNumbers
        <4>2. new[j - n] = bucket[j]  BY <1>5, <4>1
        <4>. QED  BY <2>2, <4>1, <4>2 DEF Connects, Filled
      <3>. QED  BY <2>3, <3>1, <3>2, SlotNumbers
    <2>6. base + (i + n) = base + n + i  BY SlotNumbers
    <2>. QED  BY <1>8, <1>9, <2>1, <2>5, <2>6
  <1>10. Chain(new, base + n, v, h)
    BY <1>3, <1>5, <1>7, <1>9 DEF Chain
  <1>11. ASSUME NEW i \in Slots, Filled(new, i) PROVE new[i].to <= version
    <2>1. CASE i = 0
      <3>1. PICK j \in 0..last : Filled(bucket, j) /\ p.to = bucket[j].to  BY <1>3
      <3>2. j \in Slots  BY <1>0, SlotNumbers
      <3>. QED  BY <1>5, <2>1, <3>1, <3>2 DEF BucketInv, NoFrame
    <2>2. CASE i # 0
      <3>1. i \in 1..(MaxLength - 1)  BY <2>2, SlotNumbers
      <3>2. new[i] = bucket[i + n] /\ Filled(bucket, i + n) /\ i + n \in Slots
        BY <1>8, <1>11, <3>1, SlotNumbers
      <3>. QED  BY <3>2 DEF BucketInv, NoFrame
    <2>. QED  BY <2>1, <2>2
  <1>12. PICK j \in Slots : Filled(bucket, j) /\ bucket[j].to = version
    BY DEF BucketInv, NoFrame
  <1>13. j <= last => p.to = version
    <2>. SUFFICES ASSUME j <= last PROVE p.to = version
      OBVIOUS
    <2>1. bucket[j].to <= p.to  
      <3>1. j \in 0..last  BY <1>0, SlotNumbers
      <3>. QED  BY <1>3, <1>12, <3>1
    <2>2. p.to <= version
      <3>1. 0 \in Slots  BY SlotNumbers
      <3>. QED  BY <1>5, <1>7, <1>11, <3>1
    <2>. QED  BY <1>3, <1>12, <2>1, <2>2
  <1>14. \E i \in Slots : Filled(new, i) /\ new[i].to = version
    <2>1. CASE j <= last
      <3>1. 0 \in Slots  BY SlotNumbers
      <3>. QED  BY <1>5, <1>7, <1>13, <2>1, <3>1
    <2>2. CASE j > last
      <3>1. last = n /\ j - n \in 1..(MaxLength - 1) /\ (j - n) + n = j /\ j - n \in Slots
            /\ j <= MaxLength - 1
        BY <1>0, <2>2, SlotNumbers
      <3>2. new[j - n] = bucket[j]  BY <1>5, <3>1
      <3>. QED  BY <1>12, <3>1, <3>2 DEF Filled
    <2>. QED  BY <1>0, <2>1, <2>2, SlotNumbers
  <1>15. n >= MaxLength => new[0].to = version
    <2>1. n >= MaxLength => j <= last  BY <1>0, SlotNumbers
    <2>. QED  BY <1>5, <1>13, <2>1
  <1>16. ~Filled(new, MaxLength - 1)
    <2>1. MaxLength - 1 \in 1..(MaxLength - 1) /\ ~((MaxLength - 1) + n <= MaxLength - 1)
      BY SlotNumbers
    <2>. QED  BY <1>5, <2>1 DEF Filled
  <1>17. BucketInv(new, base + n, version, v, h)
    <2>1. base + n \in Nat /\ base + n # NoFrame  BY DEF NoFrame
    <2>. QED  BY <1>10, <1>11, <1>14, <2>1 DEF BucketInv
  <1>. QED  BY <1>4, <1>6, <1>15, <1>16, <1>17 DEF new, p, last, Compacted

-----------------------------------------------------------------------------
(* push.                                                                    *)

BufferInv(buf, h) ==
  /\ buf \in Buffers /\ ~buf.failed
  /\ \A d \in buf.held : IsDelta(d, h)
  /\ BucketInv(buf.bucket, buf.base, buf.version, buf.stateVersion, h)

LEMMA BufferFields ==
  ASSUME NEW buf \in Buffers
  PROVE  /\ buf.bucket \in Buckets /\ buf.base \in Nat \cup {NoFrame}
         /\ buf.version \in Nat \cup {NoFrame} /\ buf.held \in SUBSET Diffs
         /\ buf.gap \in BOOLEAN /\ buf.stateVersion \in Nat /\ buf.failed \in BOOLEAN
  BY DEF Buffers, Buckets

\* What Place leaves in the buffer.
LEMMA PlaceFields ==
  ASSUME NEW buf \in Buffers, NEW d \in Diffs, NEW index \in Slots, index = d.to - buf.base,
         buf.version \in Nat,
         [buf.bucket EXCEPT ![index] = Merge(@, d)] \in Buckets,
         ~CannotMerge(buf.bucket[index], d)
  PROVE  LET new == Place(buf, d) IN
         /\ new \in Buffers
         /\ new.bucket = [buf.bucket EXCEPT ![index] = Merge(@, d)]
         /\ new.base = buf.base /\ new.held = buf.held
         /\ new.version = IF d.to > buf.version THEN d.to ELSE buf.version
         /\ new.stateVersion = buf.stateVersion /\ new.failed = buf.failed
  <1>. DEFINE bucket == [buf.bucket EXCEPT ![index] = Merge(@, d)]
              version == IF d.to > buf.version THEN d.to ELSE buf.version
              failed == buf.failed \/ CannotMerge(buf.bucket[index], d)
  <1>1. Place(buf, d) = [buf EXCEPT !.bucket = bucket, !.version = version, !.failed = failed]
    BY DEF Place, Buffers
  <1>2. version \in Nat /\ failed \in BOOLEAN /\ failed = buf.failed
    <2>1. buf.failed \in BOOLEAN /\ d.to \in Nat  BY DEF Buffers, Diffs
    <2>. QED  BY <2>1
  <1>3. bucket \in Buckets  OBVIOUS
  <1>. HIDE DEF bucket, version, failed
  <1>4. [buf EXCEPT !.bucket = bucket, !.version = version, !.failed = failed] \in Buffers
    BY <1>2, <1>3 DEF Buffers, Buckets
  <1>5. LET new == [buf EXCEPT !.bucket = bucket, !.version = version, !.failed = failed] IN
        /\ new.bucket = bucket /\ new.version = version /\ new.failed = failed
        /\ new.base = buf.base /\ new.held = buf.held /\ new.stateVersion = buf.stateVersion
    BY DEF Buffers
  <1>. QED  BY <1>1, <1>2, <1>4, <1>5 DEF bucket, version

\* A delta that fits the bucket goes into its slot.
LEMMA PlaceIsSound ==
  ASSUME NEW h, NEW buf, BufferInv(buf, h), buf.base # NoFrame, NEW d, IsDelta(d, h),
         NEW index \in Slots, index = d.to - buf.base,
         index = 0 => d.from <= buf.bucket[0].to,
         index # 0 /\ ~Filled(buf.bucket, index) => Connects(buf.bucket, d.from, index)
  PROVE  LET new == Place(buf, d) IN
         /\ BufferInv(new, h) /\ new.version # NoFrame
         /\ new.held = buf.held /\ new.stateVersion = buf.stateVersion
  <1>1. /\ buf \in Buffers /\ buf.bucket \in Buckets /\ buf.base \in Nat
        /\ buf.stateVersion \in Nat /\ ~buf.failed
        /\ \A x \in buf.held : IsDelta(x, h)
        /\ BucketInv(buf.bucket, buf.base, buf.version, buf.stateVersion, h)
    BY BufferFields DEF BufferInv
  <1>2. buf.version \in Nat  BY <1>1 DEF BucketInv
  <1>3. d \in Diffs /\ d.to \in Nat  BY DEF IsDelta, Diffs
  <1>4. d.to = buf.base + index  BY <1>1, <1>3, SlotNumbers
  <1>5. LET new == [buf.bucket EXCEPT ![index] = Merge(@, d)] IN
        /\ new \in Buckets /\ ~CannotMerge(buf.bucket[index], d)
        /\ BucketInv(new, buf.base, IF d.to > buf.version THEN d.to ELSE buf.version,
                     buf.stateVersion, h)
    BY <1>1, <1>2, <1>4, PlaceInSlot
  <1>6. LET new == Place(buf, d) IN
        /\ new \in Buffers
        /\ new.bucket = [buf.bucket EXCEPT ![index] = Merge(@, d)]
        /\ new.base = buf.base /\ new.held = buf.held
        /\ new.version = IF d.to > buf.version THEN d.to ELSE buf.version
        /\ new.stateVersion = buf.stateVersion /\ new.failed = buf.failed
    BY <1>1, <1>2, <1>3, <1>5, PlaceFields
  <1>7. (IF d.to > buf.version THEN d.to ELSE buf.version) # NoFrame
    BY <1>2, <1>3 DEF NoFrame
  <1>. QED  BY <1>1, <1>5, <1>6, <1>7 DEF BufferInv

\* Compacting the bucket leaves room for the diff of slot `index`, and something for
\* it to start from.
LEMMA CompactIsSound ==
  ASSUME NEW h, NEW buf, BufferInv(buf, h), buf.base # NoFrame, NEW index \in Nat,
         index >= MaxLength, NEW to, to = buf.base + index
  PROVE  LET new == Compact(buf, index) IN
         /\ BufferInv(new, h) /\ new.base # NoFrame /\ new.version = buf.version
         /\ new.held = buf.held /\ new.stateVersion = buf.stateVersion
         /\ \/ to - new.base = 0 /\ new.bucket[0].to = new.version
            \/ /\ to - new.base = MaxLength - 1
               /\ ~Filled(new.bucket, MaxLength - 1)
  <1>. DEFINE n == IF index - (MaxLength - 1) >= MaxLength THEN index
                   ELSE index - (MaxLength - 1)
              bucket == Compacted(buf.bucket, n)
              base == buf.base + n
              failed == buf.failed \/ \E i \in 1..LastFolded(n) :
                          CannotMerge(Fold(NoDiff, buf.bucket, i - 1), buf.bucket[i])
  <1>1. /\ buf \in Buffers /\ buf.bucket \in Buckets /\ buf.base \in Nat
        /\ buf.stateVersion \in Nat /\ ~buf.failed
        /\ \A x \in buf.held : IsDelta(x, h)
        /\ BucketInv(buf.bucket, buf.base, buf.version, buf.stateVersion, h)
    BY BufferFields DEF BufferInv
  <1>2. buf.version \in Nat  BY <1>1 DEF BucketInv
  <1>3. Compact(buf, index) = [buf EXCEPT !.bucket = bucket, !.base = base, !.failed = failed]
    BY DEF Compact, Buffers, Compacted, LastFolded
  <1>4. n \in Nat /\ n >= 1
    BY SlotNumbers
  <1>5. (index - n = 0 /\ n >= MaxLength) \/ index - n = MaxLength - 1
    BY SlotNumbers
  <1>. HIDE DEF n
  <1>6. /\ bucket \in Buckets
        /\ BucketInv(bucket, base, buf.version, buf.stateVersion, h)
        /\ \A i \in 1..LastFolded(n) :
             ~CannotMerge(Fold(NoDiff, buf.bucket, i - 1), buf.bucket[i])
        /\ n >= MaxLength => bucket[0].to = buf.version
        /\ ~Filled(bucket, MaxLength - 1)
    BY <1>1, <1>2, <1>4, CompactSlots
  <1>7. failed = FALSE  BY <1>1, <1>6
  <1>. HIDE DEF bucket, failed
  <1>8. base \in Nat /\ base # NoFrame /\ to - base = index - n
    BY <1>1, <1>4 DEF NoFrame
  <1>. HIDE DEF base
  <1>9. LET new == [buf EXCEPT !.bucket = bucket, !.base = base, !.failed = failed] IN
        /\ new \in Buffers
        /\ new.bucket = bucket /\ new.base = base /\ new.failed = failed
        /\ new.version = buf.version /\ new.held = buf.held
        /\ new.stateVersion = buf.stateVersion
    BY <1>1, <1>6, <1>7, <1>8 DEF Buffers, Buckets
  <1>. QED  BY <1>1, <1>3, <1>5, <1>6, <1>7, <1>8, <1>9 DEF BufferInv

\* A delta that starts no later than the newest frame received keeps the buffer sound.
LEMMA AcceptIsSound ==
  ASSUME NEW h, NEW buf, BufferInv(buf, h), buf.version # NoFrame,
         NEW d, IsDelta(d, h), d.from <= buf.version
  PROVE  LET new == Accept(buf, d) IN
         /\ BufferInv(new, h) /\ new.version # NoFrame
         /\ new.held = buf.held /\ new.stateVersion = buf.stateVersion
  <1>. DEFINE index == d.to - buf.base
              new == Accept(buf, d)
  <1>1. /\ buf \in Buffers /\ buf.bucket \in Buckets
        /\ buf.stateVersion \in Nat /\ ~buf.failed /\ buf.version \in Nat
        /\ \A x \in buf.held : IsDelta(x, h)
        /\ BucketInv(buf.bucket, buf.base, buf.version, buf.stateVersion, h)
    BY BufferFields DEF BufferInv
  <1>2. d \in Diffs /\ d.from \in Nat /\ d.to \in Nat /\ d.from < d.to
    BY DEF IsDelta, Diffs
  <1>. SUFFICES /\ BufferInv(new, h) /\ new.version # NoFrame
                /\ new.held = buf.held /\ new.stateVersion = buf.stateVersion
    OBVIOUS
  <1>3. CASE new = buf
    BY <1>3
  <1>4. CASE buf.base = NoFrame /\ new # buf
    <2>1. /\ buf.bucket = EmptyBucket /\ buf.version = buf.stateVersion
          /\ d.to > buf.version
      BY <1>1, <1>2, <1>4 DEF BucketInv, Accept
    <2>. DEFINE bucket == [EmptyBucket EXCEPT ![0] = d]
    <2>2. new = [buf EXCEPT !.bucket = bucket, !.base = d.to, !.version = d.to]
      BY <1>1, <1>2, <1>4, <2>1 DEF Accept, Buffers
    <2>3. /\ bucket[0] = d /\ bucket \in Buckets
          /\ \A i \in 1..(MaxLength - 1) : ~Filled(bucket, i)
      BY <1>2, SlotNumbers DEF EmptyBucket, Buckets, Filled
    <2>4. 0 \in Slots /\ \A i \in Slots : i = 0 \/ i \in 1..(MaxLength - 1)
      BY SlotNumbers
    <2>. HIDE DEF bucket, new
    <2>5. Chain(bucket, d.to, buf.stateVersion, h)
      <3>1. Filled(bucket, 0) /\ d.to <= d.to /\ buf.stateVersion <= d.to
        BY <1>1, <1>2, <2>1, <2>3, NoDiffIsNone DEF Filled
      <3>2. buf.stateVersion \in d.from..d.to  BY <1>1, <1>2, <2>1
      <3>. QED  BY <2>3, <3>1, <3>2 DEF Chain, IsDelta, SoundFrom
    <2>6. BucketInv(bucket, d.to, d.to, buf.stateVersion, h)
      <3>1. d.to # NoFrame /\ d.to <= d.to  BY <1>2 DEF NoFrame
      <3>. QED  BY <1>2, <2>3, <2>4, <2>5, <3>1 DEF BucketInv, Chain
    <2>7. /\ new \in Buffers
          /\ new.bucket = bucket /\ new.base = d.to /\ new.failed = buf.failed
          /\ new.version = d.to /\ new.held = buf.held
          /\ new.stateVersion = buf.stateVersion
      BY <1>1, <1>2, <2>2, <2>3 DEF Buffers, Buckets
    <2>8. new.version # NoFrame  BY <1>2, <2>7 DEF NoFrame
    <2>. QED  BY <1>1, <2>6, <2>7, <2>8 DEF BufferInv
  <1>5. CASE buf.base # NoFrame /\ new # buf
    <2>1. buf.base \in Nat /\ index \in Int /\ ~(index < 0) /\ ~Covered(buf, d)
      BY <1>1, <1>2, <1>5 DEF BucketInv, Accept
    <2>2. new = Place(IF index >= MaxLength THEN Compact(buf, index) ELSE buf, d)
      BY <1>5 DEF Accept
    <2>3. CASE index < MaxLength
      <3>1. index \in Slots /\ d.to = buf.base + index /\ new = Place(buf, d)
        BY <1>2, <2>1, <2>2, <2>3, SlotNumbers
      <3>2. Filled(buf.bucket, 0)  BY <1>1, <1>5 DEF BucketInv, Chain
      <3>3. ~ \E i \in Slots : /\ i > index /\ Filled(buf.bucket, i)
                               /\ d.from > buf.bucket[0].to
                               /\ buf.bucket[i].from <= d.from
        <4>. SUFFICES ASSUME NEW i \in Slots, i > index, Filled(buf.bucket, i),
                             d.from > buf.bucket[0].to, buf.bucket[i].from <= d.from
                      PROVE  Covered(buf, d)
          BY <2>1
        <4>1. i \in 1..(MaxLength - 1)  BY <2>1, SlotNumbers
        <4>2. buf.bucket[i].to = buf.base + i  BY <1>1, <1>5, <4>1 DEF BucketInv, Chain
        <4>3. buf.bucket[i].to >= d.to  BY <2>1, <3>1, <4>1, <4>2
        <4>. QED  BY <3>2, <4>3 DEF Covered, Filled
      <3>. HIDE DEF index, new
      <3>4. /\ index = 0 => d.from <= buf.bucket[0].to
            /\ index # 0 /\ ~Filled(buf.bucket, index) =>
                 Connects(buf.bucket, d.from, index)
        BY <1>1, <1>2, <2>1, <3>1, <3>3, Connect
      <3>5. index = d.to - buf.base  BY DEF index
      <3>6. BufferInv(buf, h) /\ IsDelta(d, h) /\ buf.base # NoFrame  BY <1>5
      <3>7. /\ BufferInv(Place(buf, d), h) /\ Place(buf, d).version # NoFrame
            /\ Place(buf, d).held = buf.held
            /\ Place(buf, d).stateVersion = buf.stateVersion
        BY <3>1, <3>4, <3>5, <3>6, PlaceIsSound, Zenon
      <3>8. new = Place(buf, d)  BY <3>1
      <3>. QED  BY <3>7, <3>8, Zenon
    <2>4. CASE index >= MaxLength
      <3>. DEFINE c == Compact(buf, index)
      <3>1. index \in Nat /\ buf.base + index = d.to /\ new = Place(c, d)
        BY <1>2, <2>1, <2>2, <2>4
      <3>2. /\ BufferInv(c, h) /\ c.base # NoFrame /\ c.version = buf.version
            /\ c.held = buf.held /\ c.stateVersion = buf.stateVersion
            /\ \/ d.to - c.base = 0 /\ c.bucket[0].to = c.version
               \/ /\ d.to - c.base = MaxLength - 1
                  /\ ~Filled(c.bucket, MaxLength - 1)
        <4>. HIDE DEF index
        <4>1. d.to = buf.base + index  BY <3>1
        <4>. QED  BY <1>5, <2>4, <3>1, <4>1, CompactIsSound
      <3>. HIDE DEF c, new, index
      <3>3. CASE d.to - c.base = 0 /\ c.bucket[0].to = c.version
        <4>1. 0 \in Slots /\ d.from <= c.bucket[0].to  BY <3>2, <3>3, SlotNumbers
        <4>. QED  BY <3>1, <3>2, <3>3, <4>1, PlaceIsSound
      <3>4. CASE d.to - c.base = MaxLength - 1 /\ ~Filled(c.bucket, MaxLength - 1)
        <4>. DEFINE i == MaxLength - 1
        <4>1. i \in Slots /\ i # 0  BY SlotNumbers
        <4>2. PICK j \in Slots : Filled(c.bucket, j) /\ c.bucket[j].to = c.version
          BY <3>2 DEF BufferInv, BucketInv
        <4>3. j \in 0..(i - 1)  BY <3>4, <4>2, SlotNumbers
        <4>4. Connects(c.bucket, d.from, i)  BY <3>2, <4>2, <4>3 DEF Connects
        <4>. HIDE DEF i
        <4>5. i = d.to - c.base  BY <3>4 DEF i
        <4>. QED  BY <3>1, <3>2, <4>1, <4>4, <4>5, PlaceIsSound
      <3>. QED  BY <3>2, <3>3, <3>4
    <2>. QED  BY <2>1, <2>3, <2>4, SlotNumbers
  <1>. QED  BY <1>3, <1>4, <1>5

\* The oldest diff of a set is one of them.
LEMMA LeastIsMember ==
  ASSUME NEW S, S # {}, \A d \in S : d.to \in Nat
  PROVE  Least(S) \in S
  <1>1. {d.to : d \in S} \subseteq Nat /\ {d.to : d \in S} # {}  OBVIOUS
  <1>2. \E t \in {d.to : d \in S} : \A u \in {d.to : d \in S} : t <= u
    BY <1>1, LeastMember
  <1>3. \E d \in S : \A o \in S : d.to <= o.to  BY <1>2
  <1>. QED  BY <1>3 DEF Least

\* Fewer held diffs leave the buffer sound.
LEMMA HeldFewer ==
  ASSUME NEW h, NEW buf, BufferInv(buf, h), NEW held, held \subseteq buf.held
  PROVE  LET new == [buf EXCEPT !.held = held] IN
         /\ BufferInv(new, h) /\ new.held = held /\ new.version = buf.version
         /\ new.stateVersion = buf.stateVersion
  <1>1. buf \in Buffers /\ held \in SUBSET Diffs  BY BufferFields DEF BufferInv
  <1>2. LET new == [buf EXCEPT !.held = held] IN
        /\ new \in Buffers /\ new.held = held /\ new.version = buf.version
        /\ new.stateVersion = buf.stateVersion /\ new.bucket = buf.bucket
        /\ new.base = buf.base /\ new.failed = buf.failed
    BY <1>1 DEF Buffers
  <1>. QED  BY <1>2 DEF BufferInv

\* A round of releaseHeld keeps the buffer sound.
LEMMA ReleaseOneIsSound ==
  ASSUME NEW h, NEW buf, BufferInv(buf, h), buf.version # NoFrame
  PROVE  LET new == ReleaseOne(buf) IN
         /\ BufferInv(new, h) /\ new.version # NoFrame
         /\ new.stateVersion = buf.stateVersion
  <1>. DEFINE ahead == {x \in buf.held : x.to > buf.version}
              reachable == {x \in ahead : x.from <= buf.version}
              d == Least(reachable)
              rest == [buf EXCEPT !.held = ahead \ {d}]
  <1>1. CASE reachable = {}
    <2>1. ReleaseOne(buf) = [buf EXCEPT !.held = ahead]  BY <1>1 DEF ReleaseOne
    <2>2. ahead \subseteq buf.held  OBVIOUS
    <2>. HIDE DEF ahead
    <2>. QED  BY <2>1, <2>2, HeldFewer
  <1>2. CASE reachable # {}
    <2>1. ReleaseOne(buf) = Accept(rest, d)  BY <1>2 DEF ReleaseOne
    <2>2. \A x \in reachable : x.to \in Nat  BY DEF BufferInv, IsDelta, Diffs
    <2>3. d \in reachable
      <3>. HIDE DEF reachable
      <3>. QED  BY <1>2, <2>2, LeastIsMember
    <2>4. IsDelta(d, h) /\ d.from <= buf.version /\ ahead \ {d} \subseteq buf.held
      BY <2>3 DEF BufferInv
    <2>. HIDE DEF ahead, d, reachable
    <2>5. /\ BufferInv(rest, h) /\ rest.version = buf.version
          /\ rest.stateVersion = buf.stateVersion
      BY <2>4, HeldFewer
    <2>. HIDE DEF rest
    <2>. QED  BY <2>1, <2>4, <2>5, AcceptIsSound
  <1>. QED  BY <1>1, <1>2

LEMMA ReleaseHeldIsSound ==
  ASSUME NEW h, NEW buf, BufferInv(buf, h), buf.version # NoFrame
  PROVE  LET new == ReleaseHeld(buf) IN
         /\ BufferInv(new, h) /\ new.version # NoFrame
         /\ new.stateVersion = buf.stateVersion
  <1>. DEFINE round[n \in 0..MaxHeldDiffs] ==
                IF n = 0 THEN buf ELSE ReleaseOne(round[n - 1])
  <1>1. ReleaseHeld(buf) = round[MaxHeldDiffs]  BY DEF ReleaseHeld
  <1>2. MaxHeldDiffs \in Nat  BY BufferAssumption
  <1>3. round = [n \in 0..MaxHeldDiffs |-> IF n = 0 THEN buf ELSE ReleaseOne(round[n - 1])]
    BY <1>2, RoundsExist DEF round
  <1>. HIDE DEF round
  <1>. DEFINE Good(n) == /\ BufferInv(round[n], h) /\ round[n].version # NoFrame
                         /\ round[n].stateVersion = buf.stateVersion
              Bad == {n \in 0..MaxHeldDiffs : ~Good(n)}
  <1>4. Good(0)  BY <1>2, <1>3
  <1>5. ASSUME NEW n \in Bad PROVE n # 0 /\ n - 1 \in Bad
    <2>1. n \in 0..MaxHeldDiffs /\ n # 0  BY <1>4, <1>5
    <2>2. n - 1 \in 0..MaxHeldDiffs  BY <1>2, <2>1
    <2>3. round[n] = ReleaseOne(round[n - 1])  BY <1>3, <2>1
    <2>4. Good(n - 1) => Good(n)  BY <2>3, ReleaseOneIsSound
    <2>. QED  BY <1>5, <2>1, <2>2, <2>4
  <1>6. Bad = {}
    <2>1. Bad \subseteq 0..MaxHeldDiffs  OBVIOUS
    <2>. HIDE DEF Bad
    <2>. QED  BY <1>2, <1>5, <2>1, NoLeastCounterexample
  <1>7. Good(MaxHeldDiffs)  BY <1>2, <1>6
  <1>. QED  BY <1>1, <1>7

(***************************************************************************)
(* A client's buffer that is given a delta it may be sent stays true: the  *)
(* delta is held, or placed in a slot, or joined with the one there, and   *)
(* whatever prefix of the slots is pulled later still leads from the view  *)
(* that is rendered to a view the server had.  The buffer never fails.     *)
(***************************************************************************)
THEOREM PushIsSound ==
  ASSUME NEW h, NEW buf, BufferInv(buf, h), buf.version # NoFrame,
         NEW d, IsDelta(d, h), NEW optimistic, optimistic \/ d.from <= buf.version
  PROVE  LET new == Push(buf, d, optimistic) IN
         BufferInv(new, h) /\ new.stateVersion = buf.stateVersion
  <1>1. buf \in Buffers /\ buf.version \in Nat /\ d \in Diffs /\ d.from \in Nat
    BY BufferFields DEF BufferInv, IsDelta, Diffs
  <1>2. CASE d.from > buf.version
    <2>1. Push(buf, d, optimistic) = Hold(buf, d)  BY <1>1, <1>2 DEF Push
    <2>2. PICK held : /\ Hold(buf, d) = [buf EXCEPT !.gap = TRUE, !.held = held]
                      /\ held \subseteq buf.held \cup {d}
      <3>. DEFINE same == {x \in buf.held : x.to = d.to}
                  held == IF \E x \in same : x.from <= d.from THEN buf.held
                          ELSE IF same # {} THEN (buf.held \ same) \cup {d}
                          ELSE IF Cardinality(buf.held) >= MaxHeldDiffs
                          THEN (buf.held \ {Least(buf.held)}) \cup {d}
                          ELSE buf.held \cup {d}
      <3>1. Hold(buf, d) = [buf EXCEPT !.gap = TRUE, !.held = held]
        BY <1>1 DEF Hold, Buffers
      <3>2. held \subseteq buf.held \cup {d}
        <4>. HIDE DEF same
        <4>. QED  OBVIOUS
      <3>. HIDE DEF held
      <3>. QED  BY <3>1, <3>2
    <2>3. held \in SUBSET Diffs  BY <1>1, <2>2, BufferFields
    <2>4. LET new == [buf EXCEPT !.gap = TRUE, !.held = held] IN
          /\ new \in Buffers /\ new.held = held /\ new.version = buf.version
          /\ new.stateVersion = buf.stateVersion /\ new.bucket = buf.bucket
          /\ new.base = buf.base /\ new.failed = buf.failed
      BY <1>1, <2>3 DEF Buffers
    <2>. QED  BY <2>1, <2>2, <2>4 DEF BufferInv
  <1>3. CASE d.from <= buf.version
    <2>1. Push(buf, d, optimistic) = ReleaseHeld(Accept(buf, d))
      BY <1>1, <1>3 DEF Push
    <2>. DEFINE b == Accept(buf, d)
    <2>2. BufferInv(b, h) /\ b.version # NoFrame /\ b.stateVersion = buf.stateVersion
      BY <1>3, AcceptIsSound
    <2>. HIDE DEF b
    <2>3. LET new == ReleaseHeld(b) IN
          BufferInv(new, h) /\ new.stateVersion = b.stateVersion
      BY <2>2, ReleaseHeldIsSound
    <2>. QED  BY <2>1, <2>2, <2>3 DEF b
  <1>. QED  BY <1>1, <1>2, <1>3

\* The buffer of a client that holds nothing.
LEMMA EmptyBufferIsSound ==
  ASSUME NEW h
  PROVE  BufferInv(EmptyBuffer, h)
  <1>1. NoDiff \in Diffs \cup {NoDiff}  OBVIOUS
  <1>2. EmptyBuffer \in Buffers
    BY <1>1 DEF EmptyBuffer, EmptyBucket, Buffers
  <1>. QED  BY <1>2 DEF BufferInv, BucketInv, EmptyBuffer

\* A baseline starts the buffer over.
LEMMA BaselineIsSound ==
  ASSUME NEW h, NEW d \in Diffs, Truthful(d, h), CoversAt(d, 0, h)
  PROVE  LET new == Push(EmptyBuffer, d, FALSE) IN
         BufferInv(new, h) /\ new.stateVersion = 0
  <1>. DEFINE bucket == [EmptyBucket EXCEPT ![0] = d]
              b == [EmptyBuffer EXCEPT !.bucket = bucket, !.base = d.to, !.version = d.to]
  <1>1. d.to \in Nat  BY DEF Diffs
  <1>2. Push(EmptyBuffer, d, FALSE) = ReleaseHeld(b)
    BY DEF Push, Accept, EmptyBuffer, NoFrame
  <1>3. /\ bucket[0] = d /\ bucket \in Buckets
        /\ \A i \in 1..(MaxLength - 1) : ~Filled(bucket, i)
    BY SlotNumbers DEF EmptyBucket, Buckets, Filled
  <1>4. 0 \in Slots /\ \A i \in Slots : i = 0 \/ i \in 1..(MaxLength - 1)
    BY SlotNumbers
  <1>. HIDE DEF bucket
  <1>5. Chain(bucket, d.to, 0, h)
    <2>1. Filled(bucket, 0) /\ d.to <= d.to /\ 0 <= d.to
      BY <1>1, <1>3, NoDiffIsNone DEF Filled
    <2>. QED  BY <1>3, <2>1 DEF Chain
  <1>6. BucketInv(bucket, d.to, d.to, 0, h)
    <2>1. d.to # NoFrame /\ d.to <= d.to  BY <1>1 DEF NoFrame
    <2>. QED  BY <1>1, <1>3, <1>4, <1>5, <2>1 DEF BucketInv, Chain
  <1>7. /\ b \in Buffers
        /\ b.bucket = bucket /\ b.base = d.to /\ b.failed = FALSE
        /\ b.version = d.to /\ b.held = {} /\ b.stateVersion = 0
    BY <1>1, <1>3 DEF Buffers, Buckets, EmptyBuffer
  <1>. HIDE DEF b
  <1>8. BufferInv(b, h) /\ b.version # NoFrame
    BY <1>1, <1>6, <1>7 DEF BufferInv, NoFrame
  <1>9. LET new == ReleaseHeld(b) IN
        BufferInv(new, h) /\ new.stateVersion = b.stateVersion
    BY <1>8, ReleaseHeldIsSound
  <1>. QED  BY <1>2, <1>7, <1>9

\* takeGap leaves the diffs alone.
LEMMA TakeGapIsSound ==
  ASSUME NEW h, NEW buf, BufferInv(buf, h)
  PROVE  LET new == TakeGap(buf) IN
         /\ BufferInv(new, h) /\ new.stateVersion = buf.stateVersion
         /\ new.version = buf.version
  <1>1. LET new == TakeGap(buf) IN
        /\ new \in Buffers /\ new.held = buf.held /\ new.version = buf.version
        /\ new.stateVersion = buf.stateVersion /\ new.bucket = buf.bucket
        /\ new.base = buf.base /\ new.failed = buf.failed
    BY DEF TakeGap, Buffers, BufferInv
  <1>. QED  BY <1>1 DEF BufferInv

-----------------------------------------------------------------------------
(* pull.                                                                    *)

\* The slots, once those before `next` are taken out and frame w is rendered.
LEMMA ShiftIsSound ==
  ASSUME NEW h, NEW bucket \in Buckets, NEW base \in Nat, NEW version \in Nat,
         NEW v \in Nat, BucketInv(bucket, base, version, v, h),
         NEW next \in 1..(MaxLength - 1), Filled(bucket, next),
         NEW n \in 1..next, \A i \in n..(next - 1) : ~Filled(bucket, i),
         NEW p, FoldOK(p, EmptyDiff(v, v), bucket, base, n - 1, v, h)
  PROVE  /\ Shift(bucket, next) \in Buckets
         /\ BucketInv(Shift(bucket, next), base + next, version, p.to, h)
  <1>. DEFINE new == Shift(bucket, next)
              w == p.to
  <1>1. /\ Chain(bucket, base, v, h)
        /\ \A i \in Slots : Filled(bucket, i) => bucket[i].to <= version
        /\ \E i \in Slots : Filled(bucket, i) /\ bucket[i].to = version
    BY DEF BucketInv, NoFrame
  <1>2. /\ w \in Nat /\ w <= base + (n - 1)
        /\ \A j \in 0..(n - 1) : Filled(bucket, j) => bucket[j].to <= w
    BY DEF FoldOK, Diffs
  <1>3. /\ \A i \in Slots : new[i] = IF i + next <= MaxLength - 1 THEN bucket[i + next] ELSE NoDiff
        /\ new \in Buckets
    BY SlotNumbers DEF Shift, Buckets
  <1>4. next \in Slots /\ 0 \in Slots /\ n \in Nat /\ n >= 1 /\ next \in Nat /\ n <= next
    BY SlotNumbers
  <1>. HIDE DEF new
  <1>5. ASSUME NEW i \in Slots, Filled(new, i)
        PROVE  /\ i + next \in Slots /\ new[i] = bucket[i + next] /\ Filled(bucket, i + next)
               /\ i + next \in 1..(MaxLength - 1)
    <2>1. i + next <= MaxLength - 1  BY <1>3, <1>5 DEF Filled
    <2>. QED  BY <1>3, <1>5, <2>1, SlotNumbers DEF Filled
  <1>6. new[0] = bucket[next] /\ Filled(new, 0)
    BY <1>3, <1>4, SlotNumbers DEF Filled
  <1>7. /\ bucket[next].to = base + next
        /\ \E lo \in Nat : lo <= bucket[next].from /\ SoundFrom(bucket[next], lo, h)
    BY <1>1 DEF Chain
  <1>8. bucket[next].from <= w
    <2>1. /\ n - 1 \in 0..(MaxLength - 1) /\ n - 1 < next
          /\ \A i \in ((n - 1) + 1)..(next - 1) : i \in n..(next - 1)
      BY <1>4, SlotNumbers
    <2>. QED  BY <1>1, <2>1, JoinsFold
  <1>9. Truthful(new[0], h) /\ CoversAt(new[0], w, h) /\ w <= new[0].to
    <2>1. w <= base + next  BY <1>2, <1>4
    <2>2. PICK lo \in Nat : lo <= bucket[next].from /\ SoundFrom(bucket[next], lo, h)
      BY <1>7
    <2>3. bucket[next].from \in Nat  BY <1>4, SlotDiff
    <2>4. w \in lo..bucket[next].to  BY <1>2, <1>7, <1>8, <2>1, <2>2, <2>3
    <2>. QED  BY <1>6, <1>7, <2>1, <2>2, <2>4 DEF SoundFrom
  <1>10. ASSUME NEW i \in 1..(MaxLength - 1), Filled(new, i)
         PROVE  /\ new[i].to = base + next + i /\ Connects(new, new[i].from, i)
                /\ \E lo \in Nat : lo <= new[i].from /\ SoundFrom(new[i], lo, h)
    <2>1. /\ i \in Slots /\ i + next \in Slots /\ new[i] = bucket[i + next]
          /\ Filled(bucket, i + next) /\ i + next \in 1..(MaxLength - 1)
      BY <1>5, <1>10, SlotNumbers
    <2>2. /\ bucket[i + next].to = base + (i + next)
          /\ Connects(bucket, bucket[i + next].from, i + next)
          /\ \E lo \in Nat : lo <= bucket[i + next].from /\ SoundFrom(bucket[i + next], lo, h)
      BY <1>1, <2>1 DEF Chain
    <2>3. PICK j \in 0..((i + next) - 1) :
            Filled(bucket, j) /\ bucket[i + next].from <= bucket[j].to
      BY <2>2 DEF Connects
    <2>4. j \in Slots /\ j <= MaxLength - 1 /\ j \in Nat  BY <2>1, SlotNumbers
    <2>5. bucket[i + next].from \in Nat /\ bucket[j].to \in Nat
      BY <2>1, <2>3, <2>4, SlotDiff
    <2>6. Connects(new, bucket[i + next].from, i)
      <3>1. CASE j >= next
        <4>1. /\ j - next \in 0..(i - 1) /\ j - next \in Slots /\ (j - next) + next = j
          BY <1>4, <2>4, <3>1, SlotNumbers
        <4>2. new[j - next] = bucket[j]  BY <1>3, <2>4, <4>1
        <4>. QED  BY <2>3, <4>1, <4>2 DEF Connects, Filled
      <3>2. CASE j < next
        <4>1. j \in 0..(n - 1)
          <5>1. j \notin n..(next - 1)  BY <2>3
          <5>. QED  BY <1>4, <2>4, <3>2, <5>1
        <4>2. bucket[j].to <= w  BY <1>2, <2>3, <4>1
        <4>3. bucket[i + next].from <= bucket[next].to
          <5>1. w <= base + next  BY <1>2, <1>4
          <5>. QED  BY <1>2, <1>4, <1>7, <2>3, <2>5, <4>2, <5>1
        <4>4. 0 \in 0..(i - 1)  BY SlotNumbers
        <4>. QED  BY <1>6, <4>3, <4>4 DEF Connects
      <3>. QED  BY <1>4, <2>4, <3>1, <3>2
    <2>7. base + (i + next) = base + next + i  BY <1>4, SlotNumbers
    <2>. QED  BY <2>1, <2>2, <2>6, <2>7
  <1>11. Chain(new, base + next, w, h)
    <2>1. new[0].to <= base + next
      <3>1. base + next \in Nat  BY <1>4
      <3>. QED  BY <1>6, <1>7, <3>1
    <2>. QED  BY <1>6, <1>9, <1>10, <2>1 DEF Chain
  <1>12. \A i \in Slots : Filled(new, i) => new[i].to <= version
    BY <1>1, <1>5
  <1>13. \E i \in Slots : Filled(new, i) /\ new[i].to = version
    <2>1. PICK j \in Slots : Filled(bucket, j) /\ bucket[j].to = version  BY <1>1
    <2>2. j >= next
      <3>. SUFFICES ASSUME j < next PROVE FALSE
        BY <1>4, SlotNumbers
      <3>1. j \in 0..(n - 1)
        <4>1. j \notin n..(next - 1)  BY <2>1
        <4>. QED  BY <1>4, <4>1, SlotNumbers
      <3>2. version <= w  BY <1>2, <2>1, <3>1
      <3>3. bucket[next].to <= version  BY <1>1, <1>4
      <3>. QED  BY <1>2, <1>4, <1>7, <3>2, <3>3
    <2>3. j - next \in Slots /\ (j - next) + next = j /\ j <= MaxLength - 1
      BY <1>4, <2>2, SlotNumbers
    <2>4. new[j - next] = bucket[j]  BY <1>3, <2>3
    <2>. QED  BY <2>1, <2>3, <2>4 DEF Filled
  <1>14. BucketInv(new, base + next, version, w, h)
    <2>1. base + next \in Nat /\ base + next # NoFrame  BY <1>4 DEF NoFrame
    <2>. QED  BY <1>11, <1>12, <1>13, <2>1 DEF BucketInv
  <1>. QED  BY <1>3, <1>14 DEF new

\* The fold of no slots.
LEMMA FoldNone ==
  ASSUME NEW d, NEW bucket
  PROVE  Fold(d, bucket, -1) = d
  <1>. DEFINE fold[i \in -1..-1] == IF i = -1 THEN d ELSE Merge(fold[i - 1], bucket[i])
  <1>1. Fold(d, bucket, -1) = fold[-1]  BY DEF Fold
  <1>2. fold = [i \in -1..-1 |-> IF i = -1 THEN d ELSE Merge(fold[i - 1], bucket[i])]
    <2>1. IsFold([i \in -1..-1 |-> d], d, bucket, -1)  BY DEF IsFold
    <2>2. \E g : IsFold(g, d, bucket, -1)  BY <2>1
    <2>. QED  BY <2>2 DEF IsFold, fold
  <1>. HIDE DEF fold
  <1>3. fold[-1] = d  BY <1>2
  <1>. QED  BY <1>1, <1>3

\* The diff of a pull of k slots, before its applied resets are dropped.
Folded(buf, k) == Fold(EmptyDiff(buf.stateVersion, buf.stateVersion), buf.bucket, k - 1)

\* It takes the client from the frame it renders to a newer one, or to the same.
LEMMA PulledIsSound ==
  ASSUME NEW h, NEW buf, BufferInv(buf, h), NEW k \in PullCounts(buf)
  PROVE  LET p == Folded(buf, k) IN
         /\ p \in Diffs /\ p.from = buf.stateVersion /\ buf.stateVersion <= p.to
         /\ Truthful(p, h) /\ CoversAt(p, buf.stateVersion, h)
         /\ PulledDiff(buf, k).to = p.to
         /\ k = 0 => p.to = buf.stateVersion
         /\ k # 0 => /\ k \in 1..MaxLength /\ buf.base # NoFrame
                     /\ FoldOK(p, EmptyDiff(buf.stateVersion, buf.stateVersion), buf.bucket,
                               buf.base, k - 1, buf.stateVersion, h)
  <1>. DEFINE v == buf.stateVersion
              empty == EmptyDiff(v, v)
              p == Folded(buf, k)
  <1>1. /\ buf.bucket \in Buckets /\ v \in Nat
        /\ BucketInv(buf.bucket, buf.base, buf.version, v, h)
    BY BufferFields DEF BufferInv
  <1>2. /\ empty \in Diffs /\ empty.from = v /\ empty.to = v
        /\ Truthful(empty, h) /\ CoversAt(empty, v, h) /\ empty # NoDiff
    <2>1. empty \in Diffs /\ empty.from = v /\ empty.to = v /\ empty.removed = {}
      BY <1>1 DEF EmptyDiff, Diffs
    <2>2. \A e \in Eids : empty.resets[e] = 0  BY DEF EmptyDiff
    <2>3. \A c \in Cids : empty.snapshots[c] = 0  BY DEF EmptyDiff
    <2>4. empty # NoDiff  BY <2>1, NoDiffIsNone
    <2>. HIDE DEF empty
    <2>5. Truthful(empty, h)  BY <1>1, <2>1, <2>2, <2>3 DEF Truthful
    <2>6. CoversAt(empty, v, h)
      <3>1. \A f \in (v + 1)..v : FALSE  BY <1>1
      <3>. QED  BY <1>1, <2>1, <2>2, <2>3, <3>1, EidOfCid DEF CoversAt
    <2>. QED  BY <2>1, <2>4, <2>5, <2>6
  <1>3. p \in Diffs => PulledDiff(buf, k).to = p.to
    BY DEF PulledDiff, Folded, DropAppliedResets, Diffs
  <1>4. CASE k = 0
    <2>1. k - 1 = -1  BY <1>4
    <2>2. p = empty  BY <2>1, FoldNone DEF Folded
    <2>3. v <= v  BY <1>1
    <2>. HIDE DEF empty, p
    <2>. QED  BY <1>2, <1>3, <1>4, <2>2, <2>3 DEF p
  <1>5. CASE k # 0
    <2>1. k \in 1..MaxLength /\ buf.bucket[0] # NoDiff
      BY <1>5, SlotNumbers DEF PullCounts
    <2>2. buf.base # NoFrame
      BY <1>1, <2>1, SlotNumbers DEF BucketInv, EmptyBucket
    <2>3. buf.base \in Nat /\ Chain(buf.bucket, buf.base, v, h)
      BY <1>1, <2>2 DEF BucketInv
    <2>4. k - 1 \in 0..(MaxLength - 1)  BY <2>1, SlotNumbers
    <2>5. FoldOK(p, empty, buf.bucket, buf.base, k - 1, v, h)
      <3>. HIDE DEF v
      <3>1. FoldOK(Fold(empty, buf.bucket, k - 1), empty, buf.bucket, buf.base, k - 1, v, h)
        BY <1>1, <2>3, <2>4, FoldIsSound
      <3>. QED  BY <3>1 DEF Folded, v
    <2>. HIDE DEF empty, p
    <2>6. /\ p \in Diffs /\ p.from = v /\ v <= p.to /\ Truthful(p, h) /\ CoversAt(p, v, h)
      BY <1>2, <2>5 DEF FoldOK
    <2>. QED  BY <1>3, <1>5, <2>1, <2>2, <2>5, <2>6 DEF p, empty
  <1>. QED  BY <1>4, <1>5

LEMMA PullKeepsSlots ==
  ASSUME NEW h, NEW buf, BufferInv(buf, h), NEW k \in PullCounts(buf)
  PROVE  LET new == PullSlots(buf, k) IN
         /\ BufferInv(new, h) /\ new.version = buf.version
         /\ new.stateVersion = Folded(buf, k).to
  <1>. DEFINE v == buf.stateVersion
              p == Folded(buf, k)
              full == {i \in Slots : i >= k /\ buf.bucket[i] # NoDiff}
              next == CHOOSE i \in full : \A o \in full : i <= o
              bucket == IF full = {} THEN EmptyBucket ELSE Shift(buf.bucket, next)
              base == IF full = {} THEN NoFrame ELSE buf.base + next
  <1>1. /\ buf \in Buffers /\ ~buf.failed /\ buf.bucket \in Buckets /\ v \in Nat
        /\ BucketInv(buf.bucket, buf.base, buf.version, v, h)
    BY BufferFields DEF BufferInv
  <1>2. /\ p \in Diffs /\ p.to \in Nat
        /\ PulledDiff(buf, k).to = p.to
        /\ k = 0 => p.to = v
        /\ k # 0 => /\ k \in 1..MaxLength /\ buf.base # NoFrame
                    /\ FoldOK(p, EmptyDiff(v, v), buf.bucket, buf.base, k - 1, v, h)
    BY PulledIsSound DEF Diffs
  <1>3. PullSlots(buf, k) = [buf EXCEPT !.bucket = bucket, !.base = base, !.stateVersion = p.to]
    BY <1>1, <1>2 DEF PullSlots, Buffers
  <1>4. full # {} => next \in full /\ \A o \in full : next <= o
    <2>1. full \subseteq Nat  BY SlotNumbers
    <2>. HIDE DEF full
    <2>2. full # {} => \E i \in full : \A o \in full : i <= o  BY <2>1, LeastMember
    <2>. QED  BY <2>2
  <1>5. k \in Nat  BY <1>2 
  <1>. HIDE DEF p, next
  <1>6. bucket \in Buckets /\ (base = NoFrame \/ base \in Nat)
        /\ BucketInv(bucket, base, buf.version, p.to, h)
    <2>1. CASE buf.base = NoFrame
      <3>1. buf.bucket = EmptyBucket /\ k = 0  BY <1>1, <1>2, <2>1 DEF BucketInv
      <3>2. full = {}  BY <3>1 DEF EmptyBucket
      <3>3. EmptyBucket \in Buckets  BY DEF EmptyBucket, Buckets
      <3>. QED  BY <1>1, <1>2, <2>1, <3>1, <3>2, <3>3 DEF BucketInv
    <2>2. CASE buf.base # NoFrame
      <3>1. /\ buf.base \in Nat /\ buf.version \in Nat /\ Chain(buf.bucket, buf.base, v, h)
            /\ \A i \in Slots : Filled(buf.bucket, i) => buf.bucket[i].to <= buf.version
            /\ \E i \in Slots : Filled(buf.bucket, i) /\ buf.bucket[i].to = buf.version
        BY <1>1, <2>2 DEF BucketInv
      <3>2. 0 \in Slots /\ Filled(buf.bucket, 0)  BY <3>1, SlotNumbers DEF Chain
      <3>3. CASE k = 0
        <4>1. 0 \in full  BY <3>2, <3>3 DEF Filled
        <4>2. next = 0  BY <1>4, <4>1, SlotNumbers
        <4>3. Shift(buf.bucket, 0) = buf.bucket
          <5>1. \A i \in Slots : i + 0 = i  BY SlotNumbers
          <5>. QED  BY <1>1, <5>1 DEF Shift, Buckets
        <4>4. buf.base + 0 = buf.base  BY <3>1
        <4>5. bucket = buf.bucket /\ base = buf.base  BY <4>1, <4>2, <4>3, <4>4
        <4>. HIDE DEF bucket, base
        <4>. QED  BY <1>1, <1>2, <3>1, <3>3, <4>5
      <3>4. CASE k # 0 /\ full = {}
        <4>1. PICK j \in Slots : Filled(buf.bucket, j) /\ buf.bucket[j].to = buf.version
          BY <3>1
        <4>2. j \in 0..(k - 1)
          <5>1. ~(j >= k)  BY <3>4, <4>1 DEF Filled
          <5>. QED  BY <1>5, <5>1, SlotNumbers
        <4>3. buf.version <= p.to  BY <1>2, <3>4, <4>1, <4>2 DEF FoldOK
        <4>4. p.to <= buf.version
          <5>1. PICK i \in 0..(k - 1) : Filled(buf.bucket, i) /\ p.to = buf.bucket[i].to
            BY <1>2, <3>4 DEF FoldOK
          <5>2. i \in Slots  BY <1>2, <3>4, SlotNumbers
          <5>. QED  BY <3>1, <5>1, <5>2
        <4>5. p.to = buf.version  BY <1>2, <3>1, <4>3, <4>4
        <4>6. EmptyBucket \in Buckets  BY DEF EmptyBucket, Buckets
        <4>7. bucket = EmptyBucket /\ base = NoFrame  BY <3>4
        <4>8. BucketInv(EmptyBucket, NoFrame, buf.version, p.to, h)  BY <4>5 DEF BucketInv
        <4>. HIDE DEF bucket, base
        <4>. QED  BY <4>6, <4>7, <4>8
      <3>5. CASE k # 0 /\ full # {}
        <4>1. next \in full /\ \A o \in full : next <= o  BY <1>4, <3>5
        <4>2. /\ next \in 1..(MaxLength - 1) /\ Filled(buf.bucket, next) /\ k \in 1..next
          BY <1>2, <3>5, <4>1, SlotNumbers DEF Filled
        <4>3. \A i \in k..(next - 1) : ~Filled(buf.bucket, i)
          <5>. SUFFICES ASSUME NEW i \in k..(next - 1), Filled(buf.bucket, i) PROVE FALSE
            OBVIOUS
          <5>1. i \in Slots /\ i >= k /\ ~(next <= i)  BY <1>5, <4>2, SlotNumbers
          <5>2. i \in full  BY <5>1 DEF Filled
          <5>. QED  BY <4>1, <5>1, <5>2
        <4>4. /\ Shift(buf.bucket, next) \in Buckets
              /\ BucketInv(Shift(buf.bucket, next), buf.base + next, buf.version, p.to, h)
          BY <1>1, <1>2, <3>1, <3>5, <4>2, <4>3, ShiftIsSound
        <4>5. buf.base + next \in Nat  BY <3>1, <4>2
        <4>. QED  BY <3>5, <4>4, <4>5
      <3>. QED  BY <3>3, <3>4, <3>5
    <2>. QED  BY <2>1, <2>2
  <1>. HIDE DEF bucket, base
  <1>7. LET new == [buf EXCEPT !.bucket = bucket, !.base = base, !.stateVersion = p.to] IN
        /\ new \in Buffers /\ new.held = buf.held /\ new.version = buf.version
        /\ new.stateVersion = p.to /\ new.bucket = bucket
        /\ new.base = base /\ new.failed = buf.failed
    BY <1>1, <1>2, <1>6 DEF Buffers, Buckets
  <1>. QED  BY <1>1, <1>3, <1>6, <1>7 DEF BufferInv, p

(***************************************************************************)
(* Rendering: whichever slots a client pulls from a true buffer, applying  *)
(* what they fold to takes the world it renders from one view of the       *)
(* server to a later one, replaces only entities that left the view in     *)
(* between, keeps none that did, and leaves the buffer true.               *)
(***************************************************************************)
THEOREM ApplyPullIsSound ==
  ASSUME NEW n \in Nat, NEW h, IsHistory(h, n), NEW buf, BufferInv(buf, h),
         buf.version = NoFrame \/ buf.version <= n, NEW k \in PullCounts(buf),
         NEW w \in Worlds, SameComponents(w, h[buf.stateVersion])
  PROVE  LET new  == PullSlots(buf, k)
             next == ApplyDiff(w, PulledDiff(buf, k))
         IN  /\ BufferInv(new, h) /\ new.version = buf.version
             /\ new.stateVersion >= buf.stateVersion
             /\ next \in Worlds /\ SameComponents(next, h[new.stateVersion])
             /\ NoneStale(w, h, buf.stateVersion) => NoneStale(next, h, new.stateVersion)
             /\ ReplacedOnlyByReset(w, next, h, buf.stateVersion, new.stateVersion)
  <1>. DEFINE v == buf.stateVersion
              p == Folded(buf, k)
              new == PullSlots(buf, k)
  <1>1. /\ p \in Diffs /\ p.from = v /\ v <= p.to /\ p.to \in Nat
        /\ Truthful(p, h) /\ CoversAt(p, v, h)
    BY PulledIsSound DEF Diffs
  <1>2. BufferInv(new, h) /\ new.version = buf.version /\ new.stateVersion = p.to
    BY PullKeepsSlots
  <1>3. v \in Nat  BY BufferFields DEF BufferInv
  <1>4. p.to <= n
    <2>1. BucketInv(new.bucket, new.base, new.version, p.to, h)
      BY <1>2 DEF BufferInv
    <2>2. CASE new.base = NoFrame
      BY <1>1, <1>2, <2>1, <2>2 DEF BucketInv, NoFrame
    <2>3. CASE new.base # NoFrame
      <3>1. /\ p.to <= new.bucket[0].to /\ 0 \in Slots /\ Filled(new.bucket, 0)
            /\ new.bucket[0].to <= new.version /\ new.version \in Nat
        BY <2>1, <2>3, SlotNumbers DEF BucketInv, Chain
      <3>2. new.bucket \in Buckets  BY <1>2, BufferFields DEF BufferInv
      <3>3. new.bucket[0].to \in Nat  BY <3>1, <3>2, SlotDiff
      <3>4. new.version # NoFrame  BY <3>1 DEF NoFrame
      <3>. QED  BY <1>1, <1>2, <3>1, <3>3, <3>4
    <2>. QED  BY <2>2, <2>3
  <1>5. PulledDiff(buf, k) = DropAppliedResets(p)  BY DEF PulledDiff, Folded
  <1>. HIDE DEF p, new
  <1>6. LET next == ApplyDiff(w, DropAppliedResets(p)) IN
        next \in Worlds /\ SameComponents(next, h[p.to])
    BY <1>1, <1>3, <1>4, ApplyIsSound
  <1>7. LET next == ApplyDiff(w, DropAppliedResets(p)) IN
        /\ NoneStale(w, h, v) => NoneStale(next, h, p.to)
        /\ ReplacedOnlyByReset(w, next, h, v, p.to)
    BY <1>1, <1>3, <1>4, ApplyKeepsFresh
  <1>. QED  BY <1>1, <1>2, <1>3, <1>5, <1>6, <1>7 DEF new

-----------------------------------------------------------------------------
(* The history goes on: what was sound stays sound.                         *)

\* A frame changes a view into a view.
LEMMA NextViewsAreViews ==
  ASSUME NEW v \in Views, NEW f \in Nat,
         \A e \in Eids, t \in Types : ~v[e].in => v[e].components[t] = 0,
         NEW next \in NextViews(v, f)
  PROVE  /\ next \in Views
         /\ \A e \in Eids, t \in Types : ~next[e].in => next[e].components[t] = 0
         /\ BareEntities \/ \A e \in Eids : next[e].in =>
                              \E t \in Types : next[e].components[t] # 0
  <1>. DEFINE Kind == [in : BOOLEAN, components : [Types -> Nat]]
  <1>1. \A e \in Eids : v[e] \in Kind  BY DEF Views
  <1>2. ASSUME NEW e \in Eids
        PROVE  /\ next[e] \in Kind
               /\ \A t \in Types : ~next[e].in => next[e].components[t] = 0
               /\ BareEntities \/ (next[e].in => \E t \in Types : next[e].components[t] # 0)
    <2>1. next[e] \in Rewritten(v[e], f)  BY DEF NextViews
    <2>2. CASE next[e] = NotInView
      BY <2>2 DEF NotInView
    <2>3. CASE next[e] # NotInView
      <3>. DEFINE D == {0, f} \cup {v[e].components[t] : t \in Types}
      <3>1. PICK c \in [Types -> D] :
              /\ next[e] = [in |-> TRUE, components |-> c]
              /\ BareEntities \/ \E t \in Types : c[t] # 0
        BY <2>1, <2>3 DEF Rewritten
      <3>2. D \subseteq Nat  BY <1>1
      <3>. HIDE DEF D
      <3>3. c \in [Types -> Nat]  BY <3>2
      <3>. QED  BY <3>1, <3>3
    <2>. QED  BY <2>2, <2>3
  <1>3. next \in [Eids -> Kind]
    <2>1. DOMAIN next = Eids /\ next = [e \in Eids |-> next[e]]  BY DEF NextViews
    <2>. HIDE DEF Kind
    <2>. QED  BY <1>2, <2>1
  <1>. QED  BY <1>2, <1>3 DEF Views

SameUpTo(h, g, n) == \A f \in 0..n : g[f] = h[f]

LEMMA StillSound ==
  ASSUME NEW n \in Nat, NEW h, NEW g, SameUpTo(h, g, n), NEW d \in Diffs, d.to <= n
  PROVE  /\ Truthful(d, h) => Truthful(d, g)
         /\ \A v \in 0..n : CoversAt(d, v, h) => CoversAt(d, v, g)
         /\ \A lo \in Nat : SoundFrom(d, lo, h) => SoundFrom(d, lo, g)
  <1>1. \A f \in 0..n, c \in Cids : Val(g, f, c) = Val(h, f, c)
    BY DEF SameUpTo, Val
  <1>2. \A f \in 1..n, e \in Eids : LeftAt(g, e, f) <=> LeftAt(h, e, f)
    <2>1. \A f \in 1..n : g[f] = h[f] /\ g[f - 1] = h[f - 1]  BY DEF SameUpTo
    <2>. QED  BY <2>1 DEF LeftAt
  <1>3. d.to \in 0..n /\ d.removed \subseteq Cids
        /\ \A e \in Eids : d.resets[e] \in Nat
    BY DEF Diffs
  <1>4. Truthful(d, h) => Truthful(d, g)
    <2>1. \A e \in Eids : d.resets[e] <= d.to /\ d.resets[e] # 0 => d.resets[e] \in 1..n
      BY <1>3
    <2>. QED  BY <1>1, <1>2, <1>3, <2>1 DEF Truthful
  <1>5. ASSUME NEW v \in 0..n, CoversAt(d, v, h) PROVE CoversAt(d, v, g)
    <2>1. \A f \in (v + 1)..d.to : f \in 1..n  BY <1>3
    <2>. QED  BY <1>1, <1>2, <1>3, <1>5, <2>1 DEF CoversAt
  <1>6. \A lo \in Nat, v \in Nat : v \in lo..d.to => v \in 0..n  BY <1>3
  <1>. QED  BY <1>4, <1>5, <1>6 DEF SoundFrom

LEMMA StillNoneStale ==
  ASSUME NEW n \in Nat, NEW h, NEW g, SameUpTo(h, g, n), NEW v \in 0..n, NEW w,
         NoneStale(w, h, v)
  PROVE  NoneStale(w, g, v)
  <1>1. g[v] = h[v] /\ \A f \in 1..v : g[f] = h[f] /\ g[f - 1] = h[f - 1]
    BY DEF SameUpTo
  <1>. QED  BY <1>1 DEF NoneStale, LeftAt

LEMMA StillBufferInv ==
  ASSUME NEW n \in Nat, NEW h, NEW g, SameUpTo(h, g, n), NEW buf, BufferInv(buf, h),
         buf.version = NoFrame \/ buf.version <= n, \A d \in buf.held : d.to <= n
  PROVE  BufferInv(buf, g) /\ buf.stateVersion \in 0..n
  <1>. DEFINE v == buf.stateVersion
  <1>1. /\ buf.bucket \in Buckets /\ buf.version \in Nat \cup {NoFrame} /\ v \in Nat
        /\ buf.held \in SUBSET Diffs /\ BucketInv(buf.bucket, buf.base, buf.version, v, h)
    BY BufferFields DEF BufferInv
  <1>2. \A d \in buf.held : IsDelta(d, g)
    <2>1. \A d \in buf.held : d.from \in Nat  BY <1>1 DEF Diffs
    <2>. QED  BY <1>1, <2>1, StillSound DEF BufferInv, IsDelta
  <1>3. v <= n /\ BucketInv(buf.bucket, buf.base, buf.version, v, g)
    <2>1. CASE buf.base = NoFrame
      BY <1>1, <2>1 DEF BucketInv, NoFrame
    <2>2. CASE buf.base # NoFrame
      <3>1. /\ buf.base \in Nat /\ buf.version \in Nat
            /\ Chain(buf.bucket, buf.base, v, h)
            /\ \A i \in Slots : Filled(buf.bucket, i) => buf.bucket[i].to <= buf.version
        BY <1>1, <2>2 DEF BucketInv
      <3>2. \A i \in Slots : Filled(buf.bucket, i) =>
              buf.bucket[i] \in Diffs /\ buf.bucket[i].to \in Nat /\ buf.bucket[i].to <= n
        BY <1>1, <3>1, SlotDiff DEF NoFrame
      <3>3. 0 \in Slots /\ \A i \in 1..(MaxLength - 1) : i \in Slots  BY SlotNumbers
      <3>4. v <= n  BY <1>1, <3>1, <3>2, <3>3 DEF Chain
      <3>5. Chain(buf.bucket, buf.base, v, g)
        <4>1. /\ Filled(buf.bucket, 0) /\ buf.bucket[0].to <= buf.base
              /\ Truthful(buf.bucket[0], g) /\ CoversAt(buf.bucket[0], v, g)
              /\ v <= buf.bucket[0].to
          <5>1. v \in 0..n  BY <1>1, <3>4
          <5>2. Filled(buf.bucket, 0)  BY <3>1 DEF Chain
          <5>. QED  BY <3>1, <3>2, <3>3, <5>1, <5>2, StillSound DEF Chain
        <4>2. ASSUME NEW i \in 1..(MaxLength - 1), Filled(buf.bucket, i)
              PROVE  /\ buf.bucket[i].to = buf.base + i
                     /\ Connects(buf.bucket, buf.bucket[i].from, i)
                     /\ \E lo \in Nat : lo <= buf.bucket[i].from
                                        /\ SoundFrom(buf.bucket[i], lo, g)
          <5>1. PICK lo \in Nat : lo <= buf.bucket[i].from /\ SoundFrom(buf.bucket[i], lo, h)
            BY <3>1, <4>2 DEF Chain
          <5>2. SoundFrom(buf.bucket[i], lo, g)
            BY <3>2, <3>3, <4>2, <5>1, StillSound
          <5>. QED  BY <3>1, <4>2, <5>1, <5>2 DEF Chain
        <4>. QED  BY <4>1, <4>2 DEF Chain
      <3>. QED  BY <1>1, <2>2, <3>4, <3>5 DEF BucketInv
    <2>. QED  BY <2>1, <2>2
  <1>. QED  BY <1>1, <1>2, <1>3 DEF BufferInv
-----------------------------------------------------------------------------
(* The client's buffer: how its version moves.                              *)

IsBuffer(b) ==
  /\ "version" \in DOMAIN b /\ "held" \in DOMAIN b
  /\ b.version \in Nat \cup {NoFrame}

\* What is held ends at one of the frames of `ends`.
HeldIn(b, ends) == \A h \in b.held : h.to \in ends

\* The version stays, or moves on to one of the frames of `ends`.
MovesIn(old, new, ends) ==
  new.version = old.version \/ (new.version \in ends /\ new.version > old.version)

LEMMA AcceptEffect ==
  ASSUME NEW buf, IsBuffer(buf), NEW d, d.to \in Nat
  PROVE  LET new == Accept(buf, d) IN
         IsBuffer(new) /\ new.held = buf.held /\ MovesIn(buf, new, {d.to})
  <1>1. ASSUME NEW b, IsBuffer(b)
        PROVE  LET new == Place(b, d) IN
               IsBuffer(new) /\ new.held = b.held /\ MovesIn(b, new, {d.to})
    BY <1>1 DEF Place, IsBuffer, MovesIn, NoFrame
  <1>2. ASSUME NEW index
        PROVE  LET new == Compact(buf, index) IN
               IsBuffer(new) /\ new.held = buf.held /\ new.version = buf.version
    BY DEF Compact, IsBuffer
  <1>3. CASE buf.base = NoFrame
    BY <1>3 DEF Accept, IsBuffer, MovesIn, NoFrame
  <1>4. CASE buf.base # NoFrame
    <2>. DEFINE index == d.to - buf.base
                room == IF index >= MaxLength THEN Compact(buf, index) ELSE buf
    <2>1. IsBuffer(room) /\ room.held = buf.held /\ room.version = buf.version
      BY <1>2
    <2>2. Accept(buf, d) = buf \/ Accept(buf, d) = Place(room, d)
      BY <1>4 DEF Accept
    <2>. HIDE DEF room
    <2>3. LET new == Place(room, d) IN
          IsBuffer(new) /\ new.held = room.held /\ MovesIn(room, new, {d.to})
      BY <1>1, <2>1
    <2>. QED  BY <2>1, <2>2, <2>3 DEF MovesIn
  <1>. QED  BY <1>3, <1>4

\* A round of releaseHeld moves the version to the end of a held diff.
LEMMA ReleaseOneEffect ==
  ASSUME NEW buf, IsBuffer(buf), NEW ends, ends \subseteq Nat, HeldIn(buf, ends)
  PROVE  LET new == ReleaseOne(buf) IN
         IsBuffer(new) /\ HeldIn(new, ends) /\ MovesIn(buf, new, ends)
  <1>. DEFINE ahead == {h \in buf.held : h.to > buf.version}
              reachable == {h \in ahead : h.from <= buf.version}
              d == Least(reachable)
              rest == [buf EXCEPT !.held = ahead \ {d}]
  <1>1. CASE reachable = {}
    <2>1. ReleaseOne(buf) = [buf EXCEPT !.held = ahead]  BY <1>1 DEF ReleaseOne
    <2>. QED  BY <2>1 DEF IsBuffer, HeldIn, MovesIn
  <1>2. CASE reachable # {}
    <2>1. ReleaseOne(buf) = Accept(rest, d)  BY <1>2 DEF ReleaseOne
    <2>2. \A h \in reachable : h.to \in Nat  BY DEF HeldIn
    <2>3. d \in reachable
      <3>. HIDE DEF reachable
      <3>. QED  BY <1>2, <2>2, LeastIsMember
    <2>4. d.to \in ends /\ d.to \in Nat  BY <2>2, <2>3 DEF HeldIn
    <2>. HIDE DEF d
    <2>5. IsBuffer(rest) /\ rest.version = buf.version /\ HeldIn(rest, ends)
      BY DEF IsBuffer, HeldIn
    <2>. HIDE DEF rest
    <2>6. LET new == Accept(rest, d) IN
          IsBuffer(new) /\ new.held = rest.held /\ MovesIn(rest, new, {d.to})
      BY <2>4, <2>5, AcceptEffect
    <2>. QED  BY <2>1, <2>4, <2>5, <2>6 DEF HeldIn, MovesIn
  <1>. QED  BY <1>1, <1>2

\* So do all its rounds.
LEMMA ReleaseHeldEffect ==
  ASSUME NEW buf, IsBuffer(buf), NEW ends, ends \subseteq Nat, HeldIn(buf, ends)
  PROVE  LET new == ReleaseHeld(buf) IN
         IsBuffer(new) /\ HeldIn(new, ends) /\ MovesIn(buf, new, ends)
  <1>. DEFINE round[n \in 0..MaxHeldDiffs] ==
                IF n = 0 THEN buf ELSE ReleaseOne(round[n - 1])
  <1>1. ReleaseHeld(buf) = round[MaxHeldDiffs]  BY DEF ReleaseHeld
  <1>2. MaxHeldDiffs \in Nat  BY BufferAssumption
  <1>3. round = [n \in 0..MaxHeldDiffs |-> IF n = 0 THEN buf ELSE ReleaseOne(round[n - 1])]
    BY <1>2, RoundsExist DEF round
  <1>. HIDE DEF round
  <1>. DEFINE Good(n) == /\ IsBuffer(round[n]) /\ HeldIn(round[n], ends)
                         /\ MovesIn(buf, round[n], ends)
              Bad == {n \in 0..MaxHeldDiffs : ~Good(n)}
  <1>4. Good(0)  BY <1>2, <1>3 DEF MovesIn
  <1>5. ASSUME NEW n \in Bad PROVE n # 0 /\ n - 1 \in Bad
    <2>1. n \in 0..MaxHeldDiffs /\ n # 0  BY <1>4, <1>5
    <2>2. n - 1 \in 0..MaxHeldDiffs  BY <1>2, <2>1
    <2>3. round[n] = ReleaseOne(round[n - 1])  BY <1>3, <2>1
    <2>4. ASSUME Good(n - 1) PROVE Good(n)
      <3>1. LET new == ReleaseOne(round[n - 1]) IN
            /\ IsBuffer(new) /\ HeldIn(new, ends)
            /\ MovesIn(round[n - 1], new, ends)
        BY <2>4, ReleaseOneEffect
      <3>2. MovesIn(buf, round[n], ends)
        BY <2>3, <2>4, <3>1 DEF MovesIn, IsBuffer, NoFrame
      <3>. QED  BY <2>3, <3>1, <3>2
    <2>. QED  BY <1>5, <2>1, <2>2, <2>4
  <1>6. Bad = {}
    <2>1. Bad \subseteq 0..MaxHeldDiffs  OBVIOUS
    <2>. HIDE DEF Bad
    <2>. QED  BY <1>2, <1>5, <2>1, NoLeastCounterexample
  <1>7. Good(MaxHeldDiffs)  BY <1>2, <1>6
  <1>. QED  BY <1>1, <1>7

\* push moves the version to the end of the pushed diff or of a held one.
LEMMA PushEffect ==
  ASSUME NEW buf, IsBuffer(buf), NEW ends, ends \subseteq Nat, HeldIn(buf, ends),
         NEW d, d.to \in ends, NEW optimistic
  PROVE  LET new == Push(buf, d, optimistic) IN
         IsBuffer(new) /\ HeldIn(new, ends) /\ MovesIn(buf, new, ends)
  <1>1. LET new == Hold(buf, d) IN
        IsBuffer(new) /\ HeldIn(new, ends) /\ new.version = buf.version
    BY DEF Hold, IsBuffer, HeldIn
  <1>2. LET new == [buf EXCEPT !.failed = TRUE] IN
        IsBuffer(new) /\ HeldIn(new, ends) /\ new.version = buf.version
    BY DEF IsBuffer, HeldIn
  <1>3. LET new == ReleaseHeld(Accept(buf, d)) IN
        IsBuffer(new) /\ HeldIn(new, ends) /\ MovesIn(buf, new, ends)
    <2>. DEFINE b == Accept(buf, d)
    <2>1. IsBuffer(b) /\ b.held = buf.held /\ MovesIn(buf, b, {d.to})
      BY AcceptEffect
    <2>. HIDE DEF b
    <2>2. HeldIn(b, ends)  BY <2>1 DEF HeldIn
    <2>3. LET new == ReleaseHeld(b) IN
          IsBuffer(new) /\ HeldIn(new, ends) /\ MovesIn(b, new, ends)
      BY <2>1, <2>2, ReleaseHeldEffect
    <2>4. MovesIn(buf, ReleaseHeld(b), ends)
      BY <2>1, <2>3 DEF MovesIn, IsBuffer, NoFrame
    <2>. QED  BY <2>3, <2>4 DEF b
  <1>. QED  BY <1>1, <1>2, <1>3 DEF Push, MovesIn

\* A baseline that starts the buffer over moves the version to its own frame.
LEMMA FreshPush ==
  ASSUME NEW d, d.to \in Nat
  PROVE  LET new == Push(EmptyBuffer, d, FALSE) IN
         IsBuffer(new) /\ HeldIn(new, {d.to}) /\ new.version = d.to
  <1>. DEFINE b == Accept(EmptyBuffer, d)
  <1>1. b.version = d.to /\ b.held = {} /\ IsBuffer(b)
    BY DEF Accept, EmptyBuffer, IsBuffer, NoFrame
  <1>2. Push(EmptyBuffer, d, FALSE) = ReleaseHeld(b)
    BY DEF Push, EmptyBuffer, NoFrame
  <1>. HIDE DEF b
  <1>3. HeldIn(b, {d.to})  BY <1>1 DEF HeldIn
  <1>4. LET new == ReleaseHeld(b) IN
        IsBuffer(new) /\ HeldIn(new, {d.to}) /\ MovesIn(b, new, {d.to})
    BY <1>1, <1>3, ReleaseHeldEffect
  <1>. QED  BY <1>1, <1>2, <1>4 DEF MovesIn

-----------------------------------------------------------------------------
(* The histories of views.                                                  *)

\* The histories that are one frame longer than those of H.
Longer(H, n) ==
  {[f \in 0..n |-> IF f < n THEN p.h[f] ELSE p.v] :
     p \in UNION {{[h |-> h, v |-> v] : v \in NextViews(h[n - 1], n)} : h \in H}}

IsGrowth(g, k) ==
  g = [n \in 0..k |-> IF n = 0 THEN {[f \in 0..0 |-> EmptyView]} ELSE Longer(g[n - 1], n)]

LEMMA GrowthExists ==
  ASSUME NEW k \in Nat
  PROVE  \E g : IsGrowth(g, k)
  <1>. DEFINE first == {[f \in 0..0 |-> EmptyView]}
              Bad == {j \in 0..k : ~ \E g : IsGrowth(g, j)}
  <1>1. ASSUME NEW j \in Bad PROVE j # 0
    <2>1. IsGrowth([n \in 0..0 |-> first], 0)  BY DEF IsGrowth
    <2>. QED  BY <1>1, <2>1
  <1>2. ASSUME NEW j \in Bad PROVE j - 1 \in Bad
    <2>. SUFFICES ASSUME j - 1 \notin Bad PROVE FALSE
      OBVIOUS
    <2>1. j \in Nat /\ j # 0 /\ j - 1 \in 0..k  BY <1>1
    <2>2. PICK r : IsGrowth(r, j - 1)  BY <2>1
    <2>. DEFINE s == [n \in 0..j |-> IF n = j THEN Longer(r[j - 1], j) ELSE r[n]]
    <2>3. ASSUME NEW n \in 0..j
          PROVE  s[n] = IF n = 0 THEN first ELSE Longer(s[n - 1], n)
      <3>1. CASE n = j
        <4>1. j - 1 \in 0..j /\ j - 1 # j  BY <2>1
        <4>. QED  BY <2>1, <3>1, <4>1
      <3>2. CASE n # j
        <4>1. n \in 0..j - 1 /\ (n # 0 => n - 1 \in 0..j /\ n - 1 # j)  BY <2>1, <3>2
        <4>2. s[n] = r[n] /\ (n # 0 => s[n - 1] = r[n - 1])  BY <3>2, <4>1
        <4>. HIDE DEF s
        <4>. QED  BY <2>2, <4>1, <4>2 DEF IsGrowth
      <3>. QED  BY <3>1, <3>2
    <2>4. IsGrowth(s, j)
      <3>1. s = [n \in 0..j |-> s[n]]  OBVIOUS
      <3>. HIDE DEF s
      <3>. QED  BY <2>3, <3>1 DEF IsGrowth
    <2>. QED  BY <2>4
  <1>3. Bad = {}
    <2>1. Bad \subseteq 0..k  OBVIOUS
    <2>. HIDE DEF Bad
    <2>. QED  BY <1>1, <1>2, <2>1, NoLeastCounterexample
  <1>4. k \in 0..k /\ k \notin Bad  BY <1>3
  <1>. QED  BY <1>4

\* One frame more makes a history of a history.
LEMMA LongerIsHistory ==
  ASSUME NEW n \in Nat, n # 0, NEW H, \A h \in H : IsHistory(h, n - 1),
         NEW g \in Longer(H, n)
  PROVE  IsHistory(g, n)
  <1>. DEFINE With(h, v) == [f \in 0..n |-> IF f < n THEN h[f] ELSE v]
  <1>a. PICK h \in H : \E v \in NextViews(h[n - 1], n) : g = With(h, v)
    <2>1. PICK p \in UNION {{[h |-> h, v |-> v] : v \in NextViews(h[n - 1], n)} : h \in H} :
            g = With(p.h, p.v)
      BY DEF Longer
    <2>2. PICK h \in H : p \in {[h |-> h, v |-> v] : v \in NextViews(h[n - 1], n)}
      BY <2>1
    <2>. HIDE DEF With
    <2>. QED  BY <2>1, <2>2
  <1>1. PICK v \in NextViews(h[n - 1], n) : g = With(h, v)
    BY <1>a
  <1>2. /\ h \in [0..n - 1 -> Views] /\ h[0] = EmptyView
        /\ \A f \in 0..n - 1, e \in Eids, t \in Types : ~h[f][e].in => h[f][e].components[t] = 0
    BY DEF IsHistory
  <1>3. n - 1 \in 0..n - 1 /\ 0 < n  OBVIOUS
  <1>4. v \in Views /\ \A e \in Eids, t \in Types : ~v[e].in => v[e].components[t] = 0
    BY <1>2, <1>3, NextViewsAreViews
  <1>5. ASSUME NEW f \in 0..n
        PROVE  /\ g[f] \in Views
               /\ \A e \in Eids, t \in Types : ~g[f][e].in => g[f][e].components[t] = 0
    <2>1. CASE f < n
      <3>1. f \in 0..n - 1 /\ g[f] = h[f]  BY <1>1, <2>1
      <3>. QED  BY <1>2, <3>1
    <2>2. CASE ~(f < n)
      BY <1>1, <1>4, <2>2
    <2>. QED  BY <2>1, <2>2
  <1>6. g[0] = EmptyView  BY <1>1, <1>2, <1>3
  <1>7. g = [f \in 0..n |-> g[f]]  BY <1>1
  <1>8. g \in [0..n -> Views]  BY <1>5, <1>7
  <1>. QED  BY <1>5, <1>6, <1>8 DEF IsHistory

\* What DiffStream starts from are histories of views.
LEMMA HistoriesAreHistories ==
  ASSUME NEW h \in Histories
  PROVE  IsHistory(h, MaxFrame)
  <1>. DEFINE grow[n \in 0..MaxFrame] ==
                IF n = 0 THEN {[f \in 0..0 |-> EmptyView]}
                ELSE {[f \in 0..n |-> IF f < n THEN p.h[f] ELSE p.v] :
                        p \in UNION {{[h |-> x, v |-> v] : v \in NextViews(x[n - 1], n)} :
                                       x \in grow[n - 1]}}
  <1>1. Histories = grow[MaxFrame]  BY DEF Histories
  <1>2. MaxFrame \in Nat  BY StreamAssumption
  <1>3. grow = [n \in 0..MaxFrame |-> IF n = 0 THEN {[f \in 0..0 |-> EmptyView]}
                                      ELSE Longer(grow[n - 1], n)]
    <2>1. \E g : IsGrowth(g, MaxFrame)  BY <1>2, GrowthExists
    <2>. QED  BY <2>1 DEF IsGrowth, Longer, grow
  <1>. HIDE DEF grow
  <1>. DEFINE Bad == {n \in 0..MaxFrame : ~ \A g \in grow[n] : IsHistory(g, n)}
  <1>4. ASSUME NEW n \in Bad PROVE n # 0 /\ n - 1 \in Bad
    <2>1. ASSUME n = 0 PROVE FALSE
      <3>1. grow[0] = {[f \in 0..0 |-> EmptyView]}  BY <1>2, <1>3
      <3>2. EmptyView \in Views /\ \A e \in Eids, t \in Types : EmptyView[e].components[t] = 0
        BY DEF EmptyView, Views, NotInView
      <3>3. IsHistory([f \in 0..0 |-> EmptyView], 0)  BY <3>2 DEF IsHistory
      <3>. QED  BY <1>4, <2>1, <3>1, <3>3
    <2>2. n \in 0..MaxFrame /\ n \in Nat /\ n # 0 /\ n - 1 \in 0..MaxFrame  BY <1>2, <1>4, <2>1
    <2>3. grow[n] = Longer(grow[n - 1], n)  BY <1>3, <2>2
    <2>4. (\A g \in grow[n - 1] : IsHistory(g, n - 1)) => \A g \in grow[n] : IsHistory(g, n)
      BY <2>2, <2>3, LongerIsHistory
    <2>. QED  BY <1>4, <2>2, <2>4
  <1>5. Bad = {}
    <2>1. Bad \subseteq 0..MaxFrame  OBVIOUS
    <2>. HIDE DEF Bad
    <2>. QED  BY <1>2, <1>4, <2>1, NoLeastCounterexample
  <1>6. MaxFrame \in 0..MaxFrame  BY <1>2
  <1>. QED  BY <1>1, <1>5, <1>6

-----------------------------------------------------------------------------
(* What arrives is true of the history.                                     *)

LEMMA BaselineIsWhole ==
  ASSUME IsHistory(viewAt, MaxFrame), NEW to \in 1..MaxFrame
  PROVE  LET d == Baseline(to) IN
         d \in Diffs /\ d.to = to /\ Truthful(d, viewAt) /\ CoversAt(d, 0, viewAt)
  <1>1. MaxFrame \in Nat /\ to \in 1..MaxFrame  BY StreamAssumption
  <1>2. Baseline(to) = WholeView(viewAt, to)  BY DEF Baseline, WholeView
  <1>. QED  BY <1>1, <1>2, BaselineCovers

LEMMA DeltaIsDelta ==
  ASSUME IsHistory(viewAt, MaxFrame), NEW from \in 1..(MaxFrame - 1),
         NEW to \in (from + 1)..MaxFrame
  PROVE  LET d == Delta(from, to) IN
         IsDelta(d, viewAt) /\ d.from = from /\ d.to = to
  <1>1. MaxFrame \in Nat  BY StreamAssumption
  <1>2. from \in Nat /\ to \in Nat /\ from <= to /\ from < to /\ to <= MaxFrame  BY <1>1
  <1>3. \A f \in (from + 1)..to : IF f \in DOMAIN FrameDiffs(from, to)
                                  THEN FrameDiffs(from, to)[f] = FrameDiff(viewAt, f)
                                  ELSE Quiet(viewAt, f)
    BY DEF FrameDiffs, FrameDiff
  <1>4. LET d == HistoryPull(FrameDiffs(from, to), from, to) IN
        d \in Diffs /\ d.from = from /\ d.to = to /\ SoundFrom(d, from, viewAt)
    BY <1>1, <1>2, <1>3, PullIsSound
  <1>. QED  BY <1>2, <1>4 DEF Delta, IsDelta

-----------------------------------------------------------------------------
(* The invariant: the buffer is true of the history and not ahead of it, and *)
(* the client's world is the view of the frame it renders.                   *)

Frames == 0..MaxFrame

StreamInv ==
  /\ IsHistory(viewAt, MaxFrame)
  /\ BufferInv(buffer, viewAt)
  /\ HeldIn(buffer, Frames)
  /\ buffer.version \in Frames \cup {NoFrame}
  /\ world \in Worlds
  /\ closed = FALSE
  /\ RenderedIsServerView
  /\ NoStaleEntity

LEMMA EmptyWorldRenders ==
  ASSUME NEW h, IsHistory(h, MaxFrame)
  PROVE  EmptyWorld \in Worlds /\ SameComponents(EmptyWorld, h[0]) /\ NoneStale(EmptyWorld, h, 0)
  <1>1. EmptyWorld \in Worlds
    BY DEF EmptyWorld, Worlds, NoEntity
  <1>2. SameComponents(EmptyWorld, h[0])
    <2>1. h[0] = EmptyView  BY DEF IsHistory
    <2>2. \A e \in Eids : EmptyWorld[e].components = [t \in Types |-> 0]
      BY DEF EmptyWorld, NoEntity
    <2>3. \A e \in Eids : EmptyView[e].components = [t \in Types |-> 0]
      BY DEF EmptyView, NotInView
    <2>. QED  BY <2>1, <2>2, <2>3 DEF SameComponents
  <1>3. \A e \in Eids : ~Exists(EmptyWorld[e])
    BY DEF EmptyWorld, Exists
  <1>. QED  BY <1>1, <1>2, <1>3 DEF NoneStale

LEMMA InitStream ==
  ASSUME StreamInit
  PROVE  StreamInv
  <1>1. buffer = EmptyBuffer /\ world = EmptyWorld /\ closed = FALSE /\ viewAt \in Histories
    BY DEF StreamInit, ClientInit
  <1>2. IsHistory(viewAt, MaxFrame)  BY <1>1, HistoriesAreHistories
  <1>3. BufferInv(buffer, viewAt)  BY <1>1, EmptyBufferIsSound
  <1>4. buffer.held = {} /\ buffer.version = NoFrame /\ buffer.stateVersion = 0
    BY <1>1 DEF EmptyBuffer
  <1>5. RenderedIsServerView /\ NoStaleEntity /\ world \in Worlds
    BY <1>1, <1>2, <1>4, EmptyWorldRenders DEF RenderedIsServerView, NoStaleEntity
  <1>. QED  BY <1>1, <1>2, <1>3, <1>4, <1>5 DEF StreamInv, HeldIn

\* What one step does to the frame received and the frame rendered.
Forward ==
  /\ buffer'.version >= buffer.version
  /\ buffer'.stateVersion < buffer.stateVersion => buffer'.stateVersion = 0

LEMMA BaselineStep ==
  ASSUME StreamInv, BaselineArrives
  PROVE  StreamInv' /\ Forward
  <1>1. PICK to \in 1..MaxFrame : ReceiveBaseline(Baseline(to))  BY DEF BaselineArrives
  <1>2. UNCHANGED viewAt  BY DEF BaselineArrives
  <1>. DEFINE d == Baseline(to)
  <1>3. d \in Diffs /\ d.to = to /\ Truthful(d, viewAt) /\ CoversAt(d, 0, viewAt)
    BY BaselineIsWhole DEF StreamInv
  <1>4. /\ d.to > buffer.version /\ world' = EmptyWorld
        /\ buffer' = Push(EmptyBuffer, d, FALSE) /\ closed' = buffer'.failed
    BY <1>1 DEF ReceiveBaseline
  <1>. HIDE DEF d
  <1>5. to \in Frames /\ to \in Nat  BY StreamAssumption DEF Frames
  <1>6. BufferInv(buffer', viewAt) /\ buffer'.stateVersion = 0
    BY <1>3, <1>4, BaselineIsSound
  <1>7. HeldIn(buffer', {to}) /\ buffer'.version = to
    BY <1>3, <1>4, <1>5, FreshPush
  <1>8. HeldIn(buffer', Frames)  BY <1>5, <1>7 DEF HeldIn
  <1>9. closed' = FALSE  BY <1>4, <1>6 DEF BufferInv, Buffers
  <1>10. /\ world' \in Worlds /\ SameComponents(world', viewAt[buffer'.stateVersion])
         /\ NoneStale(world', viewAt, buffer'.stateVersion)
    BY <1>4, <1>6, EmptyWorldRenders DEF StreamInv
  <1>11. StreamInv'
    BY <1>2, <1>5, <1>6, <1>7, <1>8, <1>9, <1>10
    DEF StreamInv, RenderedIsServerView, NoStaleEntity
  <1>12. buffer'.version >= buffer.version
    <2>1. to > buffer.version  BY <1>3, <1>4
    <2>2. buffer.version \in Int  BY BufferFields DEF StreamInv, BufferInv, NoFrame
    <2>. QED  BY <1>5, <1>7, <2>1, <2>2
  <1>. QED  BY <1>6, <1>11, <1>12 DEF Forward

LEMMA DeltaStep ==
  ASSUME StreamInv, DeltaArrives
  PROVE  StreamInv' /\ Forward
  <1>a. PICK from \in 1..(MaxFrame - 1) :
          \E to \in (from + 1)..MaxFrame :
            ReceiveDelta(Delta(from, to), from > buffer.version)
    BY DEF DeltaArrives
  <1>1. PICK to \in (from + 1)..MaxFrame :
          ReceiveDelta(Delta(from, to), from > buffer.version)
    BY <1>a
  <1>2. UNCHANGED viewAt /\ buffer.version > 0  BY DEF DeltaArrives
  <1>. DEFINE d == Delta(from, to)
              optimistic == from > buffer.version
  <1>3. IsDelta(d, viewAt) /\ d.from = from /\ d.to = to
    BY DeltaIsDelta DEF StreamInv
  <1>4. /\ buffer' = Push(buffer, d, optimistic) /\ closed' = buffer'.failed
        /\ UNCHANGED world
    BY <1>1 DEF ReceiveDelta
  <1>. HIDE DEF d
  <1>5. /\ MaxFrame \in Nat /\ Frames \subseteq Nat /\ to \in Frames /\ from \in Nat
        /\ buffer.version \in Nat /\ buffer.version # NoFrame /\ BufferInv(buffer, viewAt)
    BY <1>2, StreamAssumption DEF StreamInv, Frames, NoFrame
  <1>6. optimistic \/ d.from <= buffer.version  BY <1>3, <1>5
  <1>. HIDE DEF optimistic
  <1>7. BufferInv(buffer', viewAt) /\ buffer'.stateVersion = buffer.stateVersion
    BY <1>3, <1>4, <1>5, <1>6, PushIsSound
  <1>8. IsBuffer(buffer)
    BY <1>5 DEF BufferInv, Buffers, IsBuffer
  <1>9. HeldIn(buffer', Frames) /\ MovesIn(buffer, buffer', Frames)
    BY <1>3, <1>4, <1>5, <1>8, PushEffect DEF StreamInv
  <1>10. closed' = FALSE  BY <1>4, <1>7 DEF BufferInv, Buffers
  <1>11. buffer'.version \in Frames \cup {NoFrame} /\ buffer'.version >= buffer.version
    <2>1. \/ buffer'.version = buffer.version
          \/ buffer'.version \in Frames /\ buffer'.version > buffer.version
      BY <1>9 DEF MovesIn
    <2>2. buffer.version \in Frames  BY <1>5 DEF StreamInv
    <2>3. buffer'.version \in Frames  BY <2>1, <2>2
    <2>4. buffer'.version \in Nat  BY <1>5, <2>3
    <2>5. buffer'.version >= buffer.version  BY <1>5, <2>1, <2>4
    <2>. QED  BY <2>3, <2>5
  <1>12. StreamInv'
    BY <1>2, <1>4, <1>7, <1>9, <1>10, <1>11 DEF StreamInv, RenderedIsServerView, NoStaleEntity
  <1>13. ~(buffer'.stateVersion < buffer.stateVersion)
    BY <1>5, <1>7, BufferFields DEF BufferInv
  <1>. QED  BY <1>11, <1>12, <1>13 DEF Forward

LEMMA ApplyStep ==
  ASSUME StreamInv, StreamApplied
  PROVE  /\ StreamInv' /\ Forward
         /\ ReplacedOnlyByReset(world, world', viewAt, buffer.stateVersion, buffer'.stateVersion)
  <1>1. PICK k \in PullCounts(buffer) :
          /\ buffer' = PullSlots(buffer, k)
          /\ world' = ApplyDiff(world, PulledDiff(buffer, k))
    BY DEF StreamApplied, Apply
  <1>2. UNCHANGED <<viewAt, closed>>  BY DEF StreamApplied, Apply
  <1>3. /\ MaxFrame \in Nat /\ IsHistory(viewAt, MaxFrame) /\ BufferInv(buffer, viewAt)
        /\ buffer.version = NoFrame \/ buffer.version <= MaxFrame
        /\ world \in Worlds /\ SameComponents(world, viewAt[buffer.stateVersion])
        /\ NoneStale(world, viewAt, buffer.stateVersion)
    BY StreamAssumption DEF StreamInv, RenderedIsServerView, NoStaleEntity, Frames
  <1>4. /\ BufferInv(buffer', viewAt) /\ buffer'.version = buffer.version
        /\ buffer'.stateVersion >= buffer.stateVersion
        /\ world' \in Worlds /\ SameComponents(world', viewAt[buffer'.stateVersion])
        /\ NoneStale(world', viewAt, buffer'.stateVersion)
        /\ ReplacedOnlyByReset(world, world', viewAt, buffer.stateVersion, buffer'.stateVersion)
    BY <1>1, <1>3, ApplyPullIsSound
  <1>5. HeldIn(buffer', Frames)
    <2>1. buffer'.held = buffer.held
      BY <1>1, <1>3 DEF PullSlots, BufferInv, Buffers
    <2>. QED  BY <2>1 DEF StreamInv, HeldIn
  <1>6. StreamInv'
    BY <1>2, <1>4, <1>5 DEF StreamInv, RenderedIsServerView, NoStaleEntity
  <1>7. /\ buffer.version \in Int /\ buffer.stateVersion \in Nat
        /\ buffer'.stateVersion \in Nat
    BY <1>3, <1>4, BufferFields DEF BufferInv, NoFrame
  <1>8. Forward  BY <1>4, <1>7 DEF Forward
  <1>. QED  BY <1>4, <1>6, <1>8

LEMMA StreamStep ==
  ASSUME StreamInv, [StreamNext]_streamVars
  PROVE  /\ StreamInv' /\ Forward
         /\ StreamApplied => ReplacedOnlyByReset(world, world', viewAt, buffer.stateVersion,
                                                 buffer'.stateVersion)
  <1>1. CASE UNCHANGED streamVars
    <2>1. UNCHANGED <<viewAt, buffer, world, closed>>  BY <1>1 DEF streamVars, clientVars
    <2>2. StreamInv'  BY <2>1 DEF StreamInv, RenderedIsServerView, NoStaleEntity
    <2>3. buffer.version \in Int /\ buffer.stateVersion \in Nat
      BY BufferFields DEF StreamInv, BufferInv, NoFrame
    <2>4. Forward  BY <2>1, <2>3 DEF Forward
    <2>. QED  BY <2>2, <2>4, ApplyStep
  <1>2. CASE BaselineArrives  BY <1>2, BaselineStep, ApplyStep
  <1>3. CASE DeltaArrives     BY <1>3, DeltaStep, ApplyStep
  <1>4. CASE StreamApplied    BY <1>4, ApplyStep
  <1>. QED  BY <1>1, <1>2, <1>3, <1>4 DEF StreamNext

(***************************************************************************)
(* The client never gives up on what it is sent, renders what the server   *)
(* showed at the frame it says it renders, and shows no entity beyond the  *)
(* reset of its id.                                                        *)
(***************************************************************************)
THEOREM StreamIsFollowed == StreamSpec => []StreamFollowed
  <1>1. StreamInit => StreamInv  BY InitStream
  <1>2. StreamInv /\ [StreamNext]_streamVars => StreamInv'  BY StreamStep
  <1>3. StreamInv => StreamFollowed
    BY DEF StreamInv, StreamFollowed, StreamTypeOK, ClientTypeOK, NeverClosed, BufferInv, IsHistory
  <1>. QED  BY <1>1, <1>2, <1>3, PTL DEF StreamSpec

(***************************************************************************)
(* A step moves the client forward, or starts it over from a newer         *)
(* baseline; and an entity it shows is only replaced when its id was reset *)
(* after the frame it rendered.                                            *)
(***************************************************************************)
THEOREM StreamNeverGoesBack == StreamSpec => NeverGoesBack
  <1>1. StreamInit => StreamInv  BY InitStream
  <1>2. StreamInv /\ [StreamNext]_streamVars => StreamInv'  BY StreamStep
  <1>3. StreamInv /\ [StreamNext]_streamVars =>
          [StreamApplied => ReplacedOnlyByReset(world, world', viewAt, buffer.stateVersion,
                                                buffer'.stateVersion)]_streamVars
    BY StreamStep
  <1>4. StreamInv /\ [StreamNext]_streamVars =>
          [/\ buffer'.version >= buffer.version
           /\ buffer'.stateVersion < buffer.stateVersion => buffer'.stateVersion = 0]_streamVars
    BY StreamStep DEF Forward
  <1>. QED  BY <1>1, <1>2, <1>3, <1>4, PTL
            DEF StreamSpec, NeverGoesBack, DestroyedOnlyByReset, OnlyForward

-----------------------------------------------------------------------------
(* Diffs: the span a diff covers is what its header says.                   *)

IsDiff(d) == "from" \in DOMAIN d /\ "to" \in DOMAIN d

\* Folding a frame into a span keeps the ends of the span.
LEMMA FoldFrameHeader ==
  ASSUME NEW acc, NEW d, IsDiff(acc)
  PROVE  LET new == FoldFrame(acc, d) IN
         IsDiff(new) /\ new.from = acc.from /\ new.to = acc.to
  BY DEF FoldFrame, IsDiff

\* A pull covers the span it is asked for.
LEMMA PullHeader ==
  ASSUME NEW window, NEW from \in Nat, NEW to \in Nat, from <= to
  PROVE  LET d == HistoryPull(window, from, to) IN
         IsDiff(d) /\ d.from = from /\ d.to = to
  <1>. DEFINE frames == {f \in DOMAIN window : from < f /\ f <= to}
              span[f \in from..to] ==
                IF f = from THEN EmptyDiff(from, to)
                ELSE IF f \in frames THEN FoldFrame(span[f - 1], window[f]) ELSE span[f - 1]
  <1>1. HistoryPull(window, from, to) = span[to]  BY DEF HistoryPull
  <1>. HIDE DEF frames
  <1>2. span = [f \in from..to |->
                  IF f = from THEN EmptyDiff(from, to)
                  ELSE IF f \in frames THEN FoldFrame(span[f - 1], window[f])
                  ELSE span[f - 1]]
    <2>1. \E s : IsSpan(s, window, from, to, frames)  BY SpanExists
    <2>. QED  BY <2>1 DEF IsSpan, span
  <1>. HIDE DEF span
  <1>. DEFINE Good(f) == IsDiff(span[f]) /\ span[f].from = from /\ span[f].to = to
              Bad == {j \in 0..to - from : ~Good(from + j)}
  <1>3. Good(from)  BY <1>2 DEF EmptyDiff, IsDiff
  <1>4. ASSUME NEW j \in Bad PROVE j # 0 /\ j - 1 \in Bad
    <2>1. j \in Nat /\ from + j \in from..to /\ j # 0  BY <1>3, <1>4
    <2>2. /\ from + j # from /\ from + (j - 1) = (from + j) - 1 /\ j - 1 \in 0..to - from
          /\ (from + j) - 1 \in from..to
      BY <2>1
    <2>3. Good((from + j) - 1) => Good(from + j)
      <3>1. span[from + j] = IF from + j \in frames
                             THEN FoldFrame(span[(from + j) - 1], window[from + j])
                             ELSE span[(from + j) - 1]
        BY <1>2, <2>1, <2>2
      <3>. QED  BY <3>1, FoldFrameHeader
    <2>. QED  BY <1>4, <2>1, <2>2, <2>3
  <1>5. Bad = {}
    <2>1. Bad \subseteq 0..to - from /\ to - from \in Nat  OBVIOUS
    <2>. HIDE DEF Bad
    <2>. QED  BY <1>4, <2>1, NoLeastCounterexample
  <1>6. to - from \in 0..to - from /\ from + (to - from) = to  OBVIOUS
  <1>7. Good(to)  BY <1>5, <1>6
  <1>. QED  BY <1>1, <1>7

-----------------------------------------------------------------------------
(* The refinement.                                                          *)

P == INSTANCE AckProtocol_proofs WITH
  net     <- {Header(m) : m \in net},
  version <- buffer.version

\* A session's send is the protocol's.
LEMMA SameBaseline ==
  ASSUME NEW content, NEW lost, SendBaseline(content, lost)
  PROVE  P!SendBaseline(content, lost)
  BY DEF SendBaseline, StartsBaseline, NeedsBaseline, CanPullAfterPush, Lost, Leaving, To,
         None, HistoryPush, PushedContent, NoteContentSent, SentPush, Redundant,
         P!SendBaseline, P!StartsBaseline, P!NeedsBaseline, P!CanPullAfterPush, P!Lost,
         P!Leaving, P!To, P!None, P!HistoryPush, P!PushedContent, P!NoteContentSent,
         P!SentPush, P!Redundant

LEMMA SameDelta ==
  ASSUME NEW content, NEW rpc, NEW overdue, NEW gateOpen,
         SendDelta(content, rpc, overdue, gateOpen)
  PROVE  P!SendDelta(content, rpc, overdue, gateOpen)
  BY DEF SendDelta, NeedsBaseline, CanPullAfterPush, Lost, Leaving, To, None, HistoryPush,
         PushedContent, NoteContentSent, SentPush, Redundant, NoteEmptySent, KeepAliveDue,
         DeltaHasContent, DeltaBase, Healthy, HoldsBaseline, InFallback, SentNewest,
         SentOldest, Smaller, Larger, AckOverdue, FallbackAfter, handshakeVars,
         P!SendDelta, P!NeedsBaseline, P!CanPullAfterPush, P!Lost, P!Leaving, P!To, P!None,
         P!HistoryPush, P!PushedContent, P!NoteContentSent, P!SentPush, P!Redundant,
         P!NoteEmptySent, P!KeepAliveDue, P!DeltaHasContent, P!DeltaBase, P!Healthy,
         P!HoldsBaseline, P!InFallback, P!SentNewest, P!SentOldest, P!Smaller, P!Larger,
         P!AckOverdue, P!FallbackAfter, P!handshakeVars

LEMMA SameSilent ==
  ASSUME NEW content, NEW lost, NEW overdue, NEW gateOpen
  PROVE  /\ SkipEmptyBaseline(lost) => P!SkipEmptyBaseline(lost)
         /\ AwaitBaseline(content) => P!AwaitBaseline(content)
         /\ SendNothing(overdue, gateOpen) => P!SendNothing(overdue, gateOpen)
  BY DEF SkipEmptyBaseline, AwaitBaseline, SendNothing, StartsBaseline, NeedsBaseline,
         CanPullAfterPush, Lost, Leaving, To, None, HistoryPush, PushedContent, Redundant,
         KeepAliveDue, DeltaHasContent, DeltaBase, Healthy, HoldsBaseline, InFallback,
         SentNewest, SentOldest, Smaller, Larger, AckOverdue, FallbackAfter, handshakeVars,
         sendVars,
         P!SkipEmptyBaseline, P!AwaitBaseline, P!SendNothing, P!StartsBaseline,
         P!NeedsBaseline, P!CanPullAfterPush, P!Lost, P!Leaving, P!To, P!None,
         P!HistoryPush, P!PushedContent, P!Redundant, P!KeepAliveDue, P!DeltaHasContent,
         P!DeltaBase, P!Healthy, P!HoldsBaseline, P!InFallback, P!SentNewest, P!SentOldest,
         P!Smaller, P!Larger, P!AckOverdue, P!FallbackAfter, P!handshakeVars, P!sendVars

LEMMA SameReceive ==
  ASSUME NEW ack, NEW gap, ReceiveAck(ack, gap)
  PROVE  P!ReceiveAck(ack, gap)
  BY DEF ReceiveAck, Acknowledge, OnGapReported, InFallback, SentNewest, Smaller, Larger,
         Redundant, None, To, handshakeVars, historyVars,
         P!ReceiveAck, P!Acknowledge, P!OnGapReported, P!InFallback, P!SentNewest,
         P!Smaller, P!Larger, P!Redundant, P!None, P!To, P!handshakeVars, P!historyVars

\* The frames at which a message in the channel ends.
Ends == {m.diff.to : m \in net}

\* The buffer is one, and holds back only what was sent.
ClientInv == IsBuffer(buffer) /\ HeldIn(buffer, Ends)

Inv == P!TypeOK /\ P!HandshakeInv /\ P!ProbeInv /\ ClientInv

LEMMA InitInv ==
  ASSUME MaxFrame \in Nat, Init
  PROVE  P!Init /\ Inv
  <1>1. P!Init
    BY DEF Init, SessionInit, ClientInit, EmptyBuffer, NoFrame, None, P!Init, P!SessionInit,
           P!Redundant, P!None
  <1>2. P!TypeOK /\ P!HandshakeInv /\ P!ProbeInv
    BY <1>1, P!InitType, P!InitHandshake, P!InitProbe, SessionAssumption
    DEF P!SessionAssumption, P!MaxFrameAssumption
  <1>3. ClientInv
    BY DEF Init, ClientInit, ClientInv, EmptyBuffer, IsBuffer, HeldIn, NoFrame
  <1>. QED  BY <1>1, <1>2, <1>3 DEF Inv

\* What the invariant says of the numbers of a tick.
LEMMA TickNumbers ==
  ASSUME Inv, NEW overdue \in BOOLEAN
  PROVE  /\ lastFrame \in Nat /\ Ends \subseteq Nat
         /\ DeltaBase(overdue) \in Nat /\ DeltaBase(overdue) <= lastFrame
         /\ IsBuffer(buffer) /\ HeldIn(buffer, Ends)
  <1>1. lastFrame \in Nat /\ ackFrame \in Nat /\ sent \in [1..RedundancyFrames -> Nat]
    BY DEF Inv, P!TypeOK, P!SessionTypeOK
  <1>2. Ends \subseteq Nat
    <2>1. \A m \in net : Header(m) \in P!Headers  BY DEF Inv, P!TypeOK
    <2>. QED  BY <2>1 DEF P!Headers, Ends, Header
  <1>3. ackFrame <= lastFrame /\ lastContentFrame <= lastFrame /\ lastContentFrame \in Nat
    BY DEF Inv, P!HandshakeInv, P!Ordered, P!ProbeInv, P!Window, P!TypeOK, P!SessionTypeOK
  <1>4. Redundant => SentOldest \in Nat /\ SentOldest <= lastFrame
    <2>1. Redundant => 1 \in 1..RedundancyFrames
      BY SessionAssumption DEF Redundant
    <2>. QED  BY <1>1, <1>3, <2>1 DEF SentOldest, Inv, P!ProbeInv, P!Ring, P!Redundant, Redundant, P!SentOldest
  <1>5. DeltaBase(overdue) \in Nat /\ DeltaBase(overdue) <= lastFrame
    BY <1>1, <1>3, <1>4 DEF DeltaBase, Larger
  <1>. QED  BY <1>1, <1>2, <1>5 DEF Inv, ClientInv

\* The header of the frame a tick hands to the socket joins those in the channel.
LEMMA HeadersGrow ==
  ASSUME NEW m, net' = net \cup {m}
  PROVE  /\ ({Header(x) : x \in net})' = {Header(x) : x \in net} \cup {Header(m)}
         /\ Ends \subseteq Ends'
  BY DEF Header, Ends

\* The client is left alone by the server, and what it holds stays sent.
LEMMA ClientInvKept ==
  ASSUME ClientInv, UNCHANGED buffer, Ends \subseteq Ends'
  PROVE  ClientInv'
  BY DEF ClientInv, IsBuffer, HeldIn

LEMMA TickBaselineRefines ==
  ASSUME Inv, lastFrame < MaxFrame, NEW lost \in BaselineTimer, TickBaseline(lost),
         UNCHANGED <<clientVars, acks>>
  PROVE  P!Next /\ ClientInv'
  <1>1. PICK next \in Changed :
          LET latest == Latest(next, TRUE) IN
          /\ Record(next, latest)
          /\ SendBaseline(Background \/ HasContent(latest), lost)
          /\ net' = net \cup {[diff |-> [latest EXCEPT !.from = 0], optimistic |-> FALSE]}
    BY DEF TickBaseline
  <1>. DEFINE latest == Latest(next, TRUE)
              content == Background \/ HasContent(latest)
              m == [diff |-> [latest EXCEPT !.from = 0], optimistic |-> FALSE]
  <1>2. Header(m) = P!BaselineHeader
    <2>1. IsDiff(latest) /\ latest.to = To
      BY DEF Latest, LatestDiff, IsDiff
    <2>. HIDE DEF latest
    <2>. QED  BY <2>1 DEF Header, IsDiff, P!BaselineHeader, P!To, To
  <1>3. content \in BOOLEAN /\ P!SendBaseline(content, lost)
    BY <1>1, SameBaseline
  <1>4. net' = net \cup {m}  BY <1>1
  <1>. HIDE DEF m, content
  <1>5. /\ ({Header(x) : x \in net})' = {Header(x) : x \in net} \cup {P!BaselineHeader}
        /\ Ends \subseteq Ends'
    BY <1>2, <1>4, HeadersGrow
  <1>6. P!ServerBaseline(content, lost)
    BY <1>3, <1>5 DEF P!ServerBaseline, clientVars
  <1>7. lost \in P!BaselineTimer  BY DEF BaselineTimer, P!BaselineTimer, None, P!None
  <1>8. P!Next  BY <1>3, <1>6, <1>7 DEF P!Next, P!Tick
  <1>9. ClientInv'  BY <1>5, ClientInvKept DEF Inv, clientVars
  <1>. QED  BY <1>8, <1>9

LEMMA TickDeltaRefines ==
  ASSUME Inv, lastFrame < MaxFrame, RpcReplies \in BOOLEAN, NEW rpc \in {FALSE, RpcReplies},
         NEW overdue \in ProbeTimer, NEW gateOpen \in Gate,
         TickDelta(rpc, overdue, gateOpen), UNCHANGED <<clientVars, acks>>
  PROVE  P!Next /\ ClientInv'
  <1>1. PICK next \in Changed :
          LET latest == Latest(next, FALSE) IN
          /\ Record(next, latest)
          /\ SendDelta(HasContent(latest), rpc, overdue, gateOpen)
          /\ net' = net \cup {[diff |-> PulledState(DeltaBase(overdue)),
                               optimistic |-> DeltaBase(overdue) > ackFrame]}
    BY DEF TickDelta
  <1>. DEFINE latest == Latest(next, FALSE)
              content == HasContent(latest)
              base == DeltaBase(overdue)
              m == [diff |-> PulledState(base), optimistic |-> base > ackFrame]
  <1>2. overdue \in BOOLEAN  BY DEF ProbeTimer
  <1>3. /\ lastFrame \in Nat /\ base \in Nat /\ base <= lastFrame
    BY <1>2, TickNumbers
  <1>4. PulledState(base).from = base /\ PulledState(base).to = To
    <2>1. CASE base = lastFrame
      <3>1. latest.from = To - 1 /\ latest.to = To  BY DEF Latest, LatestDiff
      <3>2. history'[To] = latest
        <4>1. Record(next, latest)  BY <1>1
        <4>2. To \in (To - HistoryFrames + 1)..To
          BY <1>3, SessionAssumption DEF To
        <4>. HIDE DEF latest
        <4>. QED  BY <4>1, <4>2 DEF Record
      <3>. HIDE DEF latest, base
      <3>. QED  BY <1>3, <2>1, <3>1, <3>2 DEF PulledState, To
    <2>2. CASE base # lastFrame
      <3>1. To \in Nat /\ base <= To  BY <1>3 DEF To
      <3>. HIDE DEF base
      <3>2. PulledState(base) = HistoryPull(history', base, To)
        BY <2>2 DEF PulledState
      <3>. QED  BY <1>3, <3>1, <3>2, PullHeader
    <2>. QED  BY <2>1, <2>2
  <1>5. base = P!DeltaBase(overdue)
    BY DEF DeltaBase, Healthy, HoldsBaseline, InFallback, SentNewest, SentOldest, Smaller,
           Larger, AckOverdue, Redundant, None, P!DeltaBase, P!Healthy, P!HoldsBaseline,
           P!InFallback, P!SentNewest, P!SentOldest, P!Smaller, P!Larger, P!AckOverdue,
           P!Redundant, P!None
  <1>6. content \in BOOLEAN /\ P!SendDelta(content, rpc, overdue, gateOpen)
    BY <1>1, SameDelta DEF HasContent
  <1>7. net' = net \cup {m}  BY <1>1
  <1>. HIDE DEF content, base
  <1>8. Header(m) = P!DeltaHeader(overdue)
    BY <1>4, <1>5 DEF Header, P!DeltaHeader, P!To, To
  <1>. HIDE DEF m
  <1>9. /\ ({Header(x) : x \in net})' = {Header(x) : x \in net} \cup {P!DeltaHeader(overdue)}
        /\ Ends \subseteq Ends'
    BY <1>7, <1>8, HeadersGrow
  <1>10. P!ServerDelta(content, rpc, overdue, gateOpen)
    BY <1>6, <1>9 DEF P!ServerDelta, clientVars
  <1>11. overdue \in P!ProbeTimer /\ gateOpen \in P!Gate /\ rpc \in BOOLEAN
    BY DEF ProbeTimer, P!ProbeTimer, Gate, P!Gate, None, P!None
  <1>12. P!Next  BY <1>6, <1>10, <1>11 DEF P!Next, P!Tick
  <1>13. ClientInv'  BY <1>9, ClientInvKept DEF Inv, clientVars
  <1>. QED  BY <1>12, <1>13

LEMMA TickSilentRefines ==
  ASSUME Inv, lastFrame < MaxFrame, NEW lost \in BaselineTimer, NEW overdue \in ProbeTimer,
         NEW gateOpen \in Gate, TickSilent(lost, overdue, gateOpen),
         UNCHANGED <<clientVars, acks>>
  PROVE  P!Next /\ ClientInv'
  <1>1. UNCHANGED net  BY DEF TickSilent
  <1>2. \E content \in BOOLEAN : \/ P!SkipEmptyBaseline(lost)
                                 \/ P!AwaitBaseline(content)
                                 \/ P!SendNothing(overdue, gateOpen)
    <2>1. PICK next \in Changed :
            \/ SkipEmptyBaseline(lost)
            \/ AwaitBaseline(HasContent(Latest(next, FALSE)))
            \/ SendNothing(overdue, gateOpen)
      BY DEF TickSilent
    <2>. DEFINE content == HasContent(Latest(next, FALSE))
    <2>2. content \in BOOLEAN  BY DEF HasContent
    <2>. HIDE DEF content
    <2>. QED  BY <2>1, <2>2, SameSilent DEF content
  <1>3. PICK content \in BOOLEAN : P!ServerSilent(content, lost, overdue, gateOpen)
    BY <1>1, <1>2 DEF P!ServerSilent, clientVars
  <1>4. lost \in P!BaselineTimer /\ overdue \in P!ProbeTimer /\ gateOpen \in P!Gate
    BY DEF BaselineTimer, P!BaselineTimer, ProbeTimer, P!ProbeTimer, Gate, P!Gate, None, P!None
  <1>5. P!Next  BY <1>3, <1>4 DEF P!Next, P!Tick
  <1>6. ClientInv'  BY <1>1, ClientInvKept DEF Inv, clientVars, Ends
  <1>. QED  BY <1>5, <1>6

\* A message moves the version to the end of a frame that was sent, or not at all.
LEMMA ReceiveEffect ==
  ASSUME Inv, NEW m \in net, IF m.diff.from = 0 THEN ReceiveBaseline(m.diff)
                             ELSE ReceiveDelta(m.diff, m.optimistic)
  PROVE  IsBuffer(buffer') /\ HeldIn(buffer', Ends) /\ MovesIn(buffer, buffer', Ends)
  <1>1. IsBuffer(buffer) /\ HeldIn(buffer, Ends) /\ Ends \subseteq Nat /\ m.diff.to \in Ends
    BY TickNumbers DEF Ends
  <1>2. CASE m.diff.from = 0
    <2>1. buffer' = Push(EmptyBuffer, m.diff, FALSE) /\ m.diff.to > buffer.version
      BY <1>2 DEF ReceiveBaseline
    <2>2. LET new == Push(EmptyBuffer, m.diff, FALSE) IN
          IsBuffer(new) /\ HeldIn(new, {m.diff.to}) /\ new.version = m.diff.to
      BY <1>1, FreshPush
    <2>. QED  BY <1>1, <2>1, <2>2 DEF HeldIn, MovesIn
  <1>3. CASE m.diff.from # 0
    <2>1. buffer' = Push(buffer, m.diff, m.optimistic)
      BY <1>3 DEF ReceiveDelta
    <2>. QED  BY <1>1, <2>1, PushEffect
  <1>. QED  BY <1>2, <1>3

LEMMA ReceiveRefines ==
  ASSUME Inv, Receive
  PROVE  (P!Next \/ UNCHANGED P!vars) /\ ClientInv'
  <1>1. PICK m \in net : IF m.diff.from = 0 THEN ReceiveBaseline(m.diff)
                         ELSE ReceiveDelta(m.diff, m.optimistic)
    BY DEF Receive
  <1>2. UNCHANGED <<serverVars, net, acks>>  BY DEF Receive
  <1>3. IsBuffer(buffer') /\ HeldIn(buffer', Ends) /\ MovesIn(buffer, buffer', Ends)
    BY <1>1, ReceiveEffect
  <1>4. ClientInv'
    BY <1>2, <1>3 DEF ClientInv, HeldIn, Ends
  <1>5. UNCHANGED <<P!sessionVars, {Header(x) : x \in net}, acks>>
    BY <1>2 DEF serverVars, sessionVars, historyVars, handshakeVars, sendVars, Header,
                P!sessionVars, P!historyVars, P!handshakeVars, P!sendVars
  <1>6. CASE buffer'.version = buffer.version
    BY <1>4, <1>5, <1>6 DEF P!vars
  <1>7. CASE buffer'.version \in Ends /\ buffer'.version > buffer.version
    <2>1. PICK x \in net : x.diff.to = buffer'.version  BY <1>7 DEF Ends
    <2>2. Header(x).to > buffer.version /\ buffer'.version = Header(x).to
      BY <1>7, <2>1 DEF Header
    <2>3. P!ClientAdvance  BY <1>5, <2>2 DEF P!ClientAdvance
    <2>. QED  BY <1>4, <2>3 DEF P!Next
  <1>. QED  BY <1>3, <1>6, <1>7 DEF MovesIn

LEMMA ApplyRefines ==
  ASSUME Inv, ClientApplies
  PROVE  UNCHANGED P!vars /\ ClientInv'
  <1>1. IsBuffer(buffer) /\ HeldIn(buffer, Ends)  BY DEF Inv, ClientInv
  <1>2. UNCHANGED <<serverVars, net, acks>>  BY DEF ClientApplies
  <1>3. PICK n \in PullCounts(buffer) : buffer' = PullSlots(buffer, n)
    BY DEF ClientApplies, Apply
  <1>4. IsBuffer(buffer') /\ buffer'.held = buffer.held /\ buffer'.version = buffer.version
    BY <1>1, <1>3 DEF PullSlots, IsBuffer
  <1>5. ClientInv'
    BY <1>1, <1>2, <1>4 DEF ClientInv, HeldIn, Ends
  <1>6. UNCHANGED <<P!sessionVars, {Header(x) : x \in net}, acks>>
    BY <1>2 DEF serverVars, sessionVars, historyVars, handshakeVars, sendVars, Header,
                P!sessionVars, P!historyVars, P!handshakeVars, P!sendVars
  <1>. QED  BY <1>4, <1>5, <1>6 DEF P!vars

LEMMA SendAckRefines ==
  ASSUME Inv, SendAck
  PROVE  P!Next /\ ClientInv'
  <1>1. IsBuffer(buffer) /\ HeldIn(buffer, Ends)  BY DEF Inv, ClientInv
  <1>2. UNCHANGED <<serverVars, net>> /\ buffer' = [buffer EXCEPT !.gap = FALSE]
    BY DEF SendAck, TakeGap
  <1>3. IsBuffer(buffer') /\ buffer'.held = buffer.held /\ buffer'.version = buffer.version
    BY <1>1, <1>2 DEF IsBuffer
  <1>4. ClientInv'
    BY <1>1, <1>2, <1>3 DEF ClientInv, HeldIn, Ends
  <1>5. UNCHANGED <<P!sessionVars, {Header(x) : x \in net}>>
    BY <1>2 DEF serverVars, sessionVars, historyVars, handshakeVars, sendVars, Header,
                P!sessionVars, P!historyVars, P!handshakeVars, P!sendVars
  <1>6. PICK gap \in BOOLEAN : gap = GapOpen(buffer)
    BY DEF GapOpen
  <1>7. acks' = acks \cup
          {[ack |-> IF buffer.version < 0 THEN 0 ELSE buffer.version, gap |-> gap]}
    BY <1>6 DEF SendAck, ClientAckFrame
  <1>8. P!ClientAck  BY <1>3, <1>5, <1>7 DEF P!ClientAck
  <1>. QED  BY <1>4, <1>8 DEF P!Next

LEMMA AckArrivesRefines ==
  ASSUME Inv, AckArrives
  PROVE  P!Next /\ ClientInv'
  <1>1. UNCHANGED <<buffer, net>>  BY DEF AckArrives, clientVars
  <1>2. PICK a \in acks : ReceiveAck(a.ack, a.gap)  BY DEF AckArrives
  <1>3. P!ReceiveAck(a.ack, a.gap)  BY <1>2, SameReceive
  <1>4. acks' = P!StillMatter(acks)
    BY DEF AckArrives, StillMatter, P!StillMatter
  <1>5. UNCHANGED <<{Header(x) : x \in net}, buffer.version>>  BY <1>1 DEF Header
  <1>6. P!AckArrives  BY <1>3, <1>4, <1>5 DEF P!AckArrives
  <1>7. ClientInv'  BY <1>1, ClientInvKept DEF Inv, Ends
  <1>. QED  BY <1>6, <1>7 DEF P!Next

\* Every step is a step of the protocol or changes none of its variables.
LEMMA StepRefines ==
  ASSUME RpcReplies \in BOOLEAN, Inv, [Next]_vars
  PROVE  [P!Next]_(P!vars) /\ ClientInv'
  <1>1. CASE UNCHANGED vars
    <2>1. UNCHANGED <<P!sessionVars, {Header(x) : x \in net}, acks, buffer>>
      BY <1>1 DEF vars, serverVars, clientVars, sessionVars, historyVars, handshakeVars,
                  sendVars, Header, P!sessionVars, P!historyVars, P!handshakeVars, P!sendVars
    <2>2. UNCHANGED <<buffer, Ends>>  BY <1>1 DEF vars, clientVars, Ends
    <2>. QED  BY <2>1, <2>2, ClientInvKept DEF Inv, P!vars
  <1>2. CASE Tick
    <2>1. lastFrame < MaxFrame /\ UNCHANGED <<clientVars, acks>>  BY <1>2 DEF Tick
    <2>2. CASE \E lost \in BaselineTimer : TickBaseline(lost)
      BY <2>1, <2>2, TickBaselineRefines
    <2>3. CASE \E rpc \in {FALSE, RpcReplies}, overdue \in ProbeTimer, gateOpen \in Gate :
                 TickDelta(rpc, overdue, gateOpen)
      BY <2>1, <2>3, TickDeltaRefines
    <2>4. CASE \E lost \in BaselineTimer, overdue \in ProbeTimer, gateOpen \in Gate :
                 TickSilent(lost, overdue, gateOpen)
      BY <2>1, <2>4, TickSilentRefines
    <2>. QED  BY <1>2, <2>2, <2>3, <2>4 DEF Tick
  <1>3. CASE Receive        BY <1>3, ReceiveRefines
  <1>4. CASE ClientApplies  BY <1>4, ApplyRefines
  <1>5. CASE SendAck        BY <1>5, SendAckRefines
  <1>6. CASE AckArrives     BY <1>6, AckArrivesRefines
  <1>. QED  BY <1>1, <1>2, <1>3, <1>4, <1>5, <1>6 DEF Next

LEMMA StepInv ==
  ASSUME MaxFrame \in Nat, RpcReplies \in BOOLEAN, Inv, [Next]_vars
  PROVE  Inv'
  <1>1. [P!Next]_(P!vars) /\ ClientInv'  BY StepRefines
  <1>2. P!TypeOK' /\ P!HandshakeInv' /\ P!ProbeInv'
    BY <1>1, P!StepType, P!StepHandshake, P!StepProbe, SessionAssumption
    DEF Inv, P!SessionAssumption, P!MaxFrameAssumption
  <1>. QED  BY <1>1, <1>2 DEF Inv

LEMMA InvHolds ==
  ASSUME MaxFrame \in Nat, RpcReplies \in BOOLEAN
  PROVE  Spec => []Inv
  BY InitInv, StepInv, PTL DEF Spec

(***************************************************************************)
(* A server and a client that replicate data follow the protocol of frame  *)
(* numbers, whatever the channel loses, repeats or reorders: every diff    *)
(* that is sent has the header the protocol gives it, and the buffer's     *)
(* version only ever moves on to the end of a frame that was sent.         *)
(***************************************************************************)
THEOREM ImplementsProtocol ==
  ASSUME MaxFrame \in Nat, RpcReplies \in BOOLEAN
  PROVE  Spec => RefinesAckProtocol
  <1>1. Init => Protocol!Init
    BY InitInv
    DEF P!Init, P!SessionInit, P!Redundant, P!None, Protocol!Init, Protocol!SessionInit,
        Protocol!Redundant, Protocol!None
  <1>2. ASSUME [P!Next]_(P!vars) PROVE [Protocol!Next]_(Protocol!vars)
    BY <1>2
    DEF P!Next, P!vars, P!Tick, P!ServerBaseline, P!ServerDelta, P!ServerSilent,
        P!ClientAdvance, P!ClientAck, P!AckArrives, P!BaselineTimer, P!ProbeTimer,
        P!Gate, P!BaselineHeader, P!DeltaHeader, P!StillMatter, P!SendBaseline,
        P!SkipEmptyBaseline, P!AwaitBaseline, P!SendDelta, P!SendNothing,
        P!ReceiveAck, P!Acknowledge, P!OnGapReported, P!StartsBaseline,
        P!NeedsBaseline, P!CanPullAfterPush, P!Lost, P!Leaving, P!To, P!None,
        P!HistoryPush, P!PushedContent, P!NoteContentSent, P!NoteEmptySent,
        P!SentPush, P!Redundant, P!KeepAliveDue, P!DeltaHasContent, P!DeltaBase,
        P!Healthy, P!HoldsBaseline, P!InFallback, P!SentNewest, P!SentOldest,
        P!Smaller, P!Larger, P!AckOverdue, P!FallbackAfter, P!sessionVars,
        P!historyVars, P!handshakeVars, P!sendVars, Protocol!Next, Protocol!vars,
        Protocol!Tick, Protocol!ServerBaseline, Protocol!ServerDelta,
        Protocol!ServerSilent, Protocol!ClientAdvance, Protocol!ClientAck,
        Protocol!AckArrives, Protocol!BaselineTimer, Protocol!ProbeTimer,
        Protocol!Gate, Protocol!BaselineHeader, Protocol!DeltaHeader,
        Protocol!StillMatter, Protocol!SendBaseline, Protocol!SkipEmptyBaseline,
        Protocol!AwaitBaseline, Protocol!SendDelta, Protocol!SendNothing,
        Protocol!ReceiveAck, Protocol!Acknowledge, Protocol!OnGapReported,
        Protocol!StartsBaseline, Protocol!NeedsBaseline,
        Protocol!CanPullAfterPush, Protocol!Lost, Protocol!Leaving, Protocol!To,
        Protocol!None, Protocol!HistoryPush, Protocol!PushedContent,
        Protocol!NoteContentSent, Protocol!NoteEmptySent, Protocol!SentPush,
        Protocol!Redundant, Protocol!KeepAliveDue, Protocol!DeltaHasContent,
        Protocol!DeltaBase, Protocol!Healthy, Protocol!HoldsBaseline,
        Protocol!InFallback, Protocol!SentNewest, Protocol!SentOldest,
        Protocol!Smaller, Protocol!Larger, Protocol!AckOverdue,
        Protocol!FallbackAfter, Protocol!sessionVars, Protocol!historyVars,
        Protocol!handshakeVars, Protocol!sendVars
  <1>3. Inv /\ [Next]_vars => [Protocol!Next]_(Protocol!vars)
    BY <1>2, StepRefines
  <1>. QED  BY <1>1, <1>3, InvHolds, PTL DEF Spec, RefinesAckProtocol, Protocol!Spec

-----------------------------------------------------------------------------
(* What the client renders.  The invariant has a part for every place the   *)
(* view passes through: the history of views, the frames the server still   *)
(* has of it, the diffs in the channel, and the client's buffer and world.  *)

ViewInv ==
  /\ IsHistory(viewAt, lastFrame)
  /\ view = viewAt[lastFrame]
  /\ BareEntities \/ \A e \in Eids : view[e].in => \E t \in Types : view[e].components[t] # 0

\* No baseline that may still matter to the client is newer.
Newest(resync, ack) == IF resync = None THEN ack ELSE resync

\* The window tells the truth about every frame after the newest baseline: an
\* older one may hold a baseline in place of its diff.  What the window has lost
\* had no content, or is not newer than the evicted content the server knows of.
WindowInv ==
  /\ DOMAIN history = (lastFrame - HistoryFrames + 1)..lastFrame
  /\ \A f \in DOMAIN history : history[f].to = f
  /\ evictedContentFrame = None \/ evictedContentFrame <= lastFrame - HistoryFrames
  /\ \A f \in (Newest(resyncFrame, ackFrame) + 1)..lastFrame :
       IF f \in DOMAIN history
       THEN /\ history[f] = FrameDiff(viewAt, f)
            /\ f \in contentFrames \/ ~HasContent(history[f])
       ELSE Quiet(viewAt, f) \/ f <= evictedContentFrame

\* A message in the channel is a whole view, or everything after the frame it
\* starts at; it is the latter only once the client has acked the former.
SoundMessage(m) ==
  /\ m.diff \in Diffs /\ m.optimistic \in BOOLEAN
  /\ IF m.diff.from = 0
     THEN Truthful(m.diff, viewAt) /\ CoversAt(m.diff, 0, viewAt)
     ELSE IsDelta(m.diff, viewAt) /\ baselineAcked
ChannelInv == \A m \in net : SoundMessage(m)

RenderInv ==
  /\ BufferInv(buffer, viewAt)
  /\ buffer.version <= lastFrame
  /\ world \in Worlds
  /\ closed = FALSE
  /\ RenderedIsServerView
  /\ NoStaleEntity

DataInv == ViewInv /\ WindowInv /\ ChannelInv /\ RenderInv

LEMMA EmptyWorldHasNoStale ==
  ASSUME NEW h, NEW v
  PROVE  NoneStale(EmptyWorld, h, v)
  <1>1. \A e \in Eids : ~Exists(EmptyWorld[e])  BY DEF EmptyWorld, Exists
  <1>. QED  BY <1>1 DEF NoneStale

LEMMA InitData ==
  ASSUME Init
  PROVE  DataInv
  <1>1. EmptyView \in Views /\ \A e \in Eids : ~EmptyView[e].in
    BY DEF EmptyView, Views, NotInView
  <1>2. StartFrame \in Nat /\ lastFrame = StartFrame /\ viewAt = [f \in 0..StartFrame |-> EmptyView]
        /\ view = EmptyView
    BY SessionAssumption DEF Init, SessionInit
  <1>3. \A e \in Eids, t \in Types : EmptyView[e].components[t] = 0
    BY DEF EmptyView, NotInView
  <1>4. ViewInv  BY <1>1, <1>2, <1>3 DEF ViewInv, IsHistory
  <1>5. Newest(resyncFrame, ackFrame) = StartFrame
    BY DEF Init, SessionInit, Newest, None
  <1>6. WindowInv
    <2>1. /\ history = [f \in (StartFrame - HistoryFrames + 1)..StartFrame |-> EmptyDiff(f - 1, f)]
          /\ evictedContentFrame = None
      BY DEF Init, SessionInit
    <2>2. (StartFrame + 1)..StartFrame = {}  BY <1>2
    <2>. QED  BY <1>2, <1>5, <2>1, <2>2 DEF WindowInv, EmptyDiff
  <1>7. ChannelInv  BY DEF Init, ChannelInv
  <1>8. RenderInv
    <2>1. /\ buffer = EmptyBuffer /\ world = EmptyWorld /\ closed = FALSE
      BY DEF Init, ClientInit
    <2>2. buffer.stateVersion = 0 /\ buffer.version = NoFrame  BY <2>1 DEF EmptyBuffer
    <2>3. EmptyWorld \in Worlds /\ SameComponents(EmptyWorld, EmptyView)
      BY DEF EmptyWorld, Worlds, NoEntity, SameComponents, EmptyView, NotInView
    <2>4. viewAt[0] = EmptyView  BY <1>2
    <2>5. NoStaleEntity
      BY <2>1, EmptyWorldHasNoStale DEF NoStaleEntity
    <2>. QED
      BY <1>2, <2>1, <2>2, <2>3, <2>4, <2>5, EmptyBufferIsSound
      DEF RenderInv, RenderedIsServerView, NoFrame
  <1>. QED  BY <1>4, <1>6, <1>7, <1>8 DEF DataInv

\* The history of views goes on by one frame.
LEMMA RecordViews ==
  ASSUME Inv, ViewInv, NEW next \in Changed, NEW latest, Record(next, latest),
         lastFrame' = To
  PROVE  /\ ViewInv' /\ SameUpTo(viewAt, viewAt', lastFrame)
         /\ viewAt'[To - 1] = view /\ viewAt'[To] = next
         /\ To \in Nat /\ To = lastFrame + 1
  <1>1. lastFrame \in Nat /\ To = lastFrame + 1
    BY DEF Inv, P!TypeOK, P!SessionTypeOK, To
  <1>2. /\ viewAt \in [0..lastFrame -> Views] /\ viewAt[0] = EmptyView
        /\ \A f \in 0..lastFrame, e \in Eids, t \in Types :
             ~viewAt[f][e].in => viewAt[f][e].components[t] = 0
        /\ view = viewAt[lastFrame]
    BY DEF ViewInv, IsHistory
  <1>3. view \in Views /\ \A e \in Eids, t \in Types : ~view[e].in => view[e].components[t] = 0
    BY <1>1, <1>2
  <1>4. /\ next \in Views
        /\ \A e \in Eids, t \in Types : ~next[e].in => next[e].components[t] = 0
        /\ BareEntities \/ \A e \in Eids : next[e].in =>
                             \E t \in Types : next[e].components[t] # 0
    <2>1. CASE next = view  BY <1>3, <2>1 DEF ViewInv
    <2>2. CASE next \in NextViews(view, To)
      BY <1>1, <1>3, <2>2, NextViewsAreViews
    <2>. QED  BY <2>1, <2>2 DEF Changed
  <1>5. /\ view' = next
        /\ viewAt' = [f \in 0..To |-> IF f = To THEN next ELSE viewAt[f]]
    BY DEF Record
  <1>6. SameUpTo(viewAt, viewAt', lastFrame) /\ viewAt'[To] = next
    BY <1>1, <1>5 DEF SameUpTo
  <1>7. viewAt'[To - 1] = view
    BY <1>1, <1>2, <1>5
  <1>8. IsHistory(viewAt', To)
    <2>1. viewAt' \in [0..To -> Views]  BY <1>1, <1>2, <1>4, <1>5
    <2>2. viewAt'[0] = EmptyView  BY <1>1, <1>2, <1>5
    <2>3. \A f \in 0..To, e \in Eids, t \in Types :
            ~viewAt'[f][e].in => viewAt'[f][e].components[t] = 0
      BY <1>1, <1>2, <1>4, <1>5
    <2>. QED  BY <2>1, <2>2, <2>3 DEF IsHistory
  <1>9. ViewInv'
    BY <1>4, <1>5, <1>6, <1>8 DEF ViewInv
  <1>. QED  BY <1>1, <1>6, <1>7, <1>9

\* A frame's diff and its silence depend on the views around it only.
LEMMA StillFrame ==
  ASSUME NEW n \in Nat, NEW h, NEW g, SameUpTo(h, g, n), NEW f \in 1..n
  PROVE  FrameDiff(g, f) = FrameDiff(h, f) /\ (Quiet(h, f) => Quiet(g, f))
  <1>1. g[f] = h[f] /\ g[f - 1] = h[f - 1]  BY DEF SameUpTo
  <1>. QED  BY <1>1 DEF FrameDiff, Quiet, Val, LeftAt

\* The window stays true: what it says of the new frame is that frame's diff, or
\* the frame is a baseline; what it loses had no content, or is remembered.
LEMMA RecordWindow ==
  ASSUME Inv, ViewInv, WindowInv, NEW next \in Changed, NEW latest, latest.to = To,
         Record(next, latest), NEW content, HistoryPush(content),
         Newest(resyncFrame', ackFrame') \in Nat,
         Newest(resyncFrame', ackFrame') >= Newest(resyncFrame, ackFrame),
         \/ Newest(resyncFrame', ackFrame') = To
         \/ latest = FrameDiff(viewAt', To) /\ (content \/ ~HasContent(latest))
  PROVE  WindowInv'
  <1>. DEFINE HF == HistoryFrames
  <1>1. /\ lastFrame \in Nat /\ To = lastFrame + 1 /\ lastFrame' = To /\ HF \in Nat /\ HF >= 2
        /\ contentFrames \subseteq Nat /\ Newest(resyncFrame, ackFrame) \in Nat
        /\ evictedContentFrame \in Nat \cup {None}
    BY SessionAssumption DEF Inv, P!TypeOK, P!SessionTypeOK, Newest, P!None, None, To,
                             HistoryPush
  <1>2. SameUpTo(viewAt, viewAt', lastFrame) /\ ViewInv'
    BY <1>1, RecordViews
  <1>3. /\ DOMAIN history' = (To - HF + 1)..To
        /\ \A f \in DOMAIN history' : history'[f] = IF f = To THEN latest ELSE history[f]
        /\ history'[To] = latest
    BY <1>1 DEF Record
  <1>4. /\ contentFrames' = PushedContent(content)
        /\ evictedContentFrame' = Lost
        /\ Leaving = To - HF
    BY DEF HistoryPush, Leaving
  <1>5. /\ DOMAIN history = (lastFrame - HF + 1)..lastFrame
        /\ \A f \in DOMAIN history : history[f].to = f
        /\ evictedContentFrame = None \/ evictedContentFrame <= lastFrame - HF
    BY DEF WindowInv
  <1>6. \A f \in DOMAIN history' : f = To \/ f \in DOMAIN history
    BY <1>1, <1>3, <1>5
  <1>7. \A f \in DOMAIN history' : history'[f].to = f
    BY <1>3, <1>5, <1>6
  <1>8. evictedContentFrame' = None \/ evictedContentFrame' <= To - HF
    BY <1>1, <1>4, <1>5 DEF Lost, None
  <1>9. ASSUME NEW f \in (Newest(resyncFrame', ackFrame') + 1)..To
        PROVE  IF f \in DOMAIN history'
               THEN /\ history'[f] = FrameDiff(viewAt', f)
                    /\ f \in contentFrames' \/ ~HasContent(history'[f])
               ELSE Quiet(viewAt', f) \/ f <= evictedContentFrame'
    <2>0. f \in Nat /\ Newest(resyncFrame', ackFrame') < f /\ f <= To  BY <1>1
    <2>1. CASE f = To
      <3>1. Newest(resyncFrame', ackFrame') # To  BY <2>0, <2>1
      <3>2. To \in DOMAIN history'  BY <1>1, <1>3
      <3>. QED  BY <1>3, <1>4, <2>1, <3>1, <3>2 DEF PushedContent
    <2>2. CASE f # To
      <3>1. f \in (Newest(resyncFrame, ackFrame) + 1)..lastFrame /\ f \in 1..lastFrame
        BY <1>1, <2>0, <2>2
      <3>2. FrameDiff(viewAt', f) = FrameDiff(viewAt, f)
            /\ (Quiet(viewAt, f) => Quiet(viewAt', f))
        BY <1>1, <1>2, <3>1, StillFrame
      <3>3. IF f \in DOMAIN history
            THEN /\ history[f] = FrameDiff(viewAt, f)
                 /\ f \in contentFrames \/ ~HasContent(history[f])
            ELSE Quiet(viewAt, f) \/ f <= evictedContentFrame
        BY <3>1 DEF WindowInv
      <3>4. CASE f \in DOMAIN history'
        <4>1. f \in DOMAIN history /\ history'[f] = history[f] /\ f # Leaving
          BY <1>1, <1>3, <1>4, <1>6, <2>2, <3>4
        <4>. QED  BY <1>4, <3>2, <3>3, <3>4, <4>1 DEF PushedContent
      <3>5. CASE f \notin DOMAIN history' /\ f \in DOMAIN history
        <4>1. f = Leaving
          <5>1. f \notin (To - HF + 1)..To /\ f \in (lastFrame - HF + 1)..lastFrame
            BY <1>3, <1>5, <3>5
          <5>. QED  BY <1>1, <1>4, <2>0, <5>1
        <4>2. CASE f \in contentFrames
          <5>1. evictedContentFrame' = f  BY <1>4, <4>1, <4>2 DEF Lost
          <5>. QED  BY <1>1, <3>5, <5>1
        <4>3. CASE f \notin contentFrames
          <5>1. ~HasContent(FrameDiff(viewAt, f))  BY <3>3, <3>5, <4>3
          <5>2. Quiet(viewAt, f)  BY <1>1, <3>1, <5>1, NoContentIsQuiet DEF ViewInv
          <5>. QED  BY <3>2, <3>5, <5>2
        <4>. QED  BY <4>2, <4>3
      <3>6. CASE f \notin DOMAIN history' /\ f \notin DOMAIN history
        <4>1. f <= evictedContentFrame => f <= evictedContentFrame'
          BY <1>1, <1>4, <1>5 DEF Lost, None
        <4>. QED  BY <3>2, <3>3, <3>6, <4>1
      <3>. QED  BY <3>4, <3>5, <3>6
    <2>. QED  BY <2>1, <2>2
  <1>. QED
    BY <1>1, <1>3, <1>7, <1>8, <1>9 DEF WindowInv

\* What was sent and what the client holds does not depend on later frames.
LEMMA LaterFrames ==
  ASSUME Inv, ViewInv, RenderInv, ChannelInv, SameUpTo(viewAt, viewAt', lastFrame),
         UNCHANGED clientVars, lastFrame' = lastFrame + 1, baselineAcked => baselineAcked'
  PROVE  RenderInv' /\ \A m \in net : SoundMessage(m)'
  <1>1. lastFrame \in Nat /\ lastFrame' \in Nat /\ lastFrame <= lastFrame'
    BY DEF Inv, P!TypeOK, P!SessionTypeOK
  <1>2. \A m \in net : m.diff.to <= lastFrame
    <2>1. \A m \in net : Header(m).to <= lastFrame  BY DEF Inv, P!HandshakeInv, P!Ordered
    <2>. QED  BY <2>1 DEF Header
  <1>3. ASSUME NEW m \in net PROVE SoundMessage(m)'
    <2>1. m.diff \in Diffs /\ m.diff.from \in Nat  BY DEF ChannelInv, SoundMessage, Diffs
    <2>2. 0 \in 0..lastFrame  BY <1>1
    <2>. QED  BY <1>1, <1>2, <2>1, <2>2, StillSound DEF ChannelInv, SoundMessage, IsDelta
  <1>4. \A d \in buffer.held : d.to <= lastFrame
    <2>1. \A d \in buffer.held : d.to \in Ends  BY DEF Inv, ClientInv, HeldIn
    <2>. QED  BY <1>2, <2>1 DEF Ends
  <1>5. BufferInv(buffer, viewAt') /\ buffer.stateVersion \in 0..lastFrame
    BY <1>1, <1>4, StillBufferInv DEF RenderInv
  <1>6. viewAt'[buffer.stateVersion] = viewAt[buffer.stateVersion]
    BY <1>5 DEF SameUpTo
  <1>7. buffer.version \in Nat \cup {NoFrame}  BY DEF Inv, ClientInv, IsBuffer
  <1>8. NoStaleEntity'
    BY <1>1, <1>5, StillNoneStale DEF RenderInv, NoStaleEntity, clientVars
  <1>9. RenderInv'
    BY <1>1, <1>5, <1>6, <1>7, <1>8
    DEF RenderInv, RenderedIsServerView, SameComponents, clientVars, NoFrame
  <1>. QED  BY <1>3, <1>9

LEMMA NewestNumbers ==
  ASSUME Inv
  PROVE  /\ Newest(resyncFrame, ackFrame) \in Nat
         /\ Newest(resyncFrame, ackFrame) <= lastFrame
         /\ lastFrame \in Nat /\ To = lastFrame + 1
         /\ ackFrame \in Nat /\ resyncFrame \in Nat \cup {None}
  <1>1. /\ lastFrame \in Nat /\ ackFrame \in Nat /\ resyncFrame \in Nat \cup {None}
        /\ ackFrame <= lastFrame
        /\ resyncFrame # None => resyncFrame <= lastFrame
    BY DEF Inv, P!TypeOK, P!SessionTypeOK, P!HandshakeInv, P!Ordered, P!None, None
  <1>. QED  BY <1>1 DEF Newest, To

LEMMA TickBaselineFollows ==
  ASSUME Inv, DataInv, NEW lost, TickBaseline(lost), UNCHANGED <<clientVars, acks>>
  PROVE  DataInv'
  <1>1. PICK next \in Changed :
          LET latest == Latest(next, TRUE) IN
          /\ Record(next, latest)
          /\ SendBaseline(Background \/ HasContent(latest), lost)
          /\ net' = net \cup {[diff |-> [latest EXCEPT !.from = 0], optimistic |-> FALSE]}
    BY DEF TickBaseline
  <1>. DEFINE latest == Latest(next, TRUE)
              content == Background \/ HasContent(latest)
  <1>2. latest.to = To  BY DEF Latest, LatestDiff
  <1>3. PICK d : d = [latest EXCEPT !.from = 0]  OBVIOUS
  <1>4. PICK x : x = [diff |-> d, optimistic |-> FALSE]  OBVIOUS
  <1>5. /\ Record(next, latest) /\ HistoryPush(content) /\ net' = net \cup {x}
        /\ resyncFrame' = To /\ UNCHANGED <<ackFrame, baselineAcked>>
    BY <1>1, <1>3, <1>4 DEF SendBaseline
  <1>6. latest = LatestDiff(view, next, To, TRUE)  BY DEF Latest
  <1>. HIDE DEF latest, content
  <1>7. lastFrame' = To  BY <1>5 DEF HistoryPush
  <1>8. /\ ViewInv' /\ SameUpTo(viewAt, viewAt', lastFrame)
        /\ viewAt'[To - 1] = view /\ viewAt'[To] = next /\ To \in Nat
    BY <1>5, <1>7, RecordViews DEF DataInv
  <1>9. /\ Newest(resyncFrame', ackFrame') = To
        /\ Newest(resyncFrame, ackFrame) <= To /\ To \in 1..To
    BY <1>5, <1>8, NewestNumbers DEF Newest, None
  <1>10. WindowInv'
    BY <1>2, <1>5, <1>8, <1>9, RecordWindow DEF DataInv
  <1>11. /\ d \in Diffs /\ d.from = 0 /\ Truthful(d, viewAt') /\ CoversAt(d, 0, viewAt')
    <2>1. IsHistory(viewAt', To)  BY <1>7, <1>8 DEF ViewInv
    <2>2. LET whole == WholeView(viewAt', To)
          IN  /\ whole \in Diffs /\ whole.from = 0
              /\ Truthful(whole, viewAt') /\ CoversAt(whole, 0, viewAt')
      BY <1>8, <1>9, <2>1, BaselineCovers
    <2>3. d = WholeView(viewAt', To)  BY <1>3, <1>6, <1>8 DEF WholeView
    <2>. QED  BY <2>2, <2>3
  <1>12. SoundMessage(x)'  BY <1>4, <1>11 DEF SoundMessage
  <1>13. RenderInv' /\ \A m \in net : SoundMessage(m)'
    BY <1>5, <1>7, <1>8, NewestNumbers, LaterFrames DEF DataInv
  <1>14. ChannelInv'  BY <1>5, <1>12, <1>13 DEF ChannelInv
  <1>. QED  BY <1>8, <1>10, <1>13, <1>14 DEF DataInv

\* What a delta carries: everything after the frame it starts at.
LEMMA PulledIsDelta ==
  ASSUME Inv, ViewInv', WindowInv', lastFrame' = To, ~NeedsBaseline, resyncFrame' = None,
         ackFrame' = ackFrame, resyncFrame = None, evictedContentFrame' = Lost,
         NEW base \in Nat, base >= ackFrame, base <= lastFrame
  PROVE  IsDelta(PulledState(base), viewAt') /\ PulledState(base).from = base
  <1>1. lastFrame \in Nat /\ To = lastFrame + 1 /\ ackFrame \in Nat /\ To \in Nat
    BY NewestNumbers DEF To
  <1>2. Newest(resyncFrame', ackFrame') = ackFrame  BY DEF Newest
  <1>3. evictedContentFrame' \in Int /\ evictedContentFrame' <= ackFrame
    <2>1. Lost \in Int
      BY <1>1, SessionAssumption
      DEF Lost, Leaving, Inv, P!TypeOK, P!SessionTypeOK, P!None, To
    <2>. QED  BY <1>1, <2>1 DEF NeedsBaseline, CanPullAfterPush
  <1>4. \A f \in (base + 1)..To : IF f \in DOMAIN history'
                                 THEN history'[f] = FrameDiff(viewAt', f)
                                 ELSE Quiet(viewAt', f)
    <2>. SUFFICES ASSUME NEW f \in (base + 1)..To
                  PROVE  IF f \in DOMAIN history' THEN history'[f] = FrameDiff(viewAt', f)
                         ELSE Quiet(viewAt', f)
      OBVIOUS
    <2>1. f \in (ackFrame + 1)..To /\ ~(f <= evictedContentFrame')
      BY <1>1, <1>3
    <2>. QED  BY <1>2, <2>1 DEF WindowInv
  <1>5. IsHistory(viewAt', To)  BY DEF ViewInv
  <1>6. CASE base = lastFrame
    <2>1. To \in (base + 1)..To /\ To \in 1..To /\ To - 1 = base  BY <1>1, <1>6
    <2>2. To \in DOMAIN history'
      BY <1>1, SessionAssumption DEF WindowInv
    <2>3. PulledState(base) = FrameDiff(viewAt', To)
      BY <1>4, <1>6, <2>1, <2>2 DEF PulledState
    <2>4. LET d == FrameDiff(viewAt', To) IN d \in Diffs /\ d.from = To - 1 /\ d.to = To
      BY <1>1, <1>5, <2>1, FrameFields
    <2>5. SoundFrom(FrameDiff(viewAt', To), To - 1, viewAt')
      BY <1>1, <1>5, <2>1, FrameIsSound
    <2>. QED  BY <1>1, <1>6, <2>1, <2>3, <2>4, <2>5 DEF IsDelta
  <1>7. CASE base # lastFrame
    <2>1. PulledState(base) = HistoryPull(history', base, To)  BY <1>7 DEF PulledState
    <2>2. base <= To /\ To <= To /\ base < To  BY <1>1
    <2>3. LET d == HistoryPull(history', base, To) IN
          d \in Diffs /\ d.from = base /\ d.to = To /\ SoundFrom(d, base, viewAt')
      BY <1>1, <1>4, <1>5, <2>2, PullIsSound
    <2>. QED  BY <2>1, <2>2, <2>3 DEF IsDelta
  <1>. QED  BY <1>6, <1>7

LEMMA TickDeltaFollows ==
  ASSUME Inv, DataInv, NEW rpc, NEW overdue \in BOOLEAN, NEW gateOpen,
         TickDelta(rpc, overdue, gateOpen), UNCHANGED <<clientVars, acks>>
  PROVE  DataInv'
  <1>1. PICK next \in Changed :
          LET latest == Latest(next, FALSE) IN
          /\ Record(next, latest)
          /\ SendDelta(HasContent(latest), rpc, overdue, gateOpen)
          /\ net' = net \cup {[diff |-> PulledState(DeltaBase(overdue)),
                               optimistic |-> DeltaBase(overdue) > ackFrame]}
    BY DEF TickDelta
  <1>. DEFINE latest == Latest(next, FALSE)
              content == HasContent(latest)
  <1>2. latest.to = To  BY DEF Latest, LatestDiff
  <1>3. PICK d : d = PulledState(DeltaBase(overdue))  OBVIOUS
  <1>4. PICK opt : opt = (DeltaBase(overdue) > ackFrame)  OBVIOUS
  <1>5. PICK x : x = [diff |-> d, optimistic |-> opt]  OBVIOUS
  <1>0. opt \in BOOLEAN  BY <1>4
  <1>6. /\ Record(next, latest) /\ HistoryPush(content) /\ net' = net \cup {x}
        /\ ~NeedsBaseline
        /\ UNCHANGED <<ackFrame, needsBaseline, resyncFrame, baselineAcked>>
    BY <1>1, <1>3, <1>4, <1>5 DEF SendDelta, handshakeVars
  <1>7. latest = LatestDiff(view, next, To, FALSE)  BY DEF Latest
  <1>8. content = HasContent(latest)  OBVIOUS
  <1>. HIDE DEF latest, content
  <1>9. lastFrame' = To /\ evictedContentFrame' = Lost  BY <1>6 DEF HistoryPush
  <1>10. /\ ViewInv' /\ SameUpTo(viewAt, viewAt', lastFrame)
         /\ viewAt'[To - 1] = view /\ viewAt'[To] = next /\ To \in Nat
    BY <1>6, <1>9, RecordViews DEF DataInv
  <1>11. /\ Newest(resyncFrame', ackFrame') = Newest(resyncFrame, ackFrame)
         /\ Newest(resyncFrame, ackFrame) \in Nat
    BY <1>6, NewestNumbers
  <1>12. latest = FrameDiff(viewAt', To)  BY <1>7, <1>10 DEF FrameDiff
  <1>13. WindowInv'
    BY <1>2, <1>6, <1>8, <1>11, <1>12, RecordWindow DEF DataInv
  <1>14. /\ resyncFrame = None /\ baselineAcked /\ ackFrame > StartFrame
    BY <1>6 DEF NeedsBaseline, Inv, P!HandshakeInv, P!Handshake, P!None, None
  <1>15. /\ DeltaBase(overdue) \in Nat /\ DeltaBase(overdue) <= lastFrame
         /\ DeltaBase(overdue) >= ackFrame /\ DeltaBase(overdue) # 0
    <2>1. DeltaBase(overdue) >= ackFrame
      <3>1. ackFrame \in Nat /\ DeltaBase(overdue) \in Nat  BY NewestNumbers, TickNumbers
      <3>. QED  BY <3>1, TickNumbers DEF DeltaBase, Larger
    <2>. QED  BY <1>14, <2>1, TickNumbers, NewestNumbers, SessionAssumption
  <1>16. IsDelta(d, viewAt') /\ d.from # 0
    BY <1>3, <1>6, <1>9, <1>10, <1>13, <1>14, <1>15, PulledIsDelta
  <1>17. SoundMessage(x)'
    <2>1. baselineAcked'  BY <1>6, <1>14
    <2>2. d \in Diffs  BY <1>16 DEF IsDelta
    <2>. QED  BY <1>0, <1>5, <1>16, <2>1, <2>2 DEF SoundMessage
  <1>18. RenderInv' /\ \A m \in net : SoundMessage(m)'
    BY <1>6, <1>9, <1>10, NewestNumbers, LaterFrames DEF DataInv
  <1>19. ChannelInv'  BY <1>6, <1>17, <1>18 DEF ChannelInv
  <1>. QED  BY <1>10, <1>13, <1>18, <1>19 DEF DataInv

\* A baseline without content says nothing that the frame's own diff does not: with
\* nothing left out of the view there was nothing in it.
LEMMA EmptyBaselineIsDiff ==
  ASSUME NEW v \in Views, NEW next \in Views, NEW f \in Nat, f # 0,
         \A e \in Eids : next[e].in => \E t \in Types : next[e].components[t] # 0,
         ~HasContent(LatestDiff(v, next, f, TRUE))
  PROVE  LatestDiff(v, next, f, FALSE) = LatestDiff(v, next, f, TRUE)
  <1>. DEFINE d == LatestDiff(v, next, f, TRUE)
  <1>1. \A c \in Cids : d.snapshots[c] = 0  BY DEF HasContent
  <1>2. \A e \in Eids : d.resets[e] = 0  BY DEF HasContent
  <1>3. ASSUME NEW e \in Eids PROVE ~next[e].in
    <2>. SUFFICES ASSUME next[e].in PROVE FALSE
      OBVIOUS
    <2>1. PICK t \in Types : next[e].components[t] # 0  OBVIOUS
    <2>2. <<e, t>> \in Cids /\ Eid(<<e, t>>) = e  BY DEF Cids, Eid
    <2>3. d.snapshots[<<e, t>>] = next[e].components[t]
      BY <2>2 DEF LatestDiff
    <2>. QED  BY <1>1, <2>1, <2>2, <2>3
  <1>4. \A e \in Eids : next[e].in = FALSE
    <2>1. \A e \in Eids : next[e].in \in BOOLEAN  BY DEF Views
    <2>. QED  BY <1>3, <2>1
  <1>5. \A c \in Cids : ~next[Eid(c)].in  BY <1>3, EidOfCid
  <1>. QED  BY <1>3, <1>5 DEF LatestDiff

LEMMA TickSilentFollows ==
  ASSUME Background \/ ~BareEntities, Inv, DataInv, NEW lost, NEW overdue, NEW gateOpen,
         TickSilent(lost, overdue, gateOpen), UNCHANGED <<clientVars, acks>>
  PROVE  DataInv'
  <1>0. PICK next \in Changed : \E latest :
          /\ Record(next, latest)
          /\ \/ /\ latest = Latest(next, TRUE) /\ ~Background /\ ~HasContent(latest)
                /\ SkipEmptyBaseline(lost)
             \/ /\ latest = Latest(next, FALSE) /\ AwaitBaseline(HasContent(latest))
             \/ /\ latest = Latest(next, FALSE) /\ ~HasContent(latest)
                /\ SendNothing(overdue, gateOpen)
    BY DEF TickSilent
  <1>1. PICK latest :
          /\ Record(next, latest)
          /\ \/ /\ latest = Latest(next, TRUE) /\ ~Background /\ ~HasContent(latest)
                /\ SkipEmptyBaseline(lost)
             \/ /\ latest = Latest(next, FALSE) /\ AwaitBaseline(HasContent(latest))
             \/ /\ latest = Latest(next, FALSE) /\ ~HasContent(latest)
                /\ SendNothing(overdue, gateOpen)
    BY <1>0
  <1>2. latest.to = To
    <2>1. Latest(next, TRUE).to = To /\ Latest(next, FALSE).to = To  BY DEF Latest, LatestDiff
    <2>2. latest = Latest(next, TRUE) \/ latest = Latest(next, FALSE)  BY <1>1
    <2>. QED  BY <2>1, <2>2, Zenon
  <1>3. PICK content : HistoryPush(content) /\ (content \/ ~HasContent(latest))
    BY <1>1 DEF SkipEmptyBaseline, AwaitBaseline, SendNothing
  <1>4. UNCHANGED <<ackFrame, resyncFrame, baselineAcked, net>>
    BY <1>1 DEF SkipEmptyBaseline, AwaitBaseline, SendNothing, TickSilent, handshakeVars
  <1>5. lastFrame' = To  BY <1>3 DEF HistoryPush
  <1>6. /\ ViewInv' /\ SameUpTo(viewAt, viewAt', lastFrame)
        /\ viewAt'[To - 1] = view /\ viewAt'[To] = next /\ To \in Nat
        /\ To = lastFrame + 1
    BY <1>1, <1>5, RecordViews DEF DataInv
  <1>7. /\ Newest(resyncFrame', ackFrame') = Newest(resyncFrame, ackFrame)
        /\ Newest(resyncFrame, ackFrame) \in Nat
    BY <1>4, NewestNumbers
  <1>8. latest = FrameDiff(viewAt', To)
    <2>1. CASE latest = Latest(next, FALSE)
      BY <1>6, <2>1 DEF Latest, FrameDiff
    <2>2. CASE latest = Latest(next, TRUE) /\ ~Background /\ ~HasContent(latest)
      <3>1. IsHistory(viewAt', To) /\ IsHistory(viewAt, lastFrame) /\ lastFrame \in Nat
        BY <1>5, <1>6, NewestNumbers DEF ViewInv, DataInv
      <3>2. next \in Views /\ view \in Views
        <4>1. \A h : \A n \in Nat : IsHistory(h, n) => h[n] \in Views  BY DEF IsHistory
        <4>2. view = viewAt[lastFrame]  BY DEF DataInv, ViewInv
        <4>. QED  BY <1>6, <3>1, <4>1, <4>2
      <3>3. \A e \in Eids : next[e].in => \E t \in Types : next[e].components[t] # 0
        <4>1. view' = next  BY <1>1 DEF Record
        <4>. QED  BY <1>6, <2>2, <4>1 DEF ViewInv
      <3>4. To # 0  BY <1>6, <3>1
      <3>5. LatestDiff(view, next, To, FALSE) = LatestDiff(view, next, To, TRUE)
        BY <1>6, <2>2, <3>2, <3>3, <3>4, EmptyBaselineIsDiff DEF Latest
      <3>. QED  BY <1>6, <2>2, <3>5 DEF Latest, FrameDiff
    <2>. QED  BY <1>1, <2>1, <2>2
  <1>9. WindowInv'
    BY <1>1, <1>2, <1>3, <1>7, <1>8, RecordWindow DEF DataInv
  <1>10. RenderInv' /\ \A m \in net : SoundMessage(m)'
    BY <1>4, <1>5, <1>6, LaterFrames DEF DataInv
  <1>11. ChannelInv'  BY <1>4, <1>10 DEF ChannelInv
  <1>. QED  BY <1>6, <1>9, <1>10, <1>11 DEF DataInv

\* Only the client moves: the server's part of the invariant stays.
LEMMA ServerStands ==
  ASSUME UNCHANGED <<serverVars, net>>
  PROVE  /\ ViewInv => ViewInv'
         /\ WindowInv => WindowInv'
         /\ ChannelInv => ChannelInv'
         /\ UNCHANGED <<viewAt, lastFrame>>
  <1>. USE DEF serverVars, sessionVars, historyVars, handshakeVars, sendVars
  <1>1. ViewInv => ViewInv'  BY DEF ViewInv
  <1>2. WindowInv => WindowInv'  BY DEF WindowInv
  <1>3. ChannelInv => ChannelInv'  BY DEF ChannelInv, SoundMessage
  <1>. QED  BY <1>1, <1>2, <1>3

LEMMA ReceiveFollows ==
  ASSUME Inv, DataInv, Receive
  PROVE  DataInv'
  <1>1. PICK m \in net : IF m.diff.from = 0 THEN ReceiveBaseline(m.diff)
                         ELSE ReceiveDelta(m.diff, m.optimistic)
    BY DEF Receive
  <1>2. UNCHANGED <<serverVars, net>>  BY DEF Receive
  <1>3. /\ UNCHANGED <<viewAt, lastFrame>> /\ ViewInv' /\ WindowInv' /\ ChannelInv'
    BY <1>2, ServerStands DEF DataInv
  <1>4. SoundMessage(m)  BY DEF DataInv, ChannelInv
  <1>5. buffer'.version <= lastFrame
    <2>1. MovesIn(buffer, buffer', Ends)  BY <1>1, ReceiveEffect
    <2>2. \A n \in Ends : n <= lastFrame
      <3>1. \A x \in net : Header(x).to <= lastFrame  BY DEF Inv, P!HandshakeInv, P!Ordered
      <3>. QED  BY <3>1 DEF Header, Ends
    <2>. QED  BY <2>1, <2>2 DEF MovesIn, DataInv, RenderInv
  <1>6. CASE m.diff.from = 0
    <2>1. /\ buffer' = Push(EmptyBuffer, m.diff, FALSE) /\ world' = EmptyWorld
          /\ closed' = buffer'.failed
      BY <1>1, <1>6 DEF ReceiveBaseline
    <2>2. BufferInv(buffer', viewAt) /\ buffer'.stateVersion = 0
      BY <1>4, <1>6, <2>1, BaselineIsSound DEF SoundMessage
    <2>3. EmptyWorld \in Worlds /\ SameComponents(EmptyWorld, EmptyView)
      BY DEF EmptyWorld, Worlds, NoEntity, SameComponents, EmptyView, NotInView
    <2>4. viewAt[0] = EmptyView  BY DEF DataInv, ViewInv, IsHistory
    <2>5. closed' = FALSE  BY <2>1, <2>2 DEF BufferInv, Buffers
    <2>6. NoStaleEntity'
      BY <2>1, EmptyWorldHasNoStale DEF NoStaleEntity
    <2>7. RenderInv'
      BY <1>3, <1>5, <2>1, <2>2, <2>3, <2>4, <2>5, <2>6 DEF RenderInv, RenderedIsServerView
    <2>. QED  BY <1>3, <2>7 DEF DataInv
  <1>7. CASE m.diff.from # 0
    <2>1. /\ buffer' = Push(buffer, m.diff, m.optimistic) /\ world' = world
          /\ closed' = buffer'.failed
      BY <1>1, <1>7 DEF ReceiveDelta
    <2>2. IsDelta(m.diff, viewAt) /\ baselineAcked  BY <1>4, <1>7 DEF SoundMessage
    <2>3. buffer.version # NoFrame
      <3>1. ackFrame > StartFrame /\ ackFrame <= buffer.version
        BY <2>2 DEF Inv, P!HandshakeInv, P!Handshake, P!AckIsHeld
      <3>2. ackFrame \in Nat /\ buffer.version \in Nat \cup {NoFrame}
        BY NewestNumbers DEF Inv, ClientInv, IsBuffer
      <3>. QED  BY <3>1, <3>2, SessionAssumption DEF NoFrame
    <2>4. m.optimistic \/ m.diff.from <= buffer.version
      <3>1. Header(m) \in {Header(x) : x \in net}  OBVIOUS
      <3>2. ~P!IsBaseline(Header(m)) /\ ~Header(m).optimistic => Header(m).from <= buffer.version
        BY <3>1 DEF Inv, P!HandshakeInv, P!NoProtocolError
      <3>. QED  BY <1>7, <3>2 DEF P!IsBaseline, Header
    <2>5. BufferInv(buffer, viewAt)  BY DEF DataInv, RenderInv
    <2>6. BufferInv(buffer', viewAt) /\ buffer'.stateVersion = buffer.stateVersion
      BY <2>1, <2>2, <2>3, <2>4, <2>5, PushIsSound
    <2>7. closed' = FALSE  BY <2>1, <2>6 DEF BufferInv, Buffers
    <2>8. RenderInv'
      BY <1>3, <1>5, <2>1, <2>6, <2>7
      DEF DataInv, RenderInv, RenderedIsServerView, NoStaleEntity
    <2>. QED  BY <1>3, <2>8 DEF DataInv
  <1>. QED  BY <1>6, <1>7

LEMMA ApplyFollows ==
  ASSUME Inv, DataInv, ClientApplies
  PROVE  DataInv'
  <1>1. UNCHANGED <<serverVars, net>>  BY DEF ClientApplies
  <1>2. /\ UNCHANGED <<viewAt, lastFrame>> /\ ViewInv' /\ WindowInv' /\ ChannelInv'
    BY <1>1, ServerStands DEF DataInv
  <1>3. PICK k \in PullCounts(buffer) :
          /\ buffer' = PullSlots(buffer, k)
          /\ world' = ApplyDiff(world, PulledDiff(buffer, k))
    BY DEF ClientApplies, Apply
  <1>4. closed' = closed  BY DEF ClientApplies, Apply
  <1>5. /\ IsHistory(viewAt, lastFrame) /\ BufferInv(buffer, viewAt)
        /\ buffer.version <= lastFrame /\ world \in Worlds
        /\ SameComponents(world, viewAt[buffer.stateVersion]) /\ closed = FALSE
        /\ lastFrame \in Nat /\ NoneStale(world, viewAt, buffer.stateVersion)
    BY NewestNumbers
    DEF DataInv, ViewInv, RenderInv, RenderedIsServerView, NoStaleEntity
  <1>6. /\ BufferInv(buffer', viewAt) /\ buffer'.version = buffer.version
        /\ world' \in Worlds /\ SameComponents(world', viewAt[buffer'.stateVersion])
        /\ NoneStale(world', viewAt, buffer'.stateVersion)
    BY <1>3, <1>5, ApplyPullIsSound
  <1>7. RenderInv'
    BY <1>2, <1>4, <1>5, <1>6 DEF RenderInv, RenderedIsServerView, NoStaleEntity
  <1>. QED  BY <1>2, <1>7 DEF DataInv

LEMMA SendAckFollows ==
  ASSUME Inv, DataInv, SendAck
  PROVE  DataInv'
  <1>1. UNCHANGED <<serverVars, net, world, closed>> /\ buffer' = TakeGap(buffer)
    BY DEF SendAck
  <1>2. /\ UNCHANGED <<viewAt, lastFrame>> /\ ViewInv' /\ WindowInv' /\ ChannelInv'
    BY <1>1, ServerStands DEF DataInv
  <1>3. /\ BufferInv(buffer', viewAt) /\ buffer'.version = buffer.version
        /\ buffer'.stateVersion = buffer.stateVersion
    BY <1>1, TakeGapIsSound DEF DataInv, RenderInv
  <1>4. RenderInv'
    BY <1>1, <1>2, <1>3 DEF DataInv, RenderInv, RenderedIsServerView, NoStaleEntity
  <1>. QED  BY <1>2, <1>4 DEF DataInv

\* An ack may settle the baseline in flight: what is newest never becomes older.
LEMMA AckArrivesFollows ==
  ASSUME Inv, DataInv, AckArrives
  PROVE  DataInv'
  <1>1. UNCHANGED <<view, history, viewAt, clientVars, net>>  BY DEF AckArrives
  <1>2. PICK a \in acks : ReceiveAck(a.ack, a.gap)  BY DEF AckArrives
  <1>3. UNCHANGED <<lastFrame, contentFrames, evictedContentFrame>>
    BY <1>2 DEF ReceiveAck, historyVars
  <1>4. a.ack \in Nat  BY DEF Inv, P!TypeOK, P!Acks
  <1>5. /\ Newest(resyncFrame', ackFrame') >= Newest(resyncFrame, ackFrame)
        /\ Newest(resyncFrame', ackFrame') \in Int
        /\ baselineAcked => baselineAcked'
    <2>1. /\ ackFrame \in Nat /\ resyncFrame \in Nat \cup {None}
          /\ resyncFrame # None => ackFrame < resyncFrame
      BY NewestNumbers DEF Inv, P!HandshakeInv, P!Ordered, P!None, None
    <2>2. CASE UNCHANGED <<ackFrame, handshakeVars>>
      BY <2>1, <2>2 DEF handshakeVars, Newest
    <2>3. CASE Acknowledge(a.ack)
      <3>1. ackFrame' \in Nat /\ ackFrame' >= ackFrame
        BY <1>4, <2>1, <2>3 DEF Acknowledge, Larger
      <3>2. CASE resyncFrame # None /\ ackFrame' >= resyncFrame
        BY <2>1, <2>3, <3>1, <3>2 DEF Acknowledge, Newest, None
      <3>3. CASE ~(resyncFrame # None /\ ackFrame' >= resyncFrame)
        BY <2>1, <2>3, <3>1, <3>3 DEF Acknowledge, Newest, handshakeVars, None
      <3>. QED  BY <3>2, <3>3
    <2>. QED  BY <1>2, <2>2, <2>3 DEF ReceiveAck
  <1>6. ViewInv'  BY <1>1, <1>3 DEF DataInv, ViewInv
  <1>7. WindowInv'
    <2>1. /\ Newest(resyncFrame, ackFrame) \in Nat /\ lastFrame \in Nat
      BY NewestNumbers
    <2>2. \A f \in (Newest(resyncFrame', ackFrame') + 1)..lastFrame :
            f \in (Newest(resyncFrame, ackFrame) + 1)..lastFrame
      BY <1>5, <2>1
    <2>. QED  BY <1>1, <1>3, <2>2 DEF DataInv, WindowInv
  <1>8. ChannelInv'  BY <1>1, <1>5 DEF DataInv, ChannelInv, SoundMessage
  <1>9. RenderInv'
    BY <1>1, <1>3 DEF DataInv, RenderInv, RenderedIsServerView, NoStaleEntity, clientVars
  <1>. QED  BY <1>6, <1>7, <1>8, <1>9 DEF DataInv

LEMMA StepData ==
  ASSUME Background \/ ~BareEntities, Inv, DataInv, [Next]_vars
  PROVE  DataInv'
  <1>1. CASE UNCHANGED vars
    <2>1. UNCHANGED <<serverVars, net, buffer, world, closed>>
      BY <1>1 DEF vars, clientVars
    <2>2. /\ UNCHANGED <<viewAt, lastFrame>> /\ ViewInv' /\ WindowInv' /\ ChannelInv'
      BY <2>1, ServerStands DEF DataInv
    <2>3. RenderInv'
      BY <2>1, <2>2 DEF DataInv, RenderInv, RenderedIsServerView, NoStaleEntity
    <2>. QED  BY <2>2, <2>3 DEF DataInv
  <1>2. CASE Tick
    <2>1. UNCHANGED <<clientVars, acks>>  BY <1>2 DEF Tick
    <2>2. CASE \E lost \in BaselineTimer : TickBaseline(lost)
      BY <2>1, <2>2, TickBaselineFollows
    <2>3. CASE \E rpc \in {FALSE, RpcReplies}, overdue \in ProbeTimer, gateOpen \in Gate :
                 TickDelta(rpc, overdue, gateOpen)
      <3>1. ProbeTimer \subseteq BOOLEAN  BY DEF ProbeTimer
      <3>. QED  BY <2>1, <2>3, <3>1, TickDeltaFollows
    <2>4. CASE \E lost \in BaselineTimer, overdue \in ProbeTimer, gateOpen \in Gate :
                 TickSilent(lost, overdue, gateOpen)
      BY <2>1, <2>4, TickSilentFollows
    <2>. QED  BY <1>2, <2>2, <2>3, <2>4 DEF Tick
  <1>3. CASE Receive        BY <1>3, ReceiveFollows
  <1>4. CASE ClientApplies  BY <1>4, ApplyFollows
  <1>5. CASE SendAck        BY <1>5, SendAckFollows
  <1>6. CASE AckArrives     BY <1>6, AckArrivesFollows
  <1>. QED  BY <1>1, <1>2, <1>3, <1>4, <1>5, <1>6 DEF Next

(***************************************************************************)
(* The client never closes for what it was sent, and what it renders is    *)
(* the server's view of the frame it says it renders, in every component   *)
(* of every entity: whatever the channel loses, delays, reorders or        *)
(* repeats, whatever the history has evicted, and whenever a baseline, a   *)
(* redundant delta or a keepalive is sent.  The hypothesis leaves out one  *)
(* server: one whose view may become empty of everything but entities      *)
(* without a component withholds an empty baseline (server_world.ts), and  *)
(* the removal that emptied it is then never told.                         *)
(***************************************************************************)
THEOREM ClientIsTrue ==
  ASSUME MaxFrame \in Nat, RpcReplies \in BOOLEAN, Background \/ ~BareEntities
  PROVE  Spec => []ClientFollows
  <1>1. Inv /\ DataInv => ClientFollows
    <2>. SUFFICES ASSUME Inv, DataInv PROVE ClientFollows
      OBVIOUS
    <2>1. SessionTypeOK
      BY DEF Inv, P!TypeOK, P!SessionTypeOK, SessionTypeOK, P!None, None
    <2>2. view \in Views
      <3>1. lastFrame \in Nat  BY NewestNumbers
      <3>. QED  BY <3>1 DEF DataInv, ViewInv, IsHistory
    <2>3. ClientTypeOK /\ NeverClosed /\ RenderedIsServerView /\ NoStaleEntity
      BY DEF DataInv, RenderInv, BufferInv, ClientTypeOK, NeverClosed
    <2>4. \A m \in net : m.diff \in Diffs /\ m.optimistic \in BOOLEAN
      BY DEF DataInv, ChannelInv, SoundMessage
    <2>5. \A f \in DOMAIN history : history[f].to = f  BY DEF DataInv, WindowInv
    <2>. QED  BY <2>1, <2>2, <2>3, <2>4, <2>5 DEF ClientFollows, TypeOK
  <1>2. Inv /\ DataInv /\ [Next]_vars => DataInv'  BY StepData
  <1>3. Init => DataInv  BY InitData
  <1>. QED  BY <1>1, <1>2, <1>3, InvHolds, PTL DEF Spec
=============================================================================

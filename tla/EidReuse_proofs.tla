--------------------------- MODULE EidReuse_proofs ---------------------------
(***************************************************************************)
(* Theorems about EidReuse, for every range of ids, every word size, every *)
(* length of the history and every requested wait.                         *)
(***************************************************************************)
EXTENDS EidReuse, FiniteSetTheorems, WellFoundedInduction, TLAPS

-----------------------------------------------------------------------------
(* Numbers.                                                                 *)

\* A nonempty set of naturals has a least member.
LEMMA LeastMember ==
  ASSUME NEW S, S \subseteq Nat, S # {}
  PROVE  \E m \in S : \A n \in S : m <= n
  <1>. DEFINE Less == OpToRel(<, Nat)
  <1>1. \A n, m \in Nat : <<n, m>> \in Less <=> n < m  BY DEF OpToRel
  <1>2. IsWellFoundedOn(Less, Nat)  BY NatLessThanWellFounded
  <1>. HIDE DEF Less
  <1>3. PICK m \in S : \A n \in S : ~ (<<n, m>> \in Less)  BY <1>2, WFMin
  <1>4. \A n \in S : ~ (n < m)  BY <1>1, <1>3, Zenon
  <1>5. \A n \in S : m <= n  BY <1>4
  <1>. QED  BY <1>5

\* Smallest picks the least member.
LEMMA SmallestIsLeast ==
  ASSUME NEW S, S \subseteq Nat, S # {}
  PROVE  Smallest(S) \in S /\ \A n \in S : Smallest(S) <= n
  BY LeastMember DEF Smallest

\* Division rounds down.
LEMMA DivFloor ==
  ASSUME NEW a \in Nat, NEW b \in Nat \ {0}
  PROVE  a \div b \in Nat /\ b * (a \div b) <= a /\ a < b * ((a \div b) + 1)
  OBVIOUS

\* The next place of a ring of w buckets.
LEMMA Turn ==
  ASSUME NEW c \in Nat, NEW w \in Nat \ {0}, c < w
  PROVE  (c + 1) % w = IF c + 1 = w THEN 0 ELSE c + 1
  OBVIOUS

\* The word of an id, and the ids of a word.
LEMMA WordBounds ==
  ASSUME NEW id \in Nat, id >= MinId
  PROVE  /\ Word(id) \in Nat
         /\ MinId + Word(id) * WordSize <= id
         /\ id < MinId + (Word(id) + 1) * WordSize
  <1>1. id - MinId \in Nat  BY PoolAssumption
  <1>. QED  BY <1>1, PoolAssumption, DivFloor DEF Word

\* A scan that starts at word w reaches the ids of word w and later.
LEMMA WordAtLeast ==
  ASSUME NEW id \in Nat, id >= MinId, NEW w \in Nat
  PROVE  Word(id) >= w <=> id >= MinId + w * WordSize
  <1>1. MinId \in Nat /\ WordSize \in Nat \ {0} /\ Word(id) \in Nat
    BY PoolAssumption, WordBounds
  <1>2. ASSUME Word(id) >= w PROVE w * WordSize <= Word(id) * WordSize
    BY <1>1, <1>2
  <1>3. ASSUME w > Word(id) PROVE (Word(id) + 1) * WordSize <= w * WordSize
    BY <1>1, <1>3
  <1>. QED  BY <1>1, <1>2, <1>3, WordBounds

-----------------------------------------------------------------------------
(* The pool.                                                                *)

\* Every waiting id is in one bucket.
BucketsApart == \A a, b \in Buckets : a # b => bucket[a] \cap bucket[b] = {}

\* The turns of the ring since a bucket took the ids of its frame.
Age(b) == IF b <= cursor THEN cursor - b ELSE cursor + wait - b

\* The ids freed at most n turns ago.
Young(n) == UNION {bucket[b] : b \in {a \in Buckets : Age(a) <= n}}

(***************************************************************************)
(* What a server's history removed still waits, in a bucket no older than  *)
(* the frames sent since, until one frame before it leaves the history; no *)
(* id that got an entity since the last send is among it.                  *)
(***************************************************************************)
HistoryInv ==
  served =>
    /\ wait >= HistoryFrames + 1
    /\ \E t \in 0..1 :
         /\ t = IF inFrame THEN 1 ELSE 0
         /\ removed \subseteq Young(t)
         /\ \A n \in 1..HistoryFrames - 1 : history[n] \subseteq Young(n + t)
    /\ \A n \in 1..HistoryFrames - 1 : entered \cap history[n] = {}
    /\ RemovalLeftHistory

-----------------------------------------------------------------------------
(* The bitmap and what stands in front of it.                               *)

FrontOK ==
  /\ bits \subseteq Ids
  /\ freeBelowNext \in Nat /\ minFreeWord \in Nat /\ allocated \in Nat
  /\ lowest \in Ids \cup {NoId}
  /\ next \in MinId..MaxId + 1
  /\ PoolAgrees

RingOK ==
  /\ wait \in Nat
  /\ bucket \in [Buckets -> SUBSET Ids]
  /\ cursor \in Nat /\ (wait > 0 => cursor \in Buckets)

\* The ids of a pool are finitely many naturals, and NoId is none of them.
LEMMA IdsFinite ==
  /\ Ids \subseteq Nat /\ IsFiniteSet(Ids) /\ NoId \notin Ids
  /\ \A S \in SUBSET Ids : IsFiniteSet(S) /\ Cardinality(S) \in Nat
  <1>1. IsFiniteSet(Ids)  BY PoolAssumption, FS_Interval DEF Ids
  <1>2. \A S \in SUBSET Ids : IsFiniteSet(S)  BY <1>1, FS_Subset
  <1>. QED  BY <1>1, <1>2, FS_CardinalityType, PoolAssumption DEF Ids, NoId

\* Two finite sets that have nothing in common count up.
LEMMA ApartUnion ==
  ASSUME NEW S, NEW T, IsFiniteSet(S), IsFiniteSet(T), T \cap S = {}
  PROVE  Cardinality(S \cup T) = Cardinality(S) + Cardinality(T)
  <1>1. S \cap T = {}  OBVIOUS
  <1>2. Cardinality(S \cap T) = 0  BY <1>1, FS_EmptySet, Zenon
  <1>3. Cardinality(S) \in Nat /\ Cardinality(T) \in Nat  BY FS_CardinalityType
  <1>4. Cardinality(S \cup T) = Cardinality(S) + Cardinality(T) - Cardinality(S \cap T)
    BY FS_Union
  <1>. QED  BY <1>2, <1>3, <1>4

\* The free ids below `next` are ids of the pool.
LEMMA FreeIdsAreIds ==
  ASSUME next \in MinId..MaxId + 1
  PROVE  FreeIds \subseteq Ids
  BY PoolAssumption DEF FreeIds, Ids

\* What has no member among the free ids is counted as none.
LEMMA NoneFree ==
  ASSUME FrontOK
  PROVE  freeBelowNext = 0 <=> FreeIds = {}
  BY FreeIdsAreIds, IdsFinite, FS_EmptySet DEF FrontOK, PoolAgrees

\* The first word a scan looks at holds no free id before it.
LEMMA ScanStart ==
  ASSUME FrontOK, NEW id \in FreeIds
  PROVE  id \in Ids /\ id >= MinId + minFreeWord * WordSize
  <1>1. id \in Ids /\ id \in Nat /\ id >= MinId /\ minFreeWord \in Nat
    BY FreeIdsAreIds, IdsFinite DEF FrontOK, Ids
  <1>2. Word(id) >= minFreeWord  BY DEF FrontOK, PoolAgrees
  <1>. QED  BY <1>1, <1>2, WordAtLeast

\* A scan finds the smallest of the free ids.
LEMMA ScanFindsSmallest ==
  ASSUME FrontOK, NEW id \in Ids, FromScan(id)
  PROVE  id \in FreeIds /\ \A f \in FreeIds : id <= f
  <1>1. \A f \in FreeIds : f \in Nat /\ id <= f
    BY ScanStart, IdsFinite DEF FromScan, Scanned, FirstFree, FreeIds, Ids
  <1>2. PICK f \in FreeIds : TRUE  BY NoneFree DEF FromScan
  <1>. QED
    BY <1>1, <1>2, IdsFinite, PoolAssumption
    DEF FromScan, Scanned, FirstFree, FreeIds, Ids, FrontOK

\* A free id below `next` is taken.
LEMMA TakeBelow ==
  ASSUME FrontOK, NEW id \in FreeIds,
         bits' = bits \cup {id}, allocated' = allocated + 1, next' = next,
         freeBelowNext' = freeBelowNext - 1,
         lowest' = NoId \/ (lowest' = lowest /\ lowest # id),
         minFreeWord' \in Nat, \A f \in FreeIds : f # id => Word(f) >= minFreeWord'
  PROVE  FrontOK'
  <1>1. /\ bits \subseteq Ids /\ FreeIds \subseteq Ids /\ id \in Ids /\ id \notin bits
        /\ IsFiniteSet(bits) /\ IsFiniteSet(FreeIds)
    BY FreeIdsAreIds, IdsFinite DEF FrontOK, FreeIds
  <1>2. FreeIds' = FreeIds \ {id}  BY DEF FreeIds
  <1>3. allocated' = Cardinality(bits')
    BY <1>1, FS_AddElement DEF FrontOK, PoolAgrees
  <1>4. freeBelowNext' = Cardinality(FreeIds')
    BY <1>1, <1>2, FS_RemoveElement DEF FrontOK, PoolAgrees
  <1>5. bits' \subseteq Ids /\ FreeIds' \subseteq Ids  BY <1>1, <1>2
  <1>6. allocated' \in Nat /\ freeBelowNext' \in Nat
    BY <1>3, <1>4, <1>5, IdsFinite
  <1>7. /\ lowest' \in Ids \cup {NoId} /\ next' \in MinId..MaxId + 1
        /\ lowest' # NoId => lowest' \in FreeIds'
    BY <1>2 DEF FrontOK, PoolAgrees
  <1>8. \A f \in FreeIds' : Word(f) >= minFreeWord'  BY <1>2
  <1>. QED
    BY <1>3, <1>4, <1>5, <1>6, <1>7, <1>8 DEF FrontOK, PoolAgrees, Word

\* An id that was never handed out is taken; `next` passes reserved ids only.
LEMMA TakeBeyond ==
  ASSUME FrontOK, NEW id \in Ids, id \notin bits, id >= next,
         bits' = bits \cup {id}, allocated' = allocated + 1,
         next' \in next..MaxId + 1, \A n \in next..next' - 1 : n \in bits',
         freeBelowNext' = freeBelowNext, minFreeWord' = minFreeWord,
         lowest' = NoId \/ lowest' = lowest
  PROVE  FrontOK'
  <1>1. bits \subseteq Ids /\ IsFiniteSet(bits) /\ MinId \in Nat /\ MaxId \in Nat /\ id \in Nat
    BY IdsFinite, PoolAssumption DEF FrontOK
  <1>2. FreeIds' = FreeIds
    <2>1. next \in Nat /\ next' \in Nat /\ next <= next'  BY <1>1 DEF FrontOK
    <2>2. \A n \in Nat : n >= next /\ n < next' => n \in bits'  BY <2>1
    <2>3. \A n \in Nat : n < next => (n \in bits' <=> n \in bits)  BY <2>1, <1>1
    <2>. QED  BY <1>1, <2>1, <2>2, <2>3 DEF FreeIds
  <1>3. allocated' = Cardinality(bits')
    BY <1>1, FS_AddElement DEF FrontOK, PoolAgrees
  <1>4. bits' \subseteq Ids  BY <1>1
  <1>5. allocated' \in Nat  BY <1>3, <1>4, IdsFinite
  <1>. QED
    BY <1>1, <1>2, <1>3, <1>4, <1>5 DEF FrontOK, PoolAgrees, Word

\* alloc() hands out an id that is not reserved, and the counters follow.
LEMMA AllocEffect ==
  ASSUME FrontOK, NEW id \in Ids, Alloc(id)
  PROVE  id \notin bits /\ bits' = bits \cup {id} /\ FrontOK'
  <1>1. CASE FromCache(id)
    <2>1. id \in FreeIds  BY <1>1 DEF FromCache, FrontOK, PoolAgrees
    <2>. QED
      BY <1>1, <2>1, TakeBelow DEF FrontOK, PoolAgrees, Alloc, FromCache, FromScan, FromNext, FreeIds
  <1>2. CASE FromScan(id)
    <2>1. id \in FreeIds /\ \A f \in FreeIds : id <= f  BY <1>2, ScanFindsSmallest
    <2>2. /\ ~FromNext(id) /\ lowest' = NoId
          /\ minFreeWord' = IF WordIsFull(Word(id), bits') THEN Word(id) + 1 ELSE Word(id)
      BY <1>2 DEF Alloc, FromScan, FromNext
    <2>3. id \in Nat /\ id >= MinId /\ Word(id) \in Nat /\ minFreeWord' \in Nat
      <3>1. id \in Nat /\ id >= MinId  BY IdsFinite, PoolAssumption DEF Ids
      <3>2. Word(id) \in Nat  BY <3>1, WordBounds
      <3>. QED  BY <2>2, <3>1, <3>2
    <2>4. ASSUME NEW f \in FreeIds, f # id PROVE Word(f) >= minFreeWord'
      <3>1. f \in Nat /\ f >= MinId /\ f > id /\ f \notin bits'
        BY <2>1, <2>3, <2>4, FreeIdsAreIds, IdsFinite DEF FrontOK, Ids, FreeIds, Alloc
      <3>2. Word(f) \in Nat /\ Word(f) >= Word(id)
        <4>1. Word(f) \in Nat /\ Word(id) \in Nat /\ id >= MinId + Word(id) * WordSize
          BY <2>3, <3>1, WordBounds
        <4>2. f >= MinId + Word(id) * WordSize  BY <2>3, <3>1, <4>1, PoolAssumption
        <4>. QED  BY <3>1, <4>1, <4>2, WordAtLeast
      <3>3. ASSUME WordIsFull(Word(id), bits') PROVE Word(f) # Word(id)
        BY <3>1, <3>3, WordBounds, PoolAssumption DEF WordIsFull
      <3>. QED  BY <2>2, <2>3, <3>2, <3>3
    <2>. QED
      BY <1>2, <2>1, <2>2, <2>3, <2>4, TakeBelow DEF Alloc, FreeIds
  <1>3. CASE FromNext(id)
    <2>1. /\ id \notin bits /\ id >= next /\ \A n \in next..id - 1 : n \in bits
          /\ lowest = NoId /\ id \in Nat /\ id <= MaxId /\ next \in Nat /\ MaxId \in Nat
      BY <1>3, IdsFinite, PoolAssumption DEF FromNext, FirstFree, FrontOK
    <2>2. /\ bits' = bits \cup {id} /\ next' = id + 1 /\ allocated' = allocated + 1
          /\ freeBelowNext' = freeBelowNext /\ minFreeWord' = minFreeWord /\ lowest' = NoId
      BY <1>3 DEF Alloc, FromNext, FromScan
    <2>. QED
      BY <2>1, <2>2, TakeBeyond
  <1>. QED  BY <1>1, <1>2, <1>3 DEF Alloc, Peek

\* So they do when an id chosen elsewhere is reserved.
LEMMA ReserveEffect ==
  ASSUME FrontOK, NEW id \in Ids, Reserve(id)
  PROVE  id \notin bits /\ bits' = bits \cup {id} /\ FrontOK'
  <1>0. id \in Nat /\ id >= MinId /\ next \in Nat /\ next <= MaxId + 1 /\ MaxId \in Nat /\ MinId \in Nat
    BY IdsFinite, PoolAssumption DEF FrontOK, Ids
  <1>1. CASE id < next
    <2>1. id \in FreeIds  BY <1>0, <1>1 DEF Reserve, FreeIds
    <2>. QED  BY <1>1, <2>1, TakeBelow DEF Reserve, FrontOK, PoolAgrees
  <1>2. CASE id >= next
    <2>1. lowest' = NoId \/ lowest' = lowest  BY DEF Reserve
    <2>. QED  BY <1>0, <1>2, <2>1, TakeBeyond DEF Reserve
  <1>. QED  BY <1>0, <1>1, <1>2

\* _free() clears the reserved ones of some ids, and the counters follow.
LEMMA FreeAllEffect ==
  ASSUME FrontOK, NEW ids, FreeAll(ids)
  PROVE  bits' = bits \ ids /\ FrontOK'
  <1>. DEFINE gone  == ids \cap bits
              below == {id \in gone : id < next}
  <1>1. /\ bits' = bits \ gone /\ next' = next
        /\ allocated' = allocated - Cardinality(gone)
        /\ freeBelowNext' = freeBelowNext + Cardinality(below)
        /\ minFreeWord' = IF below = {} THEN minFreeWord
                          ELSE Smallest({minFreeWord} \cup {Word(id) : id \in below})
        /\ lowest' = IF below = {} THEN lowest
                     ELSE Smallest(below \cup ({lowest} \ {NoId}))
    BY DEF FreeAll
  <1>2. /\ bits \subseteq Ids /\ FreeIds \subseteq Ids /\ gone \subseteq bits /\ below \subseteq gone
        /\ next \in Nat /\ minFreeWord \in Nat
    BY FreeIdsAreIds, PoolAssumption DEF FrontOK
  <1>3. below \cap FreeIds = {} /\ FreeIds' = FreeIds \cup below
    <2>1. \A id \in below : id \in Ids /\ id \in bits /\ id < next  BY <1>2
    <2>2. \A id \in Ids : id \in Nat /\ MinId <= id  BY IdsFinite, PoolAssumption DEF Ids
    <2>3. below \subseteq MinId..next - 1  BY <1>2, <2>1, <2>2, PoolAssumption
    <2>4. \A id \in MinId..next - 1 : id \notin bits' <=> id \notin bits \/ id \in below
      BY <1>1, <1>2, PoolAssumption
    <2>. QED  BY <1>1, <2>1, <2>3, <2>4 DEF FreeIds
  <1>. HIDE DEF gone, below
  <1>4. /\ IsFiniteSet(bits) /\ IsFiniteSet(gone) /\ IsFiniteSet(below) /\ IsFiniteSet(FreeIds)
        /\ IsFiniteSet(bits \ gone) /\ Cardinality(gone) \in Nat /\ Cardinality(below) \in Nat
        /\ Cardinality(bits \ gone) \in Nat
    BY <1>2, IdsFinite
  <1>5. freeBelowNext' = Cardinality(FreeIds')
    <2>1. Cardinality(FreeIds \cup below) = freeBelowNext + Cardinality(below)
      BY <1>4, <1>3, ApartUnion DEF FrontOK, PoolAgrees
    <2>2. Cardinality(FreeIds') = Cardinality(FreeIds \cup below)  BY <1>3
    <2>. QED  BY <1>1, <2>1, <2>2
  <1>6. allocated' = Cardinality(bits')
    <2>1. gone \cap (bits \ gone) = {} /\ (bits \ gone) \cup gone = bits  BY <1>2
    <2>2. Cardinality(bits) = Cardinality(bits \ gone) + Cardinality(gone)
      BY <1>4, <2>1, ApartUnion
    <2>3. allocated = Cardinality(bits)  BY DEF FrontOK, PoolAgrees
    <2>. QED  BY <1>1, <1>4, <2>2, <2>3
  <1>7. bits' \subseteq Ids /\ FreeIds' \subseteq Ids  BY <1>1, <1>2, <1>3
  <1>8. allocated' \in Nat /\ freeBelowNext' \in Nat
    BY <1>5, <1>6, <1>7, IdsFinite
  <1>9. lowest' \in Ids \cup {NoId} /\ (lowest' # NoId => lowest' \in FreeIds')
    <2>1. CASE below = {}
      BY <1>1, <1>3, <2>1 DEF FrontOK, PoolAgrees
    <2>2. CASE below # {}
      <3>. DEFINE S == below \cup ({lowest} \ {NoId})
      <3>1. S \subseteq FreeIds' /\ S # {}
        BY <1>3, <2>2 DEF FrontOK, PoolAgrees
      <3>2. S \subseteq Nat  BY <1>7, <3>1, IdsFinite
      <3>. HIDE DEF S
      <3>3. Smallest(S) \in S  BY <3>1, <3>2, SmallestIsLeast
      <3>. QED  BY <1>1, <1>7, <2>2, <3>1, <3>3 DEF S
    <2>. QED  BY <2>1, <2>2
  <1>10. minFreeWord' \in Nat /\ \A f \in FreeIds' : Word(f) >= minFreeWord'
    <2>0. \A f \in Ids : Word(f) \in Nat  BY WordBounds, IdsFinite, PoolAssumption DEF Ids
    <2>1. CASE below = {}
      BY <1>1, <1>2, <1>3, <2>1 DEF FrontOK, PoolAgrees
    <2>2. CASE below # {}
      <3>. DEFINE S == {minFreeWord} \cup {Word(id) : id \in below}
      <3>1. S \subseteq Nat /\ S # {}  BY <1>2, <2>0
      <3>2. minFreeWord \in S /\ \A f \in below : Word(f) \in S  OBVIOUS
      <3>. HIDE DEF S
      <3>3. Smallest(S) \in Nat /\ \A n \in S : Smallest(S) <= n  BY <3>1, SmallestIsLeast
      <3>4. minFreeWord' = Smallest(S)  BY <1>1, <2>2 DEF S
      <3>5. \A f \in FreeIds : Word(f) \in Nat /\ Word(f) >= minFreeWord
        BY <1>2, <2>0 DEF FrontOK, PoolAgrees
      <3>6. \A f \in below : Word(f) >= minFreeWord'
        BY <1>2, <2>0, <3>2, <3>3, <3>4
      <3>7. minFreeWord' <= minFreeWord  BY <3>2, <3>3, <3>4
      <3>. QED  BY <1>2, <1>3, <3>3, <3>4, <3>5, <3>6, <3>7
    <2>. QED  BY <2>1, <2>2
  <1>. QED
    BY <1>1, <1>5, <1>6, <1>7, <1>8, <1>9, <1>10 DEF FrontOK, PoolAgrees, Word, gone

\* A pool that says it is exhausted has reserved all its ids.
LEMMA NothingLost ==
  ASSUME FrontOK
  PROVE  NoIdLost
  <1>. SUFFICES ASSUME bits # Ids PROVE \E id \in Ids : Peek(id)
    BY DEF NoIdLost
  <1>0. /\ bits \subseteq Ids /\ Ids \subseteq Nat /\ FreeIds \subseteq Ids
        /\ MinId \in Nat /\ MaxId \in Nat /\ WordSize \in Nat /\ minFreeWord \in Nat
        /\ next \in Nat /\ MinId <= next
    BY IdsFinite, FreeIdsAreIds, PoolAssumption DEF FrontOK
  <1>1. CASE lowest # NoId
    BY <1>1 DEF FrontOK, Peek, FromCache
  <1>2. CASE lowest = NoId /\ FreeIds # {}
    <2>. DEFINE first == MinId + minFreeWord * WordSize
    <2>1. PICK m \in FreeIds : \A f \in FreeIds : m <= f
      BY <1>0, <1>2, LeastMember
    <2>2. m \in Ids /\ m \in Nat /\ m < next /\ m \notin bits /\ m >= first
      BY <1>0, ScanStart DEF FreeIds
    <2>3. first \in Nat /\ first >= MinId  BY <1>0
    <2>. HIDE DEF first
    <2>4. ASSUME NEW i \in first..m - 1 PROVE i \in bits
      <3>1. i \in MinId..next - 1 /\ i < m  BY <1>0, <2>2, <2>3
      <3>. QED  BY <1>0, <2>1, <2>2, <3>1 DEF FreeIds
    <2>5. FromScan(m)
      BY <1>0, <1>2, <2>2, <2>4, NoneFree DEF FromScan, Scanned, FirstFree, FrontOK, first
    <2>. QED  BY <2>2, <2>5 DEF Peek
  <1>3. CASE lowest = NoId /\ FreeIds = {}
    <2>. DEFINE S == Ids \ bits
    <2>1. S \subseteq Nat /\ S # {}  BY <1>0
    <2>2. PICK m \in S : \A f \in S : m <= f  BY <2>1, LeastMember
    <2>3. m \in Ids /\ m \in Nat /\ m \notin bits /\ MinId <= m /\ m <= MaxId
      BY <1>0, <2>2 DEF Ids
    <2>4. m >= next  BY <1>0, <1>3, <2>3 DEF FreeIds
    <2>5. ASSUME NEW i \in next..m - 1 PROVE i \in bits
      <3>1. i \in Ids /\ i \in Nat /\ i < m  BY <1>0, <2>3 DEF Ids
      <3>. QED  BY <2>2, <2>3, <3>1
    <2>6. FromNext(m)  BY <1>3, <2>3, <2>4, <2>5, NoneFree DEF FromNext, FirstFree
    <2>. QED  BY <2>3, <2>6 DEF Peek
  <1>. QED  BY <1>1, <1>2, <1>3

-----------------------------------------------------------------------------
(* The ring.                                                                *)

\* A ring that stays as it is.
LEMMA RingSame ==
  ASSUME RingOK, UNCHANGED <<wait, bucket, cursor>>
  PROVE  /\ RingOK' /\ Waiting' = Waiting
         /\ BucketsApart => BucketsApart'
         /\ \A n : Young(n)' = Young(n)
  BY DEF RingOK, Waiting, BucketsApart, Young, Age, Buckets

\* An id that no bucket holds is put in the bucket of this frame.
LEMMA PutEffect ==
  ASSUME RingOK, BucketsApart, wait > 0, NEW id \in Ids, id \notin Waiting,
         bucket' = [bucket EXCEPT ![cursor] = @ \cup {id}], UNCHANGED <<wait, cursor>>
  PROVE  /\ RingOK' /\ BucketsApart' /\ Waiting' = Waiting \cup {id}
         /\ \A n \in Nat : id \in Young(n)' /\ Young(n) \subseteq Young(n)'
  <1>1. /\ cursor \in Buckets /\ Buckets' = Buckets /\ cursor \in Nat
        /\ \A b \in Buckets : bucket'[b] = IF b = cursor THEN bucket[b] \cup {id} ELSE bucket[b]
    BY DEF RingOK, Buckets
  <1>2. RingOK'
    BY <1>1 DEF RingOK
  <1>3. \A b \in Buckets : id \notin bucket[b]  BY DEF Waiting
  <1>4. BucketsApart'  BY <1>1, <1>3 DEF BucketsApart
  <1>5. Waiting' = Waiting \cup {id}  BY <1>1 DEF Waiting
  <1>6. \A b \in Buckets : Age(b)' = Age(b)  BY DEF Age
  <1>7. Age(cursor) = 0  BY <1>1 DEF Age
  <1>8. ASSUME NEW n \in Nat PROVE id \in Young(n)' /\ Young(n) \subseteq Young(n)'
    <2>1. id \in bucket'[cursor] /\ Age(cursor)' <= n  BY <1>1, <1>6, <1>7
    <2>. QED  BY <1>1, <1>6, <2>1 DEF Young
  <1>. QED  BY <1>2, <1>4, <1>5, <1>8

\* The bucket that is released when the ring turns, and where it turns to.
Oldest == (cursor + 1) % wait

LEMMA OldestAge ==
  ASSUME RingOK, wait > 0
  PROVE  /\ Oldest \in Buckets /\ Age(Oldest) = wait - 1
         /\ Oldest = IF cursor + 1 = wait THEN 0 ELSE cursor + 1
  <1>1. cursor \in Nat /\ wait \in Nat \ {0} /\ cursor < wait
    BY DEF RingOK, Buckets
  <1>2. Oldest = IF cursor + 1 = wait THEN 0 ELSE cursor + 1
    BY <1>1, Turn DEF Oldest
  <1>. QED  BY <1>1, <1>2 DEF Buckets, Age

\* The ring turns: the oldest bucket is emptied, the others age.
LEMMA TurnEffect ==
  ASSUME RingOK, BucketsApart, wait > 0,
         cursor' = Oldest, bucket' = [bucket EXCEPT ![Oldest] = {}], wait' = wait
  PROVE  /\ RingOK' /\ BucketsApart' /\ Waiting' = Waiting \ bucket[Oldest]
         /\ \A n \in Nat : n + 1 < wait => Young(n) \subseteq Young(n + 1)'
  <1>1. PICK c : c = Oldest  OBVIOUS
  <1>2. /\ c \in Buckets /\ Age(c) = wait - 1 /\ Buckets' = Buckets
        /\ c = IF cursor + 1 = wait THEN 0 ELSE cursor + 1
    BY <1>1, OldestAge DEF Buckets
  <1>3. \A b \in Buckets : bucket'[b] = IF b = c THEN {} ELSE bucket[b]
    BY <1>1, <1>2 DEF RingOK
  <1>4. RingOK'
    BY <1>1, <1>2, <1>3 DEF RingOK, Buckets
  <1>5. BucketsApart'  BY <1>2, <1>3 DEF BucketsApart
  <1>6. Waiting' = Waiting \ bucket[c]  BY <1>2, <1>3 DEF Waiting, BucketsApart
  <1>7. ASSUME NEW n \in Nat, n + 1 < wait PROVE Young(n) \subseteq Young(n + 1)'
    <2>1. ASSUME NEW b \in Buckets, Age(b) <= n
          PROVE  b # c /\ Age(b)' <= n + 1
      BY <1>1, <1>2, <1>7, <2>1 DEF Age, RingOK, Buckets
    <2>. QED  BY <1>2, <1>3, <2>1 DEF Young
  <1>. QED  BY <1>1, <1>4, <1>5, <1>6, <1>7

\* What is young stays young for a longer while.
LEMMA YoungGrows ==
  ASSUME RingOK
  PROVE  \A k, n \in Nat : k <= n => Young(k) \subseteq Young(n)
  <1>1. \A b \in Buckets : Age(b) \in Int  BY DEF RingOK, Buckets, Age
  <1>. QED  BY <1>1 DEF Young

\* The ids that are young wait.
LEMMA YoungWait == \A n : Young(n) \subseteq Waiting
  BY DEF Young, Waiting

-----------------------------------------------------------------------------
(* The steps of a world.                                                    *)

WorldOK ==
  /\ live \subseteq Ids /\ removed \subseteq Ids /\ entered \subseteq Ids
  /\ served \in BOOLEAN /\ inFrame \in BOOLEAN
  /\ history \in [1..HistoryFrames -> SUBSET Ids]
  /\ shown \subseteq Ids

PoolIndInv == FrontOK /\ RingOK /\ WorldOK /\ ReservedIsUsed /\ BucketsApart

\* The pool is as it should be if its parts are.
LEMMA PoolIndInvImplies == PoolIndInv => PoolInv
  <1>. SUFFICES ASSUME PoolIndInv PROVE PoolInv
    OBVIOUS
  <1>1. NoIdLost  BY NothingLost DEF PoolIndInv
  <1>2. PoolTypeOK  BY DEF PoolIndInv, FrontOK, RingOK, PoolTypeOK
  <1>3. TypeOK  BY <1>2 DEF PoolIndInv, WorldOK, TypeOK
  <1>4. PoolAgrees  BY DEF PoolIndInv, FrontOK
  <1>5. ReservedIsUsed  BY DEF PoolIndInv
  <1>. QED  BY <1>1, <1>3, <1>4, <1>5 DEF PoolInv

\* The initial states satisfy it.
LEMMA InitPool == Init => PoolIndInv
  <1>. SUFFICES ASSUME Init PROVE PoolIndInv
    OBVIOUS
  <1>1. wait \in Nat /\ PoolInit(wait)
    <2>1. \A requested \in Requested : ReuseWait(requested) \in Nat
      BY ReuseAssumption DEF ReuseWait
    <2>2. PICK frames \in Nat : PoolInit(frames)  BY <2>1 DEF Init
    <2>3. wait = frames  BY <2>2 DEF PoolInit
    <2>. QED  BY <2>2, <2>3
  <1>2. bits = {} /\ FreeIds = {}
    BY <1>1, PoolAssumption DEF PoolInit, FreeIds
  <1>3. FrontOK
    BY <1>1, <1>2, FS_EmptySet, PoolAssumption DEF PoolInit, FrontOK, PoolAgrees, NoId
  <1>4. RingOK /\ BucketsApart /\ Waiting = {}
    BY <1>1 DEF PoolInit, RingOK, BucketsApart, Waiting, Buckets
  <1>. QED
    BY <1>2, <1>3, <1>4, ReuseAssumption DEF Init, PoolIndInv, WorldOK, ReservedIsUsed

\* A reserved id takes an entity.
LEMMA TakesPool ==
  ASSUME PoolIndInv, NEW id \in Ids, id \notin bits, bits' = bits \cup {id}, FrontOK',
         UNCHANGED <<wait, bucket, cursor>>, Takes(id)
  PROVE  PoolIndInv'
  <1>1. RingOK' /\ BucketsApart' /\ Waiting' = Waiting
    BY RingSame DEF PoolIndInv
  <1>2. ReservedIsUsed'  BY <1>1 DEF PoolIndInv, ReservedIsUsed, Takes
  <1>. QED  BY <1>1, <1>2 DEF PoolIndInv, WorldOK, Takes

\* Every step keeps the pool as it should be.
LEMMA StepPool == PoolIndInv /\ [Next]_vars => PoolIndInv'
  <1>. SUFFICES ASSUME PoolIndInv, [Next]_vars PROVE PoolIndInv'
    OBVIOUS
  <1>1. ASSUME NEW id \in Ids, Create(id) PROVE PoolIndInv'
    <2>1. id \notin bits /\ bits' = bits \cup {id} /\ FrontOK'
      BY <1>1, AllocEffect DEF Create, PoolIndInv
    <2>. QED  BY <1>1, <2>1, TakesPool DEF Create, Alloc
  <1>2. ASSUME NEW id \in Ids, CreateAt(id) PROVE PoolIndInv'
    <2>1. id \notin bits /\ bits' = bits \cup {id} /\ FrontOK'
      BY <1>2, ReserveEffect DEF CreateAt, PoolIndInv
    <2>. QED  BY <1>2, <2>1, TakesPool DEF CreateAt, Reserve
  <1>3. ASSUME NEW id \in Ids, Destroy(id) PROVE PoolIndInv'
    <2>1. id \in live /\ id \in bits /\ id \notin Waiting
      BY <1>3 DEF Destroy, PoolIndInv, ReservedIsUsed
    <2>2. WorldOK'  BY <1>3 DEF Destroy, PoolIndInv, WorldOK
    <2>3. CASE wait = 0
      <3>1. bits' = bits \ {id} /\ FrontOK'
        BY <1>3, <2>3, FreeAllEffect DEF Destroy, Free, PoolIndInv
      <3>2. RingOK' /\ BucketsApart' /\ Waiting' = Waiting
        BY <1>3, <2>3, RingSame DEF Destroy, Free, FreeAll, PoolIndInv
      <3>3. ReservedIsUsed'
        BY <1>3, <2>1, <3>1, <3>2 DEF Destroy, PoolIndInv, ReservedIsUsed
      <3>. QED  BY <2>2, <3>1, <3>2, <3>3 DEF PoolIndInv
    <2>4. CASE wait # 0
      <3>1. wait > 0  BY <2>4 DEF PoolIndInv, RingOK
      <3>2. RingOK' /\ BucketsApart' /\ Waiting' = Waiting \cup {id}
        BY <1>3, <2>1, <2>4, <3>1, PutEffect DEF Destroy, Free, PoolIndInv
      <3>3. UNCHANGED <<bits, freeBelowNext, lowest, minFreeWord, next, allocated>>
        BY <1>3, <2>4 DEF Destroy, Free
      <3>4. FrontOK'
        BY <3>3 DEF PoolIndInv, FrontOK, PoolAgrees, FreeIds
      <3>5. ReservedIsUsed'
        BY <1>3, <2>1, <3>2, <3>3 DEF Destroy, PoolIndInv, ReservedIsUsed
      <3>. QED  BY <2>2, <3>2, <3>4, <3>5 DEF PoolIndInv
    <2>. QED  BY <2>3, <2>4
  <1>4. CASE BeginFrame
    <2>1. WorldOK'  BY <1>4 DEF BeginFrame, PoolIndInv, WorldOK
    <2>2. CASE wait = 0
      <3>1. UNCHANGED poolVars /\ live' = live
        BY <1>4, <2>2 DEF BeginFrame, AdvanceFrame
      <3>2. RingOK' /\ BucketsApart' /\ Waiting' = Waiting
        BY <3>1, RingSame DEF poolVars, PoolIndInv
      <3>. QED
        BY <2>1, <3>1, <3>2
        DEF poolVars, PoolIndInv, FrontOK, PoolAgrees, FreeIds, ReservedIsUsed
    <2>3. CASE wait # 0
      <3>1. wait > 0  BY <2>3 DEF PoolIndInv, RingOK
      <3>2. /\ cursor' = Oldest /\ bucket' = [bucket EXCEPT ![Oldest] = {}] /\ wait' = wait
            /\ FreeAll(bucket[Oldest]) /\ live' = live
        BY <1>4, <2>3 DEF BeginFrame, AdvanceFrame, FreeAll, Oldest
      <3>3. bits' = bits \ bucket[Oldest] /\ FrontOK'
        BY <3>2, FreeAllEffect DEF PoolIndInv
      <3>4. RingOK' /\ BucketsApart' /\ Waiting' = Waiting \ bucket[Oldest]
        BY <3>1, <3>2, TurnEffect DEF PoolIndInv
      <3>5. bucket[Oldest] \subseteq Waiting
        BY <3>1, OldestAge DEF PoolIndInv, Waiting
      <3>6. ReservedIsUsed'
        BY <3>2, <3>3, <3>4, <3>5 DEF PoolIndInv, ReservedIsUsed
      <3>. QED  BY <2>1, <3>3, <3>4, <3>6 DEF PoolIndInv
    <2>. QED  BY <2>2, <2>3
  <1>5. CASE Send
    <2>1. UNCHANGED poolVars /\ live' = live  BY <1>5 DEF Send
    <2>2. RingOK' /\ BucketsApart' /\ Waiting' = Waiting
      BY <2>1, RingSame DEF poolVars, PoolIndInv
    <2>3. WorldOK'
      <3>1. \A n \in 1..HistoryFrames : n # 1 => n - 1 \in 1..HistoryFrames
        BY ReuseAssumption
      <3>2. history' \in [1..HistoryFrames -> SUBSET Ids]
        BY <1>5, <3>1 DEF Send, PoolIndInv, WorldOK
      <3>. QED  BY <1>5, <3>2 DEF Send, PoolIndInv, WorldOK
    <2>. QED
      BY <2>1, <2>2, <2>3 DEF poolVars, PoolIndInv, FrontOK, PoolAgrees, FreeIds, ReservedIsUsed
  <1>6. CASE UNCHANGED vars
    <2>1. RingOK' /\ BucketsApart' /\ Waiting' = Waiting
      BY <1>6, RingSame DEF vars, poolVars, PoolIndInv
    <2>. QED
      BY <1>6, <2>1
      DEF vars, poolVars, reuseVars, PoolIndInv, WorldOK, FrontOK, PoolAgrees, FreeIds,
          ReservedIsUsed
  <1>. QED  BY <1>1, <1>2, <1>3, <1>4, <1>5, <1>6 DEF Next

(***************************************************************************)
(* The pool never hands out an id that is in use or waits, loses none, and *)
(* never calls itself exhausted while it has one: its bitmap, counters,    *)
(* cached id, word hint and ring agree, for every range of ids, word size  *)
(* and wait.                                                               *)
(***************************************************************************)
THEOREM PoolAlwaysAgrees == Spec => []PoolInv
  BY InitPool, StepPool, PoolIndInvImplies, PTL DEF Spec

-----------------------------------------------------------------------------
(* The histories.                                                           *)

\* The initial states satisfy the invariant of the histories.
LEMMA InitHistory == Init => HistoryInv
  <1>. SUFFICES ASSUME Init, served PROVE HistoryInv
    BY DEF HistoryInv
  <1>1. PICK requested \in Requested : wait = ReuseWait(requested)
    BY DEF Init, PoolInit
  <1>2. wait >= HistoryFrames + 1
    BY <1>1, ReuseAssumption DEF ReuseWait
  <1>3. \A n \in 1..HistoryFrames : history[n] = {}
    BY DEF Init
  <1>4. /\ \A n \in 1..HistoryFrames - 1 : history[n] = {}
        /\ \A n \in 2..HistoryFrames : history[n] = {}
    BY <1>3, ReuseAssumption
  <1>5. removed = {} /\ entered = {} /\ shown = {} /\ inFrame = FALSE  BY DEF Init
  <1>6. /\ removed \subseteq Young(0)
        /\ \A n \in 1..HistoryFrames - 1 : history[n] \subseteq Young(n + 0)
    BY <1>4, <1>5
  <1>7. \E t \in 0..1 :
          /\ t = IF inFrame THEN 1 ELSE 0
          /\ removed \subseteq Young(t)
          /\ \A n \in 1..HistoryFrames - 1 : history[n] \subseteq Young(n + t)
    BY <1>5, <1>6
  <1>. QED  BY <1>2, <1>4, <1>5, <1>7 DEF HistoryInv, RemovalLeftHistory

\* An id that is handed out was removed in no frame the histories will keep.
LEMMA TakesHistory ==
  ASSUME HistoryInv, PoolIndInv, NEW id \in Ids, id \notin bits,
         UNCHANGED <<wait, bucket, cursor>>, Takes(id)
  PROVE  HistoryInv'
  <1>. SUFFICES ASSUME served PROVE HistoryInv'
    BY DEF HistoryInv, Takes
  <1>1. \A n : Young(n)' = Young(n)  BY RingSame DEF PoolIndInv
  <1>2. \A n : id \notin Young(n)
    BY YoungWait DEF PoolIndInv, ReservedIsUsed
  <1>3. \A n \in 1..HistoryFrames - 1 : id \notin history[n]
    BY <1>2 DEF HistoryInv
  <1>. QED
    BY <1>1, <1>3 DEF HistoryInv, RemovalLeftHistory, Takes

\* The histories and the ring age together.
LEMMA StepHistory == PoolIndInv /\ HistoryInv /\ [Next]_vars => HistoryInv'
  <1>. SUFFICES ASSUME PoolIndInv, HistoryInv, [Next]_vars PROVE HistoryInv'
    OBVIOUS
  <1>0. HistoryFrames \in Nat \ {0} /\ wait \in Nat
    BY ReuseAssumption DEF PoolIndInv, RingOK
  <1>1. ASSUME NEW id \in Ids, Create(id) PROVE HistoryInv'
    <2>1. id \notin bits  BY <1>1, AllocEffect DEF Create, PoolIndInv
    <2>. QED  BY <1>1, <2>1, TakesHistory DEF Create, Alloc
  <1>2. ASSUME NEW id \in Ids, CreateAt(id) PROVE HistoryInv'
    BY <1>2, TakesHistory DEF CreateAt, Reserve
  <1>3. ASSUME NEW id \in Ids, Destroy(id) PROVE HistoryInv'
    <2>. SUFFICES ASSUME served PROVE HistoryInv'
      BY <1>3 DEF HistoryInv, Destroy
    <2>1. wait > 0  BY <1>0 DEF HistoryInv
    <2>2. id \notin Waiting  BY <1>3 DEF Destroy, PoolIndInv, ReservedIsUsed
    <2>3. \A n \in Nat : id \in Young(n)' /\ Young(n) \subseteq Young(n)'
      BY <1>3, <2>1, <2>2, PutEffect DEF Destroy, Free, PoolIndInv
    <2>4. wait' = wait  BY <1>3, <2>1 DEF Destroy, Free
    <2>5. \A n \in 1..HistoryFrames - 1, k \in 0..1 : n + k \in Nat  BY <1>0
    <2>. QED
      BY <1>3, <2>3, <2>4, <2>5 DEF Destroy, HistoryInv, RemovalLeftHistory
  <1>4. CASE BeginFrame
    <2>. SUFFICES ASSUME served PROVE HistoryInv'
      BY <1>4 DEF HistoryInv, BeginFrame
    <2>1. wait > 0 /\ wait >= HistoryFrames + 1  BY <1>0 DEF HistoryInv
    <2>2. /\ cursor' = Oldest /\ bucket' = [bucket EXCEPT ![Oldest] = {}] /\ wait' = wait
          /\ UNCHANGED <<served, removed, entered, history, shown>> /\ ~inFrame /\ inFrame' = TRUE
      BY <1>4, <2>1 DEF BeginFrame, AdvanceFrame, FreeAll, Oldest
    <2>3. \A n \in Nat : n + 1 < wait => Young(n) \subseteq Young(n + 1)'
      BY <2>1, <2>2, TurnEffect DEF PoolIndInv
    <2>4. removed \subseteq Young(0) /\ \A n \in 1..HistoryFrames - 1 : history[n] \subseteq Young(n)
      BY <1>0, <2>2 DEF HistoryInv
    <2>5. removed' \subseteq Young(1)'
      BY <1>0, <2>1, <2>2, <2>3, <2>4
    <2>6. \A n \in 1..HistoryFrames - 1 : history'[n] \subseteq Young(n + 1)'
      BY <1>0, <2>1, <2>2, <2>3, <2>4
    <2>. QED
      BY <2>1, <2>2, <2>5, <2>6 DEF HistoryInv, RemovalLeftHistory
  <1>5. CASE Send
    <2>. SUFFICES ASSUME served PROVE HistoryInv'
      BY <1>5 DEF HistoryInv, Send
    <2>1. /\ UNCHANGED <<served, wait, bucket, cursor>> /\ inFrame' = FALSE
          /\ removed' = {} /\ entered' = {} /\ shown' = entered
          /\ \A n \in 1..HistoryFrames :
               history'[n] = IF n = 1 THEN removed ELSE history[n - 1]
      BY <1>5 DEF Send, poolVars
    <2>2. \A n : Young(n)' = Young(n)  BY <2>1, RingSame DEF PoolIndInv
    <2>3. \A k, n \in Nat : k <= n => Young(k) \subseteq Young(n)
      BY YoungGrows DEF PoolIndInv
    <2>4. \A n \in 1..HistoryFrames - 1 : history'[n] \subseteq Young(n)
      <3>1. PICK k \in 0..1 :
               /\ removed \subseteq Young(k)
               /\ \A n \in 1..HistoryFrames - 1 : history[n] \subseteq Young(n + k)
        BY DEF HistoryInv
      <3>. TAKE n \in 1..HistoryFrames - 1
      <3>2. CASE n = 1
        BY <1>0, <2>1, <2>3, <3>1, <3>2
      <3>3. CASE n # 1
        <4>1. n - 1 \in 1..HistoryFrames - 1 /\ n \in 1..HistoryFrames /\ n - 1 + k \in Nat
              /\ n - 1 + k <= n /\ n \in Nat
          BY <1>0, <3>3
        <4>. QED  BY <2>1, <2>3, <3>1, <3>3, <4>1
      <3>. QED  BY <3>2, <3>3
    <2>5. \A n \in 2..HistoryFrames : n - 1 \in 1..HistoryFrames - 1 /\ n # 1 /\ n \in 1..HistoryFrames
      BY <1>0
    <2>6. RemovalLeftHistory'
      BY <2>1, <2>5 DEF HistoryInv, RemovalLeftHistory
    <2>. QED
      BY <2>1, <2>2, <2>4, <2>6 DEF HistoryInv
  <1>6. CASE UNCHANGED vars
    <2>1. \A n : Young(n)' = Young(n)  BY <1>6, RingSame DEF PoolIndInv, vars, poolVars
    <2>. QED
      BY <1>6, <2>1 DEF vars, poolVars, reuseVars, HistoryInv, RemovalLeftHistory
  <1>. QED  BY <1>1, <1>2, <1>3, <1>4, <1>5, <1>6 DEF Next

(***************************************************************************)
(* When a server's frame shows an id again, the frame that removed its     *)
(* previous entity has left every history, for every length of the         *)
(* history and every requested wait: the wait that entityReuseWaitFrames   *)
(* computes is long enough, also when frames are sent between two turns of *)
(* the ring.                                                               *)
(***************************************************************************)
THEOREM NoHistoryShowsBoth == Spec => []RemovalLeftHistory
  <1>1. HistoryInv => RemovalLeftHistory  BY DEF HistoryInv, RemovalLeftHistory
  <1>. QED  BY <1>1, InitPool, StepPool, InitHistory, StepHistory, PTL DEF Spec
=============================================================================

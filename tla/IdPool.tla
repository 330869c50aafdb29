------------------------------- MODULE IdPool -------------------------------
(***************************************************************************)
(* One id pool of a world: a bitmap of the reserved ids with a cached free *)
(* id, a counter and a word hint in front of it, and the ring of buckets   *)
(* in which freed ids wait, still reserved, until they may be used again.  *)
(***************************************************************************)
EXTENDS Integers, FiniteSets

CONSTANTS
  MinId, MaxId,  \* the range of the pool
  WordSize       \* ids per word of the bitmap: 32 in the code

ASSUME PoolAssumption ==
  /\ MinId \in Nat /\ MaxId \in Nat /\ MinId <= MaxId
  /\ WordSize \in Nat \ {0}

NoId == -1
Ids == MinId..MaxId

VARIABLES
  wait,           \* reuseWaitFrames, fixed
  bits,           \* the ids whose bit is set
  freeBelowNext,  \* free ids below `next`
  lowest,         \* a cached free id below `next`, or NoId
  minFreeWord,    \* no word below it has a free id below `next`
  next,           \* the smallest id never handed out
  allocated,      \* _allocatedCount
  bucket,         \* [0..Wait-1 -> the freed ids in _waitBuckets]
  cursor          \* _waitCursor

poolVars == <<wait, bits, freeBelowNext, lowest, minFreeWord, next, allocated, bucket, cursor>>

Buckets == 0..wait - 1
Word(id) == (id - MinId) \div WordSize
Waiting == UNION {bucket[b] : b \in Buckets}

PoolInit(frames) ==
  /\ wait = frames
  /\ bits = {}
  /\ freeBelowNext = 0
  /\ lowest = NoId
  /\ minFreeWord = 0
  /\ next = MinId
  /\ allocated = 0
  /\ bucket = [b \in 0..frames - 1 |-> {}]
  /\ cursor = 0

-----------------------------------------------------------------------------
\* id is the first free one from `first` on.
FirstFree(id, first) ==
  /\ id >= first /\ id \notin bits
  /\ \A i \in first..id - 1 : i \in bits

\* The bits before id, from the first word a scan looks at, are all set.
Scanned(id) == FirstFree(id, MinId + minFreeWord * WordSize)

\* peek(): the id alloc() would return, with the way it finds it.
FromCache(id) == lowest # NoId /\ id = lowest
FromScan(id)  == lowest = NoId /\ freeBelowNext > 0 /\ Scanned(id)
FromNext(id)  == lowest = NoId /\ freeBelowNext = 0 /\ id <= MaxId /\ FirstFree(id, next)
Peek(id)      == FromCache(id) \/ FromScan(id) \/ FromNext(id)

WordIsFull(w, set) == \A id \in MinId + w * WordSize..MinId + (w + 1) * WordSize - 1 : id \in set

Alloc(id) ==
  /\ Peek(id)
  /\ bits' = bits \cup {id}
  /\ allocated' = allocated + 1
  /\ lowest' = NoId
  /\ freeBelowNext' = IF FromNext(id) THEN freeBelowNext ELSE freeBelowNext - 1
  /\ next' = IF FromNext(id) THEN id + 1 ELSE next
  /\ minFreeWord' = IF FromScan(id)
                    THEN IF WordIsFull(Word(id), bits') THEN Word(id) + 1 ELSE Word(id)
                    ELSE minFreeWord
  /\ UNCHANGED <<wait, bucket, cursor>>

\* Take an id chosen elsewhere.
Reserve(id) ==
  /\ id \notin bits
  /\ bits' = bits \cup {id}
  /\ allocated' = allocated + 1
  /\ freeBelowNext' = IF id < next THEN freeBelowNext - 1 ELSE freeBelowNext
  /\ lowest' = IF lowest = id THEN NoId ELSE lowest
  /\ UNCHANGED <<wait, minFreeWord, next, bucket, cursor>>

-----------------------------------------------------------------------------
Smallest(set) == CHOOSE m \in set : \A n \in set : m <= n

\* Mutant: the word hint is left where the last scan ended.
FreeAllUnhinted(ids) ==
  LET gone  == ids \cap bits
      below == {id \in gone : id < next}
  IN
  /\ bits' = bits \ gone
  /\ allocated' = allocated - Cardinality(gone)
  /\ freeBelowNext' = freeBelowNext + Cardinality(below)
  /\ minFreeWord' = minFreeWord
  /\ lowest' = IF below = {} THEN lowest
               ELSE Smallest(below \cup ({lowest} \ {NoId}))
  /\ UNCHANGED <<wait, next>>

\* _free, of each of `ids`: those whose bit is clear are passed over.
FreeAll(ids) ==
  LET gone  == ids \cap bits
      below == {id \in gone : id < next}
  IN
  /\ bits' = bits \ gone
  /\ allocated' = allocated - Cardinality(gone)
  /\ freeBelowNext' = freeBelowNext + Cardinality(below)
  /\ minFreeWord' = IF below = {} THEN minFreeWord
                    ELSE Smallest({minFreeWord} \cup {Word(id) : id \in below})
  /\ lowest' = IF below = {} THEN lowest
               ELSE Smallest(below \cup ({lowest} \ {NoId}))
  /\ UNCHANGED <<wait, next>>

\* free(): at once, or into the bucket of this frame.
Free(id) ==
  IF wait = 0
  THEN FreeAll({id}) /\ UNCHANGED <<bucket, cursor>>
  ELSE /\ bucket' = [bucket EXCEPT ![cursor] = @ \cup {id}]
       /\ UNCHANGED <<wait, bits, freeBelowNext, lowest, minFreeWord, next, allocated, cursor>>

\* advanceFrame(): the ring turns, and its oldest bucket is released.
AdvanceFrame ==
  IF wait = 0 THEN UNCHANGED poolVars
  ELSE LET c == (cursor + 1) % wait IN
       /\ cursor' = c
       /\ FreeAll(bucket[c])
       /\ bucket' = [bucket EXCEPT ![c] = {}]

-----------------------------------------------------------------------------
PoolTypeOK ==
  /\ wait \in Nat
  /\ bits \subseteq Ids
  /\ freeBelowNext \in Nat /\ minFreeWord \in Nat /\ allocated \in Nat
  /\ lowest \in Ids \cup {NoId}
  /\ next \in MinId..MaxId + 1
  /\ bucket \in [Buckets -> SUBSET Ids]
  /\ cursor \in Nat /\ (wait > 0 => cursor \in Buckets)

FreeIds == {id \in MinId..next - 1 : id \notin bits}

(***************************************************************************)
(* What stands in front of the bitmap agrees with it: the counters are     *)
(* exact, the cached id is free and below `next`, and no free id hides in  *)
(* a word that a scan would skip.                                          *)
(***************************************************************************)
PoolAgrees ==
  /\ freeBelowNext = Cardinality(FreeIds)
  /\ allocated = Cardinality(bits)
  /\ lowest # NoId => lowest \in FreeIds
  /\ \A id \in FreeIds : Word(id) >= minFreeWord

(***************************************************************************)
(* The pool says it is exhausted only when every id of it is reserved.     *)
(***************************************************************************)
NoIdLost == (\A id \in Ids : ~Peek(id)) => bits = Ids
=============================================================================

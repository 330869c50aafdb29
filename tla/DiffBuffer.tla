---------------------------- MODULE DiffBuffer -----------------------------
(***************************************************************************)
(* The receiving half of a ClientWorld.  Its DiffBuffer holds the diffs    *)
(* received but not rendered yet, in a bucket whose slot i represents frame *)
(* base + i, and the optimistic diffs held until the frames they were built *)
(* on arrive.                                                              *)
(*                                                                         *)
(* A buffer is a record and every method is an operator from buffers to    *)
(* buffers, so that ClientWorld._pushDiff can reset and push in one step.  *)
(* An exception is the field `failed`: the client that catches it closes.  *)
(* The interpolation clock of pull() is abstracted to the number of slots  *)
(* it consumes, any from 0 to the whole bucket.                            *)
(***************************************************************************)
EXTENDS StateDiffs, FiniteSets

CONSTANTS
  MaxLength,     \* slots of the bucket (MAX_LENGTH, 3)
  MaxHeldDiffs   \* MAX_HELD_DIFFS, 8

ASSUME BufferAssumption ==
  /\ MaxLength \in Nat /\ MaxLength >= 2
  /\ MaxHeldDiffs \in Nat /\ MaxHeldDiffs >= 1

Slots == 0..(MaxLength - 1)

EmptyBucket == [i \in Slots |-> NoDiff]

\* The new buffer, and what reset() leaves.
EmptyBuffer ==
  [bucket |-> EmptyBucket, base |-> NoFrame, version |-> NoFrame,
   held |-> {}, gap |-> FALSE, stateVersion |-> 0, failed |-> FALSE]

Buffers ==
  [bucket : [Slots -> Diffs \cup {NoDiff}], base : Nat \cup {NoFrame},
   version : Nat \cup {NoFrame}, held : SUBSET Diffs, gap : BOOLEAN,
   stateVersion : Nat, failed : BOOLEAN]

\* The oldest diff of a set.
Least(S) == CHOOSE d \in S : \A o \in S : d.to <= o.to

\* The bucket with its first n slots taken out.
Shift(bucket, n) ==
  [i \in Slots |-> IF i + n \in Slots THEN bucket[i + n] ELSE NoDiff]

\* Slots 0..n of the bucket joined into one diff, onto d.
Fold(d, bucket, n) ==
  LET fold[i \in -1..n] == IF i = -1 THEN d ELSE Merge(fold[i - 1], bucket[i])
  IN  fold[n]

-----------------------------------------------------------------------------
(* push                                                                     *)

\* A diff that would leave a gap after the folded prefix, all of whose changes
\* a later buffered diff carries.
Covered(buf, d) ==
  /\ buf.bucket[0] # NoDiff
  /\ d.from > buf.bucket[0].to
  /\ \E i \in Slots :
       /\ i > d.to - buf.base
       /\ buf.bucket[i] # NoDiff
       /\ buf.bucket[i].from <= d.from
       /\ buf.bucket[i].to >= d.to

\* Make room for a diff of slot `index` >= MaxLength: fold the oldest slots into
\* slot 0 and advance the base; the whole bucket when all of it is old.
Compact(buf, index) ==
  LET shift   == index - (MaxLength - 1)
      n       == IF shift >= MaxLength THEN index ELSE shift
      last    == IF n < MaxLength THEN n ELSE MaxLength - 1
      prefix  == Fold(NoDiff, buf.bucket, last)
      shifted == Shift(buf.bucket, n)
  IN  [buf EXCEPT
        !.bucket = [shifted EXCEPT ![0] = prefix],
        !.base   = @ + n,
        !.failed = @ \/ \E i \in 1..last :
          CannotMerge(Fold(NoDiff, buf.bucket, i - 1), buf.bucket[i])]

Place(buf, d) ==
  LET index == d.to - buf.base IN
  [buf EXCEPT
    !.bucket[index] = Merge(@, d),
    !.version = IF d.to > @ THEN d.to ELSE @,
    !.failed = @ \/ CannotMerge(buf.bucket[index], d)]

\* Mutant: an emptied buffer takes a diff it has already rendered.
AcceptStale(buf, d) ==
  LET index == d.to - buf.base IN
  IF buf.base = NoFrame
  THEN [buf EXCEPT !.bucket[0] = d, !.base = d.to, !.version = d.to]
  ELSE IF index < 0 \/ Covered(buf, d) THEN buf
  ELSE Place(IF index >= MaxLength THEN Compact(buf, index) ELSE buf, d)

Accept(buf, d) ==
  LET index == d.to - buf.base IN
  IF buf.base = NoFrame
  THEN IF buf.version >= 0 /\ d.to <= buf.version THEN buf
       ELSE [buf EXCEPT !.bucket[0] = d, !.base = d.to, !.version = d.to]
  ELSE IF index < 0 \/ Covered(buf, d) THEN buf
  ELSE Place(IF index >= MaxLength THEN Compact(buf, index) ELSE buf, d)

\* A repeat of a held frame keeps the older start; a full set drops its oldest.
Hold(buf, d) ==
  LET same == {h \in buf.held : h.to = d.to}
      full == Cardinality(buf.held) >= MaxHeldDiffs
  IN  [buf EXCEPT
        !.gap  = TRUE,
        !.held = IF \E h \in same : h.from <= d.from THEN @
                 ELSE IF same # {} THEN (@ \ same) \cup {d}
                 ELSE IF full THEN (@ \ {Least(@)}) \cup {d}
                 ELSE @ \cup {d}]

\* One round of releaseHeld: drop what version has passed, accept the oldest
\* diff it has reached.
ReleaseOne(buf) ==
  LET ahead     == {h \in buf.held : h.to > buf.version}
      reachable == {h \in ahead : h.from <= buf.version}
  IN  IF reachable = {} THEN [buf EXCEPT !.held = ahead]
      ELSE Accept([buf EXCEPT !.held = ahead \ {Least(reachable)}], Least(reachable))

\* Every round but the last takes a diff out of held, so MaxHeldDiffs suffice.
ReleaseHeld(buf) ==
  LET round[n \in 0..MaxHeldDiffs] ==
        IF n = 0 THEN buf ELSE ReleaseOne(round[n - 1])
  IN  round[MaxHeldDiffs]

Push(buf, d, optimistic) ==
  IF buf.version >= 0 /\ d.from > buf.version
  THEN IF optimistic THEN Hold(buf, d) ELSE [buf EXCEPT !.failed = TRUE]
  ELSE ReleaseHeld(Accept(buf, d))

\* takeGap(): its answer, and the buffer without the flag.
GapOpen(buf) == buf.gap /\ buf.held # {}
TakeGap(buf) == [buf EXCEPT !.gap = FALSE]

-----------------------------------------------------------------------------
(* pull                                                                     *)

\* The diff a pull that consumes n slots hands out.
PulledDiff(buf, n) ==
  DropAppliedResets(
    Fold(EmptyDiff(buf.stateVersion, buf.stateVersion), buf.bucket, n - 1))

\* The empty slots after the consumed ones are skipped; an empty bucket loses
\* its base.
PullSlots(buf, n) ==
  LET full == {i \in Slots : i >= n /\ buf.bucket[i] # NoDiff}
      next == CHOOSE i \in full : \A o \in full : i <= o
  IN  [buf EXCEPT
        !.bucket = IF full = {} THEN EmptyBucket ELSE Shift(@, next),
        !.base   = IF full = {} THEN NoFrame ELSE @ + next,
        !.stateVersion = PulledDiff(buf, n).to]

\* How many slots a pull may consume: none from an empty bucket.
PullCounts(buf) == IF buf.bucket[0] = NoDiff THEN {0} ELSE 0..MaxLength

-----------------------------------------------------------------------------
(* The client: its buffer and the networked entities it materializes from   *)
(* it.                                                                       *)

VARIABLES
  buffer,    \* ClientWorld._diffBuffer
  world,     \* the networked entities
  closed     \* the client closed itself for a protocol error

clientVars == <<buffer, world, closed>>

ClientInit ==
  /\ buffer = EmptyBuffer
  /\ world = EmptyWorld
  /\ closed = FALSE

\* _pushDiff of a baseline: destroy everything and start the buffer over.  One
\* the client has passed is skipped.
ReceiveBaseline(d) ==
  /\ ~closed
  /\ d.to > buffer.version
  /\ world' = EmptyWorld
  /\ buffer' = Push(EmptyBuffer, d, FALSE)
  /\ closed' = buffer'.failed

\* _pushDiff of a delta; a rejected one closes the client.
ReceiveDelta(d, optimistic) ==
  /\ ~closed
  /\ buffer' = Push(buffer, d, optimistic)
  /\ closed' = buffer'.failed
  /\ UNCHANGED world

\* apply(): render up to some buffered frame.
Apply ==
  /\ \E n \in PullCounts(buffer) :
       /\ buffer' = PullSlots(buffer, n)
       /\ world' = ApplyDiff(world, PulledDiff(buffer, n))
  /\ UNCHANGED closed

\* Mutant: the client acks a frame it holds back.
ClientAckHeld ==
  IF buffer.held # {} THEN (CHOOSE d \in buffer.held : TRUE).to
  ELSE IF buffer.version < 0 THEN 0 ELSE buffer.version

\* The frame send() acks: the newest received, 0 before the first.
ClientAckFrame == IF buffer.version < 0 THEN 0 ELSE buffer.version

\* Every variable holds a value of its kind.
ClientTypeOK ==
  /\ buffer \in Buffers
  /\ world \in Worlds
  /\ closed \in BOOLEAN
=============================================================================

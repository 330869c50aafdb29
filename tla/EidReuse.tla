------------------------------ MODULE EidReuse ------------------------------
(***************************************************************************)
(* A world's entity pool, and the history a server's sessions are served   *)
(* from: entities are created and destroyed at any time, progress() turns  *)
(* the pool's ring and sends a frame at its end, and shutdown() sends      *)
(* frames of its own.                                                      *)
(***************************************************************************)
EXTENDS IdPool

CONSTANTS
  HistoryFrames,  \* frames a session's history keeps
  Requested       \* the networkEntityReuseWaitFrames options

ASSUME ReuseAssumption ==
  /\ HistoryFrames \in Nat \ {0}
  /\ Requested \subseteq Nat

\* Mutant: the wait is shorter than the history.
ReuseWaitShort(requested) == IF requested >= HistoryFrames THEN requested ELSE HistoryFrames

\* entityReuseWaitFrames.
ReuseWait(requested) == IF requested >= HistoryFrames + 1 THEN requested ELSE HistoryFrames + 1

VARIABLES
  served,   \* the pool is a server's entity pool, not one of a client
  live,     \* ids with an entity
  inFrame,  \* between beginFrame and the Send system
  removed,  \* ids whose entity was destroyed since the last send
  entered,  \* ids that got an entity since the last send
  history,  \* [1..HistoryFrames -> the ids removed in the frame sent n sends ago]
  shown     \* history variable: the ids that came up in the newest frame

reuseVars == <<served, live, inFrame, removed, entered, history, shown>>
vars == <<poolVars, reuseVars>>

Init ==
  /\ \/ served = TRUE /\ \E requested \in Requested : PoolInit(ReuseWait(requested))
     \/ served = FALSE /\ PoolInit(0)
  /\ live = {}
  /\ inFrame = FALSE
  /\ removed = {}
  /\ entered = {}
  /\ history = [n \in 1..HistoryFrames |-> {}]
  /\ shown = {}

\* An entity takes an id: world.entity(), or getOrCreateEntity of an id.
Takes(id) ==
  /\ live' = live \cup {id}
  /\ entered' = entered \cup {id}
  /\ UNCHANGED <<served, inFrame, removed, history, shown>>

Create(id) == Alloc(id) /\ Takes(id)

CreateAt(id) == id \notin live /\ Reserve(id) /\ Takes(id)

\* _unregisterEntity, at the end of an entity's destruction.
Destroy(id) ==
  /\ id \in live
  /\ Free(id)
  /\ live' = live \ {id}
  /\ removed' = removed \cup {id}
  /\ UNCHANGED <<served, inFrame, entered, history, shown>>

BeginFrame ==
  /\ ~inFrame
  /\ inFrame' = TRUE
  /\ AdvanceFrame
  /\ UNCHANGED <<served, live, removed, entered, history, shown>>

\* send(), by the Send system at the end of a frame, or by shutdown().
Send ==
  /\ inFrame' = FALSE
  /\ IF served
     THEN /\ history' = [n \in 1..HistoryFrames |-> IF n = 1 THEN removed ELSE history[n - 1]]
          /\ shown' = entered
     ELSE UNCHANGED <<history, shown>>
  /\ removed' = {}
  /\ entered' = {}
  /\ UNCHANGED <<served, poolVars, live>>

Next ==
  \/ \E id \in Ids : Create(id) \/ CreateAt(id) \/ Destroy(id)
  \/ BeginFrame
  \/ Send

Spec == Init /\ [][Next]_vars

-----------------------------------------------------------------------------
\* Every variable holds a value of its kind.
TypeOK ==
  /\ PoolTypeOK
  /\ live \subseteq Ids /\ removed \subseteq Ids /\ entered \subseteq Ids
  /\ served \in BOOLEAN /\ inFrame \in BOOLEAN
  /\ history \in [1..HistoryFrames -> SUBSET Ids]
  /\ shown \subseteq Ids

(***************************************************************************)
(* An id is reserved exactly while it has an entity or waits in the ring,  *)
(* never both, so that no id is handed out while it is in use, and none is *)
(* lost.                                                                   *)
(***************************************************************************)
ReservedIsUsed == bits = live \cup Waiting /\ live \cap Waiting = {}

(***************************************************************************)
(* The pool never hands out an id that is in use or waits, never loses one *)
(* and never calls itself exhausted while it has one.                      *)
(***************************************************************************)
PoolInv == TypeOK /\ PoolAgrees /\ NoIdLost /\ ReservedIsUsed

(***************************************************************************)
(* When the frame that shows an id again is sent by a server, the frame    *)
(* that removed its previous entity has left every history: a client that  *)
(* missed that removal gets a baseline, never a delta in which the two     *)
(* entities meet.                                                          *)
(***************************************************************************)
RemovalLeftHistory ==
  served => \A n \in 2..HistoryFrames : shown \cap history[n] = {}
=============================================================================

---------------------------- MODULE StateDiffs -----------------------------
(***************************************************************************)
(* The diffs of the replication protocol and the operations on them: the   *)
(* server's History.pull, which folds the frames of a span into one diff,  *)
(* and the client's merge, which joins two diffs, and what applying a diff *)
(* does to the client's entities.                                          *)
(*                                                                         *)
(* A component value is the number of the frame that wrote it, 0 when the  *)
(* component is absent: the protocol never looks at a value, so frames     *)
(* stand for all values.  A reset is the frame of the removal, 0 for none. *)
(***************************************************************************)
EXTENDS Integers

CONSTANTS
  Eids,   \* entity ids the server replicates
  Types,  \* wire types of the networked components
  BareEntities  \* an entity in the view may have no networked component

Cids == Eids \X Types
Eid(c) == c[1]

NoFrame == -1

Diffs == [from : Nat, to : Nat,
          snapshots : [Cids -> Nat],
          removed   : SUBSET Cids,
          resets    : [Eids -> Nat]]

EmptyDiff(from, to) ==
  [from |-> from, to |-> to,
   snapshots |-> [c \in Cids |-> 0],
   removed   |-> {},
   resets    |-> [e \in Eids |-> 0]]

\* The undefined diff of an empty bucket slot.
NoDiff == EmptyDiff(NoFrame, NoFrame)

HasContent(d) ==
  \/ \E c \in Cids : d.snapshots[c] # 0
  \/ d.removed # {}
  \/ \E e \in Eids : d.resets[e] # 0

-----------------------------------------------------------------------------
(* The server: what its View shows, and the diff of one frame.              *)

NotInView == [in |-> FALSE, components |-> [t \in Types |-> 0]]
EmptyView == [e \in Eids |-> NotInView]

Views == [Eids -> [in : BOOLEAN, components : [Types -> Nat]]]

\* One entity after the systems of frame f: out of the view, or in it with any
\* of its components removed, kept, or written in this frame.
Rewritten(entity, f) ==
  {NotInView} \cup
  {[in |-> TRUE, components |-> c] :
     c \in {g \in [Types -> {0, f} \cup {entity.components[t] : t \in Types}] :
              /\ \A t \in Types : g[t] \in {0, f, entity.components[t]}
              /\ BareEntities \/ \E t \in Types : g[t] # 0}}

\* The views frame f may end with, after `view`.
NextViews(view, f) ==
  {v \in [Eids -> UNION {Rewritten(view[e], f) : e \in Eids}] :
     \A e \in Eids : v[e] \in Rewritten(view[e], f)}

\* The diff of frame f: the whole of every entity that entered the view (of all
\* in view when the frame is a baseline), components written or removed in the
\* others, and a reset of each entity that left.
LatestDiff(view, next, f, baseline) ==
  LET entered(e) == next[e].in /\ (baseline \/ ~view[e].in)
      old(c)     == view[Eid(c)].components[c[2]]
      new(c)     == next[Eid(c)].components[c[2]]
  IN  [from |-> f - 1, to |-> f,
       snapshots |-> [c \in Cids |->
                        IF entered(Eid(c)) \/ new(c) # old(c) THEN new(c) ELSE 0],
       removed   |-> {c \in Cids : /\ next[Eid(c)].in
                                   /\ ~entered(Eid(c))
                                   /\ old(c) # 0 /\ new(c) = 0},
       resets    |-> [e \in Eids |-> IF view[e].in /\ ~next[e].in THEN f ELSE 0]]

-----------------------------------------------------------------------------
(* The server: History.pull.                                                *)

\* Mutant: a reset leaves what the span held of the entity.
FoldFrameKeep(acc, d) ==
  [acc EXCEPT
    !.resets = [e \in Eids |-> IF d.resets[e] # 0 THEN d.resets[e] ELSE @[e]],
    !.snapshots = [c \in Cids |-> IF c \in d.removed THEN 0
                                  ELSE IF d.snapshots[c] # 0 THEN d.snapshots[c]
                                  ELSE @[c]],
    !.removed = d.removed \cup {c \in @ : d.snapshots[c] = 0}]

\* Fold the diff d of the next frame into the span acc: its resets clear what
\* the span held of the entity, then its snapshots, then its removals.
FoldFrame(acc, d) ==
  [acc EXCEPT
    !.resets = [e \in Eids |-> IF d.resets[e] # 0 THEN d.resets[e] ELSE @[e]],
    !.snapshots =
      [c \in Cids |-> IF c \in d.removed THEN 0
                      ELSE IF d.snapshots[c] # 0 THEN d.snapshots[c]
                      ELSE IF d.resets[Eid(c)] # 0 THEN 0
                      ELSE @[c]],
    !.removed =
      d.removed \cup {c \in @ : d.snapshots[c] = 0 /\ d.resets[Eid(c)] = 0}]

\* Everything after frame `from` up to `to`, from the frames still in window.
HistoryPull(window, from, to) ==
  LET frames == {f \in DOMAIN window : from < f /\ f <= to}
      span[f \in from..to] ==
        IF f = from THEN EmptyDiff(from, to)
        ELSE IF f \in frames THEN FoldFrame(span[f - 1], window[f])
        ELSE span[f - 1]
  IN  span[to]

-----------------------------------------------------------------------------
(* The client: merge and what applying a diff does.                         *)

\* b resets e, and a does not or at an older frame: what a holds of e describes
\* the entity b removed.
SupersededBy(b, a, e) == b.resets[e] > a.resets[e]

MergeResets(a, b) ==
  [e \in Eids |-> IF SupersededBy(b, a, e) THEN b.resets[e] ELSE a.resets[e]]

\* Mutant: what a holds of a reset entity survives b.
MergeDiffsKeep(a, b) ==
  [from |-> a.from, to |-> b.to,
   snapshots |-> [c \in Cids |-> IF b.snapshots[c] # 0 THEN b.snapshots[c]
                                 ELSE IF c \in b.removed THEN 0 ELSE a.snapshots[c]],
   removed |-> {c \in a.removed \cup b.removed : b.snapshots[c] = 0},
   resets  |-> MergeResets(a, b)]

\* merge(a, b) of two defined diffs, b the newer.
MergeDiffs(a, b) ==
  LET removed == b.removed \cup {c \in a.removed : ~SupersededBy(b, a, Eid(c))}
      gone    == {c \in removed : b.snapshots[c] = 0}
  IN  [from |-> a.from, to |-> b.to,
       snapshots |->
         [c \in Cids |-> IF b.snapshots[c] # 0 THEN b.snapshots[c]
                         ELSE IF c \in gone \/ SupersededBy(b, a, Eid(c)) THEN 0
                         ELSE a.snapshots[c]],
       removed |-> gone,
       resets  |-> MergeResets(a, b)]

Merge(a, b) == IF a = NoDiff THEN b ELSE IF b = NoDiff THEN a ELSE MergeDiffs(a, b)

\* merge's check: "cannot merge snapshots".
CannotMerge(a, b) == a # NoDiff /\ b # NoDiff /\ b.from > a.to

\* Mutant: a reset is applied again.
DropNoResets(d) == d

DropAppliedResets(d) ==
  [d EXCEPT !.resets = [e \in Eids |-> IF @[e] <= d.from THEN 0 ELSE @[e]]]

-----------------------------------------------------------------------------
(* The client's world.  born is the frame of the state that created the     *)
(* entity, so two entities that had one eid in turn can be told apart.      *)

NoEntity == [born |-> NoFrame, components |-> [t \in Types |-> 0]]
EmptyWorld == [e \in Eids |-> NoEntity]

Worlds == [Eids -> [born : Nat \cup {NoFrame}, components : [Types -> Nat]]]

Exists(entity) == entity # NoEntity

\* _pull destroys the entities the diff resets, _applyPulled sets the snapshots
\* of the others and of their successors, then removes single components.
ApplyDiff(world, d) ==
  [e \in Eids |->
     LET kept    == IF d.resets[e] # 0 THEN NoEntity ELSE world[e]
         written == {t \in Types : d.snapshots[<<e, t>>] # 0}
         entity  == IF written # {} /\ ~Exists(kept)
                    THEN [kept EXCEPT !.born = d.to] ELSE kept
     IN  [entity EXCEPT !.components =
            [t \in Types |-> IF <<e, t>> \in d.removed THEN 0
                             ELSE IF t \in written THEN d.snapshots[<<e, t>>]
                             ELSE @[t]]]]

-----------------------------------------------------------------------------
(* What a world that renders frame v of the history viewAt should be.       *)

SameComponents(world, view) ==
  \A e \in Eids : world[e].components = view[e].components

\* e left the view in frame f.
LeftAt(viewAt, e, f) == viewAt[f - 1][e].in /\ ~viewAt[f][e].in

\* No entity outlives a reset of its eid, and each is in the view.
NoneStale(world, viewAt, v) ==
  \A e \in Eids : Exists(world[e]) =>
    /\ viewAt[v][e].in
    /\ \A f \in 1..v : f > world[e].born => ~LeftAt(viewAt, e, f)

\* From frame v to frame w, only entities that left the view were replaced.
ReplacedOnlyByReset(world, next, viewAt, v, w) ==
  \A e \in Eids : Exists(world[e]) /\ next[e].born # world[e].born =>
    \E f \in (v + 1)..w : LeftAt(viewAt, e, f)
=============================================================================

---------------------------- MODULE DiffStream -----------------------------
(***************************************************************************)
(* A client against every stream of diffs an honest server could send it.  *)
(* A history of views is chosen at the start.  From then on any span of it *)
(* may arrive at any time, in any order and any number of times, so loss,  *)
(* reordering and duplication need no network: the diff from..to of two    *)
(* frames is received, or never is.  A delta may start past what the       *)
(* client holds; the server marks such a delta optimistic.                 *)
(***************************************************************************)
EXTENDS DiffBuffer

CONSTANT MaxFrame    \* bound of the model: the newest frame of the history

ASSUME StreamAssumption == MaxFrame \in Nat

VARIABLE viewAt      \* history variable: the server's view as of each frame

streamVars == <<clientVars, viewAt>>

\* The histories of views, frame by frame from an empty one.
Histories ==
  LET grow[n \in 0..MaxFrame] ==
        IF n = 0 THEN {[f \in 0..0 |-> EmptyView]}
        ELSE {[f \in 0..n |-> IF f < n THEN p.h[f] ELSE p.v] :
                p \in UNION {{[h |-> h, v |-> v] : v \in NextViews(h[n - 1], n)} :
                               h \in grow[n - 1]}}
  IN  grow[MaxFrame]

\* What the history holds of the frames after `from` up to `to`.
FrameDiffs(from, to) ==
  [f \in (from + 1)..to |-> LatestDiff(viewAt[f - 1], viewAt[f], f, FALSE)]

Baseline(to) == [LatestDiff(viewAt[to - 1], viewAt[to], to, TRUE) EXCEPT !.from = 0]
Delta(from, to) == HistoryPull(FrameDiffs(from, to), from, to)

StreamInit ==
  /\ ClientInit
  /\ viewAt \in Histories

BaselineArrives ==
  /\ \E to \in 1..MaxFrame : ReceiveBaseline(Baseline(to))
  /\ UNCHANGED viewAt

\* No delta is sent before a baseline was acked.
DeltaArrives ==
  /\ buffer.version > 0
  /\ \E from \in 1..(MaxFrame - 1) : \E to \in (from + 1)..MaxFrame :
       ReceiveDelta(Delta(from, to), from > buffer.version)
  /\ UNCHANGED viewAt

StreamApplied == Apply /\ UNCHANGED viewAt

StreamNext == BaselineArrives \/ DeltaArrives \/ StreamApplied

StreamSpec == StreamInit /\ [][StreamNext]_streamVars

-----------------------------------------------------------------------------
\* Every variable holds a value of its kind.
StreamTypeOK == ClientTypeOK /\ viewAt \in [0..MaxFrame -> Views]

(* No throw of merge ("cannot merge snapshots", diff_buffer.ts:757) is      *)
(* reachable: however late and overlapping the deltas, the slots that are   *)
(* joined always connect.                                                   *)
NeverClosed == ~closed

\* Every entity has exactly the components it had in the server's view at the
\* frame the client renders.
RenderedIsServerView == SameComponents(world, viewAt[buffer.stateVersion])

\* No entity outlives a reset of its eid, and none is left out of the view.
NoStaleEntity == NoneStale(world, viewAt, buffer.stateVersion)

(***************************************************************************)
(* However late, repeated and overlapping the diffs, the client never      *)
(* gives up on them and renders what the server showed at that frame, with *)
(* the entities of that frame and none of their predecessors.              *)
(***************************************************************************)
StreamFollowed == StreamTypeOK /\ NeverClosed /\ RenderedIsServerView /\ NoStaleEntity

(***************************************************************************)
(* A pull destroys an entity only for a reset newer than what the client   *)
(* already rendered: a repeated reset leaves the successor alone.          *)
(***************************************************************************)
DestroyedOnlyByReset ==
  [][StreamApplied => ReplacedOnlyByReset(world, world', viewAt,
                        buffer.stateVersion, buffer'.stateVersion)]_streamVars

\* Rendering and receiving only move forward, except to a newer baseline.
OnlyForward ==
  [][/\ buffer'.version >= buffer.version
     /\ buffer'.stateVersion < buffer.stateVersion => buffer'.stateVersion = 0]_streamVars

\* A client never goes back: neither in frames nor, by a reset it has already
\* rendered, to the entities before it.
NeverGoesBack == DestroyedOnlyByReset /\ OnlyForward
=============================================================================

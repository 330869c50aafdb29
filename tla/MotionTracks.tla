----------------------------- MODULE MotionTracks -----------------------------
(***************************************************************************)
(* The client half of dead reckoning (vecs-phaser-client/modules/          *)
(* dead_reckoned.ts): a client that applies the server's frames, on time   *)
(* or late, draws the entity on the path of its newest baseline, or at its *)
(* streamed pose, and blends what it drew before into what it draws now.   *)
(* Render frames count halves of a frame; a drawn pose, units of 1 / Unit. *)
(***************************************************************************)
EXTENDS DeadReckoning

CONSTANTS
  Unit,
  Blend,     \* blendMs, in units of the render loop's time
  Snap,      \* snapDistance
  Advances,  \* by how much a tick moves the render frame
  Deltas     \* and the render loop's clock

VARIABLE c   \* [applied, frame, now, motion, params, pos, track]

tracksVars == <<serverVars, c>>

\* A track before its first baseline.
NewTrack ==
  [frame |-> -1, base |-> Nothing, scale |-> DefaultScale, error |-> 0, blendFrom |-> 0,
   shown |-> FALSE, from |-> 0, handoff |-> FALSE, source |-> 0]

\* A Position: its value and who owns the instance, the network, the With of
\* Motion ("brought") or the hand-off of a track.
Pose(x, owner) == [x |-> x, owner |-> owner]

-----------------------------------------------------------------------------
(* Paths.                                                                  *)

\* extrapolate: the steps the render frame crossed, and the fraction of the next.
Sample(track, frame) ==
  LET elapsed == IF frame > 2 * track.frame THEN frame - 2 * track.frame ELSE 0
      at(n) == Unit * Extrapolated(track.base, track.scale, n).x
      step == elapsed \div 2
  IN at(step) + ((at(step + 1) - at(step)) * (elapsed % 2)) \div 2

\* What is left of the blend at a time of the render loop, out of Blend.
Remaining(track, now) == IF now - track.blendFrom < Blend THEN Blend - (now - track.blendFrom) ELSE 0
Offset(track, now) == (track.error * Remaining(track, now)) \div Blend

Drawn(track, frame, now) == Sample(track, frame) + Offset(track, now)
Settled(track, now) == [track EXCEPT !.error = IF Remaining(track, now) = 0 THEN 0 ELSE @]

Snaps(error) == Blend = 0 \/ Abs(error) > Unit * Snap

-----------------------------------------------------------------------------
(* A frame of the server is applied (ClientWorld.apply).                   *)

StartTrack(v) ==
  LET shown == v.pos # Nothing /\ v.pos.owner # "brought"
  IN [NewTrack EXCEPT !.shown = shown, !.from = IF shown THEN v.pos.x ELSE 0]

\* Motion is set: its arrival brings a Position and starts a track.
MotionSet(v, motion) ==
  IF v.motion # Nothing THEN [v EXCEPT !.motion = motion]
  ELSE [v EXCEPT !.motion = motion, !.track = StartTrack(v),
                 !.pos = IF @ = Nothing THEN Pose(0, "brought")
                         ELSE [@ EXCEPT !.owner = IF @ = "brought" THEN @ ELSE "net"]]

\* Motion is removed: the track is kept for a hand-off, unless there is nothing
\* to fade.
MotionGone(v) ==
  LET track == Settled(v.track, v.now)
      error == Drawn(v.track, v.frame, v.now) - v.pos.x
      fades == v.track.frame >= 0 /\ error # 0 /\ ~Snaps(error)
  IN [v EXCEPT !.motion = Nothing,
               !.track = IF fades THEN [track EXCEPT !.error = error, !.handoff = TRUE] ELSE Nothing]

PositionSet(v, render) == [v EXCEPT !.pos = Pose(Unit * render.x, "net")]

\* The removal of a Position waits for the end of the diff, and is skipped when
\* the entity has a Motion then (_releaseHeld).
PositionGone(v) == IF v.motion # Nothing THEN v ELSE [v EXCEPT !.pos = Nothing, !.track = Nothing]

EntityGone(v) == [v EXCEPT !.motion = Nothing, !.params = Nothing, !.pos = Nothing, !.track = Nothing]

\* The diff of the frames after v.applied, up to `upto`: what was set, then
\* what was removed.
Apply(v, upto) ==
  LET old == IF v.applied = 0 THEN -1 ELSE v.applied   \* the first is a baseline
      new == log[upto]
      set == IF new.motion # Nothing /\ new.motion.frame > old THEN MotionSet(v, new.motion) ELSE v
      placed == IF new.render # Nothing /\ new.render.at > old THEN PositionSet(set, new.render) ELSE set
      freed == IF new.motion = Nothing /\ placed.motion # Nothing THEN MotionGone(placed) ELSE placed
      left == IF new.render = Nothing THEN PositionGone(freed) ELSE freed
  IN IF upto = v.applied THEN v
     ELSE [(IF new.alive THEN [left EXCEPT !.params = new.params] ELSE EntityGone(v)) EXCEPT !.applied = upto]

-----------------------------------------------------------------------------
(* The two systems of POST_LOAD.                                           *)

\* A newer baseline: what the body was drawn at is blended into it when the
\* correction is late, or the body was drawn before its first baseline.
Rebaseline(v) ==
  LET track == v.track
      held == track.frame >= 0
      shown == ~held /\ track.shown
      old == IF held THEN Drawn(track, v.frame, v.now) ELSE track.from
      taken == [track EXCEPT !.base = v.motion, !.scale = Or(v.params, DefaultScale),
                             !.frame = v.motion.frame, !.shown = FALSE, !.error = 0]
      new == Sample(taken, v.frame)
      late == shown \/ (held /\ v.frame - 2 * v.motion.frame >= 2)
  IN IF late /\ ~Snaps(old - new)
     THEN [v EXCEPT !.pos.x = old, !.track = [taken EXCEPT !.error = old - new, !.blendFrom = v.now]]
     ELSE [v EXCEPT !.pos.x = new, !.track = taken]

Extrapolate(v) ==
  CASE v.motion = Nothing \/ v.track = Nothing -> v
    [] v.motion.frame > v.track.frame -> Rebaseline(v)
    [] OTHER -> [v EXCEPT !.pos.x = Drawn(v.track, v.frame, v.now), !.track = Settled(@, v.now)]

\* A hand-off draws the streamed pose and what is left of the error; its clock
\* starts with the first pose it draws.
BegunEarlier(track, now) == [track EXCEPT !.handoff = FALSE]
Begun(track, now) ==
  IF track.handoff THEN [track EXCEPT !.handoff = FALSE, !.blendFrom = now] ELSE track

Handoff(v) ==
  IF v.motion # Nothing \/ v.track = Nothing THEN v
  ELSE LET track == [Begun(v.track, v.now) EXCEPT
                       !.source = IF v.pos.owner = "track" THEN @ ELSE v.pos.x]
       IN [v EXCEPT !.pos = Pose(track.source + Offset(track, v.now), "track"),
                    !.track = IF Remaining(track, v.now) > 0 THEN track ELSE Nothing]

\* A tick of the client: the frames up to `upto` are applied at render frame
\* `frame`, and the render loop's clock advances.
Ticked(v, upto, frame, delta) ==
  LET applied == Apply([v EXCEPT !.frame = frame], upto)
  IN Handoff(Extrapolate([applied EXCEPT !.now = @ + delta]))

Draw ==
  /\ slot = "outside"
  /\ Len(log) > 0
  /\ story.draws > 0
  /\ story' = [story EXCEPT !.draws = @ - 1]
  /\ \E advance \in Advances, delta \in Deltas, upto \in c.applied..Len(log) :
       /\ upto > 0
       /\ 2 * upto =< c.frame + advance
       /\ c.frame + advance =< 2 * Len(log) + 2
       /\ c' = Ticked(c, upto, c.frame + advance, delta)
  /\ UNCHANGED <<w, slot, log>>

TracksInit ==
  /\ ServerInit
  /\ c = [applied |-> 0, frame |-> 0, now |-> 0, motion |-> Nothing, params |-> Nothing, pos |-> Nothing,
          track |-> Nothing]

TracksNext == Draw \/ (ServerNext /\ UNCHANGED c)

-----------------------------------------------------------------------------
(* What clients see.                                                       *)

\* The path a baseline promises, in a frame that shipped it.
Promised(entry, frame) ==
  IF entry.motion = Nothing THEN entry.render.x
  ELSE Extrapolated(entry.motion, Or(entry.params, DefaultScale), frame - entry.motion.frame).x

\* A frame ships a baseline or a render pose, never both, and it stands for the
\* physics pose: clients that extrapolate it stray no further than the
\* tolerance, but for a pose written too late for this frame.
Honest(n) ==
  LET entry == log[n]
  IN entry.alive =>
       /\ (entry.motion = Nothing) # (entry.render = Nothing)
       /\ entry.motion # Nothing => entry.motion.frame \in 1..n
       /\ ~entry.unseen => Abs(Promised(entry, n) - entry.pos) =< Tolerance

\* Between frames, a body that sleeps has a baseline at rest, the tag that keeps
\* sessions alive is on the bodies that move, and no switch met the check that
\* refuses a render pose.
Restful ==
  /\ ~w.threw
  /\ (slot = "outside" /\ w.alive /\ log # <<>>) =>
       /\ (w.tag /\ w.pred.primed) =>
            /\ w.moving = ~w.motion.rest
            /\ ("moving" \in w.lanes) = ~w.motion.rest
       /\ ~w.tag => ~w.moving

\* A client that has applied every frame it draws, and has nothing to blend,
\* draws the body where the server had it.
Blending == c.track # Nothing /\ Offset(c.track, c.now) # 0
Faithful ==
  (c.applied > 0 /\ c.frame = 2 * c.applied /\ ~Blending /\ log[c.applied].alive
     /\ ~log[c.applied].unseen) =>
    /\ c.pos # Nothing
    /\ Abs(c.pos.x - Unit * log[c.applied].pos) =< Unit * Tolerance

\* Clients see the physics pose (dead_reckoned.ts 88-136).
PosesAreTrue == (\A n \in DOMAIN log : Honest(n)) /\ Restful /\ Faithful

\* The path of the newest frame a client applied, wherever its error stands.
Target(v) ==
  LET entry == log[v.applied]
  IN IF entry.motion = Nothing THEN Unit * entry.render.x
     ELSE Sample([frame |-> entry.motion.frame, base |-> entry.motion,
                  scale |-> Or(entry.params, DefaultScale)], v.frame)

Error(v) == v.pos.x - Target(v)
Version(v) == IF v.motion = Nothing THEN 0 ELSE v.motion.frame

\* Where the body would have been drawn had nothing arrived, and when it does
\* not jump there.
Otherwise(frame, now) == Ticked([c EXCEPT !.frame = frame], c.applied, frame, now - c.now).pos.x
InTime == c'.motion # Nothing /\ c.motion # Nothing /\ c'.frame - 2 * c'.motion.frame < 2

\* A correction of the path is drawn where the old path led and fades out from
\* there; it jumps only when it came in time, is too far, or nothing was drawn
\* before it.  The fade ends with Blend.
CorrectionStep ==
  (c' # c /\ c'.pos # Nothing) =>
    IF c.pos = Nothing THEN Error(c') = 0
    ELSE IF Version(c) # Version(c')
    THEN \/ Error(c') = 0 /\ InTime
         \/ Error(c') = 0 /\ \E now \in {c.now, c'.now} :
              Otherwise(c'.frame, now) = c'.pos.x \/ Snaps(Otherwise(c'.frame, now) - c'.pos.x)
         \/ ~Snaps(Error(c')) /\ \E now \in {c.now, c'.now} : c'.pos.x = Otherwise(c'.frame, now)
    ELSE /\ Abs(Error(c')) =< Abs(Error(c))
         /\ c'.now - c.now >= Blend => Error(c') = 0
=============================================================================

---------------------------- MODULE DeadReckoning ----------------------------
(***************************************************************************)
(* The server half of dead reckoning (vecs-phaser-server/dead_reckoned.ts, *)
(* PhaserServerModule.ts): a tagged body ships a baseline, Motion, that    *)
(* clients extrapolate, an untagged one its render pose.  One entity moves *)
(* along a line; `w` is the world of that entity, a frame a tick of it.    *)
(***************************************************************************)
EXTENDS Integers, Sequences, SequencesExt

CONSTANTS
  Nothing,
  Gravity,    \* of the world, per frame squared
  Tolerance,  \* positionTolerance
  MaxAge,     \* maxAgeFrames, 0 for none
  Kicks,      \* the velocities a contact or a force gives a body
  Stories,    \* [start, scopes, calls, kicks, draws]: how the entity starts, the command queues
              \* user code may leave in a scope, and bounds on what happens
  MaxFrames

VARIABLES
  story,
  w,      \* [frame (the one in the making), alive, tag, pos, body, scale, b2, render,
          \* motion, params, pred, lanes, moving, unprimed, released, unsynced, inbox, written, streamed, changes, threw,
          \* fresh, unseen]
  slot,   \* where the frame is: outside it, or in a phase with user code
  log     \* what each frame shipped

serverVars == <<story, w, slot, log>>

Abs(n) == IF n < 0 THEN -n ELSE n
\* Op(v), with v evaluated once.
With(v, Op(_)) == CHOOSE result \in {Op(u) : u \in {v}} : TRUE

Or(value, default) == IF value = Nothing THEN default ELSE value

-----------------------------------------------------------------------------
(* The shared integrator (vecs-phaser/motion/integrator.ts), on a line.    *)

StepMotion(s, scale) == [x |-> s.x + s.v + Gravity * scale, v |-> s.v + Gravity * scale]

\* The pose and velocity `n` steps after a baseline, one at rest staying put.
Extrapolated(motion, scale, n) ==
  LET path[i \in 0..n] ==
        IF i = 0 THEN [x |-> motion.x, v |-> motion.v] ELSE StepMotion(path[i - 1], scale)
  IN path[IF motion.rest THEN 0 ELSE n]

-----------------------------------------------------------------------------
(* What the systems of the module are told of the entity.                  *)

NewMotion == [frame |-> 0, x |-> 0, v |-> 0, rest |-> FALSE]
NewPrediction ==
  [primed |-> FALSE, rest |-> FALSE, frame |-> 0, x |-> 0, v |-> 0, scale |-> 1, last |-> Nothing]
DefaultScale == 1

Member(v, system) ==
  /\ v.alive /\ v.tag
  /\ system = "body" => v.body # Nothing
  /\ system = "sync" => v.lanes # {}

Told(v, system, event) == [v EXCEPT !.inbox[system] = Append(@, event)]

\* The world was `old`, and a command made it `new`: queries that the entity
\* joined or left tell their systems.
Rerouted(old, new) ==
  [new EXCEPT !.inbox = [s \in DOMAIN @ |->
     CASE ~Member(old, s) /\ Member(new, s) -> Append(@[s], "enter")
       [] Member(old, s) /\ ~Member(new, s) -> Append(@[s], "exit")
       [] OTHER -> @[s]]]

\* The entry of an entity that has left again is suppressed, with its exit.
Delivered(v, system) ==
  LET events == v.inbox[system]
  IN CASE Member(v, system) -> events
       [] ~Member(v, system) /\ events # <<>> /\ events[1] = "exit" -> <<"exit">>
       [] OTHER -> <<>>

Emptied(v, system) == [v EXCEPT !.inbox[system] = <<>>]

-----------------------------------------------------------------------------
(* Commands, and the hooks of the components they bring and take.          *)

Cmd(op) == [op |-> op, to |-> 0]
PutRender(x) == [op |-> "render", to |-> x]

GivePose(v) == IF v.render = Nothing THEN <<PutRender(v.pos)>> ELSE <<>>

\* What a command does to the entity.
Commanded(v, c) ==
  CASE c.op = "tag" ->
         IF v.tag THEN v
         ELSE [v EXCEPT !.tag = TRUE, !.motion = NewMotion, !.pred = NewPrediction, !.unprimed = TRUE]
    [] c.op = "untag" -> [v EXCEPT !.tag = FALSE, !.motion = Nothing, !.pred = Nothing]
    [] c.op = "dropRender" -> [v EXCEPT !.render = Nothing]
    [] c.op = "dropParams" -> [v EXCEPT !.params = Nothing]
    [] c.op = "render" ->
         IF v.tag THEN [v EXCEPT !.threw = TRUE]
         ELSE [v EXCEPT !.render = [x |-> c.to, at |-> v.frame], !.unsynced = TRUE, !.streamed = TRUE]
    [] c.op = "teleport" ->
         [v EXCEPT !.pos = c.to, !.written = v.body # Nothing, !.streamed = @ \/ v.render # Nothing]
    [] c.op \in {"dynamic", "kinematic"} ->
         [v EXCEPT !.body = c.op, !.written = @ \/ v.body = Nothing]
    [] c.op = "unbody" -> [v EXCEPT !.body = Nothing, !.b2 = Nothing, !.written = FALSE]
    [] c.op = "scale" -> [v EXCEPT !.scale = 1 - @]
    [] c.op = "lane" -> [v EXCEPT !.lanes = @ \cup {c.to}]
    [] c.op = "unlane" -> [v EXCEPT !.lanes = @ \ {c.to}]
    [] c.op = "moving" -> [v EXCEPT !.moving = c.to]
    [] c.op = "destroy" ->
         [v EXCEPT !.alive = FALSE, !.tag = FALSE, !.motion = Nothing, !.pred = Nothing, !.params = Nothing,
                   !.render = Nothing, !.body = Nothing, !.b2 = Nothing, !.lanes = {}, !.moving = FALSE]

Moving(b) == [op |-> "moving", to |-> b]
Lane(l) == [op |-> "lane", to |-> l]
Unlane(l) == [op |-> "unlane", to |-> l]

\* The commands its hooks queue, or run at once outside a system.
Hooked(v, c, deferred) ==
  CASE c.op = "tag" /\ ~v.tag -> <<Cmd("dropRender")>>
    [] c.op = "untag" /\ v.tag ->
         <<Cmd("dropParams"), Moving(FALSE)>> \o (IF deferred THEN <<>> ELSE GivePose(v))
    [] OTHER -> <<>>

Released(v, c, deferred) == v.released \/ (c.op = "untag" /\ v.tag /\ deferred)

Applied(v, c, deferred) ==
  LET routed(new) ==
        IF c.op \in {"dynamic", "kinematic"} /\ Member(v, "body")
        THEN Told(Rerouted(v, new), "body", "update") ELSE Rerouted(v, new)
  IN With([Commanded(v, c) EXCEPT !.released = Released(v, c, deferred)], routed)

RECURSIVE Flushed(_, _, _)
Flushed(v, queue, deferred) ==
  IF queue = <<>> \/ ~v.alive THEN v
  ELSE LET hooked == Hooked(v, Head(queue), deferred)
           rest == IF deferred THEN Tail(queue) \o hooked ELSE hooked \o Tail(queue)
       IN With(Applied(v, Head(queue), deferred), LAMBDA u : Flushed(u, rest, deferred))

-----------------------------------------------------------------------------
(* Physics, as the module sees it (body/pose_in.ts, pose_out.ts).          *)

NewB2(v) == [x |-> v.pos, v |-> 0, awake |-> TRUE, held |-> FALSE, kind |-> v.body, scale |-> v.scale]

\* The gravity scale Box2D applies: none to a body without mass.
EffectiveScale(b) == IF b.kind = "dynamic" THEN b.scale ELSE 0

\* The bodies are made and configured, and take the poses that were written.
BodyPlaced(v) ==
  LET b == IF v.b2 = Nothing THEN NewB2(v) ELSE v.b2
  IN IF v.body = Nothing THEN [v EXCEPT !.changes = FALSE]
     ELSE [v EXCEPT !.b2 = [b EXCEPT !.x = IF v.written THEN v.pos ELSE @, !.scale = v.scale,
                                     !.kind = v.body],
                    !.changes = v.written, !.written = FALSE]

\* A step of Box2D: a body falls freely, or is hit, or held by what it stands
\* on; one that stands still may fall asleep.
Falls(b) == LET s == StepMotion(b, EffectiveScale(b)) IN [b EXCEPT !.x = s.x, !.v = s.v]
Hits(b) ==
  IF b.kind # "dynamic" THEN {} ELSE
  {[b EXCEPT !.x = @ + k, !.v = k, !.awake = TRUE, !.held = FALSE] : k \in Kicks}
    \cup {[b EXCEPT !.v = 0, !.awake = TRUE, !.held = TRUE]}
Still(b) == b.held \/ (b.v = 0 /\ Gravity * EffectiveScale(b) = 0)
Undisturbed(b) ==
  CASE ~b.awake -> {b}
    [] Still(b) -> {b, [b EXCEPT !.awake = FALSE]}
    [] OTHER -> {Falls(b)}

\* Pose-out writes the Dynamic bodies that moved, and says which they are.
PoseOut(v, b) ==
  LET reported == v.body = "dynamic" /\ (b.awake \/ v.b2.awake)
  IN [v EXCEPT !.b2 = b, !.changes = @ \/ reported,
               !.pos = IF reported THEN b.x ELSE @,
               !.streamed = @ \/ (reported /\ v.pos # b.x /\ v.render # Nothing)]

-----------------------------------------------------------------------------
(* Baselines.                                                              *)

Awake(v) == v.body # Nothing /\ v.b2 # Nothing /\ v.b2.awake

AtRest(v) == ~Awake(v) \/ (v.b2.v = 0 /\ Gravity * EffectiveScale(v.b2) = 0)

\* writeBaseline: the component, the constants it needs, the prediction.
Baseline(v) ==
  LET rest == AtRest(v)
      velocity == IF Awake(v) THEN v.b2.v ELSE 0
      held == Or(v.params, DefaultScale)
      scale == IF rest THEN held ELSE EffectiveScale(v.b2)
  IN [v EXCEPT !.motion = [frame |-> v.frame, x |-> v.pos, v |-> velocity, rest |-> rest],
               !.params = IF scale = held THEN @ ELSE scale,
               !.pred = [@ EXCEPT !.primed = TRUE, !.rest = rest, !.frame = v.frame, !.x = v.pos,
                                  !.v = velocity, !.scale = scale]]

\* The tags it changes, in the order of the code.
Retagged(old, new) ==
  (IF ~old.pred.primed \/ old.pred.rest # new.motion.rest THEN <<Moving(~new.motion.rest)>> ELSE <<>>)
    \o <<IF new.motion.rest THEN Unlane("moving") ELSE Lane("moving")>>

Diverged(v, p) == Abs(v.pos - p.x) > Tolerance

Looked(v) == [v EXCEPT !.pred.last = v.pos]

\* The prediction, stepped up to this frame.
Advanced(v) ==
  IF v.pred.rest \/ ~v.pred.primed THEN v
  ELSE LET s == Extrapolated(v.pred, v.pred.scale, v.frame - v.pred.frame)
       IN [v EXCEPT !.pred.x = s.x, !.pred.v = s.v, !.pred.frame = v.frame]

Expired(v) == MaxAge > 0 /\ v.frame - v.motion.frame >= MaxAge

Strays(v, unchanged) ==
  CASE ~v.pred.primed -> TRUE
    [] v.pred.rest -> ~unchanged /\ Diverged(v, v.pred)
    [] OTHER -> (unchanged /\ ~Awake(v)) \/ Expired(v) \/ Diverged(v, v.pred)

\* The `each` of phaser.sync.motion: the world after it and the tags it queues.
Compared(v) ==
  LET compared(u) ==
        IF Strays(u, v.pos = v.pred.last) THEN <<Baseline(u), Retagged(v, Baseline(u))>> ELSE <<u, <<>>>>
  IN With(Advanced(Looked(v)), compared)

-----------------------------------------------------------------------------
(* The systems of POST_UPDATE, in the order they were installed.           *)

Lanes == {"moving", "pending", "application"}

\* phaser.sync.position and phaser.sync.rotation.
Streamed(v) ==
  IF v.streamed /\ v.render # Nothing /\ v.render.x # v.pos
  THEN [v EXCEPT !.streamed = FALSE, !.render = [x |-> v.pos, at |-> v.frame]]
  ELSE [v EXCEPT !.streamed = FALSE]

EntryOfBodies(v) == <<Lane(IF v.pred.primed /\ ~v.pred.rest THEN "moving" ELSE "pending")>>
Entry(v) ==
  <<Lane(IF v.pred.primed /\ ~v.pred.rest THEN "moving" ELSE "pending")>>
    \o (IF v.body = Nothing THEN <<Lane("application")>> ELSE <<>>)

Joined(v) ==
  LET answers == [i \in DOMAIN Delivered(v, "membership") |->
        IF Delivered(v, "membership")[i] = "enter" THEN Entry(v)
        ELSE <<Unlane("moving"), Unlane("pending"), Unlane("application")>>]
  IN Flushed(Emptied(v, "membership"), FlattenSeq(answers), TRUE)

\* Updates of the Body, its arrival among them; those of an entity that left are stale.
Configured(v) ==
  LET live == SelectSeq(v.inbox["body"], LAMBDA e : e = "exit" \/ Member(v, "body"))
      answers == [i \in DOMAIN live |->
        IF live[i] = "exit"
        THEN (IF v.body = Nothing /\ Member(v, "membership") THEN <<Lane("application")>> ELSE <<>>)
        ELSE <<IF v.body = "dynamic" THEN Unlane("application") ELSE Lane("application")>>]
  IN Flushed(Emptied(v, "body"), FlattenSeq(answers), TRUE)

Noticed(v) ==
  IF v.changes /\ v.lanes = {} /\ Member(v, "membership")
  THEN Flushed(v, <<Lane("pending")>>, TRUE) ELSE v

Synced(v) ==
  LET entries == SelectSeq(Delivered(v, "sync"), LAMBDA e : e = "enter")
      taken == [i \in DOMAIN entries |-> Unlane("pending")]
      compared == IF Member(v, "sync") THEN Compared(v) ELSE <<v, <<>>>>
  IN Flushed(Emptied(compared[1], "sync"), taken \o compared[2], TRUE)

PostUpdate(v) == With(With(With(With(Streamed(v), Joined), Configured), Noticed), Synced)

\* phaser.guard.pose, then phaser.guard.motion.
GuardedPose(v) ==
  IF v.unsynced /\ v.alive /\ v.render # Nothing /\ v.render.x # v.pos
  THEN [v EXCEPT !.unsynced = FALSE, !.render = [x |-> v.pos, at |-> v.frame]]
  ELSE [v EXCEPT !.unsynced = FALSE]

GuardedMotion(v) ==
  LET given == IF v.released /\ v.alive /\ ~v.tag THEN GivePose(v) ELSE <<>>
      primes == v.unprimed /\ v.alive /\ v.tag /\ ~v.pred.primed
      new == IF primes THEN Baseline(Looked(v)) ELSE v
  IN Flushed([new EXCEPT !.released = FALSE, !.unprimed = FALSE],
             given \o (IF primes THEN Retagged(v, new) ELSE <<>>), TRUE)

-----------------------------------------------------------------------------
(* The frame.                                                              *)

\* Between frames user code runs at once, inside one it is a system whose
\* commands are queued.
User ==
  /\ slot \in {"outside", "update", "mid", "late"}
  /\ story.calls > 0
  /\ w.alive
  /\ \E queue \in story.scopes :
       w' = LET new == Flushed(w, queue, slot # "outside")
            IN [new EXCEPT !.fresh = @ \/ new.pos # w.pos]
  /\ story' = [story EXCEPT !.calls = @ - 1]
  /\ UNCHANGED <<slot, log>>

Begin ==
  /\ slot = "outside"
  /\ w.frame =< MaxFrames
  /\ slot' = "update"
  /\ UNCHANGED <<story, w, log>>

\* PRE_STEP to POST_STEP; a disturbance counts as one.
BodyStep ==
  /\ slot = "update"
  /\ slot' = "mid"
  /\ LET v == BodyPlaced(w)
     IN \/ v.b2 = Nothing /\ w' = v /\ UNCHANGED story
        \/ /\ v.b2 # Nothing
           /\ \E b \in Undisturbed(v.b2) : w' = PoseOut(v, b)
           /\ UNCHANGED story
        \/ /\ v.b2 # Nothing /\ story.kicks > 0
           /\ \E b \in Hits(v.b2) : w' = PoseOut(v, b)
           /\ story' = [story EXCEPT !.kicks = @ - 1]
  /\ UNCHANGED log

\* The pose of a resting Dynamic body was written after pose-in, or before it
\* had a body for pose-in, and nothing reported it: it is due when pose-in runs.
Unseen(v) ==
  /\ v.fresh \/ v.unseen
  /\ v.body = "dynamic" /\ v.written /\ ~v.changes
  /\ v.tag /\ v.motion.rest

Update ==
  /\ slot = "mid"
  /\ slot' = "late"
  /\ w' = [PostUpdate(w) EXCEPT !.unseen = Unseen(w), !.fresh = FALSE]
  /\ UNCHANGED <<story, log>>

Shipped(v) ==
  [alive |-> v.alive, render |-> v.render, motion |-> v.motion, params |-> v.params, pos |-> v.pos,
   unseen |-> v.unseen \/ v.fresh]

\* The guards run, and the frame is recorded.
Ship ==
  /\ slot = "late"
  /\ slot' = "outside"
  /\ \E guarded \in {With(GuardedPose(w), GuardedMotion)} :
        /\ log' = Append(log, Shipped(guarded))
        /\ w' = [guarded EXCEPT !.frame = @ + 1]
  /\ UNCHANGED story

ServerInit ==
  /\ story \in Stories
  /\ w = story.start
  /\ slot = "outside"
  /\ log = <<>>

ServerNext == User \/ Begin \/ BodyStep \/ Update \/ Ship
=============================================================================

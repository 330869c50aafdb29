----------------------------- MODULE MCAckProtocol -----------------------------
(***************************************************************************)
(* A session and its client at the level of frames (`half` = "protocol"),  *)
(* and what such frames carry of one dead-reckoned body ("motion").  Five  *)
(* stories of the body: tagged and untagged under a client that blends     *)
(* what it draws; tags toggled within a scope; knocked and teleported far; *)
(* its physics body removed, returned and turned kinematic; brought late.  *)
(***************************************************************************)
EXTENDS AckProtocol, MotionTracks

VARIABLE half

Story(start, scopes, calls, kicks, draws) ==
  [start |-> start, scopes |-> scopes, calls |-> calls, kicks |-> kicks, draws |-> draws]

Resting ==
  [frame |-> 1, alive |-> TRUE, tag |-> FALSE, pos |-> 2, body |-> "dynamic", scale |-> 0, b2 |-> Nothing,
   render |-> [x |-> 2, at |-> 0], motion |-> Nothing, params |-> Nothing, pred |-> Nothing, lanes |-> {},
   moving |-> FALSE, unprimed |-> FALSE, released |-> FALSE, unsynced |-> FALSE,
   inbox |-> [s \in {"membership", "body", "sync"} |-> <<>>], written |-> TRUE, streamed |-> TRUE,
   changes |-> FALSE, threw |-> FALSE, fresh |-> FALSE, unseen |-> FALSE]

Do(op) == <<Cmd(op)>>
Tagged(start) == Flushed(start, Do("tag"), FALSE)
Place(place) == <<[op |-> "teleport", to |-> place]>>

MCStories == {
  Story([Resting EXCEPT !.scale = 1], {Do("tag"), Do("untag")}, 2, 1, 3),
  Story(Tagged(Resting), {Do("untag"), Do("tag"), Do("untag") \o Do("tag"), Do("tag") \o Do("untag"), Place(3)},
        2, 1, 1),
  Story(Tagged(Resting), {Do("scale"), Place(9)}, 1, 2, 3),
  Story(Tagged(Resting),
        {Do("unbody"), Do("dynamic"), Do("kinematic"), Do("scale"), Do("destroy"), Place(9)}, 2, 1, 1),
  Story(Tagged([Resting EXCEPT !.body = Nothing, !.written = FALSE]),
        {Do("dynamic"), Do("kinematic"), Do("unbody"), Place(9)}, 3, 0, 1) }

MCGravity == -1
MCKicks == {1, -2}
MCAdvances == 1..3
MCDeltas == 1..2

NoTracks == story = Nothing /\ w = Nothing /\ slot = Nothing /\ log = Nothing /\ c = Nothing

MCInit ==
  /\ Init
  /\ \/ half = "protocol" /\ NoTracks
     \/ half = "motion" /\ TracksInit

MCNext ==
  \/ half = "protocol" /\ Next /\ UNCHANGED <<half, tracksVars>>
  \/ half = "motion" /\ TracksNext /\ UNCHANGED <<half, vars>>

MCSpec == MCInit /\ [][MCNext]_<<half, vars, tracksVars>>

\* What a frame ships of a dead-reckoned body stands for its physics pose, and a
\* client that has caught up draws it there (dead_reckoned.ts 88-136).
PosesStayTrue == half = "motion" => PosesAreTrue

\* A client draws a correction where the old path led and fades it out
\* (vecs-phaser-client/modules/dead_reckoned.ts 40-130).
CorrectionsFade == [][half = "motion" => CorrectionStep]_<<half, vars, tracksVars>>
=============================================================================

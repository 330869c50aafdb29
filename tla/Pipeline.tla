------------------------------- MODULE Pipeline -------------------------------
(***************************************************************************)
(* The frames of a world (vecs/src/world/world.pipeline.ts): the systems   *)
(* run in turn, each drains its inbox, and what its callbacks ask for is   *)
(* applied before the next one.  Callbacks, and the application between    *)
(* frames, change components, create, disable and destroy systems and stop *)
(* clocks.                                                                 *)
(***************************************************************************)
EXTENDS Systems

CONSTANTS
  Order,       \* all systems, in the order of the pipeline
  Cadence(_),  \* the tick source of a system
  MaxBacklog,  \* bound on the time an interval may be behind
  Scenes       \* [built, calls, budget, frames, throws] of an application

VARIABLES
  scene,
  world, queue,
  routing,     \* whom direct changes are credited to
  clocks, frame, pipeline, turn,
  running,     \* the system whose turn it is drains its inbox
  at, suppressed,
  left,        \* calls the application may still make
  heard,       \* enter minus exit callbacks, of each system and entity
  paused,      \* the systems disabled or destroyed at some time
  unheard,     \* updates a system is still owed
  said,        \* the callback just made
  elapsed, phase

frameVars == <<clocks, frame, pipeline, turn, running, at, suppressed>>
vars == <<scene, world, queue, routing, frameVars, left, heard, paused, unheard, said, elapsed, phase>>

Nothing == [kind |-> "none"]

Deferred == turn # 0

Between == turn = 0

This == pipeline[turn]

Caller == IF Deferred THEN This ELSE NoSystem

\* -------------------------------------------------------------------------
\* Calls of the application.

Idle == [op |-> "idle"]
ChangeCalls(kinds) == [op : {"change"}, kind : kinds, e : Entities, c : Components]
DestroyCalls == [op : {"change"}, kind : {"destroy"}, e : Entities, c : {NoComponent}]
SystemCalls(ops, systems) == [op : ops, s : systems]
ClockCalls == [op : {"stop", "start"}, source : {s \in Sources : IsInterval(s)}]
AnyCall ==
  {Idle} \cup ChangeCalls({"add", "set", "modified", "remove"}) \cup DestroyCalls
    \cup SystemCalls({"create", "enable", "disable", "destroySystem"}, SystemNames) \cup ClockCalls

ASSUME PipelineAssumption ==
  /\ Order \in Seq(SystemNames)
  /\ \A scn \in Scenes :
       /\ scn.built \subseteq SystemNames /\ scn.calls \subseteq AnyCall /\ scn.budget \in Nat
       /\ scn.frames \subseteq Nat

Status(s) == world.systems[s].status

\* Only living entities are changed, and only components they have are marked.
MayCall(call) ==
  CASE call.op = "idle" -> TRUE
    [] call.op = "change" -> /\ call.e \notin world.destroyed
                             /\ call.kind = "modified" => call.c \in world.comps[call.e]
    [] call.op = "create" -> Status(call.s) = "absent"
    [] call.op = "destroySystem" -> Status(call.s) = "built"
    [] call.op \in {"enable", "disable"} ->
         Status(call.s) = "built" /\ world.systems[call.s].enabled = (call.op = "disable")
    [] call.op \in {"stop", "start"} -> clocks[call.source].running = (call.op = "stop")

Calls == {call \in {Idle} \cup (IF left > 0 THEN scene.calls ELSE {}) : MayCall(call)}

AsChangeUncredited(call, caller) == Change(call.kind, call.e, call.c, routing, caller)

AsChange(call, caller) ==
  Change(call.kind, call.e, call.c, IF Deferred THEN caller ELSE routing, caller)

\* The world after a call: at once, or with the change in the queue.
WorldAfter(w, call) ==
  CASE call.op = "change" ->
         LET change == AsChange(call, Caller)
         IN IF ~Marks(w, change) THEN w
            ELSE IF Deferred THEN Mark(w, change)
            ELSE Apply(Mark(w, change), change)
    [] call.op = "create" -> [w EXCEPT !.systems[call.s] = NewSystem("pending")]
    [] call.op = "disable" -> [w EXCEPT !.systems[call.s] = Disabled(@)]
    [] call.op = "enable" -> [w EXCEPT !.systems[call.s].enabled = TRUE]
    [] call.op = "destroySystem" -> [w EXCEPT !.systems[call.s] = Destroyed(@)]
    [] OTHER -> w

Enqueued(w, call) ==
  IF Deferred /\ call.op = "change" /\ Marks(w, AsChange(call, Caller))
  THEN Append(queue, AsChange(call, Caller)) ELSE queue

ClocksAfter(call) ==
  IF call.op \in {"stop", "start"}
  THEN [clocks EXCEPT ![call.source].running = (call.op = "start")] ELSE clocks

\* The updates that a call owes: to the systems that have the entity, watch the
\* component and hear of the caller, unless the component is about to go.
Owed(call) ==
  IF call.op = "change" /\ call.kind \in {"modified", "set"} /\ call.c \in world.comps[call.e]
       /\ \A i \in 1..Len(queue) : queue[i].e # call.e \/ queue[i].kind \notin {"remove", "destroy"}
  THEN {<<s, call.e, call.c>> : s \in {t \in HavingMember(world, call.e) :
          call.c \in Watches(t) /\ ~Silenced(t, Caller)}}
  ELSE {}

StillOwed(owed, w) ==
  {o \in owed : w.systems[o[1]].enabled /\ o[2] \in Members(w, o[1]) /\ o[3] \in w.comps[o[2]]}

Pays(call) == left' = IF call = Idle THEN left ELSE left - 1

Pauses(call) ==
  paused' = IF call.op \in {"disable", "destroySystem"} THEN paused \cup {call.s} ELSE paused

\* -------------------------------------------------------------------------

Init ==
  /\ scene \in Scenes
  /\ world = [comps |-> [e \in Entities |-> {}], destroyed |-> {},
              dirty |-> [e \in Entities |-> {}],
              systems |-> [s \in SystemNames |->
                             NewSystem(IF s \in scene.built THEN "built" ELSE "absent")]]
  /\ queue = <<>>
  /\ routing = NoSystem
  /\ clocks = [s \in Sources |-> NewClock]
  /\ frame = 0
  /\ pipeline = <<>>
  /\ turn = 0
  /\ running = FALSE
  /\ at = 1
  /\ suppressed = {}
  /\ left = scene.budget
  /\ heard = [s \in SystemNames |-> [e \in Entities |-> 0]]
  /\ paused = {}
  /\ unheard = {}
  /\ said = Nothing
  /\ elapsed = [s \in Sources |-> 0]
  /\ phase = [s \in Sources |-> 0]

\* The application makes a call between two frames.
Act ==
  /\ Between
  /\ \E call \in Calls \ {Idle} :
       /\ world' = WorldAfter(world, call)
       /\ clocks' = ClocksAfter(call)
       /\ unheard' = StillOwed(unheard \cup Owed(call), world')
       /\ Pays(call)
       /\ Pauses(call)
  /\ said' = Nothing
  /\ UNCHANGED <<scene, queue, routing, frame, pipeline, turn, running, at, suppressed, heard,
                 elapsed, phase>>

\* The clock at the end of the chain that leads up from s.
Top(s) ==
  LET top[r \in Sources] == IF Upstream(r) \in Sources THEN top[Upstream(r)]
                            ELSE IF IsInterval(r) THEN r ELSE FrameClock
  IN top[s]

Runs(s) == Top(s) \in Sources => clocks[Top(s)].running

\* The systems that are built, in their order.
PipelineOf(w) ==
  LET kept[i \in 0..Len(Order)] ==
        IF i = 0 THEN <<>>
        ELSE IF w.systems[Order[i]].status = "built" THEN Append(kept[i - 1], Order[i])
        ELSE kept[i - 1]
  IN kept[Len(Order)]

BeginFrame ==
  /\ Between
  /\ \E d \in scene.frames :
       /\ \A s \in Sources : IsInterval(s) => clocks[s].accumulator + d =< MaxBacklog
       /\ frame' = d
       /\ clocks' = Evaluated(clocks, d)
       /\ elapsed' = [s \in Sources |-> (IF clocks[s].ticked THEN 0 ELSE elapsed[s])
                                          + (IF Runs(s) THEN d ELSE 0)]
       /\ phase' = [s \in Sources |->
                      IF IsInterval(s) /\ Runs(s) THEN (phase[s] + d) % Every(s) ELSE phase[s]]
  /\ world' = Flushed(world, queue)
  /\ pipeline' = PipelineOf(world')
  /\ turn' = 1
  /\ said' = Nothing
  /\ UNCHANGED <<scene, queue, routing, running, at, suppressed, left, heard, paused, unheard>>

RoutingAfterLast(q) == IF q = <<>> THEN routing ELSE q[Len(q)].source

\* Who the world still credits changes to once a queue is drained.
RoutingAfter(q) == NoSystem

\* The scope of a system ends: the queue is drained and the turn passes.
EndsTurn(w, q, next) ==
  /\ world' = Flushed(w, q)
  /\ queue' = <<>>
  /\ routing' = RoutingAfter(q)
  /\ running' = FALSE
  /\ at' = 1
  /\ suppressed' = {}
  /\ turn' = next

Due(s) == DidTick(clocks, Cadence(s))

\* Nothing to drain and no callback to run.
Unoccupied(s) == world.systems[s].inbox = <<>> /\ "run" \notin Hears(s)

HasTurn == ~Between /\ turn =< Len(pipeline) /\ ~running

Skip ==
  /\ HasTurn
  /\ ~(world.systems[This].enabled /\ Due(This) /\ ~Unoccupied(This))
  /\ EndsTurn(world, queue, turn + 1)
  /\ said' = Nothing
  /\ UNCHANGED <<scene, clocks, frame, pipeline, left, heard, paused, unheard, elapsed, phase>>

Start ==
  /\ HasTurn
  /\ world.systems[This].enabled
  /\ Due(This)
  /\ ~Unoccupied(This)
  /\ running' = TRUE
  /\ said' = Nothing
  /\ UNCHANGED <<scene, world, queue, routing, clocks, frame, pipeline, turn, at, suppressed, left,
                 heard, paused, unheard, elapsed, phase>>

Inbox == world.systems[This].inbox

Draining == ~Between /\ running /\ at =< Len(Inbox)

\* What the drain does with the event: an entry that is stale is suppressed, its
\* exit with it, and a stale update is dropped.
Suppresses(event) == event.kind = "enter" /\ Stale(world, This, event)
Pairs(event) == event.kind = "exit" /\ event.e \in suppressed
Drops(event) == event.kind = "update" /\ Stale(world, This, event)
CallsBack(event) == ~Suppresses(event) /\ ~Pairs(event) /\ ~Drops(event)

PassOver ==
  /\ Draining
  /\ ~CallsBack(Inbox[at])
  /\ suppressed' = CASE Suppresses(Inbox[at]) -> suppressed \cup {Inbox[at].e}
                     [] Pairs(Inbox[at]) -> suppressed \ {Inbox[at].e}
                     [] OTHER -> suppressed
  /\ at' = at + 1
  /\ said' = Nothing
  /\ UNCHANGED <<scene, world, queue, routing, clocks, frame, pipeline, turn, running, left, heard,
                 paused, unheard, elapsed, phase>>

Counted(event) ==
  CASE event.kind = "enter" -> 1
    [] event.kind = "exit" -> -1
    [] OTHER -> 0

\* The callback of an event, and what it asks for.
Dispatch ==
  /\ Draining
  /\ CallsBack(Inbox[at])
  /\ heard' = IF This \in paused THEN heard
              ELSE [heard EXCEPT ![This][Inbox[at].e] = @ + Counted(Inbox[at])]
  /\ said' = [kind |-> Inbox[at].kind, s |-> This, e |-> Inbox[at].e, by |-> Inbox[at].by,
              member |-> Inbox[at].e \in Members(world, This),
              enabled |-> world.systems[This].enabled]
  /\ at' = at + 1
  /\ \E call \in Calls :
       /\ world' = WorldAfter(world, call)
       /\ queue' = Enqueued(world, call)
       /\ clocks' = ClocksAfter(call)
       /\ unheard' = StillOwed((unheard \ {<<This, Inbox[at].e, Inbox[at].c>>}) \cup Owed(call), world')
       /\ Pays(call)
       /\ Pauses(call)
  /\ UNCHANGED <<scene, routing, frame, pipeline, turn, running, suppressed, elapsed, phase>>

\* The inbox is replayed: it is emptied, the run callback is called, and the
\* queue drained.  When the callback throws, the frame ends with it.
Finish ==
  /\ ~Between
  /\ running
  /\ at > Len(Inbox)
  /\ LET emptied == [world EXCEPT !.systems[This] = Drained(@)]
     IN \E call \in (IF "run" \in Hears(This) THEN Calls ELSE {Idle}) :
          /\ \/ EndsTurn(WorldAfter(emptied, call), Enqueued(emptied, call), turn + 1)
             \/ /\ "run" \in Hears(This) /\ scene.throws
                /\ EndsTurn(WorldAfter(emptied, call), Enqueued(emptied, call), 0)
          /\ clocks' = ClocksAfter(call)
          /\ unheard' = StillOwed(unheard \cup Owed(call), world')
          /\ Pays(call)
          /\ Pauses(call)
  /\ said' = Nothing
  /\ UNCHANGED <<scene, frame, pipeline, heard, elapsed, phase>>

EndFrame ==
  /\ turn > Len(pipeline)
  /\ turn' = 0
  /\ said' = Nothing
  /\ UNCHANGED <<scene, world, queue, routing, clocks, frame, pipeline, running, at, suppressed,
                 left, heard, paused, unheard, elapsed, phase>>

Next == Act \/ BeginFrame \/ Skip \/ Start \/ PassOver \/ Dispatch \/ Finish \/ EndFrame

Spec == Init /\ [][Next]_vars

\* -------------------------------------------------------------------------

\* Types: the inboxes hold events the system has a callback for.
TypeOK ==
  /\ \A e \in Entities : world.comps[e] \subseteq Components /\ world.dirty[e] \subseteq Components
  /\ \A s \in SystemNames :
       \A i \in 1..Len(world.systems[s].inbox) :
         LET event == world.systems[s].inbox[i]
         IN \/ event.kind = "update" /\ event.c \in Watches(s)
            \/ event.kind \in Hears(s)
  /\ turn \in 0..(Len(pipeline) + 1)
  /\ running => This \in SystemNames
  /\ suppressed \subseteq Entities
  /\ left \in 0..scene.budget
  /\ routing \in SystemNames \cup {NoSystem}

Listens(s) == {"enter", "exit"} \subseteq Hears(s) /\ s \notin paused

\* The callbacks of a system that is never disabled alternate for each entity:
\* an enter, then an exit, then an enter (the suppression of stale entries with
\* their exits, system.ts _runDeferred).
EntersAlternate ==
  \A s \in SystemNames : Listens(s) => \A e \in Entities : heard[s][e] \in 0..1

\* When a system has drained its inbox, the entities that entered and did not
\* exit, by its callbacks, are its members.
HeardIsMembership ==
  \A s \in SystemNames :
    (Listens(s) /\ world.systems[s].inbox = <<>>) =>
      {e \in Entities : heard[s][e] = 1} = Members(world, s)

\* An update callback gets only entities that are members, so the components
\* its injection promises are there.
UpdatesReachMembers == said.kind \in {"update", "enter"} => said.member

\* A write is heard: once a system has nothing left to drain, it has been called
\* for each write of a component it watches, by a caller it listens to, on an
\* entity it still has.
WritesAreHeard ==
  queue = <<>> =>
    \A o \in unheard : world.systems[o[1]].inbox # <<>>

\* No system hears of an update made by one it ignores.
NoEcho == said.kind = "update" => said.by \notin Ignores(said.s)

\* A component is marked dirty only while a notification for it is queued: a
\* mark that stayed would swallow every later one.
DirtyIsQueued ==
  \A e \in Entities \ world.destroyed : \A c \in world.dirty[e] :
    \E i \in 1..Len(queue) : queue[i].kind = "modified" /\ queue[i].e = e /\ queue[i].c = c

\* A disabled system hears of nothing, even when its own callback disabled it.
DisabledIsSilent == said # Nothing => said.enabled

\* The delta a source hands out is all the time that passed since it last ticked,
\* whatever the rates between it and the frames, and whoever evaluates it first.
DeltaIsElapsed ==
  ~Between => \A s \in Sources : clocks[s].ticked => clocks[s].delta = elapsed[s]

\* An interval ticks on multiples of its interval: what it carries over is the
\* time that runs past the last one, and no part of it is lost.
NoDrift ==
  \A s \in Sources : IsInterval(s) => clocks[s].accumulator % Every(s) = phase[s]

\* What a system hears, in whatever order it is told and changed, is a history
\* of its members: and only of them, and only while it is enabled.
HeardAgrees ==
  TypeOK /\ EntersAlternate /\ HeardIsMembership /\ UpdatesReachMembers /\ DisabledIsSilent

\* No write is swallowed: by a mark that stays behind, by the change of systems
\* in the middle of a frame, or by the entity's leaving and coming back.
NoWriteIsLost == WritesAreHeard /\ DirtyIsQueued

\* The clocks account for all the time that passed.
ClocksAgree == DeltaIsElapsed /\ NoDrift
===============================================================================

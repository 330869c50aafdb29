-------------------------------- MODULE Physics --------------------------------
(***************************************************************************)
(* A world with the physics module: entities with Body, geometry, joint    *)
(* and opt-in components, the inboxes of the physics systems, and the      *)
(* phases of an update.  User systems act in the three windows the phases  *)
(* leave open: before preStep ("update"), between preStep and cleanup      *)
(* ("late"), and between step and postStep ("post").  A user's call takes  *)
(* effect at once, with every query exit it causes; the physics systems    *)
(* hear of it when they next drain their inboxes.                          *)
(***************************************************************************)
EXTENDS Naturals, Sequences, FiniteSets, SequencesExt, TLC

CONSTANTS Bodies, Singles, Chains, Joints, None,
    Dynamic,            \* the bodies Box2D moves on its own
    Liberties,          \* what user code is not held back from (see Held)
    Scenes, MaxTicks

VARIABLES x, engine, inbox, left, phase, tick, scene

E == INSTANCE PhysicsEngine

Shapes   == Singles \cup Chains
Entities == Bodies \cup Shapes \cup Joints
NoInst   == <<>>

(***************************************************************************)
(* The systems of the preStep phase and their members: a geometry counts   *)
(* while its parent has a Body, a joint while both its ends have one.      *)
(***************************************************************************)
Order == <<"body", "shape", "moved", "chain", "chainMoved", "joint", "retarget", "motor",
           "material", "sensor", "chainSensor", "placed", "pose">>
Systems == {Order[i] : i \in DOMAIN Order}
Entering == {"body", "shape", "chain", "joint", "sensor", "chainSensor"}
OnEnter  == {"motor", "placed", "pose"}
Exiting  == {"motor", "chainSensor"}

HasBody(y, b) == IF b = None THEN FALSE ELSE y.body[b] # NoInst
Members(y) ==
    LET held   == {s \in Shapes : y.geom[s] # NoInst /\ HasBody(y, y.parent[s])}
        joined == {j \in Joints : /\ y.joint[j] # NoInst
                                  /\ HasBody(y, y.ends[j][1]) /\ HasBody(y, y.ends[j][2])}
        senses == {s \in Shapes : y.geom[s] # NoInst /\ "sensor" \in y.opts[s]}
        bodies == {b \in Bodies : y.body[b] # NoInst}
    IN [body |-> bodies, pose |-> bodies,
        shape |-> held \cap Singles, moved |-> held \cap Singles,
        chain |-> held \cap Chains, chainMoved |-> held \cap Chains,
        joint |-> joined, retarget |-> joined, motor |-> {j \in joined : y.motor[j]},
        material |-> {s \in held : "marker" \in y.opts[s]}, placed |-> {s \in held : "placed" \in y.opts[s]},
        sensor |-> senses \cap Singles, chainSensor |-> senses \cap held \cap Chains]

\* The component an event of a system carries, and the bodies injected beside it.
Carried(y, e) == IF e \in Bodies THEN y.body[e] ELSE IF e \in Shapes THEN y.geom[e] ELSE y.joint[e]
Beside(y, e)  ==
    IF e \in Shapes THEN <<E!BodyInst(y, y.parent[e])>>
    ELSE IF e \in Joints THEN <<E!BodyInst(y, y.ends[e][1]), E!BodyInst(y, y.ends[e][2])>>
    ELSE <<>>
Event(kind, y, e) == [kind |-> kind, e |-> e, inst |-> Carried(y, e), beside |-> Beside(y, e)]
Listed(S) == SetToSeq(S)

(***************************************************************************)
(* One structural change, from y to z: the teardown queries run at once,   *)
(* the systems' inboxes fill.  A destroyed entity's components can still   *)
(* be read while it exits, a removed component cannot.                     *)
(***************************************************************************)
Gone(y, z, s)     == Members(y)[s] \ Members(z)[s]
Arrived(y, z, s)  == Members(z)[s] \ Members(y)[s]
Readable(y, z, e) == IF e \in z.alive THEN Carried(z, e) ELSE Carried(y, e)

TearDown(y, z, w) ==
    LET body(v, b)   == E!DropBody(v, y.body[b])
        shape(v, s)  == E!DestroyGeometry(v, z, s, y.geom[s], Readable(y, z, s), y.parent[s], TRUE)
        joint(v, j)  == E!DestroyJoint(v, y.joint[j], Readable(y, z, j), TRUE)
        sensor(v, s) == E!SetEventFlag(v, y.geom[s], "senses", FALSE)
        first  == FoldLeft(sensor, w, Listed(Gone(y, z, "sensor")))
        second == FoldLeft(body, first, Listed(Gone(y, z, "body")))
        third  == FoldLeft(shape, second, Listed(Gone(y, z, "shape") \cup Gone(y, z, "chain")))
    IN FoldLeft(joint, third, Listed(Gone(y, z, "joint")))

Heard(y, z, s, box) ==
    box \o (IF s \in Exiting THEN [i \in 1..Cardinality(Gone(y, z, s)) |->
                                      Event("exit", y, Listed(Gone(y, z, s))[i])] ELSE <<>>)
        \o (IF s \in Entering \cup OnEnter THEN [i \in 1..Cardinality(Arrived(y, z, s)) |->
                Event(IF s \in Entering THEN "enter" ELSE "update", z, Listed(Arrived(y, z, s))[i])]
            ELSE <<>>)

(***************************************************************************)
(* What user code is held back from unless Liberties says otherwise: an    *)
(* entity coming back to a lifecycle system that still has an event of it. *)
(***************************************************************************)
Lifecycle == {"body", "shape", "chain", "joint"}
Held(y, z) ==
    "returns" \notin Liberties =>
        \A s \in Lifecycle : \A e \in Arrived(y, z, s) :
            \A i \in DOMAIN inbox[s] : inbox[s][i].e # e

\* A user's call: `x` becomes y, the engine w1 after its hooks, and `updates`
\* <<system, entity>> are routed to the systems the entity is in afterwards.
Routed(box, y, updates) ==
    [s \in Systems |-> IF \E e \in Entities : <<s, e>> \in updates /\ e \in Members(y)[s]
        THEN Append(box[s], Event("update", y,
                 CHOOSE e \in Entities : <<s, e>> \in updates /\ e \in Members(y)[s]))
        ELSE box[s]]
Change(y, w, updates) ==
    /\ Held(x, y)
    /\ x' = y
    /\ engine' = TearDown(x, y, w)
    /\ inbox' = Routed([s \in Systems |-> Heard(x, y, s, inbox[s])], y, updates)
    /\ left' = left \cup {s \in Systems : Gone(x, y, s) # {}}
    /\ scene' = [scene EXCEPT !.calls = @ - 1]
    /\ UNCHANGED <<phase, tick>>

May(op) == /\ phase \in {"update", "late", "post"} /\ scene.calls > 0
           /\ op \in scene.ops /\ tick < MaxTicks
NextInst(e) == <<e, x.made[e] + 1>>
Fits(s)     == 0..(IF s \in Singles THEN 1 ELSE 2)

(***************************************************************************)
(* User calls.                                                             *)
(***************************************************************************)
AddBody(b) ==
    /\ May("body") /\ b \in x.alive /\ x.body[b] = NoInst /\ x.made[b] < 2
    /\ Change([x EXCEPT !.body[b] = NextInst(b), !.made[b] = @ + 1], engine, {})

RemoveBody(b) ==
    /\ May("body") /\ x.body[b] # NoInst
    /\ Change([x EXCEPT !.body[b] = NoInst], engine, {})

\* Children and the joints attached to an entity are destroyed with it.
Destroyed(e) ==
    {e} \cup {s \in Shapes : x.parent[s] = e} \cup {j \in Joints : e \in {x.ends[j][1], x.ends[j][2]}}
Bare(y, doomed) ==
    [y EXCEPT !.alive = @ \ doomed,
        !.body = [b \in Bodies |-> IF b \in doomed THEN NoInst ELSE @[b]],
        !.geom = [s \in Shapes |-> IF s \in doomed THEN NoInst ELSE @[s]],
        !.opts = [s \in Shapes |-> IF s \in doomed THEN {} ELSE @[s]],
        !.joint = [j \in Joints |-> IF j \in doomed THEN NoInst ELSE @[j]],
        !.motor = [j \in Joints |-> @[j] /\ j \notin doomed]]
Quiet(w, gone) ==
    [w EXCEPT !.events = [t \in E!Topics |-> [e \in Shapes |->
        IF e \in gone THEN E!NoEvents ELSE @[t][e]]]]
\* The remove hook of ContactEvents acts while the geometry can still be read.
Unflagged(w, doomed) ==
    LET off(v, s) == IF s \in Singles /\ "contact" \in x.opts[s]
                     THEN E!SetEventFlag(v, x.geom[s], "contact", FALSE) ELSE v
    IN FoldLeft(off, w, Listed(doomed))
Destroy(e) ==
    /\ May("destroy") /\ e \in x.alive
    /\ Change(Bare(x, Destroyed(e)), Quiet(Unflagged(engine, Destroyed(e)), Destroyed(e)), {})

\* A geometry component evicts the one that is there first: a RemoveGeom.
AddGeom(s, n) ==
    /\ May("geom") /\ s \in x.alive /\ x.geom[s] = NoInst /\ x.made[s] < 3
    /\ LET inst == NextInst(s)
       IN Change([x EXCEPT !.geom[s] = inst, !.made[s] = @ + 1],
                 [engine EXCEPT !.fit = (inst :> n) @@ @], {})
RemoveGeom(s) ==
    /\ May("geom") /\ x.geom[s] # NoInst
    /\ Change([x EXCEPT !.geom[s] = NoInst], engine, {})

\* New values in the fields of a geometry; "shrinks" frees fewer slots than
\* it takes back, and is one of the liberties.
ModifyGeom(s, n) ==
    /\ May("modify") /\ x.geom[s] # NoInst
    /\ "shrinks" \notin Liberties => n >= engine.fit[x.geom[s]]
    /\ Change(x, [engine EXCEPT !.fit[x.geom[s]] = n],
              {<<IF s \in Singles THEN "shape" ELSE "chain", s>>})

\* Until the next preStep the shape stays on the old body, which must not be
\* reaped before: moving a shape in the late window is a liberty.
Reparent(s, b) ==
    /\ May("reparent") /\ ("moves" \notin Liberties => phase # "late") /\ s \in x.alive /\ b \in x.alive
    /\ x.parent[s] # b
    /\ Change([x EXCEPT !.parent[s] = b], engine,
              {<<IF s \in Singles THEN "moved" ELSE "chainMoved", s>>})

\* The hooks of ContactEvents set the flag of the shape at once.
ToggleContact(s) ==
    /\ May("contact") /\ s \in x.alive
    /\ LET on == "contact" \notin x.opts[s]
           y  == [x EXCEPT !.opts[s] = IF on THEN @ \cup {"contact"} ELSE @ \ {"contact"}]
           w  == IF s \in Singles THEN E!SetEventFlag(engine, x.geom[s], "contact", on) ELSE engine
       IN Change(y, [w EXCEPT !.events["contact"][s] = E!NoEvents], {})

ToggleSensor(s) ==
    /\ May("sensor") /\ s \in x.alive
    /\ LET on == "sensor" \notin x.opts[s]
       IN Change([x EXCEPT !.opts[s] = IF on THEN @ \cup {"sensor"} ELSE @ \ {"sensor"}],
                 [engine EXCEPT !.events["sensor"][s] = E!NoEvents], {})

\* A component the shape was created with (its pose, Material, ...) changes.
Refit(s, system) ==
    /\ May(system) /\ s \in Members(x)[system]
    /\ Change(x, engine, {<<system, s>>})

AddJoint(j) ==
    /\ May("joint") /\ j \in x.alive /\ x.joint[j] = NoInst /\ x.made[j] < 2
    /\ Change([x EXCEPT !.joint[j] = NextInst(j), !.made[j] = @ + 1], engine, {})
RemoveJoint(j) ==
    /\ May("joint") /\ x.joint[j] # NoInst
    /\ Change([x EXCEPT !.joint[j] = NoInst], engine, {})
Retarget(j, b) ==
    /\ May("retarget") /\ j \in x.alive /\ b \in x.alive \ {x.ends[j][1], x.ends[j][2]}
    /\ Change([x EXCEPT !.ends[j][2] = b], engine, {<<"retarget", j>>})
ToggleMotor(j) ==
    /\ May("motor") /\ j \in x.alive
    /\ Change([x EXCEPT !.motor[j] = ~@], engine, {})

Teleport(b, p) ==
    /\ May("teleport") /\ b \in x.alive /\ x.pos[b] # p
    /\ Change([x EXCEPT !.pos[b] = p], engine, {<<"pose", b>>})

\* The set hook of Impulse; after the drain of this update is a liberty.
Impulse(e) ==
    /\ May("impulse") /\ e \in x.alive
    /\ "impulses" \notin Liberties => phase = "update"
    /\ Change(x, E!Accumulate(engine, x, e), {})

(***************************************************************************)
(* PreStep.  A system drains its inbox in order; an enter or an update of  *)
(* an entity that has left is skipped when anything left since the last    *)
(* drain, and the exit that follows a skipped enter with it.               *)
(***************************************************************************)
Entered(s, ev, w) ==
    CASE s = "body"  -> E!CreateBody(w, x, ev.e, ev.inst)
      [] s \in {"shape", "chain"} -> E!CreateGeometry(w, x, ev.e, ev.inst, ev.beside[1])
      [] s = "joint" -> E!CreateJoint(w, x, ev.e, ev.inst, ev.beside[1], ev.beside[2])
      [] s = "sensor" -> E!SetEventFlag(w, ev.inst, "senses", TRUE)
      [] s = "chainSensor" -> E!Recreate(w, x, ev.e, ev.inst)
Updated(s, ev, w) ==
    CASE s \in {"shape", "chain"} -> E!Recreate(w, x, ev.e, ev.inst)
      [] s \in {"moved", "chainMoved", "material", "placed"} -> E!Recreate(w, x, ev.e, x.geom[ev.e])
      [] s = "retarget" -> E!RecreateJoint(w, x, ev.e, x.joint[ev.e])
      [] s = "motor"    -> E!WithLiveJoint(w, x.joint[ev.e], TRUE)
      [] s = "pose"     -> E!PoseIn(w, x, ev.e)
Exited(s, ev, w) ==
    IF s = "motor" THEN E!WithLiveJoint(w, ev.inst, FALSE)
    ELSE IF x.geom[ev.e] = NoInst THEN w ELSE E!Recreate(w, x, ev.e, x.geom[ev.e])

Handled(s, acc, ev) ==
    LET absent == s \in left /\ ev.e \notin Members(x)[s]
    IN CASE ev.kind = "enter" ->
                IF absent THEN [acc EXCEPT !.skipped = @ \cup {ev.e}]
                ELSE [acc EXCEPT !.w = Entered(s, ev, @)]
         [] ev.kind = "update" -> IF absent THEN acc ELSE [acc EXCEPT !.w = Updated(s, ev, @)]
         [] ev.kind = "exit" ->
                IF ev.e \in acc.skipped THEN [acc EXCEPT !.skipped = @ \ {ev.e}]
                ELSE [acc EXCEPT !.w = Exited(s, ev, @)]
Drained(w, s) ==
    LET handle(acc, ev) == Handled(s, acc, ev)
    IN FoldLeft(handle, [w |-> w, skipped |-> {}], inbox[s]).w

PreStep ==
    /\ phase = "update" /\ tick < MaxTicks
    /\ engine' = E!DrainImpulses(FoldLeft(Drained, engine, Order))
    /\ inbox' = [s \in Systems |-> <<>>] /\ left' = {}
    /\ phase' = "late"
    /\ UNCHANGED <<x, tick, scene>>

Cleanup ==
    /\ phase = "late"
    /\ engine' = E!RecomputeMass(E!Reap(engine), x)
    /\ phase' = "clean"
    /\ UNCHANGED <<x, inbox, left, tick, scene>>

Step ==
    /\ phase = "clean"
    /\ \E moving \in SUBSET {o.id : o \in {o \in engine.b2.body : o.owner \in Dynamic}},
          place \in scene.places,
          meets \in {{}} \cup {{p} : p \in E!Meetings(engine.b2)},
          parts \in {{}} \cup {{p} : p \in engine.b2.touching} :
            engine' = [engine EXCEPT !.b2 = E!Step(@, moving, place, meets, parts)]
    /\ phase' = "post"
    /\ UNCHANGED <<x, inbox, left, tick, scene>>

\* Poses out (silent to pose-in), events, then the next update begins.
PostStep ==
    /\ phase = "post"
    /\ x' = [x EXCEPT !.pos = E!PosesOut(engine, x, Dynamic)]
    /\ engine' = E!PublishEvents(E!ReportPoses(engine, x, Dynamic), x)
    /\ phase' = "update" /\ tick' = tick + 1
    /\ UNCHANGED <<inbox, left, scene>>

Blank ==
    [alive |-> Entities, body |-> [b \in Bodies |-> NoInst], geom |-> [s \in Shapes |-> NoInst],
     parent |-> [s \in Shapes |-> None], opts |-> [s \in Shapes |-> {}],
     joint |-> [j \in Joints |-> NoInst], ends |-> [j \in Joints |-> <<None, None>>],
     motor |-> [j \in Joints |-> FALSE], pos |-> [b \in Bodies |-> 0],
     made |-> [e \in Entities |-> 1]]

\* A scene starts with the components its entities were spawned with, all of
\* them still to be heard of by the systems.
Init ==
    /\ \E s \in Scenes :
         /\ scene = [ops |-> s.ops, calls |-> s.calls, places |-> s.places]
         /\ x = s.start
    /\ engine = [E!NewEngine EXCEPT !.fit = [i \in {x.geom[s] : s \in Shapes} \ {NoInst} |-> 1]]
    /\ inbox = [s \in Systems |-> Heard([Blank EXCEPT !.opts = x.opts], x, s, <<>>)]
    /\ left = {} /\ phase = "update" /\ tick = 0

Next ==
    \/ PreStep \/ Cleanup \/ Step \/ PostStep
    \/ \E b \in Bodies :
         \/ AddBody(b) \/ RemoveBody(b)
         \/ \E p \in scene.places : Teleport(b, p)
         \/ \E s \in Shapes : Reparent(s, b)
         \/ \E j \in Joints : Retarget(j, b)
    \/ \E e \in Entities : Destroy(e)
    \/ \E e \in Bodies \cup Singles : Impulse(e)
    \/ \E s \in Shapes :
         \/ \E n \in Fits(s) : AddGeom(s, n) \/ ModifyGeom(s, n)
         \/ RemoveGeom(s) \/ ToggleContact(s) \/ ToggleSensor(s)
         \/ \E system \in {"material", "placed"} : Refit(s, system)
    \/ \E j \in Joints : AddJoint(j) \/ RemoveJoint(j) \/ ToggleMotor(j)

vars == <<x, engine, inbox, left, phase, tick, scene>>
Spec == Init /\ [][Next]_vars
=============================================================================

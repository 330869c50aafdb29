----------------------------- MODULE PhysicsEngine -----------------------------
(***************************************************************************)
(* The engine of vecs-physics: what its handlers do to the Box2D world and *)
(* to the tables beside it.  `w` is a PhysicsEngine: the Box2D world, the  *)
(* handles kept on component instances, the reverse maps from Box2D slots  *)
(* to entities, what waits for the reaper, and the buffers of an update.   *)
(* An instance <<e, n>> is the n-th component object entity e was given;   *)
(* `x` is the state of the entities (Physics.tla), `fit` the number of     *)
(* Box2D shapes the fields of a geometry make (0: not a valid geometry).   *)
(***************************************************************************)
EXTENDS Naturals, Sequences, FiniteSets, SequencesExt, TLC

CONSTANTS Bodies, Singles, Chains, Joints, None

-----------------------------------------------------------------------------
(***************************************************************************)
(* The Box2D world as vecs-physics uses it.  Objects of each kind live in  *)
(* slots; an id is <<slot, generation>>, a freed slot is the first to be   *)
(* taken again and its generation has moved on.  A call that names an id   *)
(* no object has is undefined behaviour: `stale` remembers that one was    *)
(* made.  Every object also carries the entity it was made for (`owner`),  *)
(* which Box2D does not know: the properties compare against it.           *)
(***************************************************************************)
Kinds == {"body", "shape", "chain", "joint"}
NoId  == <<0, 0>>

Empty ==
    [body |-> {}, shape |-> {}, chain |-> {}, joint |-> {},
     free |-> [k \in Kinds |-> <<>>], gen |-> [k \in Kinds |-> <<>>],
     touching |-> {}, ending |-> {}, began |-> {}, ended |-> {}, moved |-> {},
     pushed |-> {}, stale |-> FALSE]

Live(b, k, id)   == \E o \in b[k] : o.id = id
Object(b, k, id) == CHOOSE o \in b[k] : o.id = id
Misused(b)       == [b EXCEPT !.stale = TRUE]

\* The id the next object of a kind gets.
NextId(b, k) ==
    IF b.free[k] = <<>> THEN <<Len(b.gen[k]) + 1, 0>>
    ELSE LET slot == Last(b.free[k]) IN <<slot, b.gen[k][slot]>>

Create(b, k, object) ==
    [b EXCEPT ![k] = @ \cup {object},
              !.free[k] = IF @ = <<>> THEN @ ELSE Front(@),
              !.gen[k] = IF b.free[k] = <<>> THEN Append(@, 0) ELSE @]

Release(b, k, id) ==
    [b EXCEPT ![k] = {o \in @ : o.id # id},
              !.free[k] = Append(@, id[1]), !.gen[k][id[1]] = @ + 1]

Each(Op(_, _), b, ids) == FoldLeft(Op, b, SetToSortSeq(ids, LAMBDA p, q : p[1] < q[1]))
Ids(objects) == {o.id : o \in objects}

(***************************************************************************)
(* A shape that goes while it touches another leaves an end event for the  *)
(* next step.  A body takes its joints, shapes and chains along.           *)
(***************************************************************************)
FreeShape(b, id) ==
    LET gone == {p \in b.touching : id \in {p.a, p.b}}
    IN Release([b EXCEPT !.touching = @ \ gone, !.ending = @ \cup {p \in gone : p.told}], "shape", id)
FreeJoint(b, id) == Release(b, "joint", id)
FreeChain(b, id) ==
    Release(Each(FreeShape, b, Ids({s \in b.shape : s.chain = id})), "chain", id)
FreeBody(b, id) ==
    LET noJoints == Each(FreeJoint, b, Ids({j \in b.joint : id \in {j.a, j.b}}))
        noShapes == Each(FreeShape, noJoints, Ids({s \in b.shape : s.body = id}))
        release(c, chain) == Release(c, "chain", chain)
    IN Release(Each(release, noShapes, Ids({c \in b.chain : c.body = id})), "body", id)

Destroy(b, k, id) ==
    IF ~Live(b, k, id) THEN Misused(b)
    ELSE CASE k = "body"  -> FreeBody(b, id)
           [] k = "shape" -> FreeShape(b, id)
           [] k = "chain" -> FreeChain(b, id)
           [] k = "joint" -> FreeJoint(b, id)

\* A setter: the object `id` with one of its fields changed.
Set(b, k, id, field, value) ==
    IF ~Live(b, k, id) THEN Misused(b)
    ELSE [b EXCEPT ![k] = {IF o.id = id THEN [o EXCEPT ![field] = value] ELSE o : o \in @}]

Push(b, id, meant) ==
    IF ~Live(b, "body", id) THEN Misused(b)
    ELSE [b EXCEPT !.pushed = @ \cup {<<Object(b, "body", id).owner, meant>>}]

(***************************************************************************)
(* What two shapes of different bodies can be to each other: a contact, of *)
(* which an event tells when either asked for contact events, or a visit   *)
(* of a sensor, which exists when both take part in sensor events.         *)
(***************************************************************************)
Pair(kind, s, t, told) ==
    [kind |-> kind, a |-> s.id, b |-> t.id, told |-> told, ea |-> s.owner, eb |-> t.owner]
Contacts(b) ==
    {Pair("contact", s, t, s.contact \/ t.contact) : <<s, t>> \in
        {p \in b.shape \X b.shape : /\ p[1].body # p[2].body /\ p[1].id[1] < p[2].id[1]
                                    /\ ~p[1].sensor /\ ~p[2].sensor}}
Visits(b) ==
    {Pair("sensor", s, t, TRUE) : <<s, t>> \in
        {p \in b.shape \X b.shape : /\ p[1].body # p[2].body /\ p[1].sensor /\ ~p[2].sensor
                                    /\ p[1].senses /\ p[2].senses}}
Same(p, q)  == p.kind = q.kind /\ p.a = q.a /\ p.b = q.b
Meetings(b) == {p \in Contacts(b) \cup Visits(b) : ~\E q \in b.touching : Same(p, q)}

\* One step: some bodies move to `place`, one pair may meet, one may part.
Step(b, moving, place, meets, parts) ==
    [b EXCEPT !.touching = (@ \ parts) \cup meets,
              !.began = {p \in meets : p.told},
              !.ended = b.ending \cup {p \in parts : p.told},
              !.ending = {}, !.moved = moving, !.pushed = {},
              !.body = {IF o.id \in moving THEN [o EXCEPT !.pos = place] ELSE o : o \in @}]

-----------------------------------------------------------------------------
NoInst   == <<>>
Waiting  == {"shape", "chain", "body", "joint"}
NoEvents == [begin |-> {}, end |-> {}]
Topics   == {"contact", "sensor"}

NewEngine ==
    [b2 |-> Empty, handle |-> <<>>, segs |-> <<>>, fit |-> <<>>,
     shapeOwner |-> <<>>, bodyOwner |-> <<>>,
     pending |-> [k \in Waiting |-> <<>>], dirty |-> {},
     impulses |-> {}, poses |-> {}, reported |-> {},
     events |-> [t \in Topics |-> [e \in Singles \cup Chains |-> NoEvents]],
     touched |-> [t \in Topics |-> {}]]

Without(f, keys)    == [k \in DOMAIN f \ keys |-> f[k]]
At(f, key, default) == IF key \in DOMAIN f THEN f[key] ELSE default
Handle(w, inst)     == At(w.handle, inst, NoId)
BodyInst(x, b)      == IF b = None THEN NoInst ELSE x.body[b]

(***************************************************************************)
(* Bodies.                                                                 *)
(***************************************************************************)
CreateBody(w, x, b, inst) ==
    LET id == NextId(w.b2, "body")
    IN [w EXCEPT !.b2 = Create(@, "body", [id |-> id, owner |-> b, pos |-> x.pos[b]]),
                 !.handle = (inst :> id) @@ @,
                 !.bodyOwner = (id[1] :> b) @@ @]

\* The teardown query: only enqueues, and clears the handle of the instance.
DropBody(w, inst) ==
    IF Handle(w, inst) = NoId THEN w
    ELSE [w EXCEPT !.pending.body = Append(@, Handle(w, inst)),
                   !.handle = Without(@, {inst})]

MarkMassDirty(w, x, b) ==
    IF b # None /\ Handle(w, BodyInst(x, b)) # NoId THEN [w EXCEPT !.dirty = @ \cup {b}] ELSE w

(***************************************************************************)
(* Shapes of one geometry.  `inst` is the geometry the caller passes,      *)
(* `current` the one the entity carries when the call is made: the handle  *)
(* that is cleared is the latter's.                                        *)
(***************************************************************************)
ShapeObject(x, id, s, bodyId, chain) ==
    [id |-> id, owner |-> s, body |-> bodyId, chain |-> chain,
     contact |-> "contact" \in x.opts[s] /\ chain = NoId,
     senses |-> "sensor" \in x.opts[s], sensor |-> "marker" \in x.opts[s] /\ chain = NoId]

CreateShape(w, x, s, inst, bodyInst) ==
    LET bodyId == Handle(w, bodyInst)
        id     == NextId(w.b2, "shape")
    IN IF x.parent[s] = None \/ bodyId = NoId \/ inst = NoInst \/ At(w.fit, inst, 0) = 0 THEN w
       ELSE IF ~Live(w.b2, "body", bodyId) THEN [w EXCEPT !.b2 = Misused(@)]
       ELSE [w EXCEPT !.b2 = Create(@, "shape", ShapeObject(x, id, s, bodyId, NoId)),
                      !.handle = (inst :> id) @@ @,
                      !.shapeOwner = (id[1] :> s) @@ @,
                      !.dirty = @ \cup {x.parent[s]}]

DestroyShape(w, x, inst, current, parent, deferred) ==
    LET id   == Handle(w, inst)
        gone == IF deferred THEN [w EXCEPT !.pending.shape = Append(@, id)]
                ELSE [w EXCEPT !.b2 = Destroy(@, "shape", id), !.shapeOwner = Without(@, {id[1]})]
    IN IF id = NoId THEN w
       ELSE [MarkMassDirty(gone, x, parent) EXCEPT !.handle = Without(@, {current})]

(***************************************************************************)
(* Chains: one Box2D chain and its segments, each with a slot of its own.  *)
(***************************************************************************)
AddSegment(x, s, inst, chain, bodyId, w) ==
    LET id == NextId(w.b2, "shape")
    IN [w EXCEPT !.b2 = Create(@, "shape", ShapeObject(x, id, s, bodyId, chain)),
                 !.shapeOwner = (id[1] :> s) @@ @,
                 !.segs = (inst :> Append(At(@, inst, <<>>), id[1])) @@ @]

CreateChain(w, x, s, inst, bodyInst) ==
    LET bodyId == Handle(w, bodyInst)
        id     == NextId(w.b2, "chain")
        made   == [w EXCEPT !.b2 = Create(@, "chain", [id |-> id, owner |-> s, body |-> bodyId]),
                            !.handle = (inst :> id) @@ @]
        segment(v, k) == AddSegment(x, s, inst, id, bodyId, v)
    IN IF x.parent[s] = None \/ bodyId = NoId \/ inst = NoInst \/ At(w.fit, inst, 0) = 0 THEN w
       ELSE IF ~Live(w.b2, "body", bodyId) THEN [w EXCEPT !.b2 = Misused(@)]
       ELSE MarkMassDirty(FoldLeft(segment, made, [k \in 1..w.fit[inst] |-> k]), x, x.parent[s])

DestroyChain(w, x, inst, current, parent, deferred) ==
    LET id       == Handle(w, inst)
        unmapped == [w EXCEPT !.shapeOwner = Without(@, Range(At(w.segs, inst, <<>>))),
                              !.segs = Without(@, {inst})]
        gone     == IF deferred THEN [unmapped EXCEPT !.pending.chain = Append(@, id)]
                    ELSE [unmapped EXCEPT !.b2 = Destroy(@, "chain", id)]
    IN IF id = NoId THEN unmapped
       ELSE [MarkMassDirty(gone, x, parent) EXCEPT !.handle = Without(@, {current})]

DestroyGeometry(w, x, s, inst, current, parent, deferred) ==
    IF s \in Singles THEN DestroyShape(w, x, inst, current, parent, deferred)
    ELSE DestroyChain(w, x, inst, current, parent, deferred)
CreateGeometry(w, x, s, inst, bodyInst) ==
    IF s \in Singles THEN CreateShape(w, x, s, inst, bodyInst)
    ELSE CreateChain(w, x, s, inst, bodyInst)
RecreateSingleShape(w, x, s, inst) ==
    CreateShape(DestroyShape(w, x, inst, x.geom[s], x.parent[s], FALSE), x, s, inst,
                BodyInst(x, x.parent[s]))
RecreateChain(w, x, s, inst) ==
    CreateChain(DestroyChain(w, x, inst, x.geom[s], x.parent[s], FALSE), x, s, inst,
                BodyInst(x, x.parent[s]))
Recreate(w, x, s, inst) ==
    IF s \in Singles THEN RecreateSingleShape(w, x, s, inst) ELSE RecreateChain(w, x, s, inst)

(***************************************************************************)
(* Joints.  Destroying a body takes its joints along, so every use of a    *)
(* joint's handle first asks whether it is still valid.                    *)
(***************************************************************************)
\* The type of the joint and its frames are data; of the optional features the
\* motor stands for all four, which are switched on at creation in the same way.
JointObject(x, id, j, bodyA, bodyB) ==
    [id |-> id, owner |-> j, a |-> bodyA, b |-> bodyB, motor |-> x.motor[j]]

CreateJoint(w, x, j, inst, instA, instB) ==
    LET joint == JointObject(x, NextId(w.b2, "joint"), j, Handle(w, instA), Handle(w, instB))
    IN IF inst = NoInst \/ joint.a = NoId \/ joint.b = NoId THEN w
       ELSE IF ~Live(w.b2, "body", joint.a) \/ ~Live(w.b2, "body", joint.b)
       THEN [w EXCEPT !.b2 = Misused(@)]
       ELSE [w EXCEPT !.b2 = Create(@, "joint", joint), !.handle = (inst :> joint.id) @@ @]

DestroyJoint(w, inst, current, deferred) ==
    LET id == Handle(w, inst)
    IN IF id = NoId THEN w
       ELSE [w EXCEPT !.pending.joint = IF deferred THEN Append(@, id) ELSE @,
                      !.b2 = IF deferred \/ ~Live(@, "joint", id) THEN @
                             ELSE Destroy(@, "joint", id),
                      !.handle = Without(@, {current})]

RecreateJoint(w, x, j, inst) ==
    CreateJoint(DestroyJoint(w, inst, x.joint[j], FALSE), x, j, inst,
                BodyInst(x, x.ends[j][1]), BodyInst(x, x.ends[j][2]))

WithLiveJoint(w, inst, on) ==
    IF Handle(w, inst) = NoId \/ ~Live(w.b2, "joint", Handle(w, inst)) THEN w
    ELSE [w EXCEPT !.b2 = Set(@, "joint", Handle(w, inst), "motor", on)]

(***************************************************************************)
(* Setters of the event opt-ins, and of poses; the impulses of an update.  *)
(***************************************************************************)
SetEventFlag(w, inst, flag, on) ==
    IF Handle(w, inst) = NoId THEN w
    ELSE [w EXCEPT !.b2 = Set(@, "shape", Handle(w, inst), flag, on)]

PoseIn(w, x, b) ==
    LET id == Handle(w, x.body[b])
    IN IF id = NoId THEN w
       ELSE [w EXCEPT !.b2 = Set(@, "body", id, "pos", x.pos[b]), !.poses = @ \cup {b}]

ResolveBody(x, e) ==
    IF e \in Bodies /\ x.body[e] # NoInst THEN e ELSE IF e \in Bodies THEN None ELSE x.parent[e]
Accumulate(w, x, e) ==
    LET b  == ResolveBody(x, e)
        id == Handle(w, BodyInst(x, b))
    IN IF id = NoId THEN w ELSE [w EXCEPT !.impulses = @ \cup {[id |-> id, meant |-> b]}]

DrainImpulses(w) ==
    LET known == {i \in w.impulses : i.id[1] \in DOMAIN w.bodyOwner}
        push(b, i) == Push(b, i.id, i.meant)
    IN [w EXCEPT !.b2 = FoldLeft(push, @, SetToSeq(known)), !.impulses = {}]

(***************************************************************************)
(* The cleanup phase: the reaper, joints first and bodies last, and the    *)
(* mass of the bodies whose shapes changed.                                *)
(***************************************************************************)
ReapJoint(w, id) == [w EXCEPT !.b2 = IF Live(@, "joint", id) THEN Destroy(@, "joint", id) ELSE @]
ReapShape(w, id) ==
    [w EXCEPT !.shapeOwner = Without(@, {id[1]}), !.b2 = Destroy(@, "shape", id)]
ReapChain(w, id) == [w EXCEPT !.b2 = Destroy(@, "chain", id)]
ReapBody(w, id)  ==
    [w EXCEPT !.bodyOwner = Without(@, {id[1]}), !.b2 = Destroy(@, "body", id)]

\* A plausible bug: bodies are destroyed before the shapes that are queued.
BodiesReapedFirst(w) ==
    LET noBodies == FoldLeft(ReapBody, FoldLeft(ReapJoint, w, w.pending.joint), w.pending.body)
        noShapes == FoldLeft(ReapShape, noBodies, w.pending.shape)
    IN [FoldLeft(ReapChain, noShapes, w.pending.chain) EXCEPT !.pending = [k \in Waiting |-> <<>>]]

Reap(w) ==
    LET noJoints == FoldLeft(ReapJoint, w, w.pending.joint)
        noShapes == FoldLeft(ReapShape, noJoints, w.pending.shape)
        noChains == FoldLeft(ReapChain, noShapes, w.pending.chain)
    IN [FoldLeft(ReapBody, noChains, w.pending.body) EXCEPT !.pending = [k \in Waiting |-> <<>>]]

RecomputeMass(w, x) ==
    LET held == {b \in w.dirty : Handle(w, x.body[b]) # NoId}
    IN [w EXCEPT !.dirty = {},
                 !.b2.stale = @ \/ \E b \in held : ~Live(w.b2, "body", Handle(w, x.body[b]))]

(***************************************************************************)
(* After the step: the poses of the bodies that moved, and the events.     *)
(***************************************************************************)
MovedEntities(w, x, dynamic) ==
    {b \in {At(w.bodyOwner, id[1], None) : id \in w.b2.moved} \ {None} :
        x.body[b] # NoInst /\ b \in dynamic}
PosesOut(w, x, dynamic) ==
    [b \in Bodies |->
        IF b \in MovedEntities(w, x, dynamic)
        THEN LET slot == CHOOSE i \in DOMAIN w.bodyOwner :
                            /\ w.bodyOwner[i] = b
                            /\ \E id \in w.b2.moved : id[1] = i
             IN (CHOOSE o \in w.b2.body : o.id[1] = slot).pos
        ELSE x.pos[b]]
ReportPoses(w, x, dynamic) ==
    [w EXCEPT !.poses = {},
              !.reported = {b \in w.poses : x.body[b] # NoInst} \cup MovedEntities(w, x, dynamic)]

\* One record of the step, read through the reverse map of this moment: a
\* contact tells either entity of the other, a visit tells only the sensor.
Emits(w, p, topic, e, other) ==
    LET a == At(w.shapeOwner, p.a[1], None)
        b == At(w.shapeOwner, p.b[1], None)
    IN /\ p.kind = topic
       /\ <<a, b>> = <<e, other>> \/ (topic = "contact" /\ <<b, a>> = <<e, other>>)
TellsEntity(w, x, pairs, topic, e) ==
    {other \in x.alive : \E p \in pairs : Emits(w, p, topic, e, other)}

\* A plausible bug: an entity that hears of nothing keeps its old events.
OldEventsKept(w, x) ==
    LET told(t, e) == [begin |-> TellsEntity(w, x, w.b2.began, t, e),
                       end |-> TellsEntity(w, x, w.b2.ended, t, e)]
    IN [w EXCEPT !.events = [t \in Topics |-> [e \in DOMAIN @[t] |->
            IF e \in x.alive /\ t \in x.opts[e] /\ told(t, e) # NoEvents
            THEN told(t, e) ELSE @[t][e]]]]

PublishEvents(w, x) ==
    LET told(t, e) == [begin |-> TellsEntity(w, x, w.b2.began, t, e),
                       end |-> TellsEntity(w, x, w.b2.ended, t, e)]
        touched(t) == {e \in (Singles \cup Chains) \cap x.alive :
                          t \in x.opts[e] /\ told(t, e) # NoEvents}
    IN [w EXCEPT !.events = [t \in Topics |-> [e \in DOMAIN @[t] |->
                        IF e \in touched(t) THEN told(t, e)
                        ELSE IF e \in w.touched[t] THEN NoEvents ELSE @[t][e]]],
                 !.touched = [t \in Topics |-> touched(t)]]
=============================================================================

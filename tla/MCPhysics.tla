------------------------------- MODULE MCPhysics -------------------------------
(***************************************************************************)
(* The physics module on small scenes: two bodies with a shape each, a     *)
(* chain, a joint that can be retargeted, and poses with impulses.  A      *)
(* scene says how its entities start and which calls user code may make,   *)
(* at most `calls` of them over MaxTicks updates.                          *)
(***************************************************************************)
EXTENDS Physics

CONSTANTS b1, b2, b3, s1, s2, c1, j1

MCBodies  == {b1, b2, b3}
MCSingles == {s1, s2}
MCChains  == {c1}
MCJoints  == {j1}
Disciplined == {}
LateMoves   == {"moves"}

Only(members) == [Blank EXCEPT !.alive = members]
Bodied(y, bs) == [y EXCEPT !.body = [b \in Bodies |-> IF b \in bs THEN <<b, 1>> ELSE NoInst]]
Shaped(y, s, b, opts) ==
    [y EXCEPT !.geom[s] = <<s, 1>>, !.parent[s] = b, !.opts[s] = opts]
Scene(start, ops, calls, places) ==
    [start |-> start, ops |-> ops, calls |-> calls, places |-> places]

two   == Shaped(Shaped(Bodied(Only({b1, b2, b3, s1, s2}), {b1, b2}), s1, b1, {"contact"}), s2, b2, {})
watch == Shaped(Shaped(Bodied(Only({b1, b2, s1, c1}), {b1, b2}), s1, b1, {"contact", "sensor"}), c1, b2,
                {"sensor", "placed"})
probe == Shaped(Shaped(Bodied(Only({b1, b2, s1, s2}), {b1, b2}), s1, b1, {"sensor", "marker"}), s2, b2,
                {"sensor"})
jointed == [Bodied(Only({b1, b2, b3, j1}), {b1, b2, b3}) EXCEPT
                !.joint[j1] = <<j1, 1>>, !.ends[j1] = <<b1, b2>>]
lone  == Shaped(Bodied(Only({b1, b2, s1}), {b1}), s1, b1, {})

MCScenes == {
    Scene(two, {"body", "destroy", "geom"}, 3, {0}),
    Scene(two, {"contact", "reparent", "modify"}, 3, {0}),
    Scene(watch, {"sensor", "modify", "geom", "placed"}, 2, {0}),
    Scene(watch, {"body", "destroy", "reparent"}, 2, {0}),
    Scene(probe, {"sensor", "material", "destroy"}, 3, {0}),
    Scene(jointed, {"joint", "motor", "retarget", "body", "destroy"}, 3, {0}),
    Scene(lone, {"teleport", "impulse", "body", "destroy"}, 3, {0, 1}) }

(***************************************************************************)
(* What Box2D holds is what the entities carry.                            *)
(***************************************************************************)
Heed(systems, e)  == \E s \in systems : \E i \in DOMAIN inbox[s] : inbox[s][i].e = e
Of(inst)          == E!Handle(engine, inst)
Shapely           == {"shape", "moved", "chain", "chainMoved", "material", "placed", "chainSensor"}
Objects(kind)     == engine.b2[kind]

BodiesMirror ==
    /\ \A o \in Objects("body") : x.body[o.owner] # NoInst /\ Of(x.body[o.owner]) = o.id
    /\ \A b \in Bodies : x.body[b] # NoInst /\ ~Heed({"body"}, b) =>
           E!Live(engine.b2, "body", Of(x.body[b]))
    /\ \A o \in Objects("body") : E!At(engine.bodyOwner, o.id[1], None) = o.owner
    /\ Cardinality(DOMAIN engine.bodyOwner) = Cardinality(Objects("body"))

ShapesMirror ==
    /\ \A o \in Objects("shape") :
           /\ x.geom[o.owner] # NoInst
           /\ Of(x.geom[o.owner]) = (IF o.chain = E!NoId THEN o.id ELSE o.chain)
           /\ E!At(engine.shapeOwner, o.id[1], None) = o.owner
    /\ Cardinality(DOMAIN engine.shapeOwner) = Cardinality(Objects("shape"))
    /\ \A s \in Members(x)["shape"] \cup Members(x)["chain"] :
           ~Heed(Shapely, s) /\ ~Heed({"body"}, x.parent[s]) =>
               LET mine == {o \in Objects("shape") : o.owner = s}
               IN /\ Cardinality(mine) = engine.fit[x.geom[s]]
                  /\ \A o \in mine : o.body = Of(x.body[x.parent[s]])

JointsMirror ==
    /\ \A o \in Objects("joint") : x.joint[o.owner] # NoInst /\ Of(x.joint[o.owner]) = o.id
    /\ \A j \in Members(x)["joint"] : ~Heed({"joint", "retarget"}, j) =>
           \E o \in Objects("joint") :
               /\ o.owner = j
               /\ \A b \in Bodies : b = x.ends[j][1] => o.a = Of(x.body[b])
               /\ \A b \in Bodies : b = x.ends[j][2] => o.b = Of(x.body[b])

FlagsAgree ==
    /\ \A o \in Objects("shape") : ~Heed({"sensor", "chainSensor"}, o.owner) =>
           /\ o.senses = ("sensor" \in x.opts[o.owner])
           /\ o.chain = E!NoId => o.contact = ("contact" \in x.opts[o.owner])
    /\ \A o \in Objects("joint") : ~Heed({"motor"}, o.owner) => o.motor = x.motor[o.owner]

\* No call ever names a Box2D object that is gone: the shape an in-place
\* recreate destroys is live by definition (shapes/lifecycle.ts:112-117).
EveryIdIsLive == ~engine.b2.stale

\* No call names a Box2D object that is gone; and when the world is about
\* to step, the bodies, shapes and joints in it are one for one those of the
\* components, on the right bodies, with the flags the opt-in components ask
\* for and the reverse maps naming their entities (engine.ts:107-137).
EngineMirrorsWorld ==
    /\ EveryIdIsLive
    /\ phase = "clean" => BodiesMirror /\ ShapesMirror /\ JointsMirror /\ FlagsAgree

(***************************************************************************)
(* What the step tells reaches the entities it is about.                   *)
(***************************************************************************)
Tells(p, t, e, other) ==
    /\ p.kind = t
    /\ <<p.ea, p.eb>> = <<e, other>> \/ (t = "contact" /\ <<p.eb, p.ea>> = <<e, other>>)
Attached(e) == e \in Members(x)["shape"] \cup Members(x)["chain"] /\ Of(x.geom[e]) # E!NoId
Listens(t, e) == e \in Shapes /\ e \in x.alive /\ t \in x.opts[e]

\* An entity is told of a contact or a visit only when one of its own shapes
\* had it in this very step, and of every one that began; the poses of moved
\* bodies are written to their own entities; an impulse pushes the body of the
\* entity it was set on (publish.ts:41-43, pose_out.ts:117-142).
EventsReachOwners ==
    [][phase = "post" /\ phase' = "update" =>
        /\ \A t \in E!Topics, e \in Shapes :
             LET heard == engine'.events[t][e]
             IN /\ \A other \in heard.begin : \E p \in engine.b2.began : Tells(p, t, e, other)
                /\ \A other \in heard.end : \E p \in engine.b2.ended : Tells(p, t, e, other)
                /\ \A other \in Shapes : Listens(t, e) /\ Attached(e) /\ Attached(other) =>
                     /\ (\E p \in engine.b2.began : Tells(p, t, e, other)) => other \in heard.begin
                     /\ (\E p \in engine.b2.ended : /\ Tells(p, t, e, other)
                            /\ E!Live(engine.b2, "shape", p.a) /\ E!Live(engine.b2, "shape", p.b))
                        => other \in heard.end
        /\ \A o \in Objects("body") : o.owner \in Dynamic /\ Of(x.body[o.owner]) = o.id =>
               /\ Heed({"pose"}, o.owner) \/ x'.pos[o.owner] = o.pos
               /\ o.id \in engine.b2.moved => o.owner \in engine'.reported
        /\ \A push \in engine.b2.pushed : push[1] = push[2]]_vars
=============================================================================

------------------------------ MODULE EntityWorld ------------------------------
(***************************************************************************)
(* An application that links and destroys entities, one call at a time or  *)
(* in deferred scopes, with handlers that call back into the world.        *)
(***************************************************************************)
EXTENDS Entities

CONSTANTS
  Scenes,     \* [relations, sources, keys, onDelete, commands] of an application: the
              \* last bounds the commands of a deferred scope
  Restrained  \* callbacks and deferred scopes avoid what the code cannot take

Outside == [commands |-> <<>>]  \* no call of the application is running

VARIABLES
  scene,
  start  \* what the running call, or drain, started from

vars == <<graph, onDelete, calls, queue, mode, hooks, scene, start>>

Edges == {<<s, t>> \in Everyone \X Everyone : s # t}

\* The edges the application adds: those of ChildOf anywhere, those of other
\* relationships from the sources of the scene.
EdgesOf(r) == {p \in Edges : r = ChildOf \/ p[1] \in scene.sources}

\* The entities with an id: the ones that are unregistered cannot be named.
Registered == {e \in Everyone : e \in destroyed => \E c \in Calls("strip") : c.e = e}

AppCalls ==
  LET all == UNION {{AddTarget(p[1], r, p[2]) : p \in EdgesOf(r)} : r \in scene.relations}
        \cup UNION {{RemoveEdge(p[1], r, p[2]) : p \in EdgesOf(r)} : r \in scene.relations \ Exclusive}
        \cup {RemoveAll(e, r) : e \in Everyone, r \in scene.relations}
        \cup {Attach(p[1], p[2]) : p \in Edges \cap (Everyone \X scene.keys)}
        \cup {Detach(p[1], p[2]) : p \in Edges \cap (Everyone \X scene.keys)}
        \cup {Destroy(e) : e \in Everyone}
  IN {c \in all : \A f \in {"e", "t", "k"} \cap DOMAIN c : c[f] \in Registered}

\* Attaching a component whose entity is dying, or whose destroy is queued.
Harmless(c) == Restrained => c.do # "attach"

HandlerCalls == {c \in AppCalls : Harmless(c)}

\* An exit callback that adds the relationship (e, r) again, as owning e does
\* when r is ChildOf.
AddsAgain(c, e, r) ==
  c.do = "add" /\ ((c.e = e /\ c.r = r) \/ (c.t = e /\ c.r \in OwnedTarget /\ r = ChildOf))

ExitCalls(e, r) == {c \in HandlerCalls : Restrained => ~AddsAgain(c, e, r)}

Snapshot(commands) ==
  [targets |-> targets, destroyed |-> destroyed, carriers |-> carriers, commands |-> commands,
   pending |-> [r \in Relations |-> [e \in Everyone |-> PendingTargets(commands, e, r)]]]

Init ==
  /\ scene \in Scenes
  /\ destroyed = {}
  /\ targets = [r \in Relations |-> [e \in Everyone |-> {}]]
  /\ incoming = [r \in Relations |-> [e \in Everyone |-> {}]]
  /\ carriers = [k \in Keys |-> {}]
  /\ onDelete = [k \in Keys |-> scene.onDelete]
  /\ depths = [r \in Traversable |-> [e \in Everyone |-> NoDepth]]
  /\ scope = NoScope
  /\ calls = <<>> /\ queue = <<>> /\ mode = "direct" /\ hooks = 0
  /\ start = Outside

AtRest == calls = <<>> /\ mode = "direct"

Call ==
  /\ AtRest /\ start = Outside
  /\ \E c \in AppCalls : calls' = <<c>> /\ start' = Snapshot(<<c>>)
  /\ UNCHANGED <<graph, onDelete, queue, mode, hooks, scene>>

\* beginDefer, and the calls of the scope.
Defer ==
  /\ AtRest /\ start = Outside /\ scene.commands > 0
  /\ mode' = "deferred"
  /\ UNCHANGED <<graph, onDelete, calls, queue, hooks, scene, start>>

Enqueue ==
  /\ mode = "deferred" /\ Len(queue) < scene.commands
  /\ \E c \in AppCalls : Harmless(c) /\ queue' = Append(queue, c)
  /\ UNCHANGED <<graph, onDelete, calls, mode, hooks, scene, start>>

EndDefer ==
  /\ mode = "deferred"
  /\ mode' = "draining" /\ start' = Snapshot(queue)
  /\ UNCHANGED <<graph, onDelete, calls, queue, hooks, scene>>

Step == Run(HandlerCalls, ExitCalls) /\ UNCHANGED <<scene, start>>

DrainStep == (Drain \/ Drained) /\ UNCHANGED <<scene, start>>

Return ==
  /\ AtRest /\ start # Outside
  /\ start' = Outside /\ hooks' = 0
  /\ UNCHANGED <<graph, onDelete, calls, queue, mode, scene>>

Next == Call \/ Defer \/ Enqueue \/ EndDefer \/ Step \/ DrainStep \/ Return

Spec == Init /\ [][Next]_vars

-----------------------------------------------------------------------------
(* What one command does, as the documentation has it.                      *)

\* The entities that die with those of `first`: the sources of an edge to one
\* of them whose policy is Delete, the targets one of them owns, the carriers
\* of one whose policy is Delete.
DieWith(first, to) ==
  LET more[n \in 0..Cardinality(Everyone)] ==
        IF n = 0 THEN first
        ELSE LET dead == more[n - 1] IN
             dead \cup {s \in Everyone : \E r \in DeleteSources : to[r][s] \cap dead # {}}
                  \cup UNION {to[r][s] : r \in OwnedTarget, s \in dead}
                  \cup UNION {start.carriers[k] : k \in {k \in Keys \cap dead : onDelete[k] = "Delete"}}
  IN more[Cardinality(Everyone)]

\* The edges a command leaves, before anything dies of it.
EdgesAfter(c) ==
  LET old == start.targets[c.r][c.e] IN
  CASE c.do = "add" /\ {c.e, c.t} \cap start.destroyed = {} ->
         [start.targets EXCEPT ![c.r][c.e] = IF c.r \in Exclusive THEN {c.t} ELSE old \cup {c.t}]
    [] c.do = "removeTarget" -> [start.targets EXCEPT ![c.r][c.e] = old \ {c.t}]
    [] c.do = "remove"       -> [start.targets EXCEPT ![c.r][c.e] = {}]
    [] OTHER                 -> start.targets

\* The targets afterwards: an owned target that is added moves under its owner.
Survivors(c, to, dead) ==
  LET moved == c.do = "add" /\ c.r \in OwnedTarget /\ {c.e, c.t} \cap dead = {}
                 /\ c.t \notin start.targets[c.r][c.e]
      all   == IF moved THEN [to EXCEPT ![ChildOf][c.t] = {c.e}] ELSE to
  IN [r \in Relations |-> [s \in Everyone |-> IF s \in dead THEN {} ELSE all[r][s] \ dead]]

Declared(c) ==
  LET edge == c.do \in {"add", "remove", "removeTarget"}
      to   == IF edge THEN EdgesAfter(c) ELSE start.targets
      displaced == IF edge /\ c.r \in OwnedTarget THEN start.targets[c.r][c.e] \ to[c.r][c.e] ELSE {}
      first == IF c.do = "destroy" THEN {c.e} ELSE displaced
      dead  == DieWith(first, to) \cup start.destroyed
      carry == CASE c.do = "attach" -> [start.carriers EXCEPT ![c.k] = @ \cup {c.e}]
                 [] c.do = "detach" -> [start.carriers EXCEPT ![c.k] = @ \ {c.e}]
                 [] OTHER -> start.carriers
  IN /\ destroyed = dead
     /\ targets = Survivors(c, to, dead)
     /\ carriers = [k \in Keys |-> IF k \in dead THEN {} ELSE carry[k] \ dead]

-----------------------------------------------------------------------------
(* Properties.                                                              *)

TypeOK ==
  /\ destroyed \subseteq Everyone
  /\ targets \in [Relations -> [Everyone -> SUBSET Everyone]]
  /\ incoming \in [Relations -> [Everyone -> SUBSET Everyone]]
  /\ \A r \in Exclusive, e \in Everyone : Cardinality(targets[r][e]) <= 1
  /\ carriers \in [Keys -> SUBSET Everyone]
  /\ \A r \in Traversable, e \in Everyone : depths[r][e] \in NoDepth..Deepest
  /\ mode \in {"direct", "deferred", "draining"} /\ hooks \in 0..MaxHooks
  /\ scope.ops # <<>> => \E i \in DOMAIN calls : calls[i].do = "flush"

\* Between two operations the reverse index holds the edges of the live
\* entities and no others, whatever the handlers did (entity.relationships.ts
\* children).
IncomingMirrors ==
  calls = <<>> =>
    \A r \in Relations, s, t \in Everyone : s \in incoming[r][t] <=> t \in targets[r][s]

\* No entity keeps an edge to a destroyed one, and a destroyed one keeps none:
\* _cleanupIncoming reaches every source whatever the handlers rewired.
NoEdgeOfTheDead ==
  calls = <<>> =>
    \A r \in Relations, s, t \in Everyone :
      t \in targets[r][s] => {s, t} \cap destroyed = {}

\* A component is carried by nobody once its entity is destroyed.
NoCarrierOfTheDead == calls = <<>> => \A k \in Keys \cap destroyed : carriers[k] = {}

\* The distance to the root along a relationship, unless the way is a cycle.
Ancestors(r, e) ==
  LET up[n \in 0..Cardinality(Everyone)] ==
        IF n = 0 THEN targets[r][e] ELSE UNION {targets[r][x] : x \in up[n - 1]}
  IN up

\* The depth that is kept for a source is its distance to the root: however
\* its ancestors were moved, removed and destroyed (RelationshipsModule).
DepthsMeasure ==
  calls = <<>> =>
    \A r \in Traversable, e \in Everyone :
      LET up == Ancestors(r, e)
          all == {n \in DOMAIN up : up[n] # {}} IN
      up[Cardinality(Everyone)] = {} =>
        depths[r][e] = IF all = {} THEN NoDepth ELSE Cardinality(all)

\* A destroy that is not the outermost one finds the deletion scope open when
\* it comes to buffer its cleanup.
ScopeIsOpen == Calls("strip") # {} => scope.open

\* Every path that drops the edge to an owned target destroys the target.
OwnedTargetDies ==
  (AtRest /\ start # Outside) =>
    \A r \in OwnedTarget, s \in Everyone :
      start.targets[r][s] \ targets[r][s] \subseteq destroyed

\* One command whose handlers do nothing has the declared outcome, called
\* directly or deferred: exactly the entities of the closure die, everything
\* else keeps its edges.
CascadeIsDeclared ==
  (AtRest /\ start # Outside /\ hooks = 0) =>
    (Len(start.commands) = 1 => Declared(start.commands[1]))

\* The two pending reads agree with each other.
PendingReadsAgree ==
  \A r \in scene.relations, e, t \in Everyone :
    HasPendingTarget(queue, e, r, t) <=> t \in PendingTargets(queue, e, r)

\* A pending read is what the drain then makes true, when the scope destroys
\* nothing and the handlers do nothing.
PendingReadsComeTrue ==
  (AtRest /\ start # Outside /\ hooks = 0) =>
    ((destroyed = start.destroyed /\ OwnedTarget \cap scene.relations = {})
       => targets = start.pending)

\* Once a call is over, whatever its handlers did, the reverse index mirrors the
\* edges, nothing living refers to anything dead and the depths are true.
GraphAgrees == TypeOK /\ IncomingMirrors /\ NoEdgeOfTheDead /\ NoCarrierOfTheDead /\ DepthsMeasure

\* A destroy reaches what its relationships declare, through every path and in
\* one scope, and nothing else.
CascadeComplete == ScopeIsOpen /\ OwnedTargetDies /\ CascadeIsDeclared

\* What a deferred scope reads of its own queued edges is what will be true.
PendingReadsHold == PendingReadsAgree /\ PendingReadsComeTrue
===============================================================================

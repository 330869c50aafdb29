------------------------------- MODULE Entities -------------------------------
(***************************************************************************)
(* Entities, their relationship edges and the reverse index of the edges,  *)
(* the components that are entities themselves, and what a destroy         *)
(* cascades to.                                                            *)
(*                                                                         *)
(* One thread runs everything, but handlers and query callbacks are called *)
(* in the middle of an operation and may call the world again.  `calls` is *)
(* what is still to run, innermost first: an operation that calls another  *)
(* one puts it before its own remainder.  In a deferred scope and while    *)
(* its commands drain, a public call is queued instead.                    *)
(***************************************************************************)
EXTENDS Integers, SequencesExt

CONSTANTS
  Everyone,       \* the entities
  Keys,           \* those of them that are used as components
  Relations,      \* the relationship components
  Exclusive,      \* at most one target
  Traversable,    \* keep the depth of each source; exclusive
  OwnedTarget,    \* own their target; exclusive
  DeleteSources,  \* OnDeleteTarget is Delete; it is Remove for the others
  ChildOf,
  MaxHooks        \* calls that handlers make in one call of the application

NoScope == [open |-> FALSE, ops |-> <<>>]
NoDepth == -1

ASSUME TraitsAssumption ==
  /\ ChildOf \in (Traversable \cap DeleteSources) \ OwnedTarget
  /\ Traversable \cup OwnedTarget \subseteq Exclusive
  /\ Exclusive \cup DeleteSources \subseteq Relations

VARIABLES
  destroyed,  \* Entity._destroyed
  targets,    \* the targets in Entity._components; {} without the relationship
  incoming,   \* Entity._incoming
  carriers,   \* the carriers of each key, ComponentTerm._entities
  onDelete,   \* the OnDelete policy of each key
  depths,     \* Traversable.depths
  scope,      \* World._deletionScope
  calls,
  queue,      \* World._commandQueue from _commandHead on
  mode,       \* direct, deferred or draining
  hooks       \* calls made by handlers so far

graph == <<destroyed, targets, incoming, carriers, depths, scope>>

-----------------------------------------------------------------------------
(* The depth of a traversable relationship.                                 *)

\* Only around a cycle does the code count further, and higher each time it is
\* asked again; the model stops there.
Deepest == Cardinality(Everyone)
Deeper(depth) == IF depth < Deepest THEN depth + 1 ELSE Deepest

RECURSIVE DepthOf(_, _, _, _), Visit(_, _, _)

DepthOf(to, depth, e, visited) ==
  IF to[e] = {} \/ e \in visited THEN 0
  ELSE LET parent == CHOOSE p \in to[e] : TRUE IN
       IF depth[parent] # NoDepth /\ parent \notin visited \cup {e} THEN Deeper(depth[parent])
       ELSE Deeper(DepthOf(to, depth, parent, visited \cup {e}))

\* _cascadeUpdate of the entities of `todo`, an entity before its sources; one
\* walk visits an entity once.
Visit(r, walk, todo) ==
  IF todo = <<>> THEN walk
  ELSE LET e == Head(todo)
           at == IF targets[r][e] = {} THEN NoDepth ELSE DepthOf(targets[r], walk.depth, e, {})
       IN IF e \in walk.seen THEN Visit(r, walk, Tail(todo))
          ELSE Visit(r, [depth |-> [walk.depth EXCEPT ![e] = at], seen |-> walk.seen \cup {e}],
                     SetToSeq(incoming[r][e]) \o Tail(todo))

CascadeUpdate(r, depth, e) == Visit(r, [depth |-> depth, seen |-> {}], <<e>>).depth

\* Mutant: the sources of the entity keep the depth they had.
DepthRemovedAlone(r, e) == [depths[r] EXCEPT ![e] = NoDepth]

\* The targetAdd and targetRemove handlers of Traversable.
DepthAdded(r, e) == CascadeUpdate(r, depths[r], e)

DepthRemoved(r, e) ==
  FoldLeft(LAMBDA depth, child : CascadeUpdate(r, depth, child),
           [depths[r] EXCEPT ![e] = NoDepth], SetToSeq(incoming[r][e]))

-----------------------------------------------------------------------------
(* Calls.                                                                   *)

Calls(do) == {c \in Range(calls) : c.do = do}

\* The application's calls; `of` is a target or a key.
Destroy(e)          == [do |-> "destroy", e |-> e]
AddTarget(e, r, t)  == [do |-> "add", e |-> e, r |-> r, t |-> t]
RemoveEdge(e, r, t) == [do |-> "removeTarget", e |-> e, r |-> r, t |-> t]
RemoveAll(e, r)     == [do |-> "remove", e |-> e, r |-> r]
Attach(e, k)        == [do |-> "attach", e |-> e, k |-> k]
Detach(e, k)        == [do |-> "detach", e |-> e, k |-> k]

\* A public call made by a handler, with `rest` still to run.
Invoke(call, rest) ==
  IF mode = "direct" THEN calls' = <<call>> \o rest /\ UNCHANGED queue
  ELSE calls' = rest /\ queue' = Append(queue, call)

\* A handler of the application is called: it may make one call of `may`.
Handlers(may, rest) ==
  \/ calls' = rest /\ UNCHANGED <<queue, hooks>>
  \/ /\ hooks < MaxHooks
     /\ hooks' = hooks + 1
     /\ \E call \in may : Invoke(call, rest)

\* The relationship instance of (e, r) leaves its entity: what still runs for
\* it finds another one there, or none.
Orphaned(rest, e, r) ==
  [i \in DOMAIN rest |->
     IF rest[i].do \in {"tell", "enter"} /\ rest[i].e = e /\ rest[i].r = r
     THEN [rest[i] EXCEPT !.held = FALSE] ELSE rest[i]]

\* The edge handlers still to call for one change of (e, r): `gone` and `come`
\* are the edges it took away and added, `todo` the handlers in their order.
Tell(e, r, gone, come, todo) ==
  [do |-> "tell", e |-> e, r |-> r, gone |-> gone, come |-> come, todo |-> todo, held |-> TRUE]

OnRemoved == <<"traitRemove", "remove">>
OnAdded   == <<"traitAdd", "add">>

-----------------------------------------------------------------------------
(* Relationship edges.                                                      *)

\* _replaceTarget, _removeIncoming and _addIncoming in one step: nothing runs
\* in between.
Replaced(e, r, t, rest) ==
  LET old == targets[r][e] IN
  /\ targets' = [targets EXCEPT ![r][e] = {t}]
  /\ incoming' = [incoming EXCEPT ![r] =
       [x \in Everyone |-> IF x \in old THEN @[x] \ {e}
                           ELSE IF x = t THEN @[x] \cup {e} ELSE @[x]]]
  /\ calls' = <<Tell(e, r, old, {t}, OnRemoved \o OnAdded)>> \o rest

\* Another target for a relationship that is there already.
Joined(e, r, t, rest) ==
  /\ targets' = [targets EXCEPT ![r][e] = @ \cup {t}]
  /\ incoming' = [incoming EXCEPT ![r][t] = @ \cup {e}]
  /\ calls' = <<Tell(e, r, {}, {t}, OnAdded)>> \o rest

\* The first target: the relationship itself is new.
Stored(e, r, t, rest) ==
  /\ targets' = [targets EXCEPT ![r][e] = {t}]
  /\ incoming' = [incoming EXCEPT ![r][t] = @ \cup {e}]
  /\ calls' = <<Tell(e, r, {}, {t}, OnAdded), [do |-> "enter", e |-> e, r |-> r, held |-> TRUE]>>
              \o rest

\* _addTarget
DoAdd(c, rest) ==
  LET old == targets[c.r][c.e] IN
  /\ UNCHANGED <<destroyed, carriers, depths, scope, queue, hooks>>
  /\ \/ /\ {c.e, c.t} \cap destroyed # {} \/ c.t \in old
        /\ calls' = rest /\ UNCHANGED <<targets, incoming>>
     \/ /\ {c.e, c.t} \cap destroyed = {} /\ c.t \notin old
        /\ \/ old # {} /\ c.r \in Exclusive /\ Replaced(c.e, c.r, c.t, rest)
           \/ old # {} /\ c.r \notin Exclusive /\ Joined(c.e, c.r, c.t, rest)
           \/ old = {} /\ Stored(c.e, c.r, c.t, rest)

\* _detachRelationship up to the query exits, which run before the targets of
\* the detached instance are taken.
Detached(e, r, may, rest) ==
  /\ targets' = [targets EXCEPT ![r][e] = {}]
  /\ Handlers(may, <<[do |-> "take", e |-> e, r |-> r, ts |-> targets[r][e]]>>
                   \o Orphaned(rest, e, r))

\* _remove of a relationship
DoRemove(c, rest, may) ==
  /\ UNCHANGED <<destroyed, incoming, carriers, depths, scope>>
  /\ IF c.e \in destroyed \/ targets[c.r][c.e] = {}
     THEN calls' = rest /\ UNCHANGED <<targets, queue, hooks>>
     ELSE Detached(c.e, c.r, may, rest)

\* _removeTarget
DoRemoveTarget(c, rest) ==
  LET old == targets[c.r][c.e] IN
  /\ UNCHANGED <<destroyed, carriers, depths, scope, queue, hooks>>
  /\ \/ /\ c.e \in destroyed \/ c.t \notin old
        /\ calls' = rest /\ UNCHANGED <<targets, incoming>>
     \/ /\ c.e \notin destroyed /\ old = {c.t}
        /\ calls' = <<RemoveAll(c.e, c.r)>> \o rest /\ UNCHANGED <<targets, incoming>>
     \/ /\ c.e \notin destroyed /\ c.t \in old /\ old # {c.t}
        /\ targets' = [targets EXCEPT ![c.r][c.e] = @ \ {c.t}]
        /\ incoming' = [incoming EXCEPT ![c.r][c.t] = @ \ {c.e}]
        /\ calls' = <<Tell(c.e, c.r, {c.t}, {}, OnRemoved)>> \o rest

\* Mutant: only the first target forgets the source.
DoTakeFirst(c, rest) ==
  /\ incoming' = [incoming EXCEPT ![c.r][CHOOSE t \in c.ts : TRUE] = @ \ {c.e}]
  /\ \E ts \in SetToSeqs(c.ts) :
       calls' = [i \in DOMAIN ts |->
                   [do |-> "dropped", e |-> c.e, r |-> c.r, t |-> ts[i], todo |-> OnRemoved]] \o rest
  /\ UNCHANGED <<destroyed, targets, carriers, depths, scope, queue, hooks>>

\* The rest of _detachRelationship: the targets leave the reverse index, then
\* the handlers of each edge run.  The last edge handler and onRemove run
\* back to back.
DoTake(c, rest) ==
  /\ incoming' = [incoming EXCEPT ![c.r] =
                    [t \in Everyone |-> IF t \in c.ts THEN @[t] \ {c.e} ELSE @[t]]]
  /\ \E ts \in SetToSeqs(c.ts) :
       calls' = [i \in DOMAIN ts |->
                   [do |-> "dropped", e |-> c.e, r |-> c.r, t |-> ts[i], todo |-> OnRemoved]] \o rest
  /\ UNCHANGED <<destroyed, targets, carriers, depths, scope, queue, hooks>>

\* The trait handlers: OwnedTarget's calls are public, so they are queued in
\* a drain; the depths are kept at once.
TraitRemove(e, r, t, rest) ==
  /\ depths' = IF r \in Traversable THEN [depths EXCEPT ![r] = DepthRemoved(r, e)] ELSE depths
  /\ IF r \in OwnedTarget THEN Invoke(Destroy(t), rest)
     ELSE calls' = rest /\ UNCHANGED queue

TraitAdd(e, r, t, rest) ==
  /\ depths' = IF r \in Traversable THEN [depths EXCEPT ![r] = DepthAdded(r, e)] ELSE depths
  /\ IF r \in OwnedTarget THEN Invoke(AddTarget(t, ChildOf, e), rest)
     ELSE calls' = rest /\ UNCHANGED queue

\* The next handler of an edge, then the ones after it.
NextHandler(c, gone, come, rest, may) ==
  LET then == IF Tail(c.todo) = <<>> THEN rest
              ELSE <<[c EXCEPT !.todo = Tail(@)]>> \o rest
  IN \/ Head(c.todo) = "traitRemove" /\ TraitRemove(c.e, c.r, gone, then) /\ UNCHANGED hooks
     \/ Head(c.todo) = "traitAdd" /\ TraitAdd(c.e, c.r, come, then) /\ UNCHANGED hooks
     \/ Head(c.todo) \in {"add", "remove"} /\ Handlers(may, then) /\ UNCHANGED depths

Only(S) == CHOOSE x \in S : TRUE

\* reflectsAdd, reflectsRemove and reflectsReplacement
Current(c) == c.held /\ c.come \subseteq targets[c.r][c.e] /\ c.gone \cap targets[c.r][c.e] = {}

\* The handlers of an edge that was added, replaced or removed alone; the ones
\* that are left are skipped once one of them undid the change.
DoTell(c, rest, may) ==
  /\ IF Current(c) THEN NextHandler(c, Only(c.gone), Only(c.come), rest, may)
     ELSE calls' = rest /\ UNCHANGED <<depths, queue, hooks>>
  /\ UNCHANGED <<destroyed, targets, incoming, carriers, scope>>

DoDropped(c, rest, may) ==
  /\ NextHandler(c, c.t, c.t, rest, may)
  /\ UNCHANGED <<destroyed, targets, incoming, carriers, scope>>

\* onAdd and the query enters, for the relationship that is still there.
DoEnter(c, rest, may) ==
  /\ IF c.held THEN Handlers(may, rest) ELSE calls' = rest /\ UNCHANGED <<queue, hooks>>
  /\ UNCHANGED graph

-----------------------------------------------------------------------------
(* Components that are entities.                                            *)

\* _set without props
DoAttach(c, rest, may) ==
  /\ UNCHANGED <<destroyed, targets, incoming, depths, scope>>
  /\ IF c.e \in destroyed \cup carriers[c.k]
     THEN calls' = rest /\ UNCHANGED <<carriers, queue, hooks>>
     ELSE carriers' = [carriers EXCEPT ![c.k] = @ \cup {c.e}] /\ Handlers(may, rest)

\* _remove and _detachSlot: the query exits and onRemove run back to back.
DoDetach(c, rest, may) ==
  /\ UNCHANGED <<destroyed, targets, incoming, depths, scope>>
  /\ IF c.e \in destroyed \/ c.e \notin carriers[c.k]
     THEN calls' = rest /\ UNCHANGED <<carriers, queue, hooks>>
     ELSE carriers' = [carriers EXCEPT ![c.k] = @ \ {c.e}] /\ Handlers(may, rest)

-----------------------------------------------------------------------------
(* Destruction.                                                             *)

\* _destroy up to the cleanup of the carriers.  The outermost one opens the
\* deletion scope and flushes it at its end.
DoDestroy(c, rest) ==
  /\ UNCHANGED <<targets, incoming, carriers, depths, queue, hooks>>
  /\ IF c.e \in destroyed THEN calls' = rest /\ UNCHANGED <<destroyed, scope>>
     ELSE /\ destroyed' = destroyed \cup {c.e}
          /\ scope' = [scope EXCEPT !.open = TRUE]
          /\ calls' = <<[do |-> "carriers", e |-> c.e, seen |-> {c.e}],
                        [do |-> "strip", e |-> c.e]>>
                      \o (IF scope.open THEN <<>> ELSE <<[do |-> "flush"]>>)
                      \o rest

\* _applyOnDelete: a live iteration over the carriers of the key that dies,
\* then the exits of the queries over all entities.
DoCarriers(c, rest, may) ==
  LET left == IF c.e \in Keys THEN carriers[c.e] \ c.seen ELSE {} IN
  /\ UNCHANGED graph
  /\ \/ left = {} /\ Handlers(may, rest)
     \/ /\ UNCHANGED <<queue, hooks>>
        /\ \E x \in left :
             calls' = <<IF onDelete[c.e] = "Delete" THEN Destroy(x) ELSE Detach(x, c.e),
                        [c EXCEPT !.seen = @ \cup {x}]>> \o rest

\* Mutant: the sources lose their edge, whatever the policy.
CleanupsRemove(e) ==
  LET sources == {<<s, r>> \in Everyone \X Relations : s \in incoming[r][e]} IN
  {[i \in DOMAIN order |-> RemoveEdge(order[i][1], order[i][2], e)] : order \in SetToSeqs(sources)}

\* The operations that _cleanupIncoming buffers, in any order of the sources.
Cleanups(e) ==
  LET sources == {<<s, r>> \in Everyone \X Relations : s \in incoming[r][e]} IN
  {[i \in DOMAIN order |->
      IF order[i][2] \in DeleteSources THEN Destroy(order[i][1])
      ELSE RemoveEdge(order[i][1], order[i][2], e)] : order \in SetToSeqs(sources)}

\* The components of the dying entity leave it one by one, with their exits
\* and handlers; then it is unregistered and its incoming edges are cleaned up.
DoStrip(c, rest, may) ==
  \/ /\ \E r \in Relations : targets[r][c.e] # {} /\ Detached(c.e, r, may, <<c>> \o rest)
     /\ UNCHANGED <<destroyed, incoming, carriers, depths, scope>>
  \/ /\ \E k \in Keys : /\ c.e \in carriers[k]
                        /\ carriers' = [carriers EXCEPT ![k] = @ \ {c.e}]
     /\ Handlers(may, <<c>> \o rest)
     /\ UNCHANGED <<destroyed, targets, incoming, depths, scope>>
  \/ /\ \A r \in Relations : targets[r][c.e] = {}
     /\ \A k \in Keys : c.e \notin carriers[k]
     /\ incoming' = [r \in Relations |-> [incoming[r] EXCEPT ![c.e] = {}]]
     /\ \E ops \in Cleanups(c.e) : scope' = [scope EXCEPT !.ops = @ \o ops]
     /\ calls' = rest
     /\ UNCHANGED <<destroyed, targets, carriers, depths, queue, hooks>>

\* One pass of _flushDeletionScope: the scope is closed while its operations
\* run, so a destroy among them opens and flushes one of its own.
DoFlush(rest) ==
  /\ scope' = NoScope
  /\ calls' = IF scope.ops = <<>> THEN rest ELSE scope.ops \o <<[do |-> "flush"]>> \o rest
  /\ UNCHANGED <<destroyed, targets, incoming, carriers, depths, queue, hooks>>

-----------------------------------------------------------------------------
(* The reads of an entity's targets that count the queued edge commands.    *)

\* _isEdgeCommandFor
IsEdgeCommand(c, e, r) == c.do \in {"add", "removeTarget", "remove"} /\ c.e = e /\ c.r = r

\* Mutant: a queued target joins the committed ones of any relationship.
PendingTargetsJoined(commands, e, r) ==
  LET replay(to, c) ==
        CASE ~IsEdgeCommand(c, e, r) -> to
          [] c.do = "remove"         -> {}
          [] c.do = "removeTarget"   -> to \ {c.t}
          [] OTHER                   -> to \cup {c.t}
      read == FoldLeft(replay, targets[r][e], commands)
  IN IF e \in destroyed THEN {} ELSE read \ destroyed

\* _pendingTargets: the commands replayed over the committed targets.
PendingTargets(commands, e, r) ==
  LET replay(to, c) ==
        CASE ~IsEdgeCommand(c, e, r)   -> to
          [] c.do = "remove"           -> {}
          [] c.do = "removeTarget"     -> to \ {c.t}
          [] c.t \in destroyed \cup to -> to
          [] OTHER                     -> IF r \in Exclusive THEN {c.t} ELSE to \cup {c.t}
      read == FoldLeft(replay, targets[r][e], commands)
  IN IF e \in destroyed THEN {} ELSE read \ destroyed

\* _hasPendingTarget: the newest command that decides it.
HasPendingTarget(commands, e, r, t) ==
  LET decides(c) ==
        /\ IsEdgeCommand(c, e, r)
        /\ \/ c.do = "remove" \/ c.t = t
           \/ c.do = "add" /\ r \in Exclusive /\ c.t \notin destroyed
      newest == SelectLastInSeq(commands, decides)
  IN /\ {e, t} \cap destroyed = {}
     /\ IF newest = 0 THEN t \in targets[r][e]
        ELSE commands[newest].do = "add" /\ commands[newest].t = t

-----------------------------------------------------------------------------
\* The innermost call goes on; handlers may call what is in `may`, the exit
\* callbacks of a relationship what is in `exits`.
Run(may, exits(_, _)) ==
  LET c == Head(calls) rest == Tail(calls) IN
  /\ calls # <<>>
  /\ \/ c.do = "add" /\ DoAdd(c, rest)
     \/ c.do = "remove" /\ DoRemove(c, rest, exits(c.e, c.r))
     \/ c.do = "removeTarget" /\ DoRemoveTarget(c, rest)
     \/ c.do = "take" /\ DoTake(c, rest)
     \/ c.do = "tell" /\ DoTell(c, rest, may)
     \/ c.do = "dropped" /\ DoDropped(c, rest, may)
     \/ c.do = "enter" /\ DoEnter(c, rest, may)
     \/ c.do = "attach" /\ DoAttach(c, rest, may)
     \/ c.do = "detach" /\ DoDetach(c, rest, may)
     \/ c.do = "destroy" /\ DoDestroy(c, rest)
     \/ c.do = "carriers" /\ DoCarriers(c, rest, may)
     \/ c.do = "strip" /\ DoStrip(c, rest, may)
     \/ c.do = "flush" /\ DoFlush(rest)
  /\ UNCHANGED <<mode, onDelete>>

\* _processCommandQueue: the next command, once the one before has returned.
Drain ==
  /\ mode = "draining" /\ calls = <<>> /\ queue # <<>>
  /\ calls' = <<Head(queue)>> /\ queue' = Tail(queue)
  /\ UNCHANGED <<graph, onDelete, mode, hooks>>

Drained ==
  /\ mode = "draining" /\ calls = <<>> /\ queue = <<>>
  /\ mode' = "direct"
  /\ UNCHANGED <<graph, onDelete, calls, queue, hooks>>
===============================================================================

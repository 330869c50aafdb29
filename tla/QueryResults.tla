----------------------------- MODULE QueryResults -----------------------------
(***************************************************************************)
(* What a standalone query makes of its membership (vecs/src/query/): a    *)
(* sorted list, buckets, and callbacks that are told of entries, exits and *)
(* updates with the data they ask for.  Membership itself is that of the   *)
(* query's root term (QueryTerms); here it is `members`, looked at again   *)
(* where the world notifies the term.  Callbacks only listen.              *)
(***************************************************************************)
EXTENDS Integers, Sequences, SequencesExt, FiniteSets, FiniteSetsExt, Functions

CONSTANTS
  Entities,  \* their ids, natural numbers
  Scenes     \* [requires, through, order, group, exclusive, entities, commands, mutates,
             \* queue, writes, silence, arrivals]: the query and what happens to it;
             \* `queue` and `writes` bound the commands of a scope and of a behaviour

VARIABLES
  scene,
  world,   \* [alive, slots, data, targets, marked]: the entities alive, the components of
           \* each in the order of its slots, their values, the edges, the dirty bits
  query,   \* [members, items, dirty, changed, groups, keys]: the root term's members,
           \* OrderedSet._items and _dirty, Query.changed, Grouping.groups and _entityKeys
  scope,   \* [open, silent, queue]: the deferred scope, whether the query ignores
           \* what it writes, and its commands
  heard,   \* ghost: what the callbacks were told by the last step
  ghost,   \* ghost: [told, arrived, hushed, adrift, read], see below
  writes   \* history variable: commands so far

vars == <<scene, world, query, scope, heard, ghost, writes>>

\* K and W are components with data, R a relationship.  K may order and group
\* the members, W is watched by an update callback.
Nothing == 0

Has(w, c, e) == Contains(w.slots[e], c)
SourcesOf(w, t) == {e \in Entities : t \in w.targets[e]}

Qualifies(w, e) ==
  /\ \A c \in scene.requires : Has(w, c, e)
  /\ scene.through => \E t \in w.targets[e] : Has(w, "K", t)

-----------------------------------------------------------------------------
(* The sorted list.                                                        *)

\* Traversable.depths; -1 stands for an entity without a parent.
Depth(w, e) ==
  LET d[x \in Entities] == IF w.targets[x] = {} THEN 0 ELSE 1 + d[CHOOSE t \in w.targets[x] : TRUE]
  IN IF w.targets[e] = {} THEN -1 ELSE d[e]

\* What the comparator of orderBy or cascade reads of an entity; ties go by id.
Rank(w, e) == IF scene.order = "cascade" THEN Depth(w, e) ELSE w.data["K"][e]
Below(w, a, b) == Rank(w, a) < Rank(w, b) \/ (Rank(w, a) = Rank(w, b) /\ a < b)

OrderWatch == CASE scene.order = "cascade" -> {"R"} [] scene.order = "key" -> {"K"} [] OTHER -> {}

InOrder(w, items) == SetToSortSeq(ToSet(items), LAMBDA a, b : Below(w, a, b))
EnsureSorted(w, q) == [q EXCEPT !.items = IF q.dirty THEN InOrder(w, @) ELSE @, !.dirty = FALSE]

\* OrderedSet._bisect: the loop of a binary search, whatever it is given.
RECURSIVE Bisect(_, _, _, _, _)
Bisect(w, items, e, lo, hi) ==
  LET mid == (lo + hi) \div 2 IN
  IF lo = hi THEN lo
  ELSE IF Below(w, items[mid + 1], e) THEN Bisect(w, items, e, mid + 1, hi)
  ELSE Bisect(w, items, e, lo, mid)

ItemAdded(w, q, e) ==
  LET sorted == EnsureSorted(w, q) IN
  IF scene.order = "none" THEN [q EXCEPT !.items = Append(@, e)]
  ELSE [sorted EXCEPT !.items = InsertAt(@, Bisect(w, @, e, 0, Len(@)) + 1, e)]

-----------------------------------------------------------------------------
(* Buckets.                                                                *)

\* keysOf: an edge each, or what the key function makes of K; it gives no key
\* for an entity with a K of 2.
KeysOf(w, e) ==
  CASE scene.group = "edges" -> w.targets[e]
    [] scene.group = "key"   -> IF w.data["K"][e] = 1 THEN {1} ELSE {}
    [] OTHER                 -> {}

GroupWatch == CASE scene.group = "edges" -> {"R"} [] scene.group = "key" -> {"K"} [] OTHER -> {}

\* _assign, _removeFromBucket, _addToBucket: out of the buckets it no longer
\* belongs to, which go when they are empty, then into the new ones.
Assign(q, e, new) ==
  LET old  == q.keys[e]
      gone == {k \in old \ new : q.groups[k] = {e}}
      kept == Restrict(q.groups, DOMAIN q.groups \ gone)
  IN [q EXCEPT !.keys[e] = new,
               !.groups = [k \in DOMAIN kept \cup new |->
                             IF k \in new THEN (IF k \in DOMAIN kept THEN kept[k] ELSE {}) \cup {e}
                             ELSE kept[k] \ {e}]]

-----------------------------------------------------------------------------
(* Injection.  s = [w, q, updates, heard, ghost] is a step under way, and  *)
(* removed = [e, c, was] the one component whose removal is being told.    *)

NoRemoval == [e |-> Nothing, c |-> Nothing, was |-> Nothing]

\* Mutant: only what is stored.
InjectedStored(s, removed, c, e) == s.w.data[c][e]
\* _get(c) ?? _removedInjected(c)
Injected(s, removed, c, e) ==
  IF s.w.data[c][e] = Nothing /\ removed.e = e /\ removed.c = c THEN removed.was ELSE s.w.data[c][e]

\* [K, W, { targets: [R, [Entity, K]] }]
Tuple(s, removed, e) ==
  LET edges == IF removed.e = e /\ removed.c = "R" THEN removed.was ELSE s.w.targets[e] IN
  <<Injected(s, removed, "K", e), Injected(s, removed, "W", e),
    {<<t, Injected(s, removed, "K", t)>> : t \in edges}>>

-----------------------------------------------------------------------------
(* What the query hears.                                                   *)

Heard(s, kind, e, tuple) == [s EXCEPT !.heard = Append(@, [kind |-> kind, e |-> e, tuple |-> tuple])]

\* Mutant: a write that is ignored leaves the order as it is.
NotifiedUnordered(s, e, c, silent) ==
  IF silent THEN [s EXCEPT !.ghost.hushed = @ \cup {<<e, c>>}]
  ELSE [s EXCEPT !.q.dirty = @ \/ c \in OrderWatch, !.q.changed = TRUE,
                 !.q = IF c \in GroupWatch THEN Assign(@, e, KeysOf(s.w, e)) ELSE @,
                 !.ghost.told[e] = IF c = "W" THEN s.w.data["W"][e] ELSE @,
                 !.ghost.hushed = @ \ {<<e, c>>}]

\* _notifyModified: the order goes stale even if the query ignores the writer.
Notified(s, e, c, silent) ==
  LET stale == [s EXCEPT !.q.dirty = @ \/ c \in OrderWatch] IN
  IF c \notin OrderWatch \cup GroupWatch \cup {"W"} THEN s
  ELSE IF silent THEN [stale EXCEPT !.ghost.hushed = @ \cup {<<e, c>>}]
  ELSE [stale EXCEPT !.q.changed = TRUE,
                     !.q = IF c \in GroupWatch THEN Assign(@, e, KeysOf(s.w, e)) ELSE @,
                     !.ghost.told[e] = IF c = "W" THEN s.w.data["W"][e] ELSE @,
                     !.ghost.hushed = @ \ {<<e, c>>}]

\* _notifyPresence: W arrives at, or leaves, a member, if the callback asked for it.
Presence(s, e, c, silent, by) ==
  IF c # "W" \/ ~scene.arrivals THEN s
  ELSE [Notified(s, e, c, silent) EXCEPT !.ghost.arrived[e] = IF silent THEN @ ELSE @ + by]

\* _enter: the bucket, the list, the callback, then W if it is there.
Entered(s, e, silent) ==
  LET told == [s EXCEPT !.q = Assign(@, e, KeysOf(s.w, e)), !.q.changed = TRUE, !.q.members = @ \cup {e},
                        !.ghost.hushed = {x \in @ : x[1] # e}]
      in   == Heard([told EXCEPT !.q = ItemAdded(s.w, @, e)], "enter", e, Tuple(s, NoRemoval, e))
  IN IF Has(s.w, "W", e) THEN Presence(in, e, "W", silent, 1) ELSE in

\* _exit: the callback first, while the list and the bucket still hold it.
Left(s, e, removed) ==
  LET told == Heard(s, "exit", e, Tuple(s, removed, e)) IN
  [told EXCEPT !.q.changed = TRUE, !.q.members = @ \ {e}, !.q.items = SelectSeq(@, LAMBDA x : x # e),
               !.q = Assign(@, e, {}),
               !.ghost.told[e] = Nothing, !.ghost.arrived[e] = 0, !.ghost.hushed = {x \in @ : x[1] # e}]

\* The root term looks at some entities again.
Looked(s, entities, removed, silent) ==
  FoldSet(LAMBDA e, acc :
            IF Qualifies(acc.w, e) = (e \in acc.q.members) THEN acc
            ELSE IF e \in acc.q.members THEN Left(acc, e, removed)
            ELSE Entered(acc, e, silent),
          s, entities)

-----------------------------------------------------------------------------
(* A command is a series of changes of one slot, of these kinds:           *)
(*   attach, detach  a component comes or goes, with its storage,          *)
(*   keep            it goes and its storage stays,                        *)
(*   change          its value or its edges are `value` now,               *)
(*   edge            the same, and the term is told when the queue is done,*)
(*   clear, dead     the storage of e goes; e is destroyed.                *)

Slot(kind, e, c, value) == [kind |-> kind, e |-> e, c |-> c, value |-> value]

\* IterableArrayMap.delete: the last slot takes the place of the one that goes.
SlotGone(slots, c) ==
  LET i == CHOOSE j \in DOMAIN slots : slots[j] = c IN Front(ReplaceAt(slots, i, Last(slots)))

Stored(w, m) ==
  LET put == IF m.c = "R" THEN [w EXCEPT !.targets[m.e] = m.value] ELSE [w EXCEPT !.data[m.c][m.e] = m.value]
  IN CASE m.kind = "attach"           -> [put EXCEPT !.slots[m.e] = Append(@, m.c)]
       [] m.kind \in {"change", "edge"} -> [put EXCEPT !.marked = IF m.kind = "edge" THEN @ \cup {<<m.e, m.c>>}
                                                                ELSE @ \ {<<m.e, m.c>>}]
       [] m.kind = "detach"           -> [put EXCEPT !.slots[m.e] = SlotGone(@, m.c), !.marked = @ \ {<<m.e, m.c>>}]
       [] m.kind = "keep"             -> [w EXCEPT !.slots[m.e] = SlotGone(@, m.c), !.marked = @ \ {<<m.e, m.c>>}]
       [] m.kind = "clear"            -> [w EXCEPT !.data = [c \in {"K", "W"} |-> [w.data[c] EXCEPT ![m.e] = Nothing]]]
       [] m.kind = "dead"             -> [w EXCEPT !.alive = @ \ {m.e}]

\* The order does not follow members whose rank changes unwatched.
Drift(s, t) ==
  [t EXCEPT !.ghost.adrift =
     ~t.q.dirty /\ (@ \/ \E e \in s.q.members \cap t.q.members : Rank(s.w, e) # Rank(t.w, e))]

Changed(s, m, silent) ==
  LET was     == IF m.c = "R" THEN s.w.targets[m.e] ELSE IF m.c = "" THEN Nothing ELSE s.w.data[m.c][m.e]
      stored  == [s EXCEPT !.w = Stored(@, m)]
      removed == IF m.kind = "detach" THEN [e |-> m.e, c |-> m.c, was |-> was] ELSE NoRemoval
      early   == IF m.kind = "attach" /\ m.e \in s.q.members THEN Presence(stored, m.e, m.c, silent, 1) ELSE stored
      looked  == Looked(early, {m.e} \cup (IF m.c = "K" THEN SourcesOf(s.w, m.e) ELSE {}), removed, silent)
      member  == m.e \in looked.q.members
  IN Drift(s,
       CASE m.kind = "edge" ->
              [stored EXCEPT !.updates = IF <<m.e, "R">> \in s.w.marked THEN @ ELSE Append(@, <<m.e, silent>>)]
         [] m.kind = "change" /\ member -> Notified(looked, m.e, m.c, silent)
         [] m.kind = "detach" /\ member /\ m.e \in s.w.alive -> Presence(looked, m.e, m.c, silent, -1)
         [] OTHER -> looked)

\* The application builds no cycles of one-target edges.
Above(w, t) == {t} \cup w.targets[t] \cup UNION {w.targets[x] : x \in w.targets[t]}

\* _set, _remove, _modified, _addTarget, _removeTarget, _destroy
EdgeSlot(deferred) == IF deferred THEN "edge" ELSE "change"
Unpointed(w, e, t, deferred) ==
  IF w.targets[e] = {t} THEN <<Slot("detach", e, "R", {})>>
  ELSE <<Slot(EdgeSlot(deferred), e, "R", w.targets[e] \ {t})>>

Slots(w, cmd, deferred) ==
  LET e == cmd.e IN
  CASE e \notin w.alive -> <<>>
    [] cmd.op = "set" -> <<Slot(IF Has(w, cmd.c, e) THEN "change" ELSE "attach", e, cmd.c, cmd.value)>>
    [] cmd.op = "modified" ->
         IF Has(w, cmd.c, e) THEN <<Slot("change", e, cmd.c, w.data[cmd.c][e])>> ELSE <<>>
    [] cmd.op = "remove" ->
         IF Has(w, cmd.c, e) THEN <<Slot("detach", e, cmd.c, IF cmd.c = "R" THEN {} ELSE Nothing)>> ELSE <<>>
    [] cmd.op = "point" ->
         IF cmd.value \notin w.alive \/ cmd.value \in w.targets[e] \/ (scene.exclusive /\ e \in Above(w, cmd.value))
         THEN <<>>
         ELSE IF ~Has(w, "R", e) THEN <<Slot("attach", e, "R", {cmd.value})>>
         ELSE <<Slot(EdgeSlot(deferred), e, "R",
                     IF scene.exclusive THEN {cmd.value} ELSE w.targets[e] \cup {cmd.value})>>
    [] cmd.op = "unpoint" ->
         IF cmd.value \in w.targets[e] THEN Unpointed(w, e, cmd.value, deferred) ELSE <<>>
    [] cmd.op = "destroy" ->
         LET own == [i \in DOMAIN w.slots[e] |->
                       Slot(IF w.slots[e][i] = "R" THEN "detach" ELSE "keep", e, w.slots[e][i], {})]
             of  == SetToSeq(SourcesOf(w, e) \ {e})
         IN <<Slot("dead", e, "", Nothing)>> \o own \o <<Slot("clear", e, "", Nothing)>>
              \o FlattenSeq([i \in DOMAIN of |-> Unpointed(w, of[i], e, deferred)])

Applied(s, cmd, deferred, silent) ==
  FoldLeft(LAMBDA acc, m : Changed(acc, m, silent), s, Slots(s.w, cmd, deferred))

\* _modifiedRelationship, once the mutations are done.
Routed(s, update) ==
  LET e      == update[1]
      clean  == [s EXCEPT !.w.marked = @ \ {<<e, "R">>}]
      looked == Looked(clean, {e}, NoRemoval, update[2])
  IN IF <<e, "R">> \notin s.w.marked THEN s
     ELSE IF e \in looked.q.members
     THEN LET t == Notified(looked, e, "R", update[2]) IN [t EXCEPT !.ghost.adrift = @ /\ ~t.q.dirty]
     ELSE looked

-----------------------------------------------------------------------------
Step == [w |-> world, q |-> query, updates |-> <<>>, heard |-> <<>>, ghost |-> ghost]

Becomes(s) == world' = s.w /\ query' = s.q /\ heard' = s.heard /\ ghost' = s.ghost /\ UNCHANGED scene

\* Outside deferred mode a command takes effect at once.
Immediately(cmd) ==
  /\ ~scope.open /\ writes < scene.writes /\ writes' = writes + 1
  /\ Becomes(Applied(Step, cmd, FALSE, FALSE))
  /\ UNCHANGED scope

\* Iteration in order; forEach resets `changed`.
ForEach ==
  /\ query' = [EnsureSorted(world, query) EXCEPT !.changed = FALSE]
  /\ ghost' = [ghost EXCEPT !.read = query.members, !.adrift = @ /\ ~query.dirty]
  /\ query' # query
  /\ heard' = <<>>
  /\ UNCHANGED <<scene, world, scope, writes>>

\* A system runs, of which the query ignores the writes or not.
Begin(silent) ==
  /\ ~scope.open
  /\ scope' = [scope EXCEPT !.open = TRUE, !.silent = silent]
  /\ heard' = <<>>
  /\ UNCHANGED <<scene, world, query, ghost, writes>>

Enqueue(cmd) ==
  /\ scope.open /\ Len(scope.queue) < scene.queue /\ writes < scene.writes /\ writes' = writes + 1
  /\ scope' = [scope EXCEPT !.queue = Append(@, cmd)]
  /\ heard' = <<>>
  /\ UNCHANGED <<scene, world, query, ghost>>

\* getMut: the data changes now, the notification is queued unless one is due.
Mutate(e, c, value) ==
  LET due == <<e, c>> \in world.marked IN
  /\ scope.open /\ Has(world, c, e) /\ value # world.data[c][e]
  /\ due \/ Len(scope.queue) < scene.queue
  /\ writes < scene.writes /\ writes' = writes + 1
  /\ world' = [world EXCEPT !.data[c][e] = value, !.marked = @ \cup {<<e, c>>}]
  /\ scope' = IF due THEN scope
              ELSE [scope EXCEPT !.queue = Append(@, [op |-> "modified", e |-> e, c |-> c, value |-> value])]
  /\ heard' = <<>>
  /\ UNCHANGED <<scene, query, ghost>>

\* endDefer: the commands in order, then the relationship updates.
End ==
  LET applied == FoldLeft(LAMBDA s, cmd : Applied(s, cmd, TRUE, scope.silent), Step, scope.queue)
      routed  == FoldLeft(Routed, applied, applied.updates)
  IN
  /\ scope.open
  /\ Becomes(routed)
  /\ scope' = [open |-> FALSE, silent |-> FALSE, queue |-> <<>>]
  /\ UNCHANGED writes

-----------------------------------------------------------------------------
Init ==
  /\ scene \in Scenes
  /\ world = [alive |-> scene.entities, slots |-> [e \in Entities |-> <<>>],
              data |-> [c \in {"K", "W"} |-> [e \in Entities |-> Nothing]],
              targets |-> [e \in Entities |-> {}], marked |-> {}]
  /\ query = [members |-> {}, items |-> <<>>, dirty |-> FALSE, changed |-> FALSE,
              groups |-> << >>, keys |-> [e \in Entities |-> {}]]
  /\ scope = [open |-> FALSE, silent |-> FALSE, queue |-> <<>>]
  /\ heard = <<>>
  /\ ghost = [told |-> [e \in Entities |-> Nothing], arrived |-> [e \in Entities |-> 0], hushed |-> {},
              adrift |-> FALSE, read |-> {}]
  /\ writes = 0

Next ==
  \/ \E cmd \in scene.commands : Immediately(cmd) \/ Enqueue(cmd)
  \/ \E m \in scene.mutates : Mutate(m.e, m.c, m.value)
  \/ \E silent \in {FALSE, scene.silence} : Begin(silent)
  \/ ForEach
  \/ End

-----------------------------------------------------------------------------
(* Properties.                                                             *)

\* Whoever iterates meets exactly the members, in the order of what the
\* comparator reads of them now, however the list was searched and sorted while
\* its data changed.  The order may lag only behind ranks that changed without
\* an update of their own (`adrift`).
OrderIsFresh ==
  LET shown == EnsureSorted(world, query).items IN
  /\ ToSet(query.items) = query.members /\ Len(query.items) = Cardinality(query.members)
  /\ ~scope.open /\ ~ghost.adrift /\ scene.order # "none" =>
       \A i, j \in DOMAIN shown : i < j => Below(world, shown[i], shown[j])

\* A member is in the buckets of its keys and in no other; a bucket is never
\* empty.  A key that changed by an ignored write is followed later.
GroupsAgree ==
  /\ \A k \in DOMAIN query.groups :
       query.groups[k] # {} /\ query.groups[k] = {e \in Entities : k \in query.keys[e]}
  /\ \A e \in Entities :
       /\ query.keys[e] \subseteq DOMAIN query.groups
       /\ e \notin query.members => query.keys[e] = {}
       /\ ~scope.open /\ e \in query.members /\ (\A c \in GroupWatch : <<e, c>> \notin ghost.hushed) =>
            query.keys[e] = KeysOf(world, e)

\* The update callback has been told the value W has now, of each arrival and
\* each removal once, but for writes the query ignores; and membership that
\* changed since the last forEach shows as `changed`.
UpdatesAreTold ==
  /\ ~scope.open => \A e \in query.members :
       <<e, "W">> \notin ghost.hushed /\ scene.arrivals =>
         /\ ghost.told[e] = world.data["W"][e]
         /\ ~scene.silence => ghost.arrived[e] = IF Has(world, "W", e) THEN 1 ELSE 0
  /\ query.members # ghost.read => query.changed

ResultsHold == OrderIsFresh /\ GroupsAgree /\ UpdatesAreTold

\* An exit callback is given what the entity had before: the component whose
\* removal makes it leave, and those of its targets.
ExitStep ==
  ~scope.open => \A i \in DOMAIN heard' :
    LET x == heard'[i] IN
    x.kind = "exit" =>
      /\ x.tuple[1] = world.data["K"][x.e] /\ x.tuple[2] = world.data["W"][x.e]
      /\ "R" \in scene.requires =>
           \A row \in x.tuple[3] : row[1] \in world'.alive \/ scene.through => row[2] = world.data["K"][row[1]]
      /\ "R" \in scene.requires /\ ~scene.through =>
           {row[1] : row \in x.tuple[3]} = world.targets[x.e]
===============================================================================

------------------------------ MODULE Transfers ------------------------------
(***************************************************************************)
(* Subtrees that move between two worlds (World.snapshotSubtree,           *)
(* restoreSubtree and moveSubtree; lib/vecs/src/snapshot).  A call runs to *)
(* its end, but the hooks of each entity it destroys and of each component *)
(* and edge it makes are user code: one may throw, or change either world. *)
(***************************************************************************)
EXTENDS Integers, SequencesExt, TLC

CONSTANTS
  Plain,     \* the component classes, in the order of their ids
  Links,     \* the relationship classes, likewise
  Single,    \* the Exclusive ones
  Owning,    \* those whose OnDeleteTarget is Delete
  Custom,    \* those with a CustomSnapshot policy
  Opaque,    \* a value that ClonePublic cannot copy
  Anything,  \* an allowlist that is left out
  Nobody,    \* no snapshot, no call
  Trips      \* [worlds, options, commands, hooks, calls, throws]: what an application starts from
             \* and does, the last bounding its calls

ASSUME TransfersAssumption ==
  /\ Single \cup Owning \cup Custom \subseteq ToSet(Links)
  /\ ToSet(Plain) \cap ToSet(Links) = {}
  \* The first edge of an exclusive relationship that was built before it replaces no target.
  /\ Custom \cap Single = {}

VARIABLES
  trip,
  worlds,    \* [ents, fit] of each: its entities, and the classes it captures and restores
  fresh,     \* the next entity id
  snapshot,  \* what the application holds: [entities, roots, traversal]
  task,      \* the running call
  last,      \* how the last call ended
  left       \* bound of the model: the calls to come

transferVars == <<trip, worlds, fresh, snapshot, task, last, left>>

Bare == [data |-> <<>>, links |-> <<>>]

-----------------------------------------------------------------------------
(* The entities of a world.                                                *)

HasLink(w, e, r, t) ==
  /\ e \in DOMAIN w.ents
  /\ r \in DOMAIN w.ents[e].links
  /\ t \in ToSet(w.ents[e].links[r].targets)

\* _addTarget: an exclusive relationship replaces its target.
Linked(w, e, r, t) ==
  LET links   == w.ents[e].links
      old     == IF r \in DOMAIN links THEN links[r] ELSE [targets |-> <<>>, data |-> 0]
      targets == IF r \in Single THEN <<t>> ELSE Append(old.targets, t)
  IN IF {e, t} \subseteq DOMAIN w.ents /\ ~HasLink(w, e, r, t)
     THEN [w EXCEPT !.ents[e].links = (r :> [old EXCEPT !.targets = targets]) @@ @]
     ELSE w

\* An entity none of whose edges leads to `gone`; the last edge takes its relationship with it.
Severed(entity, gone) ==
  LET kept(r) == SelectSeq(entity.links[r].targets, LAMBDA t : t \notin gone)
      spared  == {r \in DOMAIN entity.links : kept(r) # <<>> \/ entity.links[r].targets = <<>>}
  IN [entity EXCEPT !.links = [r \in spared |-> [entity.links[r] EXCEPT !.targets = kept(r)]]]

\* _removeTarget.
Unlinked(w, e, r, t) ==
  LET rest == SelectSeq(w.ents[e].links[r].targets, LAMBDA x : x # t)
      kept == DOMAIN w.ents[e].links \ {x \in {r} : rest = <<>>}
  IN IF HasLink(w, e, r, t)
     THEN [w EXCEPT !.ents[e].links = [x \in kept |-> [@[x] EXCEPT !.targets = IF x = r THEN rest ELSE @]]]
     ELSE w

\* Those that the destruction of `gone` takes along.
RECURSIVE Doomed(_, _)
Doomed(w, gone) ==
  LET more == gone \cup {e \in DOMAIN w.ents : \E r \in Owning, t \in gone : HasLink(w, e, r, t)}
  IN IF more = gone THEN gone ELSE Doomed(w, more)

Destroyed(w, e) ==
  LET gone == Doomed(w, {e})
  IN IF e \in DOMAIN w.ents
     THEN [w EXCEPT !.ents = [x \in DOMAIN w.ents \ gone |-> Severed(w.ents[x], gone)]]
     ELSE w

Put(w, e, c, value) ==
  IF e \in DOMAIN w.ents THEN [w EXCEPT !.ents[e].data = (c :> value) @@ @] ELSE w

\* What user code does to a world.
Obeyed(w, command) ==
  LET e == command.e  c == command.class IN
  CASE command.op = "set"     -> Put(w, e, c, command.arg)
    [] command.op = "link"    -> Linked(w, e, c, command.arg)
    [] command.op = "unlink"  -> Unlinked(w, e, c, command.arg)
    [] command.op = "destroy" -> Destroyed(w, e)
    [] command.op = "forbid"  -> [w EXCEPT !.fit = @ \ {c}]

-----------------------------------------------------------------------------
(* Capture.                                                                *)

Children(w, e, traversal) == SetToSeq({x \in DOMAIN w.ents : HasLink(w, x, traversal, e)})

\* The members of the forest depth-first, or Nobody when one is met twice.
RECURSIVE Walked(_, _, _, _)
Walked(w, traversal, pending, members) ==
  IF pending = <<>> THEN members
  ELSE IF Head(pending) \notin DOMAIN w.ents \ ToSet(members) THEN Nobody
  ELSE Walked(w, traversal, Children(w, Head(pending), traversal) \o Tail(pending),
              Append(members, Head(pending)))

Admits(allowlist, class) == allowlist = Anything \/ class \in allowlist
Named(allowlist, class) == allowlist # Anything /\ class \in allowlist

\* What the policies and the allowlists leave of the classes of an entity.
Captured(w, present, allowlist) == {c \in present : c \in w.fit /\ Admits(allowlist, c)}

Record(w, e, forest, options) ==
  LET entity == w.ents[e] IN
  [key   |-> e,
   data  |-> [c \in Captured(w, DOMAIN entity.data, options.components) |-> entity.data[c]],
   links |-> [r \in Captured(w, DOMAIN entity.links, options.relationships) |->
                [entity.links[r] EXCEPT !.targets = SelectSeq(@, LAMBDA t : t \in ToSet(forest))]]]

\* Plain data is copied all the way down, so that later writes do not show in a
\* snapshot; what is not plain throws (_clone).
Copyable(value) == value # Opaque

\* A DontSnapshot class is selected, a value is no plain data, or an edge leaves the forest.
Unfit(w, e, forest, options) ==
  LET entity == w.ents[e]
      record == Record(w, e, forest, options)
  IN \/ \E c \in DOMAIN entity.data \ w.fit : Named(options.components, c)
     \/ \E r \in DOMAIN entity.links \ w.fit : Named(options.relationships, r)
     \/ \E c \in DOMAIN record.data : ~Copyable(record.data[c])
     \/ /\ options.strict
        /\ \E r \in DOMAIN record.links : record.links[r].targets # entity.links[r].targets

\* _captureSubtree; Nobody when it throws.
Capture(w, options) ==
  LET forest == Walked(w, options.traversal, options.roots, <<>>) IN
  IF forest = Nobody THEN Nobody
  ELSE IF \E e \in ToSet(forest) : Unfit(w, e, forest, options) THEN Nobody
  ELSE [entities  |-> [i \in DOMAIN forest |-> Record(w, forest[i], forest, options)],
        roots     |-> options.roots,
        traversal |-> options.traversal]

-----------------------------------------------------------------------------
(* Restoration, one component or edge after another.                       *)

Classes(record) == DOMAIN record.data \cup DOMAIN record.links
KeysOf(s) == {record.key : record \in ToSet(s.entities)}

\* _preflightRestore.
Usable(w, s) == \A record \in ToSet(s.entities) : Classes(record) \subseteq w.fit

Todo(op, record, class, arg) == [op |-> op, key |-> record.key, class |-> class, arg |-> arg]
InOrder(classes, order) == SelectSeq(order, LAMBDA c : c \in classes)
Spread(s, Steps(_)) == FlattenSeq([i \in DOMAIN s.entities |-> Steps(s.entities[i])])

ComponentSteps(record) ==
  LET classes == InOrder(DOMAIN record.data, Plain)
  IN [i \in DOMAIN classes |-> Todo("store", record, classes[i], record.data[classes[i]])]

\* A custom policy builds its relationship before the first edge.
EdgeSteps(record, classes) ==
  LET of(r) == record.links[r]
      built(r) == IF r \in Custom THEN <<Todo("build", record, r, of(r).data)>> ELSE <<>>
      order == InOrder(classes \cap DOMAIN record.links, Links)
  IN FlattenSeq([i \in DOMAIN order |->
       built(order[i]) \o [k \in DOMAIN of(order[i]).targets |->
                             Todo("link", record, order[i], of(order[i]).targets[k])]])

PayloadSteps(record) ==
  LET order == InOrder(DOMAIN record.links \ Custom, Links)
  IN [i \in DOMAIN order |-> Todo("assign", record, order[i], record.links[order[i]].data)]

RestoreSteps(s) ==
  Spread(s, ComponentSteps)
    \o Spread(s, LAMBDA record : EdgeSteps(record, {s.traversal}))
    \o Spread(s, LAMBDA record : EdgeSteps(record, ToSet(Links) \ {s.traversal}))
    \o Spread(s, PayloadSteps)

Done(w, step, copies) ==
  LET e == copies[step.key] c == step.class IN
  CASE step.op = "store"  -> Put(w, e, c, step.arg)
    [] step.op = "build"  -> [w EXCEPT !.ents[e].links = (c :> [targets |-> <<>>, data |-> step.arg]) @@ @]
    [] step.op = "link"   -> Linked(w, e, c, copies[step.arg])
    [] step.op = "assign" -> IF c \in DOMAIN w.ents[e].links THEN [w EXCEPT !.ents[e].links[c].data = step.arg] ELSE w

\* One new entity for each record.
Copies(s, first) ==
  [key \in KeysOf(s) |-> first - 1 + CHOOSE i \in DOMAIN s.entities : s.entities[i].key = key]

Created(w, copies) ==
  [w EXCEPT !.ents = @ @@ [e \in {copies[key] : key \in DOMAIN copies} |-> Bare]]

\* Mutant: the loop ends before the first one.
UndoneButFirst(w, created) ==
  FoldLeft(Destroyed, w, Reverse(SubSeq(created, 2, Len(created))))

\* What an attempt made is destroyed, the newest first.
Undone(w, created) == FoldLeft(Destroyed, w, Reverse(created))

-----------------------------------------------------------------------------
(* The calls.  `task` is [kind, phase, snapshot, from, into, steps, copies, *)
(* tried, before, threw, meddled], `tried` the copies of the first attempt. *)

Idle == task = Nobody
MaySpend == Idle /\ left > 0 /\ left' = left - 1

Ended(outcome) == task' = Nobody /\ last' = [outcome |-> outcome, task |-> task]

Command ==
  /\ MaySpend
  /\ \E command \in trip.commands :
       worlds' = [worlds EXCEPT ![command.world] = Obeyed(@, command)] /\ worlds' # worlds
  /\ last' = Nobody
  /\ UNCHANGED <<trip, fresh, snapshot, task>>

\* snapshotSubtree.
TakeSnapshot(world, options) ==
  /\ MaySpend
  /\ Capture(worlds[world], options) # Nobody
  /\ snapshot' = Capture(worlds[world], options)
  /\ last' = Nobody
  /\ UNCHANGED <<trip, worlds, fresh, task>>

Task(kind, phase, s, from, into) ==
  [kind |-> kind, phase |-> phase, snapshot |-> s, from |-> from, into |-> into, steps |-> <<>>,
   copies |-> <<>>, tried |-> <<>>, before |-> worlds, threw |-> FALSE, meddled |-> FALSE]

\* restoreSubtree.
Restore(into) ==
  /\ MaySpend
  /\ snapshot # Nobody
  /\ task' = Task("restore", "begin", snapshot, into, into)
  /\ last' = Nobody
  /\ UNCHANGED <<trip, worlds, fresh, snapshot>>

\* moveSubtree captures and asks for the classes before it touches its source.
Move(from, into, options) ==
  LET s == Capture(worlds[from], options)
      t == Task("move", "vacate", s, from, into)
  IN
  /\ MaySpend
  /\ IF s # Nobody /\ Usable(worlds[into], s)
     THEN task' = t /\ last' = Nobody
     ELSE task' = Nobody /\ last' = [outcome |-> "refused", task |-> t]
  /\ UNCHANGED <<trip, worlds, fresh, snapshot>>

\* Hooks leave the entities of an attempt alive: what is restored next to a
\* destroyed one is stored in it all the same.
Spared(ws, copies) ==
  \A key \in DOMAIN copies : \E world \in DOMAIN ws : copies[key] \in DOMAIN ws[world].ents

\* The hooks of a step that leaves `ws` and `next`.
Hooked(ws, next) ==
  \/ worlds' = ws /\ task' = next
  \/ /\ ~task.meddled
     /\ \E command \in trip.hooks :
          /\ worlds' = [ws EXCEPT ![command.world] = Obeyed(@, command)]
          /\ worlds' # ws /\ Spared(worlds', task.copies)
     /\ task' = [next EXCEPT !.meddled = TRUE]

\* The next source that is still alive is destroyed.
Vacate ==
  LET alive(record) == record.key \in DOMAIN worlds[task.from].ents
      records == SelectSeq(task.snapshot.entities, alive)
  IN
  /\ task.phase = "vacate"
  /\ IF records = <<>>
     THEN task' = [task EXCEPT !.phase = "begin"] /\ UNCHANGED worlds
     ELSE Hooked([worlds EXCEPT ![task.from] = Destroyed(@, Head(records).key)], task)
  /\ UNCHANGED <<trip, fresh, snapshot, last, left>>

\* Where the current attempt builds.
Site == IF task.phase \in {"rollback", "rebuild"} THEN task.from ELSE task.into

\* What follows a throw: the attempt is undone, and a move goes back once.
Failed(ws, threw) ==
  LET created == SortSeq(SetToSeq({task.copies[key] : key \in DOMAIN task.copies}), <)
      failed  == [task EXCEPT !.threw = threw \/ @]
  IN
  /\ worlds' = [ws EXCEPT ![Site] = Undone(@, created)]
  /\ IF task.kind = "move" /\ Site = task.into
     THEN /\ task' = [failed EXCEPT !.phase = "rollback", !.steps = <<>>, !.copies = <<>>,
                                    !.tried = task.copies]
          /\ UNCHANGED last
     ELSE /\ task' = Nobody
          /\ last' = [outcome |-> IF task.kind = "move" THEN "lost" ELSE "failed", task |-> failed]

\* _restoreSubtree: the preflight, then an entity for each record.
Begin ==
  LET copies == Copies(task.snapshot, fresh) IN
  /\ task.phase \in {"begin", "rollback"}
  /\ IF Usable(worlds[Site], task.snapshot)
     THEN /\ worlds' = [worlds EXCEPT ![Site] = Created(@, copies)]
          /\ fresh' = fresh + Len(task.snapshot.entities)
          /\ task' = [task EXCEPT !.phase = IF @ = "begin" THEN "build" ELSE "rebuild",
                                  !.steps = RestoreSteps(task.snapshot), !.copies = copies]
          /\ UNCHANGED last
     ELSE Failed(worlds, FALSE) /\ UNCHANGED fresh
  /\ UNCHANGED <<trip, snapshot, left>>

Build ==
  LET ws == [worlds EXCEPT ![Site] = Done(@, Head(task.steps), task.copies)] IN
  /\ task.phase \in {"build", "rebuild"} /\ task.steps # <<>>
  /\ \/ Hooked(ws, [task EXCEPT !.steps = Tail(@)]) /\ UNCHANGED last
     \/ trip.throws /\ Failed(ws, TRUE)
  /\ UNCHANGED <<trip, fresh, snapshot, left>>

Finish ==
  /\ task.phase \in {"build", "rebuild"} /\ task.steps = <<>>
  /\ Ended(IF task.phase = "rebuild" THEN "rolledBack" ELSE "done")
  /\ UNCHANGED <<trip, worlds, fresh, snapshot, left>>

Running == ~Idle /\ (Vacate \/ Begin \/ Build \/ Finish)

TransferInit ==
  /\ trip \in Trips
  /\ worlds = trip.worlds /\ left = trip.calls
  /\ fresh = 1 + Max(UNION {DOMAIN worlds[world].ents : world \in DOMAIN worlds})
  /\ snapshot = Nobody /\ task = Nobody /\ last = Nobody

TransferNext ==
  \/ Command
  \/ \E world \in DOMAIN worlds : Restore(world) \/ \E o \in trip.options : TakeSnapshot(world, o)
  \/ \E from, into \in DOMAIN worlds, o \in trip.options : from # into /\ Move(from, into, o)
  \/ Running

-----------------------------------------------------------------------------
(* Correctness.                                                            *)

\* A copy of a record: what was captured of it, its edges between the copies.
Image(record, copies) ==
  LET of(r) == record.links[r]
      kept  == {r \in DOMAIN record.links : of(r).targets # <<>> \/ r \in Custom}
  IN [data  |-> record.data,
      links |-> [r \in kept |-> [of(r) EXCEPT !.targets = [i \in DOMAIN @ |-> copies[@[i]]]]]]

AllCopied(w, s, copies) ==
  \A record \in ToSet(s.entities) : w.ents[copies[record.key]] = Image(record, copies)

NoneLeft(w, copies) == \A key \in DOMAIN copies : copies[key] \notin DOMAIN w.ents

\* An entity below one of `roots`, or one of them.
RECURSIVE Below(_, _, _)
Below(w, traversal, roots) ==
  LET more == roots \cup {e \in DOMAIN w.ents : \E t \in roots : HasLink(w, e, traversal, t)}
  IN IF more = roots THEN roots ELSE Below(w, traversal, more)

(***************************************************************************)
(* A transfer is whole or has not been (restore.ts:27-29,                  *)
(* world.transfers.ts:120-133): what it restores equals what was captured, *)
(* with the edges between the copies and no other; one that fails leaves   *)
(* no copy and the destination as it was; a move that cannot be accepted   *)
(* has not touched its source, and one that fails after that gives the     *)
(* source equal entities.  Hooks that throw or change the worlds are all   *)
(* that makes a move fail after its preflight.                             *)
(***************************************************************************)
TransferIsWhole ==
  last # Nobody =>
    LET t == last.task
        old(world) == t.before[world].ents
        ents(world) == worlds[world].ents
        calm == ~t.meddled
    IN
    /\ last.outcome = "refused" => worlds = t.before
    /\ last.outcome = "done" /\ calm =>
         /\ AllCopied(worlds[t.into], t.snapshot, t.copies)
         /\ \A e \in DOMAIN old(t.into) : e \in DOMAIN ents(t.into) /\ ents(t.into)[e] = old(t.into)[e]
         /\ t.kind = "move" =>
              /\ KeysOf(t.snapshot) = Below(t.before[t.from], t.snapshot.traversal, ToSet(t.snapshot.roots))
              /\ KeysOf(t.snapshot) \cap DOMAIN ents(t.from) = {}
    /\ last.outcome = "failed" =>
         NoneLeft(worlds[t.into], t.copies) /\ (calm => worlds = t.before)
    /\ last.outcome \in {"rolledBack", "lost"} =>
         /\ NoneLeft(worlds[t.into], t.tried)
         /\ t.threw \/ t.meddled
         /\ calm => worlds[t.into] = t.before[t.into]
    /\ last.outcome = "rolledBack" /\ calm => AllCopied(worlds[t.from], t.snapshot, t.copies)
    /\ last.outcome = "lost" => NoneLeft(worlds[t.from], t.copies)

\* An edge leads to a living entity of its own world.
EdgesStayHome ==
  \A world \in DOMAIN worlds :
    LET ents == worlds[world].ents IN
    \A e \in DOMAIN ents : \A r \in DOMAIN ents[e].links :
      ToSet(ents[e].links[r].targets) \subseteq DOMAIN ents

TransferHolds == TransferIsWhole /\ EdgesStayHome
=============================================================================

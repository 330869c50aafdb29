------------------------------ MODULE TermGraph ------------------------------
(***************************************************************************)
(* A world of entities, components and queries over the term graph, driven *)
(* by an application whose hooks and callbacks are free to call the world  *)
(* again.  Outside deferred mode every call takes effect at once, nested   *)
(* in whatever is in progress; inside it becomes a command of the queue.   *)
(***************************************************************************)
EXTENDS Terms

CONSTANTS
  Root,         \* Root[q]: the term of the query's DSL
  Living,       \* the entities alive at the start, without components
  Applications  \* what the application may be like, see below

\* An application is a record [queries, ready : SUBSET Queries, immediate : BOOLEAN,
\* hooks, callbacks : SUBSET {"add", "remove", "others"}, midway : BOOLEAN, calls : Nat]:
\* the queries it builds and which of them at the start, whether it calls the
\* world outside deferred mode, and what its hooks and callbacks do there to the
\* entity they run for ("add", "remove") or to the "others"; whether it lets a
\* query get built while an event is delivered; how many calls it makes.

VARIABLES
  app,      \* the application of this behaviour
  balance,  \* ghost: enter callbacks minus exit callbacks, per query and entity
  ordered,  \* Query._entities of an ordered query
  pending,  \* World._unbuiltQueries
  queue,    \* World._commandQueue, from _commandHead on
  calls     \* ghost: the calls the application has made

queryVars == <<balance, ordered>>
vars == <<life, has, termVars, stack, queryVars, pending, queue, calls, app>>

-----------------------------------------------------------------------------
(* Who runs.                                                                *)

InProgress(kinds, calling) == \E i \in DOMAIN calling : calling[i].kind \in kinds

Depth0(calling)   == ~InProgress({"defer", "backfill"}, calling)
Draining(calling) == InProgress({"drain"}, calling)
Deferred(calling) == ~Depth0(calling) \/ Draining(calling)

\* Application code is on top, and may call the world as it is.
UserRuns ==
  /\ Top.kind \in {"main", "addHook", "removeHook", "enter", "exit", "defer"}
  /\ app.immediate \/ Deferred(stack)

Hook(kind, e, c)     == [kind |-> kind, entity |-> e, component |-> c]
Callback(kind, q, e) == [kind |-> kind, query |-> q, entity |-> e]
Frame(kind)          == [kind |-> kind]

\* endDefer at the outermost scope flushes.
EndDefer(base) == IF Depth0(base) THEN <<Frame("flush")>> \o base ELSE base

-----------------------------------------------------------------------------
(* What a call does when it takes effect.                                   *)

\* _set without props: store, stage, then the add hooks.
AttachComponent(e, c, base) ==
  IF life[e] # "alive" \/ c \in has[e]
  THEN stack' = base /\ UNCHANGED <<life, has, termVars>>
  ELSE /\ has' = [has EXCEPT ![e] = @ \cup {c}]
       /\ StageAdded(c, e)
       /\ stack' = <<Hook("addHook", e, c)>> \o base
       /\ UNCHANGED <<life, built, consumers>>

\* _remove: the exits first, then the remove hook.
DetachComponent(e, c, base) ==
  IF life[e] # "alive" \/ c \notin has[e]
  THEN stack' = base /\ UNCHANGED <<life, has, termVars>>
  ELSE /\ has' = [has EXCEPT ![e] = @ \ {c}]
       /\ ComponentRemoved(c, e, <<Hook("detached", e, c)>> \o base)
       /\ UNCHANGED <<life, built, consumers>>

\* _destroy: marked first, then out of the world term, then slot by slot.
Destroy(e, base) ==
  IF life[e] # "alive" THEN stack' = base /\ UNCHANGED <<life, has, termVars>>
  ELSE LET dying == <<[kind |-> "destroy", entity |-> e]>> \o base IN
       /\ life' = [life EXCEPT ![e] = "dying"]
       /\ TermDelete(World, e, dying)
       /\ UNCHANGED <<has, built, consumers, staged>>

\* _register outside deferred mode, and the CreateEntity command.
Create(e, base) ==
  /\ life' = [life EXCEPT ![e] = "alive"]
  /\ IF World \in built THEN TermAdd(World, e, base) ELSE stack' = base /\ UNCHANGED members
  /\ UNCHANGED <<has, built, consumers, staged>>

\* The call itself, or _executeCommand for a deferred one.
TakeEffect(call, base) ==
  \/ call.op = "add" /\ AttachComponent(call.entity, call.component, base)
  \/ call.op = "remove" /\ DetachComponent(call.entity, call.component, base)
  \/ call.op = "destroy" /\ Destroy(call.entity, base)
  \/ call.op = "create" /\ Create(call.entity, base)

\* Query._build: subscribe, then enter whatever the root term holds, deferred.
Build(q, base) ==
  /\ pending' = pending \ {q}
  /\ BuildTerms(Root[q], q)
  /\ stack' = <<[kind |-> "backfill", query |-> q, todo |-> members'[Root[q]]]>> \o base

-----------------------------------------------------------------------------
(* The application.                                                         *)

EntityCalls ==
  [op : {"add", "remove"}, entity : Entities, component : Components]
    \cup [op : {"destroy"}, entity : Entities]

Hooks     == {"addHook", "removeHook"}
Callbacks == {"enter", "exit"}

\* The hooks and callbacks that run outside deferred mode: whatever is called
\* now takes effect before they return.
Hosts == {i \in DOMAIN stack : /\ stack[i].kind \in Hooks \cup Callbacks
                               /\ ~Deferred(SubSeq(stack, i, Len(stack)))}

May(host) == IF host.kind \in Hooks THEN app.hooks ELSE app.callbacks

\* What a call does to the entity a hook or a callback runs for.
Touch(call, host) ==
  IF call.entity # host.entity THEN "others" ELSE IF call.op = "add" THEN "add" ELSE "remove"

UserCalls ==
  /\ UserRuns
  /\ \E call \in EntityCalls :
       /\ life[call.entity] # "unborn"
       /\ \A i \in Hosts : Touch(call, stack[i]) \in May(stack[i])
       /\ IF Deferred(stack)
          THEN queue' = Append(queue, call) /\ UNCHANGED <<life, has, termVars, stack>>
          ELSE TakeEffect(call, stack) /\ UNCHANGED queue
  /\ UNCHANGED <<queryVars, pending>>

\* world.entity(): the new entity is hidden until the queue drains.
UserCreates ==
  /\ UserRuns
  /\ \E e \in Entities :
       /\ life[e] = "unborn"
       /\ IF Deferred(stack)
          THEN /\ life' = [life EXCEPT ![e] = "pending"]
               /\ queue' = Append(queue, [op |-> "create", entity |-> e])
               /\ UNCHANGED <<has, termVars, stack>>
          ELSE Create(e, stack) /\ UNCHANGED queue
  /\ UNCHANGED <<queryVars, pending>>

\* A query is built once it is among the consumers of its term.
IsBuilt(q) == Contains(consumers[Root[q]], q)

\* world.query(...).build(): deferred, it waits for the next flush.
UserBuilds ==
  /\ UserRuns
  /\ app.midway \/ ~Emitting \/ (Draining(stack) /\ Depth0(stack))
  /\ \E q \in app.queries :
       /\ ~IsBuilt(q)
       /\ IF Deferred(stack)
          THEN pending' = pending \cup {q} /\ UNCHANGED <<termVars, stack>>
          ELSE Build(q, stack)
  /\ UNCHANGED <<life, has, queryVars, queue>>

\* world.defer(fn) from application code.
UserDefers ==
  /\ Top.kind \in {"main"} \cup Hooks \cup Callbacks
  /\ Depth0(stack)
  /\ app.midway \/ ~Emitting \/ pending = {}
  /\ stack' = <<Frame("defer")>> \o stack
  /\ UNCHANGED <<life, has, termVars, queryVars, pending, queue>>

UserStep ==
  /\ calls < app.calls /\ calls' = calls + 1
  /\ UserCalls \/ UserCreates \/ UserBuilds \/ UserDefers

-----------------------------------------------------------------------------
(* Application code returns.                                                *)

AddHookReturns ==
  /\ Top.kind = "addHook"
  /\ ComponentAdded(Top.component, Top.entity, Rest)
  /\ UNCHANGED <<built, consumers, queryVars>>

\* _exit forgets the entity only after the callback.
ExitReturns ==
  /\ Top.kind = "exit"
  /\ ordered' = [ordered EXCEPT ![Top.query] = @ \ {Top.entity}]
  /\ stack' = Rest
  /\ UNCHANGED <<termVars, balance>>

OtherReturns ==
  /\ Top.kind \in {"removeHook", "enter"}
  /\ stack' = Rest
  /\ UNCHANGED <<termVars, queryVars>>

DeferReturns ==
  /\ Top.kind = "defer"
  /\ stack' = EndDefer(Rest)
  /\ UNCHANGED <<termVars, queryVars>>

UserReturns ==
  /\ AddHookReturns \/ ExitReturns \/ OtherReturns \/ DeferReturns
  /\ UNCHANGED <<life, has, pending, queue, calls>>

-----------------------------------------------------------------------------
(* The world goes on.                                                       *)

\* Query._enter and the start of _exit, up to the callback.
QueryEnters(q, e, base) ==
  /\ ordered' = [ordered EXCEPT ![q] = @ \cup {e}]
  /\ balance' = [balance EXCEPT ![q][e] = @ + 1]
  /\ stack' = <<Callback("enter", q, e)>> \o base

QueryExits(q, e, base) ==
  /\ balance' = [balance EXCEPT ![q][e] = @ - 1]
  /\ stack' = <<Callback("exit", q, e)>> \o base
  /\ UNCHANGED ordered

\* One turn of _emit: the consumers are visited in order, newcomers included.
Deliver ==
  LET here     == consumers[Top.term]
      consumer == here[Top.next]
      base     == <<[Top EXCEPT !.next = @ + 1]>> \o Rest
  IN
  /\ Top.kind = "emit"
  /\ \/ /\ Top.next > Len(here)
        /\ stack' = Rest /\ UNCHANGED <<members, queryVars>>
     \/ /\ Top.next <= Len(here) /\ consumer \notin Top.to
        /\ stack' = base /\ UNCHANGED <<members, queryVars>>
     \/ /\ Top.next <= Len(here) /\ consumer \in Top.to \cap Composites
        /\ Sync(consumer, Top.entity, base) /\ UNCHANGED queryVars
     \/ /\ Top.next <= Len(here) /\ consumer \in Top.to \cap Queries
        /\ IF Top.event = "enter"
           THEN QueryEnters(consumer, Top.entity, base)
           ELSE QueryExits(consumer, Top.entity, base)
        /\ UNCHANGED members
  /\ UNCHANGED <<life, has, built, consumers, staged, pending, queue>>

\* One turn of _backfill, in the order of the root term's set.
Backfill ==
  /\ Top.kind = "backfill"
  /\ IF Top.todo = {} THEN stack' = EndDefer(Rest) /\ UNCHANGED queryVars
     ELSE \E e \in Top.todo :
            QueryEnters(Top.query, e, <<[Top EXCEPT !.todo = @ \ {e}]>> \o Rest)
  /\ UNCHANGED <<life, has, termVars, pending, queue>>

\* One slot of _destroy; the storage stays until the last one.
DestroyStep ==
  LET e == Top.entity IN
  /\ Top.kind = "destroy"
  /\ IF has[e] = {}
     THEN /\ life' = [life EXCEPT ![e] = "destroyed"]
          /\ stack' = Rest
          /\ UNCHANGED <<has, members, staged>>
     ELSE \E c \in has[e] :
            /\ has' = [has EXCEPT ![e] = @ \ {c}]
            /\ ComponentRemoved(c, e, <<Hook("detached", e, c)>> \o stack)
            /\ UNCHANGED life
  /\ UNCHANGED <<built, consumers, queryVars, pending, queue>>

\* Mutant: a flush within a drain drains too, in the middle of a delivery.
FlushReentrant ==
  /\ Top.kind = "flush"
  /\ IF pending # {} THEN \E q \in pending : Build(q, stack)
     ELSE /\ stack' = IF queue = <<>> THEN Rest ELSE <<Frame("drain")>> \o Rest
          /\ UNCHANGED <<termVars, pending>>
  /\ UNCHANGED <<life, has, queryVars, queue>>

\* The exits of a removed component are delivered: its remove hook is called.
CallRemoveHook ==
  /\ Top.kind = "detached"
  /\ stack' = <<[Top EXCEPT !.kind = "removeHook"]>> \o Rest
  /\ UNCHANGED <<life, has, termVars, queryVars, pending, queue>>

\* flush: the pending queries first, then the queue, unless it is being drained.
Flush ==
  /\ Top.kind = "flush"
  /\ IF pending # {} THEN \E q \in pending : Build(q, stack)
     ELSE /\ stack' = IF Draining(Rest) \/ queue = <<>> THEN Rest
                      ELSE <<Frame("drain")>> \o Rest
          /\ UNCHANGED <<termVars, pending>>
  /\ UNCHANGED <<life, has, queryVars, queue>>

Drain ==
  /\ Top.kind = "drain"
  /\ IF queue = <<>>
     THEN stack' = Rest /\ UNCHANGED <<life, has, termVars, queue>>
     ELSE TakeEffect(Head(queue), stack) /\ queue' = Tail(queue)
  /\ UNCHANGED <<queryVars, pending>>

WorldStep ==
  /\ Deliver \/ Backfill \/ DestroyStep \/ CallRemoveHook \/ Flush \/ Drain
  /\ UNCHANGED calls

-----------------------------------------------------------------------------
\* The queries of the start are built before any entity has a component.
Init ==
  /\ life = [e \in Entities |-> IF e \in Living THEN "alive" ELSE "unborn"]
  /\ has = [e \in Entities |-> {}]
  /\ TermsInit
  /\ balance = [q \in Queries |-> [e \in Entities |-> 0]]
  /\ ordered = [q \in Queries |-> {}]
  /\ app \in Applications
  /\ pending = app.ready
  /\ queue = <<>>
  /\ stack = <<Frame("flush")>>
  /\ calls = 0

Next == (UserStep \/ UserReturns \/ WorldStep) /\ UNCHANGED app

Spec == Init /\ [][Next]_vars

-----------------------------------------------------------------------------
\* Every variable holds a value of its kind; a term has no consumer twice,
\* however often it is looked up and its queries are built.
TypeOK ==
  /\ life \in [Entities -> {"unborn", "pending", "alive", "dying", "destroyed"}]
  /\ has \in [Entities -> SUBSET Components]
  /\ TermsTypeOK
  /\ \A t \in Terms : IsInjective(consumers[t])
  /\ balance \in [Queries -> [Entities -> Int]]
  /\ ordered \in [Queries -> SUBSET Entities]
  /\ pending \subseteq Queries
  /\ app \in Applications
  /\ calls \in 0..app.calls

\* Nothing is in progress: the application looks at the world from outside.
Quiet == stack = <<>>

\* What a term means, told from the entities alone.
Alive == {e \in Entities : life[e] = "alive"}

Satisfying[t \in Terms] ==
  IF t \in Components THEN {e \in Alive : t \in has[e]}
  ELSE LET of == Shape[t].of
           children == {Satisfying[of[i]] : i \in DOMAIN of}
       IN CASE Shape[t].op = "world" -> Alive
            [] Shape[t].op = "all" -> {e \in Alive : \A S \in children : e \in S}
            [] Shape[t].op = "any" -> UNION children
            [] Shape[t].op = "not" -> Alive \ Satisfying[of[2]]

\* Once every hook, callback and event of a change is done, each term holds
\* exactly the entities that satisfy it: no event got lost, delivered too early
\* or to a term that was built meanwhile.
TermsAgree == Quiet => \A t \in Components \cup built : members[t] = Satisfying[t]

\* Each built query then was entered by exactly the members of its term, and an
\* ordered query holds them.
QueriesAgree ==
  Quiet => \A q \in Queries : IsBuilt(q) =>
             /\ ordered[q] = members[Root[q]]
             /\ \A e \in Entities : balance[q][e] = IF e \in members[Root[q]] THEN 1 ELSE 0

\* At no time, not even in the middle of a delivery, has a query seen an entity
\* enter twice, or exit without having entered.
EntersOnce == \A q \in Queries, e \in Entities : balance[q][e] \in {0, 1}

\* An entity is staged in a component term only while the add hook of that very
\* attachment runs: none outlives its add.
StagedByHook ==
  \A c \in Components : \A i \in DOMAIN staged[c] :
    \E j \in DOMAIN stack :
      stack[j].kind = "addHook" /\ stack[j].component = c /\ stack[j].entity = staged[c][i].entity

\* The world, its terms and its queries tell the same story, and whatever the
\* hooks and callbacks did in the middle of a change left no trace in them.
MembersAgree == TypeOK /\ TermsAgree /\ QueriesAgree /\ EntersOnce /\ StagedByHook
=============================================================================

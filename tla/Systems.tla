-------------------------------- MODULE Systems --------------------------------
(***************************************************************************)
(* How a world routes a change of a component to the systems that watch it *)
(* (vecs/src/system.ts, entity.queries.ts): each system has an inbox of    *)
(* the entries, exits and updates that it will hear of at its next run.    *)
(* The operators work on a record of the world,                            *)
(*   comps      the components of each entity,                             *)
(*   destroyed  the entities destroyed,                                    *)
(*   dirty      the components of each entity with a notification pending, *)
(*   systems    each system's status, whether it is enabled, its inbox and *)
(*              whether an entity left since it was last drained.          *)
(* Below them the world's tick sources.                                    *)
(***************************************************************************)
EXTENDS Integers, Sequences, SequencesExt, FiniteSets

CONSTANTS
  Entities, Components, SystemNames,
  Requires(_),   \* the components an entity needs to match the system
  Watches(_),    \* the components whose updates the system hears of
  Arrivals(_),   \* those it hears of when they arrive (onEnter)
  Removals(_),   \* those it hears of when they are removed (onRemove)
  Hears(_),      \* which of "enter", "exit", "run" have a callback
  Ignores(_),    \* the systems whose updates it does not hear of (ignoreSource)
  NoSystem

ASSUME SystemsAssumption ==
  /\ IsFiniteSet(Entities) /\ IsFiniteSet(Components)
  /\ NoSystem \notin SystemNames
  /\ \A s \in SystemNames :
       /\ Requires(s) # {}
       /\ Arrivals(s) \cup Removals(s) \subseteq Watches(s)
       /\ Ignores(s) \subseteq SystemNames

NoComponent == "none"

\* A change: kind, entity, component, the system it is credited to by the code
\* and the caller that made it.
Change(kind, e, c, source, by) ==
  [kind |-> kind, e |-> e, c |-> c, source |-> source, by |-> by]

Event(kind, e, c, by) == [kind |-> kind, e |-> e, c |-> c, by |-> by]

NewSystem(status) == [status |-> status, enabled |-> TRUE, inbox |-> <<>>, exited |-> FALSE]

Matches(w, s, e) == e \notin w.destroyed /\ Requires(s) \subseteq w.comps[e]

\* The entities in the system's root term: those it hears of.
Members(w, s) == IF w.systems[s].status = "built" THEN {e \in Entities : Matches(w, s, e)} ELSE {}

\* A disabled system hears of nothing.
Push(system, events) ==
  IF system.enabled THEN [system EXCEPT !.inbox = @ \o events] ELSE system

\* With the entry of e, which has the components comps, a system hears of those
\* it wants announced, whoever brought them.
Entered(system, s, e, comps, by) ==
  LET announced == SetToSeq(Arrivals(s) \cap comps)
  IN Push(system,
       (IF "enter" \in Hears(s) THEN <<Event("enter", e, NoComponent, by)>> ELSE <<>>)
         \o [i \in 1..Len(announced) |-> Event("update", e, announced[i], NoSystem)])

Left(system, s, e, by) ==
  LET heard == Push(system, IF "exit" \in Hears(s) THEN <<Event("exit", e, NoComponent, by)>> ELSE <<>>)
  IN [heard EXCEPT !.exited = @ \/ heard.enabled]

Silenced(s, source) == source \in Ignores(s)

Notified(system, s, e, c, source, by) ==
  IF c \in Watches(s) /\ ~Silenced(s, source) THEN Push(system, <<Event("update", e, c, by)>>) ELSE system

\* The update of component c of e, to the systems in `to`.
Route(w, to, e, c, source, by) ==
  [w EXCEPT !.systems = [s \in SystemNames |->
     IF s \in to THEN Notified(w.systems[s], s, e, c, source, by) ELSE w.systems[s]]]

HavingMember(w, e) == {s \in SystemNames : e \in Members(w, s)}

\* Entity e gains component c: members hear of its arrival, then others enter.
Arrive(w, e, c, source, by) ==
  LET before == HavingMember(w, e)
      told == Route(w, {s \in before : c \in Arrivals(s)}, e, c, source, by)
      stored == [told EXCEPT !.comps[e] = @ \cup {c}]
  IN [stored EXCEPT !.systems = [s \in SystemNames |->
        IF s \in HavingMember(stored, e) \ before THEN Entered(stored.systems[s], s, e, stored.comps[e], by)
        ELSE stored.systems[s]]]

\* The world becomes `after`: systems that e no longer matches see it leave.
Depart(w, e, after, by) ==
  [after EXCEPT !.systems = [s \in SystemNames |->
     IF s \in HavingMember(w, e) \ HavingMember(after, e) THEN Left(w.systems[s], s, e, by)
     ELSE w.systems[s]]]

Clean(w, e, c) == [w EXCEPT !.dirty[e] = @ \ {c}]

\* What a change does when it is applied.
Apply(w, change) ==
  LET e == change.e
      c == change.c
      present == c \in w.comps[e]
      updated == Route(Clean(w, e, c), HavingMember(w, e), e, c, change.source, change.by)
      gone == Clean([w EXCEPT !.comps[e] = @ \ {c}], e, c)
      left == Depart(w, e, gone, change.by)
  IN IF e \in w.destroyed THEN w
     ELSE CASE change.kind = "add" ->
                 IF present THEN w ELSE Arrive(w, e, c, change.source, change.by)
            [] change.kind = "set" ->
                 IF present THEN updated
                 ELSE Clean(Arrive(w, e, c, change.source, change.by), e, c)
            [] change.kind = "modified" -> IF present THEN updated ELSE w
            [] change.kind = "remove" ->
                 IF present
                 THEN Route(left, {s \in HavingMember(left, e) : c \in Removals(s)}, e, c,
                            change.source, change.by)
                 ELSE w
            [] change.kind = "destroy" ->
                 Depart(w, e, [w EXCEPT !.comps[e] = {}, !.dirty[e] = {},
                                        !.destroyed = @ \cup {e}], change.by)

ApplyAll(w, queue) ==
  LET after[i \in 0..Len(queue)] == IF i = 0 THEN w ELSE Apply(after[i - 1], queue[i])
  IN after[Len(queue)]

BackfilledNever(w, s) == [w.systems[s] EXCEPT !.status = "built"]

\* System s when it is built: it hears of the entities that match.
Backfilled(w, s) ==
  LET built == [w EXCEPT !.systems[s].status = "built"]
      members == SetToSeq(Members(built, s))
      told[i \in 0..Len(members)] ==
        IF i = 0 THEN built.systems[s]
        ELSE Entered(told[i - 1], s, members[i], w.comps[members[i]], NoSystem)
  IN told[Len(members)]

BuildPending(w) ==
  [w EXCEPT !.systems = [s \in SystemNames |->
     IF w.systems[s].status = "pending" THEN Backfilled(w, s) ELSE w.systems[s]]]

\* flush: pending systems are built before the queue is applied.
Flushed(w, queue) == ApplyAll(BuildPending(w), queue)

Disabled(system) == [system EXCEPT !.enabled = FALSE, !.inbox = <<>>, !.exited = FALSE]

Destroyed(system) == [Disabled(system) EXCEPT !.status = "destroyed"]

\* Modifying a component that is already due a notification adds no other.
Marks(w, change) == change.kind # "modified" \/ change.c \notin w.dirty[change.e]

Mark(w, change) ==
  IF change.kind = "modified" THEN [w EXCEPT !.dirty[change.e] = @ \cup {change.c}] ELSE w

\* The drain looks whether an event is stale only if an entity has left.
Stale(w, s, event) == w.systems[s].exited /\ event.e \notin Members(w, s)

Drained(system) == [system EXCEPT !.inbox = <<>>, !.exited = FALSE]

-----------------------------------------------------------------------------
(***************************************************************************)
(* Tick sources (vecs/src/timer.ts): clocks that the world evaluates once  *)
(* in each frame, however many systems and rates read them.  Times are     *)
(* whole milliseconds; the relative tolerance for the rounding of          *)
(* fractions is left out.                                                  *)
(***************************************************************************)
CONSTANTS
  Sources,       \* the interval and rate sources of the world
  Every(_),      \* the interval of a source, in milliseconds, or its rate in ticks
  Upstream(_),   \* the source a rate divides; an interval has none
  FrameClock,    \* the world's every-frame clock
  Registered     \* the sources in the order they are registered

\* Sources are built from their upstream, so none is upstream of itself, and the
\* source a registered one divides is registered too.
ASSUME TimersAssumption ==
  /\ IsFiniteSet(Sources) /\ FrameClock \notin Sources
  /\ "none" \notin Sources \cup {FrameClock}
  /\ \A s \in Sources : Upstream(s) \in Sources \cup {FrameClock, "none"} /\ Every(s) \in Nat \ {0}
  /\ \E depth \in [Sources -> 0..Cardinality(Sources)] :
       \A s \in Sources : Upstream(s) \in Sources => depth[Upstream(s)] < depth[s]
  /\ Registered \in Seq(Sources)
  /\ \A s \in Sources : \E i \in 1..Len(Registered) : Registered[i] = s

IsInterval(s) == Upstream(s) = "none"

NewClock == [ticked |-> FALSE, running |-> TRUE, evaluated |-> FALSE,
             since |-> 0, accumulator |-> 0, delta |-> 0]

DidTick(clocks, s) == s \in Sources => clocks[s].ticked

LastFireDelta(clocks, s, frame) == IF s = FrameClock THEN frame ELSE clocks[s].delta

\* The clock of s has just seen `elapsed` more milliseconds and `units` more of
\* what it counts: milliseconds for an interval, ticks for a rate.
Advance(s, clock, elapsed, units) ==
  LET since == clock.since + elapsed
      gathered == clock.accumulator + units
  IN IF gathered >= Every(s)
     THEN [clock EXCEPT !.ticked = TRUE, !.delta = since, !.since = 0,
             !.accumulator = IF IsInterval(s) THEN gathered - Every(s) ELSE 0]
     ELSE [clock EXCEPT !.ticked = FALSE, !.since = since, !.accumulator = gathered]

\* What an evaluation makes of the clock of s, once its upstream is evaluated.
EvalOnce(clocks, s, frame) ==
  LET clock == [clocks[s] EXCEPT !.evaluated = TRUE]
  IN IF ~clock.running \/ (~IsInterval(s) /\ ~DidTick(clocks, Upstream(s)))
     THEN [clock EXCEPT !.ticked = FALSE]
     ELSE IF IsInterval(s) THEN Advance(s, clock, frame, frame)
     ELSE Advance(s, clock, LastFireDelta(clocks, Upstream(s), frame), 1)

\* A rate that runs has its upstream evaluated.
AsksUpstream(clocks, s) == clocks[s].running /\ ~IsInterval(s)

EvalTickAgain(clocks, s, frame) ==
  LET eval[r \in Sources \cup {FrameClock}] ==
        IF r = FrameClock THEN clocks
        ELSE LET seen == IF AsksUpstream(clocks, r) THEN eval[Upstream(r)] ELSE clocks
             IN [seen EXCEPT ![r] = EvalOnce(seen, r, frame)]
  IN eval[s]

\* Evaluates s in a frame of `frame` milliseconds, its upstream first, unless it
\* was already evaluated in this frame.  (The code marks s before it asks its
\* upstream, which does not look at the mark.)
EvalTick(clocks, s, frame) ==
  LET eval[r \in Sources \cup {FrameClock}] ==
        IF r = FrameClock \/ clocks[r].evaluated THEN clocks
        ELSE LET seen == IF AsksUpstream(clocks, r) THEN eval[Upstream(r)] ELSE clocks
             IN [seen EXCEPT ![r] = EvalOnce(seen, r, frame)]
  IN eval[s]

\* What beginFrame does to the clocks: a new frame id, then each source once.
Evaluated(clocks, frame) ==
  LET after[i \in 0..Len(Registered)] ==
        IF i = 0 THEN [s \in Sources |-> [clocks[s] EXCEPT !.evaluated = FALSE]]
        ELSE EvalTick(after[i - 1], Registered[i], frame)
  IN after[Len(Registered)]
=============================================================================

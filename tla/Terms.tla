-------------------------------- MODULE Terms --------------------------------
(***************************************************************************)
(* The term graph: every term keeps the set of entities that satisfy it    *)
(* and tells its consumers, parent terms and queries, when an entity       *)
(* enters or leaves it.                                                    *)
(*                                                                         *)
(* Everything is synchronous and re-entrant: delivering an event may run a *)
(* callback of the application, which may change components again before   *)
(* the event has reached the other consumers.  The JavaScript call stack   *)
(* is therefore a variable: stack[1] is the innermost call in progress.    *)
(***************************************************************************)
EXTENDS Integers, SequencesExt

CONSTANTS
  Entities,
  Components,  \* each with its leaf term, of the same name
  World,       \* the world term, the universe of the negations
  Composites,  \* the all, any and not terms
  Queries,
  Shape,       \* Shape[t] = [op |-> "all", "any" or "not", of |-> children]
  BuildOrder   \* a sequence of World and the composites, children first

Derived   == Composites \cup {World}
Terms     == Components \cup Derived
Consumers == Composites \cup Queries

VARIABLES
  life,       \* unborn, pending (creation deferred), alive, dying, destroyed
  has,        \* the component bitmask of an entity
  built,      \* the derived terms in the world's term cache
  members,    \* Term._entities
  consumers,  \* Term._consumers, in the order of their subscription
  staged,     \* ComponentTerm._staged with _stagedSeen, innermost last
  stack       \* the calls in progress, innermost first

termVars == <<built, members, consumers, staged>>

\* With nothing in progress the application's own code runs.
Top  == IF stack = <<>> THEN [kind |-> "main"] ELSE stack[1]
Rest == Tail(stack)

\* A delivery of one event to the consumers of a term that are in `to`.
Emit(term, event, entity, to) ==
  [kind |-> "emit", term |-> term, event |-> event, entity |-> entity, to |-> to, next |-> 1]

Emitting == \E i \in DOMAIN stack : stack[i].kind = "emit"

-----------------------------------------------------------------------------
\* Term._matches, given the members of the children.
Matches(t, sets, e) ==
  LET of == Shape[t].of IN
  \/ Shape[t].op = "world" /\ life[e] = "alive"
  \/ Shape[t].op = "all" /\ \A i \in DOMAIN of : e \in sets[of[i]]
  \/ Shape[t].op = "any" /\ \E i \in DOMAIN of : e \in sets[of[i]]
  \/ Shape[t].op = "not" /\ e \in sets[of[1]] /\ e \notin sets[of[2]]

\* _add and _delete; `base` is what the stack is once the event is delivered.
TermAdd(t, e, base) ==
  IF e \in members[t] THEN stack' = base /\ UNCHANGED members
  ELSE /\ members' = [members EXCEPT ![t] = @ \cup {e}]
       /\ stack' = <<Emit(t, "enter", e, Consumers)>> \o base

TermDelete(t, e, base) ==
  IF e \notin members[t] THEN stack' = base /\ UNCHANGED members
  ELSE /\ members' = [members EXCEPT ![t] = @ \ {e}]
       /\ stack' = <<Emit(t, "exit", e, Consumers)>> \o base

\* _sync: the composite looks again, whatever event it was told of.
Sync(t, e, base) ==
  IF Matches(t, members, e) THEN TermAdd(t, e, base) ELSE TermDelete(t, e, base)

-----------------------------------------------------------------------------
(* The component leaf.                                                      *)

LastStaged(c, e) == SelectLastInSeq(staged[c], LAMBDA s : s.entity = e)

\* _stageAdded: a member already, but nobody is told before the add hooks ran.
StageAdded(c, e) ==
  /\ members' = [members EXCEPT ![c] = @ \cup {e}]
  /\ staged' = [staged EXCEPT ![c] = Append(@, [entity |-> e, seen |-> {}])]

\* componentAdded: after the hooks, unless one of them removed the component.
ComponentAdded(c, e, base) ==
  /\ UNCHANGED members
  /\ IF staged[c] # <<>> /\ Last(staged[c]).entity = e
     THEN /\ staged' = [staged EXCEPT ![c] = Front(@)]
          /\ stack' = <<Emit(c, "enter", e, Consumers \ Last(staged[c]).seen)>> \o base
     ELSE stack' = base /\ UNCHANGED staged

\* componentRemoved: a staged entity exits only where it was seen.
ComponentRemoved(c, e, base) ==
  LET i == LastStaged(c, e) IN
  IF i = 0 THEN TermDelete(c, e, base) /\ UNCHANGED staged
  ELSE /\ members' = [members EXCEPT ![c] = @ \ {e}]
       /\ staged' = [staged EXCEPT ![c] = RemoveAt(@, i)]
       /\ stack' = <<Emit(c, "exit", e, staged[c][i].seen)>> \o base

-----------------------------------------------------------------------------
(* Building: getTerm creates the terms that are missing, children first.    *)

Below[t \in Terms] ==
  {t} \cup IF t \in Components THEN {}
           ELSE UNION {Below[Shape[t].of[i]] : i \in DOMAIN Shape[t].of}

Graph == [members |-> members, consumers |-> consumers, staged |-> staged]

\* subscribe: a leaf notes that the newcomer sees the entities it has staged.
Subscribe(g, t, consumer) ==
  [g EXCEPT
     !.consumers[t] = Append(@, consumer),
     !.staged = IF t \in Components
                THEN [@ EXCEPT ![t] =
                        [i \in DOMAIN @ |-> [@[i] EXCEPT !.seen = @ \cup {consumer}]]]
                ELSE @]

\* Mutant: the new term does not look at the entities there are.
AddTermEmpty(g, t) ==
  FoldLeft(LAMBDA acc, child : Subscribe(acc, child, t), g, Shape[t].of)

\* The constructor of a derived term: _setChildren, then _initializeFromWorld.
AddTerm(g, t) ==
  LET h == FoldLeft(LAMBDA acc, child : Subscribe(acc, child, t), g, Shape[t].of) IN
  [h EXCEPT !.members[t] =
     {e \in Entities : life[e] \in {"alive", "dying"} /\ Matches(t, h.members, e)}]

\* rootTerm = getTerm(dsl), and the query's subscription to it.
BuildTerms(root, q) ==
  LET missing == SelectSeq(BuildOrder, LAMBDA t : t \in Below[root] \ built)
      g       == Subscribe(FoldLeft(AddTerm, Graph, missing), root, q)
  IN
  /\ built' = built \cup ToSet(missing)
  /\ members' = g.members
  /\ consumers' = g.consumers
  /\ staged' = g.staged

-----------------------------------------------------------------------------
TermsInit ==
  /\ built = {}
  /\ members = [t \in Terms |-> {}]
  /\ consumers = [t \in Terms |-> <<>>]
  /\ staged = [c \in Components |-> <<>>]

TermsTypeOK ==
  /\ built \subseteq Derived
  /\ members \in [Terms -> SUBSET Entities]
  /\ consumers \in [Terms -> Seq(Consumers)]
  /\ staged \in [Components -> Seq([entity : Entities, seen : SUBSET Consumers])]
=============================================================================

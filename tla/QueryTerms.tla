------------------------------ MODULE QueryTerms ------------------------------
(***************************************************************************)
(* The term cache for every kind of query expression: composite, negated,  *)
(* exact (`only`), predicate and relationship terms, the subtrees that are *)
(* collapsed into one predicate, and the life of a term from its first     *)
(* query to its last.  Nothing re-enters here: hooks and callbacks that    *)
(* change the world while an event is delivered are in TermGraph.          *)
(***************************************************************************)
EXTENDS QueryDSL

CONSTANTS
  Entities,
  Scenarios  \* [queries, components, watched, relationship, exclusive], see below

VARIABLES
  scenario,  \* what the application does: `queries` are its expressions, `watched`
             \* the components whose data it changes, 0 is no relationship
  world,     \* the entities alive and what they carry
  terms,     \* World._termCache: per key the term's kind,
             \* children, members and consumers
  shape,     \* WorldTerm._shapeConsumers
  known,     \* ghost: per query and entity, the enters told minus the exits
  glitched   \* ghost: the queries told twice of an entity by the last step

vars == <<scenario, world, terms, shape, known, glitched>>

None    == 0
Queries == DOMAIN scenario.queries
Rel     == scenario.relationship

\* Leaves are pinned: they outlive their consumers.
IsPinned(k) == IsBoolean(k) \/ k[1] = "has"

Kind(k) ==
  CASE IsMerged(k)      -> "merged"
    [] k[1] = "list"    -> "all"
    [] OTHER            -> k[1]

\* _dispatch: the terms a term is built from.
Children(k) ==
  LET Leaf(cs)   == [i \in DOMAIN cs |-> <<"has", cs[i]>>]
      OfLeaves   == IF True \in Leaves(k) THEN <<True>> ELSE <<>>
      Components == SetToSeq(Leaves(k) \ {True})
  IN
  CASE IsPinned(k)               -> <<>>
    [] Kind(k) = "merged"        -> OfLeaves \o Components
    [] k[1] = "list"             -> Leaf(k[2])
    [] k[1] \in {"all", "any"}   -> k[2]
    [] k[1] = "not"              -> <<True, k[2]>>
    [] k[1] = "only"             -> <<CanonicalComponents(k[2]), True>>
    [] k[1] = "test"             -> <<True>> \o Leaf(k[3])
    [] k[1] = "target"           -> <<<<"has", k[2]>>, k[3]>>

\* The terms that look again whenever the set of components of an entity changes.
IsShapeSensitive(k) == k[1] = "only" \/ (Kind(k) = "merged" /\ Mentions(k, "only"))

-----------------------------------------------------------------------------
(* Delivery.  g = [terms, shape, heard] is the graph and what the queries  *)
(* have been told; w is the world as it is while the event is delivered.   *)

Members(g, k)  == g.terms[k].members
Child(g, k, i) == Members(g, g.terms[k].children[i])

\* What each class of term looks at; `all` and `any` ignore refreshes, which
\* change no member of a child.
AllTerm(g, k, e)  == \A i \in DOMAIN g.terms[k].children : e \in Child(g, k, i)
AnyTerm(g, k, e)  == \E i \in DOMAIN g.terms[k].children : e \in Child(g, k, i)
NotTerm(g, k, e)  == e \in Child(g, k, 1) /\ e \notin Child(g, k, 2)
OnlyTerm(g, w, k, e) ==
  e \in Child(g, k, 1) /\ e \in Child(g, k, 2) /\ Cardinality(w.mask[e]) = Len(k[2])
PredicateTerm(g, w, k, e) ==
  /\ e \in w.alive /\ Eval(w, e, k)
  /\ Contains(g.terms[k].children, True) => e \in Members(g, True)
TargetTerm(g, w, k, e) ==
  e \in w.alive /\ \E t \in w.targets[k[2]][e] : t \in Child(g, k, 2)

\* Term._matches; what a leaf holds it is told by the world.
Matches(g, w, k, e) ==
  LET kind == g.terms[k].kind IN
  CASE kind = "true"   -> e \in w.alive
    [] kind = "false"  -> FALSE
    [] kind = "all"    -> AllTerm(g, k, e)
    [] kind = "any"    -> AnyTerm(g, k, e)
    [] kind = "not"    -> NotTerm(g, k, e)
    [] kind = "only"   -> OnlyTerm(g, w, k, e)
    [] kind = "target" -> TargetTerm(g, w, k, e)
    [] kind \in {"test", "merged"} -> PredicateTerm(g, w, k, e)

Sources(w, e, r) == {s \in Entities : e \in w.targets[r][s]}

\* Mutant: an entity that enters or leaves the inner term is looked at itself.
ConcernedItself(g, w, k, child, e) == {e}

\* Which entities a term looks at again when it is told of e by a child: a
\* relationship term at e if it is told by the relationship, and at all that
\* point at e if it is told by the inner term.
Concerned(g, w, k, child, e) ==
  IF g.terms[k].kind # "target" \/ child = g.terms[k].children[1] THEN {e} ELSE Sources(w, e, k[2])

\* _add and _delete, told to every consumer in the order of their subscription;
\* each term looks again (_sync) and may have something to tell in turn.
RECURSIVE SetMember(_, _, _, _, _)
SetMember(g, w, k, e, holds) ==
  LET event == IF holds THEN "enter" ELSE "exit"
      moved == [g EXCEPT !.terms[k].members = IF holds THEN @ \cup {e} ELSE @ \ {e}]
      Tell(acc, s) ==
        IF s[1] = "query" THEN [acc EXCEPT !.heard = Append(@, <<s[2], event, e>>)]
        ELSE FoldSet(LAMBDA x, sub : SetMember(sub, w, s[2], x, Matches(sub, w, s[2], x)),
                     acc, Concerned(g, w, s[2], k, e))
  IN IF (e \in Members(g, k)) = holds THEN g ELSE FoldLeft(Tell, moved, g.terms[k].consumers)

Sync(g, w, k, e) == SetMember(g, w, k, e, Matches(g, w, k, e))

\* componentChanged: only predicates and relationship terms care for data.
Refresh(g, w, c, e) ==
  LET leaf   == <<"has", c>>
      Minds(s) == s[1] = "term" /\ g.terms[s[2]].kind \in {"test", "merged", "target"}
      Look(acc, s) == FoldSet(LAMBDA x, sub : Sync(sub, w, s[2], x), acc, Concerned(g, w, s[2], leaf, e))
  IN FoldLeft(Look, g, SelectSeq(g.terms[leaf].consumers, Minds))

\* entityShapeChanged, on its own channel of the world term.
ShapeChanged(g, w, e) ==
  IF True \in DOMAIN g.terms /\ e \in Members(g, True)
  THEN FoldLeft(LAMBDA acc, k : Sync(acc, w, k, e), g, g.shape)
  ELSE g

ComponentAdded(g, w, c, e)   == ShapeChanged(SetMember(g, w, <<"has", c>>, e, TRUE), w, e)
ComponentRemoved(g, w, c, e) == ShapeChanged(SetMember(g, w, <<"has", c>>, e, FALSE), w, e)

-----------------------------------------------------------------------------
(* The life of a term.                                                     *)

Subscribe(g, k, s) == [g EXCEPT !.terms[k].consumers = Append(@, s)]

\* getTerm: the children first, then the term with the members it has by now.
RECURSIVE GetTerm(_, _, _)
GetTerm(g, w, k) ==
  LET of   == Children(k)
      deep == FoldLeft(LAMBDA acc, child : GetTerm(acc, w, child), g, of)
      ties == FoldLeft(LAMBDA acc, child : Subscribe(acc, child, <<"term", k>>), deep, of)
      new  == [kind |-> Kind(k), children |-> of, members |-> {}, consumers |-> <<>>]
      made == [ties EXCEPT !.terms = (k :> new) @@ @,
                           !.shape = IF IsShapeSensitive(k) THEN Append(@, k) ELSE @]
  IN IF k \in DOMAIN g.terms THEN g
     ELSE [made EXCEPT !.terms[k].members = {e \in w.alive : Matches(made, w, k, e)}]

\* unsubscribe: a term without consumers is destroyed and lets its children go.
RECURSIVE Unsubscribe(_, _, _)
Unsubscribe(g, k, s) ==
  LET rest == [g EXCEPT !.terms[k].consumers = RemoveAt(@, SelectLastInSeq(@, LAMBDA c : c = s))]
      gone == FoldRight(LAMBDA child, acc : Unsubscribe(acc, child, <<"term", k>>),
                        g.terms[k].children, rest)
  IN IF IsPinned(k) \/ rest.terms[k].consumers # <<>> THEN rest
     ELSE [gone EXCEPT !.terms = Restrict(@, DOMAIN @ \ {k}),
                       !.shape = SelectSeq(@, LAMBDA c : c # k)]

-----------------------------------------------------------------------------
(* What an application does, outside deferred mode.                        *)

Graph == [terms |-> terms, shape |-> shape, heard |-> <<>>]

\* The queries follow what they hear.
Becomes(w, g) ==
  LET Told(q, event, e) == Cardinality({i \in DOMAIN g.heard : g.heard[i] = <<q, event, e>>}) IN
  /\ world' = w /\ terms' = g.terms /\ shape' = g.shape
  /\ known' = [q \in Queries |-> [e \in Entities |->
                 known[q][e] + Told(q, "enter", e) - Told(q, "exit", e)]]
  /\ glitched' = {q \in Queries : \E i, j \in DOMAIN g.heard :
                    i < j /\ g.heard[i][1] = q /\ g.heard[j][1] = q /\ g.heard[i][3] = g.heard[j][3]}
  /\ UNCHANGED scenario

Attach(e, c) ==
  /\ e \in world.alive /\ c \notin world.mask[e]
  /\ LET w == [world EXCEPT !.mask[e] = @ \cup {c}] IN
     Becomes(w, ComponentAdded(Graph, w, c, e))

Without(w, e, c) ==
  [w EXCEPT !.mask[e] = @ \ {c}, !.marked = @ \ {<<e, c>>},
            !.targets = IF c = Rel THEN [@ EXCEPT ![c][e] = {}] ELSE @]

Detach(e, c) ==
  /\ e \in world.alive /\ c \in world.mask[e]
  /\ LET w == Without(world, e, c) IN Becomes(w, ComponentRemoved(Graph, w, c, e))

\* modified(): the data of a component changes.
Modify(e, c) ==
  /\ e \in world.alive /\ c \in world.mask[e]
  /\ LET w == [world EXCEPT !.marked = SymDiff(@, {<<e, c>>})] IN
     Becomes(w, Refresh(Graph, w, c, e))

\* _addTarget: the first edge attaches the relationship, a further one changes
\* it, as does one that replaces the only edge of an exclusive relationship.
AddTarget(e, t) ==
  /\ {e, t} \subseteq world.alive /\ t \notin world.targets[Rel][e]
  /\ LET first == Rel \notin world.mask[e]
         w == [world EXCEPT !.mask[e] = @ \cup {Rel},
                            !.targets[Rel][e] = IF scenario.exclusive THEN {t} ELSE @ \cup {t}]
     IN Becomes(w, IF first THEN ComponentAdded(Graph, w, Rel, e) ELSE Refresh(Graph, w, Rel, e))

\* _removeTarget: the last edge takes the relationship with it.
EdgeRemoved(s, e, t) ==
  IF s.w.targets[Rel][e] = {t}
  THEN LET w == Without(s.w, e, Rel) IN [w |-> w, g |-> ComponentRemoved(s.g, w, Rel, e)]
  ELSE LET w == [s.w EXCEPT !.targets[Rel][e] = @ \ {t}] IN [w |-> w, g |-> Refresh(s.g, w, Rel, e)]

RemoveTarget(e, t) ==
  /\ e \in world.alive /\ t \in world.targets[Rel][e]
  /\ LET s == EdgeRemoved([w |-> world, g |-> Graph], e, t) IN Becomes(s.w, s.g)

Create(e) ==
  /\ e \notin world.alive
  /\ LET w == [world EXCEPT !.alive = @ \cup {e}] IN
     Becomes(w, IF True \in DOMAIN terms THEN SetMember(Graph, w, True, e, TRUE) ELSE Graph)

\* _destroy: out of the world term, then one component after the other, then
\* away from the entities that point at it.
Destroyed(e, order) ==
  LET w0 == [world EXCEPT !.alive = @ \ {e}]
      g0 == IF True \in DOMAIN terms THEN SetMember(Graph, w0, True, e, FALSE) ELSE Graph
      Slot(s, c) == LET w == Without(s.w, e, c) IN [w |-> w, g |-> ComponentRemoved(s.g, w, c, e)]
      bare == FoldLeft(Slot, [w |-> w0, g |-> g0], order)
  IN IF Rel = None THEN bare
     ELSE FoldSet(LAMBDA source, s : EdgeRemoved(s, source, e), bare, Sources(bare.w, e, Rel))

Destroy(e) ==
  /\ e \in world.alive
  /\ \E order \in SetToSeqs(world.mask[e]) :
       LET s == Destroyed(e, order) IN Becomes(s.w, s.g)

\* Query._build and its backfill.
Root(q)    == CacheKey(scenario.queries[q])
IsBuilt(q) == Root(q) \in DOMAIN terms /\ Contains(terms[Root(q)].consumers, <<"query", q>>)

Build(q) ==
  /\ ~IsBuilt(q) /\ ~ContainsDownTerm(scenario.queries[q])
  /\ LET g     == Subscribe(GetTerm(Graph, world, Root(q)), Root(q), <<"query", q>>)
         enter == SetToSeq(Members(g, Root(q)))
     IN Becomes(world, [g EXCEPT !.heard = [i \in DOMAIN enter |-> <<q, "enter", enter[i]>>]])

\* Query.destroy: the members are dropped without exits.
DestroyQuery(q) ==
  /\ IsBuilt(q)
  /\ LET g == Unsubscribe(Graph, Root(q), <<"query", q>>) IN
     /\ terms' = g.terms /\ shape' = g.shape
     /\ known' = [known EXCEPT ![q] = [e \in Entities |-> 0]]
     /\ glitched' = {}
     /\ UNCHANGED <<scenario, world>>

-----------------------------------------------------------------------------
Init ==
  /\ scenario \in Scenarios
  /\ world = [alive |-> {}, mask |-> [e \in Entities |-> {}], marked |-> {},
              targets |-> [r \in {Rel} |-> [e \in Entities |-> {}]]]
  /\ terms = [k \in {<<"has", c>> : c \in scenario.components \cup ({Rel} \ {None})} |->
                [kind |-> "has", children |-> <<>>, members |-> {}, consumers |-> <<>>]]
  /\ shape = <<>>
  /\ known = [q \in Queries |-> [e \in Entities |-> 0]]
  /\ glitched = {}

Next ==
  \/ \E e \in Entities, c \in scenario.components : Attach(e, c) \/ Detach(e, c)
  \/ \E e \in Entities, c \in scenario.watched : Modify(e, c)
  \/ Rel # None /\ \E e, t \in Entities : AddTarget(e, t) \/ RemoveTarget(e, t)
  \/ \E e \in Entities : Create(e) \/ Destroy(e)
  \/ \E q \in Queries : Build(q) \/ DestroyQuery(q)

-----------------------------------------------------------------------------
(* Properties.                                                             *)

\* Every cached term holds exactly the entities its expression selects, so a
\* filter that finds it in the cache answers as one that walks the world, and a
\* query has been told of exactly those entities.
TermsAreTrue ==
  /\ \A k \in DOMAIN terms : terms[k].members = {e \in world.alive : Eval(world, e, k)}
  /\ \A q \in Queries, e \in Entities :
       known[q][e] = IF IsBuilt(q) /\ e \in world.alive /\ Eval(world, e, scenario.queries[q])
                     THEN 1 ELSE 0

\* A step tells a query of an entity at most once: no exit that is taken back
\* by an enter.  Relationship terms are not collapsed and are left out.
NoGlitch == \A q \in glitched : Mentions(Root(q), "target")

\* A term is cached as long as a query stands on it, and no longer; the shape
\* channel serves exactly the cached terms that need it.
NoTermLeaks ==
  /\ \A k \in DOMAIN terms :
       /\ IsPinned(k) \/ terms[k].consumers # <<>>
       /\ \A i \in DOMAIN terms[k].consumers : terms[k].consumers[i][1] = "term" =>
            terms[k].consumers[i][2] \in DOMAIN terms
  /\ ToSet(shape) = {k \in DOMAIN terms : IsShapeSensitive(k)}
  /\ (\A q \in Queries : ~IsBuilt(q)) => \A k \in DOMAIN terms : IsPinned(k)

TermsRunTrue == TermsAreTrue /\ NoGlitch /\ NoTermLeaks
===============================================================================

------------------------------ MODULE MCQueries ------------------------------
(***************************************************************************)
(* The query engine, looked at three times: the expressions as such        *)
(* (`half` = "dsl"), the terms of every kind over changing entities        *)
(* ("queries"), and the all, any and not terms under callbacks that change *)
(* the world again ("graph").                                              *)
(***************************************************************************)
EXTENDS Integers, Sequences, FiniteSetsExt, TLC

CONSTANTS e1, e2, a, b, both, either, lacking, qa, qboth, qeither, qlacking, universe, Idle

VARIABLES
  half,
  expression,
  scenario, world, terms, shape, known, glitched,
  life, has, built, members, consumers, staged, stack, app, balance, ordered,
  pending, queue, calls

-----------------------------------------------------------------------------
(* Expressions over three components, of which 3 is a relationship.        *)

Flat == {<<"true">>, <<"false">>, <<"has", 1>>, <<"has", 2>>, <<"list", <<2, 1>>>>,
         <<"list", <<>>>>, <<"only", <<2, 2>>>>, <<"test", 1, <<1>>>>}
Simple == Flat
  \cup {<<op, q>> : op \in {"not", "parent", "children"}, q \in Flat}
  \cup {<<op, 3, q>> : op \in {"target", "source"}, q \in Flat}
Pairs   == {<<op, <<p, q>>>> : op \in {"all", "any"}, p \in Simple, q \in Simple}
FlatPairs == {<<op, <<p, q>>>> : op \in {"all", "any"}, p \in Flat, q \in Flat}
Negated == {<<"not", q>> : q \in FlatPairs} \cup {<<"target", 3, q>> : q \in FlatPairs}
Nested  == {<<op, <<p, q>>>> : op \in {"all", "any"}, p \in FlatPairs, q \in Flat \cup {<<"not", <<"has", 1>>>>}}
Deep    == Simple \cup Pairs \cup Negated \cup Nested

Small == [mask : [{e1, e2} -> SUBSET {1, 2}], edges : SUBSET {<<e1, e1>>, <<e1, e2>>, <<e2, e1>>},
          marked : SUBSET {<<e1, 1>>}]
WorldOf(s) ==
  [mask    |-> [e \in {e1, e2} |-> s.mask[e] \cup IF \E edge \in s.edges : edge[1] = e THEN {3} ELSE {}],
   targets |-> [r \in {3} |-> [e \in {e1, e2} |-> {t \in {e1, e2} : <<e, t>> \in s.edges}]],
   marked  |-> {m \in s.marked : m[2] \in s.mask[m[1]]}]
SmallWorlds == {WorldOf(s) : s \in Small}

DSL == INSTANCE QueryDSL WITH ChildOf <- 3

-----------------------------------------------------------------------------
(* Queries that share leaves, collapse, negate, test data and follow edges *)
(* of a relationship; two of them at a time.                             *)

Op(op, p, q) == <<op, <<p, q>>>>
A == <<"has", 1>>
B == <<"has", 2>>
Only(c) == <<"only", <<c>>>>
Not(q)  == <<"not", q>>
Test    == <<"test", 1, <<1>>>>
Up(q)   == <<"target", 3, q>>

PlainQueries == {
  Op("any", A, <<"list", <<1, 2>>>>), Op("all", Not(A), Not(B)), Op("any", Only(1), A),
  Op("all", A, B), Op("all", Test, B), Op("any", Test, A), Not(Op("any", A, Not(B))),
  Not(Only(2)), Op("all", Op("any", B, <<"false">>), Not(Test)), Only(1), <<"true">>, Not(A) }
RelatedQueries == {
  Up(A), Not(Up(A)), Up(Not(A)), Op("all", A, Up(Test)), Up(Up(A)), Up(<<"true">>),
  Op("any", A, Up(A)), Only(3) }

Scenario(queries, components, relationship, exclusive) ==
  [queries |-> queries, components |-> components, watched |-> {1},
   relationship |-> relationship, exclusive |-> exclusive]

MCScenarios ==
  {Scenario([q \in qs |-> q], {1, 2}, 0, FALSE) : qs \in kSubset(2, PlainQueries)}
    \cup {Scenario([q \in qs |-> q], {1}, 3, x) : qs \in kSubset(2, RelatedQueries), x \in BOOLEAN}

Materialized == INSTANCE QueryTerms WITH
  ChildOf <- 3, Entities <- {e1, e2}, Scenarios <- MCScenarios

-----------------------------------------------------------------------------
(* The terms and queries of the re-entrant half.                           *)

MCShape ==
  [t \in {universe, both, either, lacking} |->
    CASE t = both    -> [op |-> "all", of |-> <<a, b>>]
      [] t = either  -> [op |-> "any", of |-> <<a, b>>]
      [] t = lacking -> [op |-> "not", of |-> <<universe, a>>]
      [] t = universe    -> [op |-> "world", of |-> <<>>]]

\* Hooks that take components away again.
Removing == [queries |-> {qa, qboth}, ready |-> {}, immediate |-> TRUE,
             hooks |-> {"remove", "others"}, callbacks |-> {"others"},
             midway |-> FALSE, calls |-> 6]

\* Hooks that add further components.
Adding == [queries |-> {qboth, qeither, qlacking}, ready |-> {qboth, qlacking}, immediate |-> TRUE,
           hooks |-> {"add", "others"}, callbacks |-> {"others"},
           midway |-> FALSE, calls |-> 5]

\* Every change is a command of the queue.
Deferring == [queries |-> {qa, qeither, qlacking}, ready |-> {qlacking}, immediate |-> FALSE,
              hooks |-> {}, callbacks |-> {}, midway |-> FALSE, calls |-> 5]

Reentrant == INSTANCE TermGraph WITH
  Entities <- {e1, e2}, Components <- {a, b}, World <- universe, Composites <- {both, either, lacking},
  Queries <- {qa, qboth, qeither, qlacking}, Living <- {e1}, Shape <- MCShape,
  BuildOrder <- <<universe, both, either, lacking>>,
  Root <- (qa :> a) @@ (qboth :> both) @@ (qeither :> either) @@ (qlacking :> lacking),
  Applications <- {Removing, Adding, Deferring}

-----------------------------------------------------------------------------
cacheVars == <<scenario, world, terms, shape, known, glitched>>
graphVars == <<life, has, built, members, consumers, staged, stack, app, balance, ordered,
               pending, queue, calls>>
vars == <<half, expression, cacheVars, graphVars>>

NoCache == /\ scenario = Idle /\ world = Idle /\ terms = Idle /\ shape = Idle
           /\ known = Idle /\ glitched = Idle
NoGraph == /\ life = Idle /\ has = Idle /\ built = Idle /\ members = Idle /\ consumers = Idle
           /\ staged = Idle /\ stack = Idle /\ app = Idle /\ balance = Idle /\ ordered = Idle
           /\ pending = Idle /\ queue = Idle /\ calls = Idle

Init ==
  \/ half = "dsl" /\ expression \in Deep /\ NoCache /\ NoGraph
  \/ half = "queries" /\ Materialized!Init /\ expression = Idle /\ NoGraph
  \/ half = "graph" /\ Reentrant!Init /\ expression = Idle /\ NoCache

Next ==
  /\ UNCHANGED <<half, expression>>
  /\ \/ half = "queries" /\ Materialized!Next /\ UNCHANGED graphVars
     \/ half = "graph" /\ Reentrant!Next /\ UNCHANGED cacheVars

Spec == Init /\ [][Next]_vars

\* An `any` of one component, all that is left of one that named it twice.
RECURSIVE NamesTwice(_)
NamesTwice(q) ==
  CASE q[1] = "any" -> Len(q[2]) = 1 \/ \E i \in DOMAIN q[2] : NamesTwice(q[2][i])
    [] q[1] = "all" -> \E i \in DOMAIN q[2] : NamesTwice(q[2][i])
    [] q[1] = "not" -> NamesTwice(q[2])
    [] q[1] \in {"target", "source"} -> NamesTwice(q[3])
    [] OTHER -> FALSE

\* A simplified expression selects the same entities; unless a component is named
\* twice, it is its own simplification, so that a filter finds the term of a
\* query; and it does not depend on the order of operands that sort apart
\* (simplifyQueryDSL, getDSLCacheKey).
KeysAreSound ==
  half = "dsl" =>
    LET key    == DSL!CacheKey(expression)
        turned == DSL!CacheKey(<<expression[1], <<expression[2][2], expression[2][1]>>>>)
        SortApart(qs) ==
          \A i, j \in DOMAIN qs : i < j => DSL!TermSortKey(qs[i]) # DSL!TermSortKey(qs[j])
    IN /\ \A w \in SmallWorlds, e \in {e1, e2} : DSL!Eval(w, e, key) = DSL!Eval(w, e, expression)
       /\ NamesTwice(key) \/ DSL!CacheKey(key) = key
       /\ expression[1] \in {"all", "any"} =>
            \/ key[1] \in {"all", "any"} /\ ~SortApart(key[2])
            \/ turned = key

\* Every cached term and every query holds exactly the entities its expression
\* selects; no query is told of an entity twice by one step; no term outlives
\* its queries.  Under re-entrant callbacks no query sees an entity enter twice
\* or exit without having entered, and what terms and queries hold agrees again
\* once every delivery has ended.
MembersAgree ==
  /\ half = "queries" => Materialized!TermsRunTrue
  /\ half = "graph" => Reentrant!MembersAgree
=============================================================================

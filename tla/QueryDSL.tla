------------------------------- MODULE QueryDSL -------------------------------
(***************************************************************************)
(* Query expressions: what they mean, how simplifyQueryDSL brings them     *)
(* into the form that is their cache key, and the analysis that decides    *)
(* whether an expression may become a tree of terms.                       *)
(*                                                                         *)
(* An expression is a tuple that starts with its operator:                 *)
(*   <<"true">>  <<"false">>  <<"has", c>>  <<"list", cs>>  <<"only", cs>> *)
(*   <<"all", qs>>  <<"any", qs>>  <<"not", q>>  <<"test", f, watch>>      *)
(*   <<"target", r, q>>  <<"source", r, q>>  <<"parent", q>>               *)
(*   <<"children", q>>                                                     *)
(* Components and relationships are their entity ids.  A test function is  *)
(* named by the component whose data it reads, 0 if it reads none.         *)
(***************************************************************************)
EXTENDS Integers, FiniteSets, SequencesExt, FiniteSetsExt

CONSTANT ChildOf  \* the relationship of `parent` and `children`

True  == <<"true">>
False == <<"false">>

IsBoolean(q)      == q[1] \in {"true", "false"}
IsRequirement(q)  == q[1] \in {"has", "list"}
Requirements(q)   == IF q[1] = "has" THEN <<q[2]>> ELSE q[2]
Ascending(set)    == SetToSortSeq(set, <)

-----------------------------------------------------------------------------
(* What an expression selects in a world w, that is, [mask: the components *)
(* of each entity, targets: per relationship and entity, marked: the data  *)
(* <<entity, component>> the test functions look for].                     *)

RECURSIVE Eval(_, _, _)
Eval(w, e, q) ==
  CASE q[1] = "true"  -> TRUE
    [] q[1] = "false" -> FALSE
    [] q[1] = "has"   -> q[2] \in w.mask[e]
    [] q[1] = "list"  -> ToSet(q[2]) \subseteq w.mask[e]
    [] q[1] = "only"  -> w.mask[e] = ToSet(q[2])
    [] q[1] = "all"   -> \A i \in DOMAIN q[2] : Eval(w, e, q[2][i])
    [] q[1] = "any"   -> \E i \in DOMAIN q[2] : Eval(w, e, q[2][i])
    [] q[1] = "not"   -> ~Eval(w, e, q[2])
    [] q[1] = "test"  -> q[2] = 0 \/ (q[2] \in w.mask[e] /\ <<e, q[2]>> \in w.marked)
    [] q[1] = "target" ->
         q[2] \in w.mask[e] /\ \E t \in w.targets[q[2]][e] : Eval(w, t, q[3])
    [] q[1] = "source" ->
         \E s \in DOMAIN w.mask : e \in w.targets[q[2]][s] /\ Eval(w, s, q[3])
    [] q[1] = "parent"   -> Eval(w, e, <<"target", ChildOf, q[2]>>)
    [] q[1] = "children" -> Eval(w, e, <<"source", ChildOf, q[2]>>)

-----------------------------------------------------------------------------
(* Sorting.  A sort key is a text in the code; here the sequence of its    *)
(* parts as numbers, a separator being smaller than every part.            *)

Joined(keys) ==
  FoldLeft(LAMBDA acc, key : IF acc = <<>> THEN key ELSE acc \o <<-1>> \o key, <<>>, keys)

RECURSIVE TermSortKey(_)
TermSortKey(q) ==
  LET Keys(qs) == [i \in DOMAIN qs |-> TermSortKey(qs[i])]
      Has(cs)  == Joined([i \in DOMAIN cs |-> <<0, cs[i]>>])
  IN
  CASE IsBoolean(q)      -> <<0>>
    [] IsRequirement(q)  -> <<0, Head(Requirements(q))>>
    [] q[1] = "all"      -> <<2>> \o Joined(Keys(q[2]))
    [] q[1] = "any"      -> <<3>> \o Joined(Keys(q[2]))
    [] q[1] = "not"      -> <<4>> \o TermSortKey(q[2])
    [] q[1] = "only"     -> <<4>> \o Has(q[2])
    [] q[1] = "source"   -> <<4, 8, q[2]>> \o TermSortKey(q[3])
    [] q[1] = "target"   -> <<4, 9, q[2]>> \o TermSortKey(q[3])
    [] q[1] = "test"     -> <<5>> \o Has(q[3])

Before(x, y) ==
  \E i \in DOMAIN y :
    /\ \A j \in 1 .. i - 1 : j \in DOMAIN x /\ x[j] = y[j]
    /\ i \in DOMAIN x => x[i] < y[i]

\* Mutant: operands stay in the order they were written in.
SortCommutativeUnsorted(terms) == terms

\* A stable sort; repeated ids that come to lie side by side are one.  Composite
\* terms are objects of their own, and never identical.
SortCommutative(terms) ==
  LET Place(acc, q) ==
        InsertAt(acc, 1 + SelectLastInSeq(acc, LAMBDA p : ~Before(TermSortKey(q), TermSortKey(p))), q)
      Same(p, q) == p[1] = "has" /\ p = q
  IN FoldLeft(LAMBDA acc, q : IF acc # <<>> /\ Same(Last(acc), q) THEN acc ELSE Append(acc, q),
              <<>>, FoldLeft(Place, <<>>, terms))

\* The shortest form of a conjunction of components.
CanonicalComponents(cs) ==
  LET sorted == Ascending(ToSet(cs)) IN
  CASE sorted = <<>>    -> True
    [] Len(sorted) = 1  -> <<"has", sorted[1]>>
    [] OTHER            -> <<"list", sorted>>

-----------------------------------------------------------------------------
(* simplifyQueryDSL.                                                       *)

\* One operator over already simplified terms: the absorbing value wins, the
\* neutral one goes, nested terms of the same operator are spliced in.
Spliced(op, terms) ==
  FlattenSeq([i \in DOMAIN terms |->
    CASE terms[i][1] = op     -> terms[i][2]
      [] IsBoolean(terms[i])  -> <<>>
      [] OTHER                -> <<terms[i]>>])

Unwrapped(op, terms, neutral) ==
  CASE terms = <<>>    -> neutral
    [] Len(terms) = 1  -> terms[1]
    [] OTHER           -> <<op, SortCommutative(terms)>>

SimplifiedAll(terms) ==
  LET flat     == Spliced("all", terms)
      required == SelectSeq(flat, IsRequirement)
      others   == SelectSeq(flat, LAMBDA q : ~IsRequirement(q))
      merged   == CanonicalComponents(FlattenSeq([i \in DOMAIN required |-> Requirements(required[i])]))
  IN IF Contains(terms, False) THEN False
     ELSE Unwrapped("all", (IF required = <<>> THEN <<>> ELSE <<merged>>) \o others, True)

SimplifiedAny(terms) ==
  IF Contains(terms, True) THEN True ELSE Unwrapped("any", Spliced("any", terms), False)

SimplifiedNot(q) ==
  CASE q = True       -> False
    [] q = False      -> True
    [] q[1] = "not"   -> q[2]
    [] OTHER          -> <<"not", q>>

Along(op, r, q) == IF q = False THEN False ELSE <<op, r, q>>

RECURSIVE Simplify(_)
Simplify(q) ==
  LET Each(qs) == [i \in DOMAIN qs |-> Simplify(qs[i])] IN
  CASE IsBoolean(q) \/ q[1] = "has" -> q
    [] q[1] = "list"     -> CanonicalComponents(q[2])
    [] q[1] = "only"     -> <<"only", Ascending(ToSet(q[2]))>>
    [] q[1] = "all"      -> SimplifiedAll(Each(q[2]))
    [] q[1] = "any"      -> SimplifiedAny(Each(q[2]))
    [] q[1] = "not"      -> SimplifiedNot(Simplify(q[2]))
    [] q[1] = "test"     -> <<"test", q[2], Ascending(ToSet(q[3]))>>
    [] q[1] \in {"target", "source"} -> Along(q[1], q[2], Simplify(q[3]))
    [] q[1] = "parent"   -> Along("target", ChildOf, Simplify(q[2]))
    [] q[1] = "children" -> Along("source", ChildOf, Simplify(q[2]))

\* getDSLCacheKey writes the simplified expression out; nothing is lost.
CacheKey(q) == Simplify(q)

\* Only filters may look at the sources of an entity.
RECURSIVE ContainsDownTerm(_)
ContainsDownTerm(q) ==
  CASE q[1] \in {"source", "children"} -> TRUE
    [] q[1] \in {"all", "any"}         -> \E i \in DOMAIN q[2] : ContainsDownTerm(q[2][i])
    [] q[1] \in {"not", "parent"}      -> ContainsDownTerm(q[2])
    [] q[1] = "target"                 -> ContainsDownTerm(q[3])
    [] OTHER                           -> FALSE

-----------------------------------------------------------------------------
(* _analyzeDSL of a simplified expression, before a term is built for it:  *)
(* the leaves it would read, and whether it holds an `only` or a `target`. *)

HasEach(cs) == {<<"has", cs[i]>> : i \in DOMAIN cs}

RECURSIVE Leaves(_)
Leaves(q) ==
  CASE q[1] = "false"           -> {}
    [] q[1] \in {"true", "has"} -> {q}
    [] q[1] = "list"            -> HasEach(q[2])
    [] q[1] = "only"            -> HasEach(q[2]) \cup {True}
    [] q[1] = "test"            -> HasEach(q[3]) \cup {True}
    [] q[1] = "not"             -> Leaves(q[2]) \cup {True}
    [] q[1] \in {"all", "any"}  -> UNION {Leaves(q[2][i]) : i \in DOMAIN q[2]}
    [] q[1] = "target"          -> Leaves(q[3]) \cup {<<"has", q[2]>>}

RECURSIVE Mentions(_, _)
Mentions(q, op) ==
  CASE q[1] = op                -> TRUE
    [] q[1] \in {"all", "any"}  -> \E i \in DOMAIN q[2] : Mentions(q[2][i], op)
    [] q[1] = "not"             -> Mentions(q[2], op)
    [] q[1] = "target"          -> Mentions(q[3], op)
    [] OTHER                    -> FALSE

\* Two operands read the same leaf.
HasDiamond(q) ==
  \E i, j \in DOMAIN q[2] : i < j /\ Leaves(q[2][i]) \cap Leaves(q[2][j]) # {}

\* _allAnyPrecheck and buildCompositeTerm: one compiled predicate instead of a tree.
IsMerged(q) == q[1] \in {"all", "any"} /\ HasDiamond(q) /\ ~Mentions(q, "target")
===============================================================================

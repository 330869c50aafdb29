-------------------------------- MODULE MCWire --------------------------------
(* The calls of the RpcConnections runs; and, in the other half, what calls  *)
(* and frames travel as: the values, frames and classes of the wire codec.   *)
EXTENDS RpcConnections, WireTypes

VARIABLE half   \* what this behaviour is about: "calls", "sheet" or "types"

-----------------------------------------------------------------------------
(* Values at the edges of every width.                                       *)

Edge(bits) == {0, 1, 127, 128, 2^bits - 1, 2^bits}
Around(bits) == {-(2^(bits - 1)) - 1, -(2^(bits - 1)), -65, -64, -1, 0, 63, 64, 2^(bits - 1) - 1, 2^(bits - 1)}
Text(n) == [i \in 1..n |-> 96 + i]
Of(type, values) == {[type |-> type, v |-> v] : v \in values}

Integral(n) == [kind |-> "number", q |-> 4 * n]
Big(n) == [kind |-> "bigint", n |-> n]
Str(n) == [kind |-> "string", text |-> Text(n)]
List2(a, b) == [kind |-> "array", items |-> <<a, b>>]
Keyed(n, v) == [kind |-> "object", entries |-> <<[key |-> Text(n), value |-> v]>>]
Long == 2^(LongBits - 1)
Safe == 2^SafeBits

Anys ==
  {[kind |-> "undefined"], [kind |-> "null"], [kind |-> "function"],
   [kind |-> "boolean", yes |-> TRUE], [kind |-> "boolean", yes |-> FALSE],
   [kind |-> "array", items |-> <<>>], [kind |-> "object", entries |-> <<>>],
   [kind |-> "binary", data |-> <<>>], [kind |-> "binary", data |-> Text(3)]}
  \cup {Str(n) : n \in {0, 1, 15, 16, 17}}
  \cup {Integral(n) : n \in {-Long - 1, -Long, -Safe, 1 - Safe, -1, 0, 64, Safe - 1, Safe, Long - 1, Long}}
  \cup {[kind |-> "number", q |-> q] : q \in {-2, 1, 6, 2^26 - 1, 2^25 + 2}}
  \cup {Big(n) : n \in {-Long - 1, -Long, -1, 0, Long, 2 * Long - 1, 2 * Long}}
  \cup {List2(Integral(Safe), List2(Str(0), Big(-1))), Keyed(1, Keyed(0, Integral(Safe))),
        Keyed(2, List2([kind |-> "null"], [kind |-> "function"]))}

Scalars ==
  Of("bool", {TRUE, FALSE}) \cup Of("u8", {0, 255, 256}) \cup Of("i8", {-129, -128, -1, 127, 128})
  \cup Of("u16", Edge(HalfBits)) \cup Of("u32", Edge(WordBits)) \cup Of("u64", Edge(LongBits))
  \cup Of("i16", Around(HalfBits)) \cup Of("i32", Around(WordBits)) \cup Of("i64", Around(LongBits))
  \cup Of("f32", {-2, 5, 8}) \cup Of("f64", {-3, 5}) \cup Of("string", {<<>>, Text(2)})
  \cup Of("any", Anys)
  \cup Of("snapshot", {[eid |-> e, type |-> t, payload |-> b] :
                         e \in {0, 9, 2^(WordBits - TypeShift) - 1, 2^(WordBits - TypeShift)},
                         t \in {0, 3, 4}, b \in {<<>>, Text(2)}})

-----------------------------------------------------------------------------
(* Frames.                                                                   *)

Baseline == [to |-> 300, from |-> 0, snapshots |-> <<Text(3), Text(1)>>, removed |-> <<>>, resets |-> <<>>]
Delta == [to |-> 300, from |-> 299, snapshots |-> <<>>, removed |-> <<<<5, 1>>, <<6, 3>>>>,
          resets |-> <<<<7, 299>>, <<8, 100>>>>]
NoChange == [Delta EXCEPT !.removed = <<>>, !.resets = <<>>]
Request == [rpcId |-> 101, callId |-> 0, error |-> 0, message |-> <<>>, params |-> <<Str(1), Integral(Safe)>>]
Reply == [rpcId |-> 101, callId |-> 7, error |-> 1, message |-> Text(2), params |-> <<>>]

AtMostOne(S) == {<<>>} \cup {<<x>> : x \in S}
CallLists == {<<>>, <<Request>>, <<Reply, Request>>}

FrameItems ==
  Of("server", [diff : AtMostOne({Baseline, Delta, NoChange}), rpc : CallLists, settled : {0, 200},
                optimistic : BOOLEAN,
                close : AtMostOne([code : AtMostOne({1, 4001}), reason : AtMostOne({Text(2)})])])
  \cup Of("client", [ack : {0, 300}, input : AtMostOne({[kind |-> "null"], List2(Integral(Safe), Str(16))}),
                     rpc : CallLists, settled : {0, 200}, gap : BOOLEAN])
  \cup Of("edges", {<<9>>, <<9, 300>>})

-----------------------------------------------------------------------------
(* Classes: wired with a subclass and a nested class; reflected with a       *)
(* subclass that declares at run time, one that declares nothing and one     *)
(* that is wired; a tag with a plain subclass, and one registered by `new`.  *)

AllClasses == {"Base", "Derived", "Point", "Shape", "Circle", "Ring", "Mixed", "Mark", "Likes", "Made"}
AllFamilies == {{"Base", "Derived", "Point"}, {"Shape", "Circle", "Ring", "Mixed", "Point"}, {"Mark", "Likes", "Made"}}

Chains ==
  [c \in AllClasses |->
     CASE c = "Derived" -> <<"Base", "Derived">>
       [] c = "Circle"  -> <<"Shape", "Circle">>
       [] c = "Ring"    -> <<"Shape", "Circle", "Ring">>
       [] c = "Mixed"   -> <<"Shape", "Mixed">>
       [] c = "Likes"   -> <<"Mark", "Likes">>
       [] OTHER         -> <<c>>]
Declares(table) == [c \in AllClasses |-> IF c \in DOMAIN table THEN table[c] ELSE <<>>]

WiredFields == Declares([Base |-> <<"x">>, Derived |-> <<"x", "at", "y">>, Point |-> <<"px">>, Mixed |-> <<"m">>])
FieldedFields == Declares([Made |-> <<"u", "v">>])
ReflectedMembers == Declares([Shape |-> <<"s">>, Circle |-> <<"r">>])
FluentMembers == Declares([Circle |-> <<"q", "at">>])
NestedClass == [at |-> "Point"]

-----------------------------------------------------------------------------
MCInit ==
  /\ Init /\ WireInit
  /\ half \in {"calls", "sheet", "types"}
  /\ half # "types" => family = CHOOSE f \in Families : TRUE
  /\ half # "sheet" => sheet.room = CHOOSE r \in Rooms : TRUE
  /\ half # "calls" => load = CHOOSE l \in Loads : TRUE

MCNext ==
  \/ half = "calls" /\ Next /\ UNCHANGED <<half, wireVars>>
  \/ half = "sheet" /\ SheetNext /\ UNCHANGED <<half, vars>>
  \/ half = "types" /\ TypesNext /\ UNCHANGED <<half, vars>>

MCSpec == MCInit /\ [][MCNext]_<<half, vars, wireVars>>
=============================================================================

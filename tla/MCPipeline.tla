------------------------------ MODULE MCPipeline ------------------------------
(***************************************************************************)
(* The systems of a frame (`half` = "frames") and the results of a query   *)
(* ("results").  The frames have three scenes: a system of every other     *)
(* frame that hears of all the changes of two entities; systems that come, *)
(* go and are disabled; and clocks of clocks.                              *)
(***************************************************************************)
EXTENDS Pipeline

CONSTANT Absent

VARIABLES half, rscene, rworld, rquery, rscope, rheard, rghost, rwrites

MCOrder == <<"writer", "view", "late", "minute">>
MCRegistered == <<"slow", "interval", "frames2">>

MCRequires(s) == IF s = "writer" THEN {"b"} ELSE {"a"}
MCWatches(s) == CASE s = "view" -> {"a", "b"} [] s = "writer" -> {"b"} [] OTHER -> {"a"}
MCArrivals(s) == IF s = "view" THEN {"b"} ELSE {}
MCRemovals(s) == IF s = "view" THEN {"b"} ELSE {}
MCHears(s) ==
  CASE s \in {"view", "late"} -> {"enter", "exit"}
    [] s = "writer" -> {"exit", "run"}
    [] OTHER -> {"run"}
MCIgnores(s) == IF s = "view" THEN {"writer"} ELSE {}
MCCadence(s) == CASE s = "view" -> "frames2" [] s = "minute" -> "slow" [] OTHER -> "frame"
MCEvery(s) == IF s = "interval" THEN 3 ELSE 2
MCUpstream(s) == CASE s = "interval" -> "none" [] s = "slow" -> "interval" [] OTHER -> "frame"

Scene(built, calls, budget, frames, throws) ==
  [built |-> built, calls |-> calls, budget |-> budget, frames |-> frames, throws |-> throws]

MCScenes == {
  Scene({"view", "writer"}, ChangeCalls({"set", "add", "remove", "modified"}) \cup DestroyCalls, 4, {1}, TRUE),
  Scene({"view", "writer"},
        [op : {"change"}, kind : {"set", "remove"}, e : {"x"}, c : Components]
          \cup SystemCalls({"create"}, {"late"})
          \cup SystemCalls({"disable", "enable"}, {"view", "writer"})
          \cup SystemCalls({"destroySystem"}, {"late", "writer"}), 5, {1}, FALSE),
  Scene({"minute"}, ClockCalls, 2, {1, 2, 4}, TRUE),
  Scene({}, {}, 0, {1}, FALSE)}

-----------------------------------------------------------------------------
(* Five queries: sorted and bucketed by the value it shares; watched under *)
(* a destroyed member; bucketed by edges, whose targets come and go; the   *)
(* same, matched through the target; and cascading.                        *)

Sets(es, cs, vs) == [op : {"set"}, e : es, c : cs, value : vs]
Withdrawals(es, cs) == [op : {"remove"}, e : es, c : cs, value : {0}]
Edges(ops, es, ts) == [op : ops, e : es, c : {"R"}, value : ts]
Deaths(es) == [op : {"destroy"}, e : es, c : {""}, value : {0}]
Mutations(es, cs) == [e : es, c : cs, value : 1..2]

Ranked ==
  [requires |-> {"K"}, through |-> FALSE, order |-> "key", group |-> "key", exclusive |-> FALSE,
   entities |-> 1..3, queue |-> 2, writes |-> 5, silence |-> TRUE, arrivals |-> TRUE,
   commands |-> Sets(1..3, {"K"}, 1..2) \cup Sets({1}, {"W"}, {1}) \cup Withdrawals({1, 2}, {"K"}),
   mutates |-> Mutations({1, 3}, {"K"})]

Watched ==
  [Ranked EXCEPT !.requires = {"W"}, !.group = "none", !.entities = {1, 2}, !.writes = 4, !.silence = FALSE,
     !.commands = Sets({1, 2}, {"K", "W"}, 1..2) \cup Withdrawals({1, 2}, {"K", "W"}) \cup Deaths({1}),
     !.mutates = Mutations({1}, {"W"})]

Linked ==
  [Ranked EXCEPT !.requires = {"R"}, !.group = "edges", !.order = "none", !.writes = 4, !.mutates = {},
     !.commands = Sets({1, 3}, {"K"}, {1}) \cup Edges({"point", "unpoint"}, {1, 2}, {2, 3})
                    \cup Withdrawals({1}, {"R"}) \cup Deaths({2, 3})]

Through ==
  [Linked EXCEPT !.through = TRUE,
     !.commands = Sets({1, 3}, {"K"}, {1}) \cup Withdrawals({3}, {"K"})
                    \cup Edges({"point", "unpoint"}, {1, 2}, {2, 3}) \cup Deaths({1, 3})]

Cascading ==
  [Ranked EXCEPT !.exclusive = TRUE, !.group = "none", !.order = "cascade", !.writes = 4, !.silence = FALSE,
     !.commands = Sets(1..3, {"K"}, {1}) \cup Edges({"point"}, 1..3, 1..3) \cup Withdrawals({1, 2}, {"R"})
                    \cup Deaths({3}),
     !.mutates = {}]

Results == INSTANCE QueryResults WITH
  Entities <- 1..3, Scenes <- {Ranked, Watched, Linked, Through, Cascading},
  scene <- rscene, world <- rworld, query <- rquery, scope <- rscope, heard <- rheard, ghost <- rghost,
  writes <- rwrites

-----------------------------------------------------------------------------
resultVars == <<rscene, rworld, rquery, rscope, rheard, rghost, rwrites>>

NoResults ==
  /\ rscene = Absent /\ rworld = Absent /\ rquery = Absent /\ rscope = Absent /\ rheard = Absent
  /\ rghost = Absent /\ rwrites = Absent

\* No system is built, and no frame begins.
Empty == Scene({}, {}, 0, {1}, FALSE)

MCInit ==
  /\ Init
  /\ \/ half = "frames" /\ scene # Empty /\ NoResults
     \/ half = "results" /\ scene = Empty /\ Results!Init

MCNext ==
  /\ UNCHANGED half
  /\ \/ half = "frames" /\ Next /\ UNCHANGED resultVars
     \/ half = "results" /\ Results!Next /\ UNCHANGED vars

MCSpec == MCInit /\ [][MCNext]_<<half, resultVars, vars>>

\* A query that is iterated shows its members in the order of the data they have
\* now, in the buckets of their keys, and has told of every update it watches
\* (Query, OrderedSet, Grouping).
ResultsHold == half = "results" => Results!ResultsHold

\* An exit callback is handed the data that the entity had (inject.ts).
ExitsSeeWhatWas == [][half = "results" => Results!ExitStep]_<<half, resultVars, vars>>
===============================================================================

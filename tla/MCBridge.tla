------------------------------- MODULE MCBridge -------------------------------
(***************************************************************************)
(* The two halves of the MCP bridge, looked at one at a time: the links    *)
(* between processes on small topologies (`half` = "links"), and the       *)
(* sessions of one process with the watches they own ("sessions"): more of *)
(* them than fit, tool calls that cross, commands of which one is given up *)
(* on, several watches.                                                    *)
(***************************************************************************)
EXTENDS BridgeSessions, TLC

CONSTANTS p1, p2, p3, hall, r1, s1, s2, s3, c1, c2, c3

VARIABLES
    half,
    plan, link, wire, opened, worlds, dest, notify, wait, request, budget

MCNodes == {p1, p2, p3}
Named(nb, nc) == (p1 :> "a") @@ (p2 :> nb) @@ (p3 :> nc)
Joined(id, from, to, role) == [id |-> id, from |-> from, to |-> to, role |-> role, token |-> TRUE]
Plan(names, links, sockets, asks, bounds) ==
    [name |-> names, links |-> links, sockets |-> sockets, asks |-> asks,
     worlds |-> [n \in MCNodes |-> {hall}],
     budget |-> [breaks |-> bounds[1], changes |-> bounds[2], closes |-> bounds[3]]]

distinct == Named("b", "c")
one      == {Joined(1, p2, p1, "join")}
chain    == {Joined(1, p3, p2, "join"), Joined(2, p2, p1, "join")}
pair     == {Joined(1, p2, p1, "join"), Joined(2, p3, p1, "join")}
twice    == {Joined(1, p2, p1, "join"), Joined(2, p1, p2, "mount")}

MCPlans == {
    \* one link that breaks, reconnects and is closed
    Plan(distinct, one, 2, {p1}, <<1, 1, 1>>),
    \* a wrong token
    Plan(distinct, {[Joined(1, p2, p1, "join") EXCEPT !.token = FALSE]}, 1, {p1}, <<0, 1, 0>>),
    \* two hops, by joining only or by mounting the middle
    Plan(distinct, chain, 1, {p1}, <<1, 1, 0>>),
    Plan(distinct, {Joined(1, p3, p2, "join"), Joined(2, p1, p2, "mount")}, 1, {p1}, <<0, 1, 0>>),
    \* a circle; the same node joined and mounted; two nodes of one name
    Plan(distinct, {Joined(1, p2, p1, "join"), Joined(2, p1, p2, "join")}, 1, {p1}, <<0, 1, 0>>),
    Plan(distinct, twice, 2, {}, <<0, 1, 0>>),
    Plan(Named("b", "b"), pair, 2, {}, <<1, 0, 0>>) }

Topology == INSTANCE Links WITH
    Nodes <- MCNodes, Names <- {"a", "b", "c"}, Worlds <- {hall}, Plans <- MCPlans,
    Requests <- {r1}

Scene(openers, calls, lost, watches, events) ==
    [sessions |-> openers, calls |-> calls, losses |-> lost,
     watches |-> watches, events |-> <<events, 0>>]

manySessions == Scene({s1, s2, s3}, {c1, c2}, 0, 1, 0)
evictions    == Scene({s1, s2, s3}, {c3}, 1, 1, 0)
manyCalls    == Scene({s1, s2}, {c1, c2}, 1, 1, 0)
manyWatches  == Scene({s1, s2}, {c3}, 1, 2, 3)
MCScenes     == {manySessions, evictions, manyCalls, manyWatches}

linkVars == <<plan, link, wire, opened, worlds, dest, notify, wait, request, budget>>

Symmetry == Permutations({s1, s2}) \cup Permutations({c1, c2})

MCInit ==
    \/ half = "links" /\ Topology!Init /\ Init /\ scene = manyCalls
    \/ /\ half = "sessions" /\ Init
       /\ plan = None /\ link = None /\ wire = None /\ opened = None /\ worlds = None
       /\ dest = None /\ notify = None /\ wait = None /\ request = None /\ budget = None

MCNext ==
    /\ UNCHANGED half
    /\ \/ half = "links" /\ Topology!Next /\ UNCHANGED sessionVars
       \/ half = "sessions" /\ Next /\ UNCHANGED linkVars

MCSpec == MCInit /\ [][MCNext]_<<half, linkVars, sessionVars>>

\* Destinations, peers and tables of the routers are true to the links that
\* hold them, at every moment and entirely once nothing is under way.
TopologyIsTrue == half = "links" => Topology!TopologyIsTrue

\* Every request is settled by the node that awaits it, and only the world it
\* names ever runs it.
RequestsSettle == half = "links" => Topology!RequestsSettle
==============================================================================

------------------------------ MODULE MCEntities ------------------------------
(***************************************************************************)
(* The entities of one world (`half` = "entities"): three, one of which    *)
(* may be a component, in scenes of their own; and subtrees that cross     *)
(* between two worlds ("transfers").                                       *)
(***************************************************************************)
EXTENDS EntityWorld, Transfers

VARIABLE half

Scene(relations, sources, keys, policy, commands) ==
  [relations |-> relations, sources |-> sources, keys |-> keys,
   onDelete |-> policy, commands |-> commands]

Empty == Scene({}, {}, {}, "Remove", 0)

Everything == {
  Scene({"ChildOf"}, {}, {"c"}, "Delete", 0),
  Scene({"Likes"}, {"a", "b"}, {"c"}, "Remove", 0),
  Scene({"Likes"}, {"a"}, {}, "Remove", 3),
  Scene({"ChildOf"}, {}, {}, "Remove", 2),
  Scene({"ChildOf", "Owns"}, {"a"}, {}, "Remove", 1),
  Empty}

-----------------------------------------------------------------------------
(* Here a ship, 1, with a cargo, 2, a beacon, 3, that points at both, and a *)
(* station, 4; there a station, 5.  The first new entities are 6 and 7.     *)

MCPlain == <<"hull", "crew">>
MCLinks == <<"childOf", "likes", "carries">>

Ent(data, links) == [data |-> data, links |-> links]
Rel(tos, data) == [targets |-> tos, data |-> data]

Ship    == Ent([hull |-> 1], [likes |-> Rel(<<3>>, 1)])
Cargo   == Ent([hull |-> 2, crew |-> 1], [childOf |-> Rel(<<1>>, 0), carries |-> Rel(<<1, 4>>, 1)])
Beacon  == Ent(<<>>, [likes |-> Rel(<<1, 2>>, 0), childOf |-> Rel(<<4>>, 0)])
Station == Ent(<<>>, <<>>)

\* `unfit` is the class that a world does not capture or restore.
TwoWorlds(here, there) ==
  LET classes == ToSet(MCPlain) \cup ToSet(MCLinks) IN
  [here  |-> [fit |-> classes \ here, ents |-> <<Ship, Cargo, Beacon, Station>>],
   there |-> [fit |-> classes \ there, ents |-> 5 :> Station]]

Option(roots, traversal, components, relationships, strict) ==
  [roots |-> roots, traversal |-> traversal, components |-> components,
   relationships |-> relationships, strict |-> strict]

MCOptions == {
  Option(<<1>>, "childOf", Anything, Anything, FALSE),
  Option(<<1>>, "childOf", {"hull"}, {"carries"}, FALSE),
  Option(<<1>>, "childOf", {"crew"}, Anything, FALSE),
  Option(<<4, 2>>, "childOf", Anything, {"childOf", "likes"}, TRUE),
  Option(<<3, 1>>, "childOf", Anything, {"childOf", "likes"}, TRUE),
  Option(<<3>>, "likes", Anything, Anything, FALSE)}

Order(op, world, e, class, arg) ==
  [op |-> op, world |-> world, e |-> e, class |-> class, arg |-> arg]

MCCommands == {
  Order("set", "here", 2, "hull", Opaque),
  Order("set", "here", 1, "hull", 3),
  Order("destroy", "here", 1, "", 0),
  Order("link", "here", 1, "childOf", 4),
  Order("link", "here", 2, "likes", 3),
  Order("unlink", "here", 2, "carries", 1)}

MCHooks == {
  Order("forbid", "there", 0, "crew", 0),
  Order("destroy", "there", 5, "", 0),
  Order("destroy", "here", 4, "", 0),
  Order("link", "there", 6, "childOf", 5),
  Order("link", "there", 5, "likes", 6),
  Order("set", "there", 7, "hull", 3),
  Order("unlink", "there", 7, "childOf", 6)}

MCTrips ==
  {[worlds |-> ws, options |-> MCOptions, commands |-> MCCommands, hooks |-> MCHooks,
    calls |-> 3, throws |-> TRUE] :
     ws \in {TwoWorlds({}, {}), TwoWorlds({}, {"crew"}), TwoWorlds({"crew"}, {})}}

-----------------------------------------------------------------------------
NoTransfers ==
  /\ trip = Nobody /\ worlds = Nobody /\ fresh = Nobody /\ snapshot = Nobody
  /\ task = Nobody /\ last = Nobody /\ left = Nobody

MCInit ==
  /\ Init
  /\ \/ half = "entities" /\ scene # Empty /\ NoTransfers
     \/ half = "transfers" /\ scene = Empty /\ TransferInit

MCNext ==
  /\ UNCHANGED half
  /\ \/ half = "entities" /\ Next /\ UNCHANGED transferVars
     \/ half = "transfers" /\ TransferNext /\ UNCHANGED vars

MCSpec == MCInit /\ [][MCNext]_<<half, vars, transferVars>>

\* A transfer is whole or has not been, and no edge leads out of its world
\* (world.transfers.ts, snapshot).
TransfersHold == half = "transfers" => TransferHolds
===============================================================================

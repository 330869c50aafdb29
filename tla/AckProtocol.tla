---------------------------- MODULE AckProtocol ----------------------------
(***************************************************************************)
(* A session and its client joined by an unordered, unreliable channel, at *)
(* the level of frame numbers.  Nothing is ever taken out of `net` or      *)
(* `acks`: a message that is never delivered is lost, one delivered twice  *)
(* is duplicated, and any order of delivery is possible.                   *)
(*                                                                         *)
(* The client is abstract: DiffBuffer.version only moves forward, and only *)
(* to the end of a frame that was sent to it.  DiffBuffer.tla models how   *)
(* the code chooses it; Replication.tla is checked to refine this module.  *)
(***************************************************************************)
EXTENDS Session

CONSTANT MaxFrame    \* bound of the model: the newest frame the server sends

ASSUME MaxFrameAssumption == MaxFrame \in Nat

VARIABLES
  net,      \* every state frame handed to the client's socket
  acks,     \* every ack handed to the server's socket
  version   \* DiffBuffer.version, the newest frame the client holds

vars == <<sessionVars, net, acks, version>>

Headers == [from : Nat, to : Nat, optimistic : BOOLEAN]
Acks    == [ack : Nat, gap : BOOLEAN]

IsBaseline(m) == m.from = 0

BaselineHeader == [from |-> 0, to |-> To, optimistic |-> FALSE]

DeltaHeader(overdue) ==
  [from |-> DeltaBase(overdue), to |-> To,
   optimistic |-> DeltaBase(overdue) > ackFrame]

Init ==
  /\ SessionInit
  /\ net = {}
  /\ acks = {}
  /\ version = None

-----------------------------------------------------------------------------
(* The tick of ServerWorld.send, with the frame it hands to the socket.     *)

ServerBaseline(content, presumedLost) ==
  /\ SendBaseline(content, presumedLost)
  /\ net' = net \cup {BaselineHeader}
  /\ UNCHANGED <<acks, version>>

ServerDelta(content, rpc, overdue, gateOpen) ==
  /\ SendDelta(content, rpc, overdue, gateOpen)
  /\ net' = net \cup {DeltaHeader(overdue)}
  /\ UNCHANGED <<acks, version>>

ServerSilent(content, presumedLost, overdue, gateOpen) ==
  /\ \/ SkipEmptyBaseline(presumedLost)
     \/ AwaitBaseline(content)
     \/ SendNothing(overdue, gateOpen)
  /\ UNCHANGED <<net, acks, version>>

Tick ==
  /\ lastFrame < MaxFrame
  /\ \/ \E content \in BOOLEAN, lost \in BaselineTimer : ServerBaseline(content, lost)
     \/ \E content, rpc \in BOOLEAN, overdue \in ProbeTimer, gateOpen \in Gate :
          ServerDelta(content, rpc, overdue, gateOpen)
     \/ \E content \in BOOLEAN, lost \in BaselineTimer, overdue \in ProbeTimer,
           gateOpen \in Gate :
          ServerSilent(content, lost, overdue, gateOpen)

\* The client moves to the end of a frame it was sent; never backwards.
ClientAdvance ==
  /\ \E m \in net : m.to > version /\ version' = m.to
  /\ UNCHANGED <<sessionVars, net, acks>>

\* Mutant: the client acks whatever frame reached it, held back or not.
ClientAckReceived ==
  /\ \E m \in net, gap \in BOOLEAN : acks' = acks \cup {[ack |-> m.to, gap |-> gap]}
  /\ UNCHANGED <<sessionVars, net, version>>

\* ClientWorld.send: version, or 0 before anything was received.
ClientAck ==
  /\ \E gap \in BOOLEAN :
       acks' = acks \cup {[ack |-> IF version < 0 THEN 0 ELSE version, gap |-> gap]}
  /\ UNCHANGED <<sessionVars, net, version>>

AckArrives ==
  /\ \E a \in acks : ReceiveAck(a.ack, a.gap)
  /\ acks' = StillMatter(acks)
  /\ UNCHANGED <<net, version>>

Next == Tick \/ ClientAdvance \/ ClientAck \/ AckArrives

Spec == Init /\ [][Next]_vars

-----------------------------------------------------------------------------
\* Every variable holds a value of its kind.
TypeOK ==
  /\ SessionTypeOK
  /\ net \subseteq Headers
  /\ acks \subseteq Acks
  /\ version \in Nat \cup {None}

(***************************************************************************)
(* No protocol error: whenever and however often a frame is delivered, the *)
(* client does not reject it.  DiffBuffer.push throws on a delta that      *)
(* starts past the client's version and is not marked optimistic, and the  *)
(* client then disconnects.                                                *)
(***************************************************************************)
NoProtocolError ==
  \A m \in net : ~IsBaseline(m) /\ ~m.optimistic => m.from <= version

(***************************************************************************)
(* While a baseline is in flight the client cannot report its frame, or a  *)
(* later one, without holding that baseline: it is the only state frame    *)
(* sent with so high a number (server_world.ts:316-331).                   *)
(***************************************************************************)
BaselineInFlightIsNewest ==
  resyncFrame # None =>
    \A m \in net : m.to >= resyncFrame => IsBaseline(m) /\ m.to = resyncFrame

(***************************************************************************)
(* A delta never spans a baseline.  The frame of a baseline records the    *)
(* whole view but not the removals of its entities' components, so a delta *)
(* merged across it could resurrect a component (server_world.ts:933-946). *)
(***************************************************************************)
NoDeltaSpansBaseline ==
  \A b, m \in net :
    IsBaseline(b) /\ ~IsBaseline(m) /\ m.to > b.to => m.from >= b.to

\* The server never believes the client holds more than it does.
AckIsHeld == ackFrame > StartFrame => ackFrame <= version
=============================================================================

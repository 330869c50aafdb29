---------------------------- MODULE Replication ----------------------------
(***************************************************************************)
(* A server world with one session, an unordered and unreliable channel,   *)
(* and the client world it replicates to: Session.tla decides what is      *)
(* sent, StateDiffs.tla what it holds, DiffBuffer.tla what the client does *)
(* with it, DiffStream.tla what it must render.  Nothing leaves `net` or   *)
(* `acks`, so a message may be lost, delayed, reordered and duplicated.    *)
(***************************************************************************)
EXTENDS Session, DiffStream

CONSTANTS
  Background,  \* the view also shows an entity that never changes
  RpcReplies,  \* the session's outbox may hold replies at a tick
  MaxChanges   \* bound of the model: frames in which the view changes

VARIABLES
  view,      \* what the session's View shows the client after the last tick
  history,   \* History: the diffs of the frames in the window
  net,       \* every state frame handed to the client's socket
  acks,      \* every ack handed to the server's socket
  changes    \* bound of the model: changed frames so far

serverVars == <<sessionVars, view, history, changes, viewAt>>
vars == <<serverVars, clientVars, net, acks>>

Init ==
  /\ SessionInit
  /\ ClientInit
  /\ view = EmptyView
  /\ history = [f \in (StartFrame - HistoryFrames + 1)..StartFrame |-> EmptyDiff(f - 1, f)]
  /\ net = {}
  /\ acks = {}
  /\ changes = 0
  /\ viewAt = [f \in 0..StartFrame |-> view]

-----------------------------------------------------------------------------
(* The server's tick.                                                       *)

\* The views this tick may end with.
Changed == IF changes = MaxChanges THEN {view} ELSE NextViews(view, To)

Latest(next, baseline) == LatestDiff(view, next, To, baseline)

Record(next, latest) ==
  /\ view' = next
  /\ history' = [f \in (To - HistoryFrames + 1)..To |->
                   IF f = To THEN latest ELSE history[f]]
  /\ changes' = IF next = view THEN changes ELSE changes + 1
  /\ viewAt' = [f \in 0..To |-> IF f = To THEN next ELSE viewAt[f]]

\* The diff of a frame that sends one, from the history as of this push.
PulledState(base) ==
  IF base = lastFrame THEN history'[To] ELSE HistoryPull(history', base, To)

TickBaseline(presumedLost) ==
  \E next \in Changed :
    LET latest == Latest(next, TRUE) IN
    /\ Record(next, latest)
    /\ SendBaseline(Background \/ HasContent(latest), presumedLost)
    /\ net' = net \cup {[diff |-> [latest EXCEPT !.from = 0], optimistic |-> FALSE]}

TickDelta(rpc, overdue, gateOpen) ==
  \E next \in Changed :
    LET latest == Latest(next, FALSE) IN
    /\ Record(next, latest)
    /\ SendDelta(HasContent(latest), rpc, overdue, gateOpen)
    /\ net' = net \cup {[diff |-> PulledState(DeltaBase(overdue)),
                         optimistic |-> DeltaBase(overdue) > ackFrame]}

TickSilent(presumedLost, overdue, gateOpen) ==
  /\ \E next \in Changed :
       LET latest(baseline) == Latest(next, baseline) IN
       \/ /\ Record(next, latest(TRUE))
          /\ ~Background /\ ~HasContent(latest(TRUE))
          /\ SkipEmptyBaseline(presumedLost)
       \/ /\ Record(next, latest(FALSE))
          /\ AwaitBaseline(HasContent(latest(FALSE)))
       \/ /\ Record(next, latest(FALSE))
          /\ ~HasContent(latest(FALSE))
          /\ SendNothing(overdue, gateOpen)
  /\ UNCHANGED net

Tick ==
  /\ lastFrame < MaxFrame
  /\ \/ \E lost \in BaselineTimer : TickBaseline(lost)
     \/ \E rpc \in {FALSE, RpcReplies}, overdue \in ProbeTimer, gateOpen \in Gate :
          TickDelta(rpc, overdue, gateOpen)
     \/ \E lost \in BaselineTimer, overdue \in ProbeTimer, gateOpen \in Gate :
          TickSilent(lost, overdue, gateOpen)
  /\ UNCHANGED <<clientVars, acks>>

-----------------------------------------------------------------------------
(* The client.                                                              *)

Receive ==
  /\ \E m \in net : IF m.diff.from = 0 THEN ReceiveBaseline(m.diff)
                    ELSE ReceiveDelta(m.diff, m.optimistic)
  /\ UNCHANGED <<serverVars, net, acks>>

ClientApplies == Apply /\ UNCHANGED <<serverVars, net, acks>>

\* send(): ack the newest frame received, with the gap report if one is due.
SendAck ==
  /\ ~closed
  /\ acks' = acks \cup {[ack |-> ClientAckFrame, gap |-> GapOpen(buffer)]}
  /\ buffer' = TakeGap(buffer)
  /\ UNCHANGED <<serverVars, world, closed, net>>

AckArrives ==
  /\ \E a \in acks : ReceiveAck(a.ack, a.gap)
  /\ acks' = StillMatter(acks)
  /\ UNCHANGED <<view, history, changes, viewAt, clientVars, net>>

Next == Tick \/ Receive \/ ClientApplies \/ SendAck \/ AckArrives

Spec == Init /\ [][Next]_vars

-----------------------------------------------------------------------------
\* Every variable holds a value of its kind.
TypeOK ==
  /\ SessionTypeOK
  /\ view \in Views
  /\ \A f \in DOMAIN history : history[f].to = f
  /\ \A m \in net : m.diff \in Diffs /\ m.optimistic \in BOOLEAN
  /\ ClientTypeOK

\* A server and a client that follow the protocol: every value of its kind, no
\* protocol error, and the client renders what the server showed, no entity of
\* it older than the reset of its eid.
ClientFollows == TypeOK /\ NeverClosed /\ RenderedIsServerView /\ NoStaleEntity

(***************************************************************************)
(* The numbers of this module behave as AckProtocol says.                  *)
(***************************************************************************)
Header(m) == [from |-> m.diff.from, to |-> m.diff.to, optimistic |-> m.optimistic]

Protocol == INSTANCE AckProtocol WITH
  net     <- {Header(m) : m \in net},
  version <- buffer.version

RefinesAckProtocol == Protocol!Spec
=============================================================================

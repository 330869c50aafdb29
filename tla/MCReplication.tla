---------------------------- MODULE MCReplication ----------------------------
(***************************************************************************)
(* Two servers the Replication run looks at, chosen once and for all: one  *)
(* with redundancy and a view that is never empty, and one with keepalives *)
(* and replies instead, whose view may become empty.  Each is an instance  *)
(* of Replication together with what is proved of it.                      *)
(***************************************************************************)
EXTENDS Naturals, TLAPS

CONSTANTS Eids, Types, HistoryFrames, StartFrame, MaxLength, MaxHeldDiffs, MaxFrame

ASSUME ServersAssumption ==
  /\ HistoryFrames \in Nat /\ HistoryFrames >= 2
  /\ StartFrame \in Nat
  /\ MaxLength \in Nat /\ MaxLength >= 2
  /\ MaxHeldDiffs \in Nat /\ MaxHeldDiffs >= 1
  /\ MaxFrame \in Nat

VARIABLES
  optimistic,  \* which of the two
  lastFrame, contentFrames, lastContentFrame, evictedContentFrame, ackFrame,
  needsBaseline, resyncFrame, baselineAcked, sent, lastDiffFrame,
  lastContentSendFrame, probeFrame, fallbackFrame,
  view, history, net, acks, changes, viewAt, buffer, world, closed

Optimistic == INSTANCE Replication_proofs WITH
  RedundancyFrames <- 1, KeepAliveFrames <- 0, KeepAliveGated <- FALSE,
  BareEntities <- TRUE, Background <- TRUE, RpcReplies <- FALSE, MaxChanges <- 2

Plain == INSTANCE Replication_proofs WITH
  RedundancyFrames <- 0, KeepAliveFrames <- 2, KeepAliveGated <- FALSE,
  BareEntities <- FALSE, Background <- FALSE, RpcReplies <- TRUE, MaxChanges <- 3

Init == \/ optimistic = TRUE /\ Optimistic!Init
        \/ optimistic = FALSE /\ Plain!Init

Next == /\ UNCHANGED optimistic
        /\ \/ optimistic /\ Optimistic!Next
           \/ ~optimistic /\ Plain!Next

\* Whatever was lost, repeated or reordered on the way, the client never closes
\* for what it was sent, and what it renders is the server's view at that frame.
ClientFollows ==
  IF optimistic THEN Optimistic!ClientFollows ELSE Plain!ClientFollows

vars == <<optimistic, Optimistic!vars>>
Spec == Init /\ [][Next]_vars

\* The numbers of the optimistic server behave as AckProtocol says.
RefinesAckProtocol ==
  /\ optimistic => Optimistic!Protocol!Init
  /\ [][optimistic => Optimistic!Protocol!Next]_<<Optimistic!Protocol!vars>>

-----------------------------------------------------------------------------
(* What is proved of Replication holds of the two servers.                  *)

\* A server stays the one it was chosen to be.
LEMMA StaysTheSame ==
  /\ Init => optimistic \in BOOLEAN
  /\ [Next]_vars => optimistic' = optimistic
  /\ Init /\ optimistic => Optimistic!Init
  /\ Init /\ ~optimistic => Plain!Init
  /\ optimistic /\ [Next]_vars => [Optimistic!Next]_(Optimistic!vars)
  /\ ~optimistic /\ [Next]_vars => [Plain!Next]_(Plain!vars)
  <1>1. [Next]_vars => optimistic' = optimistic  BY DEF Next, vars
  <1>2. optimistic /\ [Next]_vars => [Optimistic!Next]_(Optimistic!vars)  BY DEF Next, vars
  <1>3. Optimistic!vars' = Optimistic!vars => Plain!vars' = Plain!vars
    BY DEF Optimistic!vars, Optimistic!serverVars, Optimistic!sessionVars,
           Optimistic!historyVars, Optimistic!handshakeVars, Optimistic!sendVars,
           Optimistic!clientVars, Plain!vars, Plain!serverVars, Plain!sessionVars,
           Plain!historyVars, Plain!handshakeVars, Plain!sendVars, Plain!clientVars
  <1>4. ~optimistic /\ [Next]_vars => [Plain!Next]_(Plain!vars)  BY <1>3 DEF Next, vars
  <1>. QED  BY <1>1, <1>2, <1>4 DEF Init

\* Both servers are within what the theorems of Replication assume.
LEMMA WithinAssumptions ==
  /\ MaxFrame \in Nat /\ TRUE \in BOOLEAN /\ FALSE \in BOOLEAN
  /\ Optimistic!SessionAssumption /\ Optimistic!BufferAssumption /\ Optimistic!StreamAssumption
  /\ Plain!SessionAssumption /\ Plain!BufferAssumption /\ Plain!StreamAssumption
  BY ServersAssumption
  DEF Optimistic!SessionAssumption, Optimistic!BufferAssumption, Optimistic!StreamAssumption,
      Plain!SessionAssumption, Plain!BufferAssumption, Plain!StreamAssumption

(***************************************************************************)
(* Neither client closes for what it was sent, and both render what their  *)
(* server showed: the first because its view always holds an entity that   *)
(* stays, the second because every entity in its view has a component.     *)
(***************************************************************************)
THEOREM BothClientsAreTrue == Spec => []ClientFollows
  <1>1. Optimistic!Spec => []Optimistic!ClientFollows
    <2>1. TRUE \/ ~TRUE  OBVIOUS
    <2>2. FALSE \in BOOLEAN /\ MaxFrame \in Nat  BY WithinAssumptions
    <2>3. Optimistic!SessionAssumption /\ Optimistic!BufferAssumption /\ Optimistic!StreamAssumption
      BY WithinAssumptions
    <2>. QED  BY <2>1, <2>2, <2>3, Optimistic!ClientIsTrue, PTL
  <1>2. Plain!Spec => []Plain!ClientFollows
    <2>1. FALSE \/ ~FALSE  OBVIOUS
    <2>2. TRUE \in BOOLEAN /\ MaxFrame \in Nat  BY WithinAssumptions
    <2>3. Plain!SessionAssumption /\ Plain!BufferAssumption /\ Plain!StreamAssumption
      BY WithinAssumptions
    <2>. QED  BY <2>1, <2>2, <2>3, Plain!ClientIsTrue, PTL
  <1>3. optimistic /\ Optimistic!ClientFollows => ClientFollows  BY DEF ClientFollows
  <1>4. ~optimistic /\ Plain!ClientFollows => ClientFollows  BY DEF ClientFollows
  <1>5. /\ [Next]_vars => optimistic' = optimistic
        /\ Init /\ optimistic => Optimistic!Init
        /\ Init /\ ~optimistic => Plain!Init
        /\ optimistic /\ [Next]_vars => [Optimistic!Next]_(Optimistic!vars)
        /\ ~optimistic /\ [Next]_vars => [Plain!Next]_(Plain!vars)
    BY StaysTheSame
  <1>6. optimistic /\ [Next]_vars => optimistic'  BY <1>5
  <1>7. ~optimistic /\ [Next]_vars => ~optimistic'  BY <1>5
  <1>. QED
    BY <1>1, <1>2, <1>3, <1>4, <1>5, <1>6, <1>7, PTL DEF Spec, Optimistic!Spec, Plain!Spec

(***************************************************************************)
(* The session numbers of the optimistic server, with the headers of what  *)
(* it sent and the version its client holds, behave as AckProtocol says.   *)
(***************************************************************************)
THEOREM OptimisticServerConforms == Spec => RefinesAckProtocol
  <1>1. Optimistic!Spec => Optimistic!RefinesAckProtocol
    <2>1. FALSE \in BOOLEAN /\ MaxFrame \in Nat  BY WithinAssumptions
    <2>2. Optimistic!SessionAssumption /\ Optimistic!BufferAssumption /\ Optimistic!StreamAssumption
      BY WithinAssumptions
    <2>. QED  BY <2>1, <2>2, Optimistic!ImplementsProtocol, PTL
  <1>2. /\ [Next]_vars => optimistic' = optimistic
        /\ Init /\ optimistic => Optimistic!Init
        /\ optimistic /\ [Next]_vars => [Optimistic!Next]_(Optimistic!vars)
    BY StaysTheSame
  <1>3. optimistic /\ [Next]_vars => optimistic'  BY <1>2
  <1>4. ~optimistic /\ [Next]_vars => ~optimistic'  BY <1>2
  <1>5. ~optimistic => [optimistic => Optimistic!Protocol!Next]_<<Optimistic!Protocol!vars>>
    OBVIOUS
  <1>6. [Optimistic!Protocol!Next]_(Optimistic!Protocol!vars)
          => [optimistic => Optimistic!Protocol!Next]_<<Optimistic!Protocol!vars>>
    OBVIOUS
  <1>. QED
    BY <1>1, <1>2, <1>3, <1>4, <1>5, <1>6, PTL
    DEF Spec, RefinesAckProtocol, Optimistic!Spec, Optimistic!RefinesAckProtocol,
        Optimistic!Protocol!Spec

=============================================================================

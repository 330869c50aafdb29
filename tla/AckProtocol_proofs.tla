------------------------- MODULE AckProtocol_proofs -------------------------
(***************************************************************************)
(* Theorems about AckProtocol, for every HistoryFrames, RedundancyFrames,  *)
(* KeepAliveFrames, StartFrame and MaxFrame.                               *)
(***************************************************************************)
EXTENDS AckProtocol, TLAPS

-----------------------------------------------------------------------------
(* Type correctness.                                                        *)

LEMMA InitType == Init => TypeOK
  <1>. SUFFICES ASSUME Init PROVE TypeOK
    OBVIOUS
  <1>1. sent \in [1..RedundancyFrames -> Nat]
    BY SessionAssumption DEF Init, SessionInit
  <1>2. SessionTypeOK
    BY <1>1, SessionAssumption DEF Init, SessionInit, SessionTypeOK
  <1>. QED  BY <1>2 DEF Init, TypeOK

\* What every tick does to the history.
LEMMA PushType ==
  ASSUME SessionTypeOK, NEW content \in BOOLEAN, HistoryPush(content)
  PROVE  /\ lastFrame' \in Nat
         /\ contentFrames' \subseteq Nat
         /\ lastContentFrame' \in Nat
         /\ evictedContentFrame' \in Nat \cup {None}
  BY SessionAssumption
  DEF SessionTypeOK, HistoryPush, PushedContent, Lost, To, Leaving, None

LEMMA RingType ==
  ASSUME SessionTypeOK, NEW stateFrame \in Nat
  PROVE  SentPush(stateFrame) \in [1..RedundancyFrames -> Nat]
  <1>. SUFFICES ASSUME NEW i \in 1..RedundancyFrames
                PROVE  i # RedundancyFrames => sent[i + 1] \in Nat
    BY DEF SentPush
  <1>. QED  BY SessionAssumption DEF SessionTypeOK

LEMMA NoteContentType ==
  ASSUME SessionTypeOK, lastContentFrame' \in Nat, NoteContentSent
  PROVE  /\ sent' \in [1..RedundancyFrames -> Nat]
         /\ lastDiffFrame' \in Nat
         /\ lastContentSendFrame' \in Nat
         /\ probeFrame' \in Nat \cup {None}
  BY RingType DEF SessionTypeOK, NoteContentSent, To

LEMMA NoteEmptyType ==
  ASSUME SessionTypeOK, NEW keepAlive \in BOOLEAN, NoteEmptySent(keepAlive)
  PROVE  /\ sent' \in [1..RedundancyFrames -> Nat]
         /\ lastDiffFrame' \in Nat
         /\ lastContentSendFrame' \in Nat
         /\ probeFrame' \in Nat \cup {None}
  BY RingType DEF SessionTypeOK, NoteEmptySent, To

LEMMA DeltaBaseType ==
  ASSUME SessionTypeOK, NEW overdue \in BOOLEAN
  PROVE  /\ DeltaBase(overdue) \in Nat
         /\ DeltaBase(overdue) >= ackFrame
         /\ FallbackAfter(overdue) \in Nat \cup {None}
  BY SessionAssumption
  DEF SessionTypeOK, DeltaBase, FallbackAfter, Redundant, SentOldest, Larger, To

LEMMA SessionTypeTick ==
  ASSUME SessionTypeOK, NEW content \in BOOLEAN, NEW presumedLost \in BOOLEAN,
         NEW rpc \in BOOLEAN, NEW overdue \in BOOLEAN, NEW gateOpen \in BOOLEAN,
         \/ SendBaseline(content, presumedLost)
         \/ SkipEmptyBaseline(presumedLost)
         \/ AwaitBaseline(content)
         \/ SendDelta(content, rpc, overdue, gateOpen)
         \/ SendNothing(overdue, gateOpen)
  PROVE  SessionTypeOK'
  <1>1. CASE SendBaseline(content, presumedLost)
    <2>. HistoryPush(content) /\ NoteContentSent  BY <1>1 DEF SendBaseline
    <2>. QED  BY <1>1, PushType, NoteContentType DEF SessionTypeOK, SendBaseline, To
  <1>2. CASE SkipEmptyBaseline(presumedLost)
    BY <1>2, PushType DEF SessionTypeOK, SkipEmptyBaseline, sendVars
  <1>3. CASE AwaitBaseline(content)
    BY <1>3, PushType DEF SessionTypeOK, AwaitBaseline, sendVars
  <1>4. CASE SendDelta(content, rpc, overdue, gateOpen)
    <2>. DEFINE keepAlive == KeepAliveDue(content, overdue, gateOpen)
    <2>1. HistoryPush(content)  BY <1>4 DEF SendDelta
    <2>2. NoteContentSent \/ NoteEmptySent(keepAlive)  BY <1>4 DEF SendDelta
    <2>3. keepAlive \in BOOLEAN  BY DEF KeepAliveDue
    <2>4. /\ sent' \in [1..RedundancyFrames -> Nat]
          /\ lastDiffFrame' \in Nat
          /\ lastContentSendFrame' \in Nat
          /\ probeFrame' \in Nat \cup {None}
      BY <2>1, <2>2, <2>3, PushType, NoteContentType, NoteEmptyType
    <2>. QED
      BY <1>4, <2>1, <2>4, PushType, DeltaBaseType
      DEF SessionTypeOK, SendDelta, handshakeVars
  <1>5. CASE SendNothing(overdue, gateOpen)
    BY <1>5, PushType, DeltaBaseType
    DEF SessionTypeOK, SendNothing, handshakeVars, sendVars
  <1>. QED  BY <1>1, <1>2, <1>3, <1>4, <1>5

LEMMA SessionTypeReceive ==
  ASSUME SessionTypeOK, NEW ack \in Nat, NEW gap \in BOOLEAN, ReceiveAck(ack, gap)
  PROVE  SessionTypeOK'
  <1>1. fallbackFrame' \in Nat \cup {None}
    BY DEF SessionTypeOK, ReceiveAck, OnGapReported, To
  <1>2. Redundant => SentNewest \in Nat
    BY SessionAssumption DEF SessionTypeOK, SentNewest, Redundant
  <1>3. CASE Acknowledge(ack)
    <2>1. ackFrame' \in Nat  BY <1>3 DEF SessionTypeOK, Acknowledge, Larger
    <2>2. probeFrame' \in Nat \cup {None}
      BY <1>2, <1>3 DEF SessionTypeOK, Acknowledge
    <2>3. /\ needsBaseline' \in BOOLEAN
          /\ baselineAcked' \in BOOLEAN
          /\ resyncFrame' \in Nat \cup {None}
      BY <1>3 DEF SessionTypeOK, Acknowledge, handshakeVars
    <2>. QED  BY <2>1, <2>2, <2>3, <1>1 DEF SessionTypeOK, ReceiveAck, historyVars
  <1>4. CASE UNCHANGED <<ackFrame, probeFrame, handshakeVars>>
    BY <1>4, <1>1 DEF SessionTypeOK, ReceiveAck, historyVars, handshakeVars
  <1>. QED  BY <1>3, <1>4 DEF ReceiveAck

LEMMA StepType == TypeOK /\ [Next]_vars => TypeOK'
  <1>. SUFFICES ASSUME TypeOK, [Next]_vars PROVE TypeOK'
    OBVIOUS
  <1>. USE DEF TypeOK
  <1>1. ASSUME NEW content \in BOOLEAN, NEW lost \in BaselineTimer,
               ServerBaseline(content, lost)
        PROVE  TypeOK'
    <2>1. lost \in BOOLEAN  BY DEF BaselineTimer
    <2>2. SessionTypeOK'  BY <1>1, <2>1, SessionTypeTick DEF ServerBaseline
    <2>3. BaselineHeader \in Headers
      BY DEF BaselineHeader, Headers, To, SessionTypeOK
    <2>. QED  BY <1>1, <2>2, <2>3 DEF ServerBaseline
  <1>2. ASSUME NEW content \in BOOLEAN, NEW rpc \in BOOLEAN, NEW overdue \in ProbeTimer,
               NEW gateOpen \in Gate, ServerDelta(content, rpc, overdue, gateOpen)
        PROVE  TypeOK'
    <2>1. overdue \in BOOLEAN /\ gateOpen \in BOOLEAN  BY DEF ProbeTimer, Gate
    <2>2. SessionTypeOK'  BY <1>2, <2>1, SessionTypeTick DEF ServerDelta
    <2>3. DeltaHeader(overdue) \in Headers
      BY <2>1, DeltaBaseType DEF DeltaHeader, Headers, To, SessionTypeOK
    <2>. QED  BY <1>2, <2>2, <2>3 DEF ServerDelta
  <1>3. ASSUME NEW content \in BOOLEAN, NEW lost \in BaselineTimer,
               NEW overdue \in ProbeTimer, NEW gateOpen \in Gate,
               ServerSilent(content, lost, overdue, gateOpen)
        PROVE  TypeOK'
    <2>1. overdue \in BOOLEAN /\ gateOpen \in BOOLEAN /\ lost \in BOOLEAN
      BY DEF ProbeTimer, Gate, BaselineTimer
    <2>2. SessionTypeOK'  BY <1>3, <2>1, SessionTypeTick DEF ServerSilent
    <2>. QED  BY <1>3, <2>2 DEF ServerSilent
  <1>4. CASE ClientAdvance
    BY <1>4
    DEF ClientAdvance, Headers, sessionVars, historyVars, handshakeVars, sendVars,
        SessionTypeOK
  <1>5. CASE ClientAck
    <2>1. SessionTypeOK'
      BY <1>5
      DEF ClientAck, sessionVars, historyVars, handshakeVars, sendVars, SessionTypeOK
    <2>. QED  BY <1>5, <2>1 DEF ClientAck, Acks, None
  <1>6. CASE AckArrives
    <2>. PICK a \in acks : ReceiveAck(a.ack, a.gap)  BY <1>6 DEF AckArrives
    <2>1. a.ack \in Nat /\ a.gap \in BOOLEAN  BY DEF Acks
    <2>2. SessionTypeOK'  BY <2>1, SessionTypeReceive
    <2>3. acks' \subseteq acks  BY <1>6 DEF AckArrives, StillMatter
    <2>. QED  BY <1>6, <2>2, <2>3 DEF AckArrives
  <1>7. CASE UNCHANGED vars
    BY <1>7 DEF vars, sessionVars, historyVars, handshakeVars, sendVars, SessionTypeOK
  <1>. QED  BY <1>1, <1>2, <1>3, <1>4, <1>5, <1>6, <1>7 DEF Next, Tick

(***************************************************************************)
(* Every variable of a session, its channel and its client holds a value   *)
(* of its kind, however the constants are set.                             *)
(***************************************************************************)
THEOREM TypeCorrect == Spec => []TypeOK
  BY InitType, StepType, PTL DEF Spec

-----------------------------------------------------------------------------
(* The handshake: why the client never has to reject a frame.               *)
(*                                                                         *)
(* NoProtocolError is not inductive: a delta is safe because it starts at   *)
(* an acked frame, and an acked frame is safe because the client holds it,  *)
(* which is true of ackFrame only once a baseline was acked.                *)

\* Nothing is numbered past the frame it belongs to, and the baseline in flight
\* is newer than the ack it waits for.
Ordered ==
  /\ StartFrame <= ackFrame
  /\ ackFrame <= lastFrame
  /\ resyncFrame # None => ackFrame < resyncFrame /\ resyncFrame <= lastFrame
  /\ \A m \in net : m.to <= lastFrame

\* An ack on its way names a frame the client holds.
AcksAreHeld == \A a \in acks : a.ack > 0 => a.ack <= version

\* Deltas are sent only on top of an acked baseline, and never while one is in
\* flight.
Handshake ==
  /\ baselineAcked => ackFrame > StartFrame
  /\ ~needsBaseline => baselineAcked /\ resyncFrame = None

\* Every baseline is acked, or not newer than the one in flight.
NewestBaseline == IF resyncFrame = None THEN ackFrame ELSE resyncFrame
BaselinesSettle == \A b \in net : IsBaseline(b) => b.to <= NewestBaseline

HandshakeInv ==
  /\ Ordered
  /\ AcksAreHeld
  /\ Handshake
  /\ BaselinesSettle
  /\ AckIsHeld
  /\ NoProtocolError
  /\ BaselineInFlightIsNewest
  /\ NoDeltaSpansBaseline

LEMMA InitHandshake == Init => HandshakeInv
  BY SessionAssumption
  DEF Init, SessionInit, HandshakeInv, Ordered, AcksAreHeld, Handshake, BaselinesSettle,
      AckIsHeld, NoProtocolError, BaselineInFlightIsNewest, NoDeltaSpansBaseline, None

\* A baseline is newer than everything in the channel.
LEMMA BaselineHandshake ==
  ASSUME TypeOK, HandshakeInv, NEW content \in BOOLEAN, NEW lost \in BOOLEAN,
         ServerBaseline(content, lost)
  PROVE  HandshakeInv'
  <1>. USE DEF HandshakeInv, TypeOK, SessionTypeOK
  <1>1. /\ net' = net \cup {BaselineHeader}
        /\ lastFrame' = lastFrame + 1
        /\ resyncFrame' = lastFrame + 1
        /\ needsBaseline'
        /\ UNCHANGED <<ackFrame, baselineAcked, acks, version>>
    BY DEF ServerBaseline, SendBaseline, HistoryPush, To
  <1>2. /\ BaselineHeader.from = 0
        /\ BaselineHeader.to = lastFrame + 1
        /\ BaselineHeader.optimistic = FALSE
    BY DEF BaselineHeader, To
  <1>3. \A m \in net : m.to \in Nat /\ m.to <= lastFrame  BY DEF Ordered, Headers
  <1>4. lastFrame + 1 # None  BY DEF None
  <1>5. Ordered'  BY <1>1, <1>2, <1>3 DEF Ordered
  <1>6. AcksAreHeld'  BY <1>1 DEF AcksAreHeld
  <1>7. Handshake'  BY <1>1 DEF Handshake
  <1>8. BaselinesSettle'
    BY <1>1, <1>2, <1>3, <1>4 DEF BaselinesSettle, NewestBaseline
  <1>9. AckIsHeld'  BY <1>1 DEF AckIsHeld
  <1>10. NoProtocolError'  BY <1>1, <1>2 DEF NoProtocolError, IsBaseline
  <1>11. BaselineInFlightIsNewest'
    BY <1>1, <1>2, <1>3 DEF BaselineInFlightIsNewest, IsBaseline
  <1>12. NoDeltaSpansBaseline'
    BY <1>1, <1>2, <1>3 DEF NoDeltaSpansBaseline, IsBaseline
  <1>. QED  BY <1>5, <1>6, <1>7, <1>8, <1>9, <1>10, <1>11, <1>12

\* A delta starts at or after an ack that no baseline is newer than.
LEMMA DeltaHandshake ==
  ASSUME TypeOK, HandshakeInv, NEW content \in BOOLEAN, NEW rpc \in BOOLEAN,
         NEW overdue \in BOOLEAN, NEW gateOpen \in BOOLEAN,
         ServerDelta(content, rpc, overdue, gateOpen)
  PROVE  HandshakeInv'
  <1>. USE DEF HandshakeInv, TypeOK, SessionTypeOK
  <1>. DEFINE d == DeltaHeader(overdue)
  <1>1. /\ net' = net \cup {d}
        /\ lastFrame' = lastFrame + 1
        /\ ~needsBaseline
        /\ UNCHANGED <<ackFrame, handshakeVars, acks, version>>
    BY DEF ServerDelta, SendDelta, HistoryPush, To, NeedsBaseline
  <1>2. /\ resyncFrame = None
        /\ ackFrame > StartFrame
        /\ ackFrame <= version
    BY <1>1 DEF Handshake, AckIsHeld
  <1>3. /\ d.from \in Nat
        /\ d.from >= ackFrame
        /\ d.to = lastFrame + 1
        /\ ~d.optimistic => d.from = ackFrame
    <2>1. DeltaBase(overdue) \in Nat /\ DeltaBase(overdue) >= ackFrame
      BY DeltaBaseType
    <2>2. /\ d.from = DeltaBase(overdue)
          /\ d.to = lastFrame + 1
          /\ d.optimistic = (DeltaBase(overdue) > ackFrame)
      BY DEF DeltaHeader, To
    <2>. HIDE DEF d
    <2>3. ~d.optimistic => ~(DeltaBase(overdue) > ackFrame)  BY <2>2, Zenon
    <2>. QED  BY <2>1, <2>2, <2>3
  <1>4. ~IsBaseline(d)  BY <1>2, <1>3, SessionAssumption DEF IsBaseline
  <1>5. \A m \in net : m.to \in Nat /\ m.to <= lastFrame  BY DEF Ordered, Headers
  <1>6. \A b \in net : IsBaseline(b) => b.to <= ackFrame
    BY <1>2 DEF BaselinesSettle, NewestBaseline
  <1>. HIDE DEF d
  <1>7. Ordered'  BY <1>1, <1>3, <1>5 DEF Ordered, handshakeVars
  <1>8. AcksAreHeld'  BY <1>1 DEF AcksAreHeld
  <1>9. Handshake'  BY <1>1 DEF Handshake, handshakeVars
  <1>10. BaselinesSettle'
    BY <1>1, <1>4 DEF BaselinesSettle, NewestBaseline, handshakeVars
  <1>11. AckIsHeld'  BY <1>1 DEF AckIsHeld
  <1>12. NoProtocolError'  BY <1>1, <1>2, <1>3 DEF NoProtocolError
  <1>13. BaselineInFlightIsNewest'
    BY <1>1, <1>2 DEF BaselineInFlightIsNewest, handshakeVars
  <1>14. NoDeltaSpansBaseline'
    <2>. SUFFICES ASSUME NEW b \in net', NEW m \in net',
                         IsBaseline(b), ~IsBaseline(m), m.to > b.to
                  PROVE  m.from >= b.to
      BY DEF NoDeltaSpansBaseline
    <2>1. b \in net  BY <1>1, <1>4
    <2>2. CASE m = d  BY <2>1, <2>2, <1>3, <1>5, <1>6
    <2>3. CASE m \in net  BY <2>1, <2>3 DEF NoDeltaSpansBaseline
    <2>. QED  BY <1>1, <2>2, <2>3
  <1>. QED  BY <1>7, <1>8, <1>9, <1>10, <1>11, <1>12, <1>13, <1>14

LEMMA SilentHandshake ==
  ASSUME TypeOK, HandshakeInv, NEW content \in BOOLEAN, NEW lost \in BOOLEAN,
         NEW overdue \in BOOLEAN, NEW gateOpen \in BOOLEAN,
         ServerSilent(content, lost, overdue, gateOpen)
  PROVE  HandshakeInv'
  <1>. USE DEF HandshakeInv, TypeOK, SessionTypeOK
  <1>1. /\ lastFrame' = lastFrame + 1
        /\ UNCHANGED <<ackFrame, resyncFrame, baselineAcked, net, acks, version>>
    BY DEF ServerSilent, SkipEmptyBaseline, AwaitBaseline, SendNothing, HistoryPush, To,
           handshakeVars
  <1>2. Ordered'
    <2>. \A m \in net : m.to \in Nat  BY DEF Headers
    <2>. QED  BY <1>1 DEF Ordered
  <1>3. AcksAreHeld'  BY <1>1 DEF AcksAreHeld
  <1>4. Handshake'
    BY <1>1
    DEF Handshake, ServerSilent, SkipEmptyBaseline, AwaitBaseline, SendNothing,
        handshakeVars
  <1>5. BaselinesSettle'  BY <1>1 DEF BaselinesSettle, NewestBaseline
  <1>6. AckIsHeld'  BY <1>1 DEF AckIsHeld
  <1>7. NoProtocolError'  BY <1>1 DEF NoProtocolError
  <1>8. BaselineInFlightIsNewest'  BY <1>1 DEF BaselineInFlightIsNewest
  <1>9. NoDeltaSpansBaseline'  BY <1>1 DEF NoDeltaSpansBaseline
  <1>. QED  BY <1>2, <1>3, <1>4, <1>5, <1>6, <1>7, <1>8, <1>9

\* The client moves forward, so what it held it still holds.
LEMMA AdvanceHandshake ==
  ASSUME TypeOK, HandshakeInv, ClientAdvance
  PROVE  HandshakeInv'
  <1>. USE DEF HandshakeInv, TypeOK, SessionTypeOK
  <1>1. PICK m \in net : m.to > version /\ version' = m.to  BY DEF ClientAdvance
  <1>2. /\ m.to \in Nat
        /\ \A o \in net : o.from \in Nat
        /\ \A a \in acks : a.ack \in Nat
    BY DEF Headers, Acks
  <1>3. UNCHANGED <<sessionVars, net, acks>>  BY DEF ClientAdvance
  <1>4. version \in Int /\ version' \in Int /\ version < version'
    BY <1>1, <1>2 DEF None
  <1>5. AcksAreHeld'  BY <1>2, <1>3, <1>4 DEF AcksAreHeld
  <1>6. AckIsHeld'
    BY <1>3, <1>4, SessionAssumption DEF AckIsHeld, sessionVars
  <1>7. NoProtocolError'  BY <1>2, <1>3, <1>4 DEF NoProtocolError
  <1>. QED
    BY <1>3, <1>5, <1>6, <1>7
    DEF Ordered, Handshake, BaselinesSettle, NewestBaseline, BaselineInFlightIsNewest,
        NoDeltaSpansBaseline, sessionVars, historyVars, handshakeVars

LEMMA ClientAckHandshake ==
  ASSUME TypeOK, HandshakeInv, ClientAck
  PROVE  HandshakeInv'
  <1>. USE DEF HandshakeInv, TypeOK, SessionTypeOK
  <1>1. UNCHANGED <<sessionVars, net, version>>  BY DEF ClientAck
  <1>2. AcksAreHeld'
    <2>. PICK gap \in BOOLEAN :
           acks' = acks \cup {[ack |-> IF version < 0 THEN 0 ELSE version, gap |-> gap]}
      BY DEF ClientAck
    <2>. DEFINE new == [ack |-> IF version < 0 THEN 0 ELSE version, gap |-> gap]
    <2>1. new.ack > 0 => new.ack <= version  BY DEF None
    <2>. HIDE DEF new
    <2>2. acks' = acks \cup {new}  BY DEF new
    <2>. QED  BY <1>1, <2>1, <2>2 DEF AcksAreHeld
  <1>. QED
    BY <1>1, <1>2
    DEF Ordered, Handshake, BaselinesSettle, NewestBaseline, AckIsHeld, NoProtocolError,
        BaselineInFlightIsNewest, NoDeltaSpansBaseline, sessionVars, historyVars,
        handshakeVars

\* The server learns of a baseline only from a client that holds it.
LEMMA AckArrivesHandshake ==
  ASSUME TypeOK, HandshakeInv, AckArrives
  PROVE  HandshakeInv'
  <1>. USE DEF HandshakeInv, TypeOK, SessionTypeOK
  <1>1. PICK a \in acks : ReceiveAck(a.ack, a.gap)  BY DEF AckArrives
  <1>2. a.ack \in Nat /\ \A m \in net : m.from \in Nat /\ m.to \in Nat
    BY DEF Acks, Headers
  <1>3. /\ acks' \subseteq acks
        /\ UNCHANGED <<lastFrame, net, version>>
    BY <1>1 DEF AckArrives, StillMatter, ReceiveAck, historyVars
  <1>4. AcksAreHeld'  BY <1>3 DEF AcksAreHeld
  <1>5. NoProtocolError' /\ NoDeltaSpansBaseline'
    BY <1>3 DEF NoProtocolError, NoDeltaSpansBaseline
  <1>6. CASE a.ack <= lastFrame
    <2>1. Acknowledge(a.ack)  BY <1>1, <1>6 DEF ReceiveAck
    <2>2. /\ ackFrame' \in Nat
          /\ ackFrame <= ackFrame' /\ ackFrame' <= lastFrame
          /\ ackFrame' = ackFrame \/ (ackFrame' = a.ack /\ a.ack > ackFrame)
      BY <1>2, <1>6, <2>1 DEF Acknowledge, Larger, Ordered
    <2>3. AckIsHeld'
      BY <1>2, <1>3, <2>2, SessionAssumption DEF AckIsHeld, AcksAreHeld, Ordered
    <2>4. CASE resyncFrame # None /\ ackFrame' >= resyncFrame
      <3>1. ~needsBaseline' /\ baselineAcked' /\ resyncFrame' = None
        BY <2>1, <2>4 DEF Acknowledge
      <3>2. ackFrame' > StartFrame
        BY <2>2, <2>4, SessionAssumption DEF Ordered
      <3>3. Ordered'  BY <1>3, <2>2, <3>1, SessionAssumption DEF Ordered
      <3>4. Handshake'  BY <3>1, <3>2 DEF Handshake
      <3>5. BaselinesSettle'
        BY <1>2, <1>3, <2>2, <2>4, <3>1 DEF BaselinesSettle, NewestBaseline
      <3>6. BaselineInFlightIsNewest'  BY <3>1 DEF BaselineInFlightIsNewest
      <3>. QED  BY <1>4, <1>5, <2>3, <3>3, <3>4, <3>5, <3>6
    <2>5. CASE ~(resyncFrame # None /\ ackFrame' >= resyncFrame)
      <3>1. UNCHANGED handshakeVars  BY <2>1, <2>5 DEF Acknowledge
      <3>2. Ordered'
        BY <1>3, <2>2, <2>5, <3>1, SessionAssumption DEF Ordered, handshakeVars
      <3>3. Handshake'
        BY <2>2, <3>1, SessionAssumption DEF Handshake, handshakeVars
      <3>4. BaselinesSettle'
        BY <1>2, <1>3, <2>2, <3>1 DEF BaselinesSettle, NewestBaseline, handshakeVars
      <3>5. BaselineInFlightIsNewest'
        BY <1>3, <3>1 DEF BaselineInFlightIsNewest, handshakeVars
      <3>. QED  BY <1>4, <1>5, <2>3, <3>2, <3>3, <3>4, <3>5
    <2>. QED  BY <2>4, <2>5
  <1>7. CASE ~(a.ack <= lastFrame)
    <2>1. UNCHANGED <<ackFrame, handshakeVars>>  BY <1>1, <1>7 DEF ReceiveAck
    <2>. QED
      BY <1>3, <1>4, <1>5, <2>1
      DEF Ordered, Handshake, BaselinesSettle, NewestBaseline, AckIsHeld,
          BaselineInFlightIsNewest, handshakeVars
  <1>. QED  BY <1>6, <1>7

LEMMA StepHandshake == TypeOK /\ HandshakeInv /\ [Next]_vars => HandshakeInv'
  <1>. SUFFICES ASSUME TypeOK, HandshakeInv, [Next]_vars PROVE HandshakeInv'
    OBVIOUS
  <1>. USE DEF BaselineTimer, ProbeTimer, Gate
  <1>1. ASSUME NEW content \in BOOLEAN, NEW lost \in BaselineTimer,
               ServerBaseline(content, lost)
        PROVE  HandshakeInv'
    BY <1>1, BaselineHandshake
  <1>2. ASSUME NEW content \in BOOLEAN, NEW rpc \in BOOLEAN, NEW overdue \in ProbeTimer,
               NEW gateOpen \in Gate, ServerDelta(content, rpc, overdue, gateOpen)
        PROVE  HandshakeInv'
    BY <1>2, DeltaHandshake
  <1>3. ASSUME NEW content \in BOOLEAN, NEW lost \in BaselineTimer,
               NEW overdue \in ProbeTimer, NEW gateOpen \in Gate,
               ServerSilent(content, lost, overdue, gateOpen)
        PROVE  HandshakeInv'
    BY <1>3, SilentHandshake
  <1>4. CASE UNCHANGED vars
    BY <1>4
    DEF vars, sessionVars, historyVars, handshakeVars, HandshakeInv, Ordered, AcksAreHeld,
        Handshake, BaselinesSettle, NewestBaseline, AckIsHeld, NoProtocolError,
        BaselineInFlightIsNewest, NoDeltaSpansBaseline
  <1>. HIDE DEF BaselineTimer, ProbeTimer, Gate
  <1>. QED
    BY <1>1, <1>2, <1>3, <1>4, AdvanceHandshake, ClientAckHandshake, AckArrivesHandshake
    DEF Next, Tick

LEMMA HandshakeHolds == Spec => []HandshakeInv
  BY InitType, StepType, InitHandshake, StepHandshake, PTL DEF Spec

(***************************************************************************)
(* The client never has to reject a frame: an unmarked delta, whenever it  *)
(* arrives, starts at a frame the client holds (DiffBuffer.push).          *)
(***************************************************************************)
THEOREM FramesAreAcceptable == Spec => []NoProtocolError
  BY HandshakeHolds, PTL DEF HandshakeInv

(***************************************************************************)
(* The baseline in flight is the newest state frame sent, so an ack of it  *)
(* can only come from a client that holds it.                              *)
(***************************************************************************)
THEOREM BaselineAckIsProof == Spec => []BaselineInFlightIsNewest
  BY HandshakeHolds, PTL DEF HandshakeInv

\* No delta was ever sent that starts before a baseline and ends after it.
THEOREM DeltasStopAtBaselines == Spec => []NoDeltaSpansBaseline
  BY HandshakeHolds, PTL DEF HandshakeInv

\* The server's ackFrame is never ahead of its client.
THEOREM AcksAreTruthful == Spec => []AckIsHeld
  BY HandshakeHolds, PTL DEF HandshakeInv

-----------------------------------------------------------------------------
(* The probe: why content the client lacks is always watched.               *)

\* The content window, and what is known of content that left it.
Window ==
  /\ StartFrame <= lastContentFrame
  /\ lastContentFrame <= lastFrame
  /\ evictedContentFrame <= lastFrame
  /\ \A f \in contentFrames :
       /\ evictedContentFrame < f
       /\ lastFrame - HistoryFrames < f
       /\ f <= lastContentFrame
  /\ \/ lastContentFrame = StartFrame
     \/ lastContentFrame \in contentFrames
     \/ lastContentFrame <= evictedContentFrame

\* The ring never runs ahead of the content, and its newest entry is its largest.
Ring ==
  Redundant =>
    /\ \A i \in 1..RedundancyFrames : sent[i] <= lastContentFrame
    /\ SentOldest <= SentNewest

\* The probe never watches for content newer than any that was sent.
ProbeIsSent == Redundant => probeFrame <= SentNewest

ProbeInv ==
  /\ Window
  /\ Ring
  /\ ProbeIsSent
  /\ StartFrame <= ackFrame
  /\ UnackedContentIsWatched

LEMMA InitProbe == Init => ProbeInv
  <1>. SUFFICES ASSUME Init PROVE ProbeInv
    OBVIOUS
  <1>1. \A i \in 1..RedundancyFrames : sent[i] = StartFrame  BY DEF Init, SessionInit
  <1>2. Redundant => SentOldest = StartFrame /\ SentNewest = StartFrame
    BY <1>1, SessionAssumption DEF SentOldest, SentNewest, Redundant
  <1>. QED
    BY <1>1, <1>2, SessionAssumption
    DEF ProbeInv, Window, Ring, ProbeIsSent, UnackedContentIsWatched, Init, SessionInit, None

LEMMA PushWindow ==
  ASSUME SessionTypeOK, Window, NEW content \in BOOLEAN, HistoryPush(content)
  PROVE  /\ Window'
         /\ lastContentFrame <= lastContentFrame'
         /\ content => lastContentFrame' = To
  <1>. USE DEF SessionTypeOK, HistoryPush
  <1>1. /\ lastFrame' = lastFrame + 1
        /\ To = lastFrame + 1 /\ Leaving = lastFrame + 1 - HistoryFrames
        /\ evictedContentFrame' =
             IF Leaving \in contentFrames THEN Leaving ELSE evictedContentFrame
        /\ \A f \in contentFrames' :
             (f \in contentFrames /\ f # Leaving) \/ (content /\ f = To)
        /\ \A f \in contentFrames : f # Leaving => f \in contentFrames'
        /\ content => To \in contentFrames'
    BY SessionAssumption DEF PushedContent, Lost, To, Leaving
  <1>2. lastContentFrame' \in Nat /\ lastContentFrame <= lastContentFrame'
        /\ StartFrame <= lastContentFrame' /\ lastContentFrame' <= lastFrame'
    BY <1>1, SessionAssumption DEF Window
  <1>3. /\ evictedContentFrame' \in Int /\ evictedContentFrame <= evictedContentFrame'
        /\ evictedContentFrame' <= lastFrame'
    BY <1>1, SessionAssumption DEF Window, None
  <1>4. ASSUME NEW f \in contentFrames'
        PROVE  /\ evictedContentFrame' < f
               /\ lastFrame' - HistoryFrames < f
               /\ f <= lastContentFrame'
    <2>1. CASE f \in contentFrames /\ f # Leaving
      BY <1>1, <1>2, <2>1, SessionAssumption DEF Window
    <2>2. CASE content /\ f = To
      <3>1. evictedContentFrame < To /\ Leaving < To
        BY <1>1, SessionAssumption DEF Window, None
      <3>. QED  BY <1>1, <2>2, <3>1, SessionAssumption
    <2>. QED  BY <1>1, <2>1, <2>2
  <1>5. \/ lastContentFrame' = StartFrame
        \/ lastContentFrame' \in contentFrames'
        \/ lastContentFrame' <= evictedContentFrame'
    BY <1>1, <1>3, SessionAssumption DEF Window, None
  <1>. QED  BY <1>1, <1>2, <1>3, <1>4, <1>5 DEF Window

LEMMA PushRing ==
  ASSUME SessionTypeOK, Ring, NEW stateFrame \in Nat, lastContentFrame <= stateFrame,
         Redundant, sent' = SentPush(stateFrame), lastContentFrame' = stateFrame
  PROVE  Ring' /\ SentNewest' = stateFrame
  <1>1. \A i \in 1..RedundancyFrames : sent[i] \in Nat /\ sent[i] <= lastContentFrame
    BY DEF Ring, SessionTypeOK
  <1>2. \A i \in 1..RedundancyFrames :
          sent'[i] = IF i = RedundancyFrames THEN stateFrame ELSE sent[i + 1]
    BY DEF SentPush
  <1>3. \A i \in 1..RedundancyFrames : sent'[i] <= stateFrame
    <2>. SUFFICES ASSUME NEW i \in 1..RedundancyFrames PROVE sent'[i] <= stateFrame
      OBVIOUS
    <2>1. CASE i = RedundancyFrames  BY <1>2, <2>1
    <2>2. CASE i # RedundancyFrames
      <3>1. i + 1 \in 1..RedundancyFrames  BY <2>2, SessionAssumption
      <3>. QED  BY <1>1, <1>2, <2>2, <3>1 DEF SessionTypeOK
    <2>. QED  BY <2>1, <2>2
  <1>4. 1 \in 1..RedundancyFrames /\ RedundancyFrames \in 1..RedundancyFrames
    BY SessionAssumption DEF Redundant
  <1>5. SentNewest' = stateFrame  BY <1>2, <1>4 DEF SentNewest
  <1>6. SentOldest' <= SentNewest'  BY <1>3, <1>4, <1>5 DEF SentOldest
  <1>. QED  BY <1>3, <1>5, <1>6 DEF Ring

\* A send of content is watched: by the probe that was armed, or by a new one.
LEMMA ContentWatched ==
  ASSUME SessionTypeOK, ProbeInv, Window', ackFrame' = ackFrame,
         lastContentFrame' \in Nat, lastContentFrame <= lastContentFrame', NoteContentSent
  PROVE  ProbeInv'
  <1>. USE DEF SessionTypeOK, ProbeInv
  <1>1. CASE Redundant
    <2>1. Ring' /\ SentNewest' = lastContentFrame'
      BY <1>1, PushRing DEF NoteContentSent
    <2>2. SentNewest \in Nat /\ SentNewest <= lastContentFrame
      BY <1>1, SessionAssumption DEF Ring, SentNewest, Redundant
    <2>3. probeFrame' =
            IF /\ lastContentFrame' > ackFrame
               /\ probeFrame = None \/ ackFrame >= probeFrame
            THEN lastContentFrame' ELSE probeFrame
      BY <1>1 DEF NoteContentSent
    <2>4. ProbeIsSent' /\ UnackedContentIsWatched'
      BY <1>1, <2>1, <2>2, <2>3 DEF ProbeIsSent, UnackedContentIsWatched, None
    <2>. QED  BY <2>1, <2>4
  <1>2. CASE ~Redundant
    BY <1>2 DEF Ring, ProbeIsSent, UnackedContentIsWatched, Redundant
  <1>. QED  BY <1>1, <1>2

\* A keepalive repeats nothing that is not watched already: that its delta is
\* empty means the ring holds all content the client lacks.
LEMMA EmptyWatched ==
  ASSUME SessionTypeOK, ProbeInv, ackFrame' = ackFrame, NEW keepAlive \in BOOLEAN,
         NEW overdue \in BOOLEAN, HistoryPush(FALSE), NoteEmptySent(keepAlive),
         ~NeedsBaseline, ~DeltaHasContent(FALSE, overdue)
  PROVE  ProbeInv'
  <1>. USE DEF SessionTypeOK, ProbeInv
  <1>1. /\ Window'
        /\ lastContentFrame' = lastContentFrame
        /\ evictedContentFrame' = Lost
        /\ contentFrames' = PushedContent(FALSE)
    BY PushWindow DEF HistoryPush
  <1>2. Lost <= ackFrame  BY DEF NeedsBaseline, CanPullAfterPush
  <1>3. \A f \in contentFrames' : ~(f > DeltaBase(overdue))
    BY <1>1 DEF DeltaHasContent
  <1>4. lastContentFrame <= DeltaBase(overdue)
    <2>1. DeltaBase(overdue) \in Nat /\ DeltaBase(overdue) >= ackFrame
      BY DeltaBaseType
    <2>2. lastContentFrame = StartFrame \/ lastContentFrame \in contentFrames'
            \/ lastContentFrame <= Lost
      BY <1>1 DEF Window
    <2>3. Lost \in Int
      BY SessionAssumption DEF Lost, Leaving, To, None
    <2>. QED  BY <1>2, <1>3, <2>1, <2>2, <2>3, SessionAssumption
  <1>5. CASE Redundant /\ keepAlive
    <2>1. Ring' /\ SentNewest' = lastContentFrame /\ UNCHANGED probeFrame
      BY <1>1, <1>5, PushRing DEF NoteEmptySent
    <2>2. /\ SentOldest \in Nat /\ SentNewest \in Nat
          /\ SentOldest <= SentNewest /\ SentNewest <= lastContentFrame
      BY <1>5, SessionAssumption DEF Ring, SentNewest, SentOldest, Redundant
    <2>3. lastContentFrame > ackFrame => SentNewest = lastContentFrame
      BY <1>4, <1>5, <2>2 DEF DeltaBase, Larger
    <2>4. ProbeIsSent'
      BY <1>5, <2>1, <2>2 DEF ProbeIsSent, None
    <2>5. UnackedContentIsWatched'
      BY <1>5, <2>1, <2>3 DEF UnackedContentIsWatched
    <2>. QED  BY <1>1, <2>1, <2>4, <2>5
  <1>6. CASE ~(Redundant /\ keepAlive)
    BY <1>1, <1>6
    DEF NoteEmptySent, Ring, ProbeIsSent, UnackedContentIsWatched, Redundant, SentNewest,
        SentOldest
  <1>. QED  BY <1>5, <1>6

\* A tick that sends nothing to this session.
LEMMA SilentWatched ==
  ASSUME SessionTypeOK, ProbeInv, NEW content \in BOOLEAN, HistoryPush(content),
         UNCHANGED <<ackFrame, sendVars>>
  PROVE  ProbeInv'
  <1>. USE DEF ProbeInv
  <1>1. Window' /\ lastContentFrame <= lastContentFrame'  BY PushWindow
  <1>2. Ring'
    <2>1. SentOldest' = SentOldest /\ SentNewest' = SentNewest
      BY DEF sendVars, SentOldest, SentNewest
    <2>2. lastContentFrame' \in Nat  BY PushType
    <2>. QED  BY <1>1, <2>1, <2>2 DEF Ring, Redundant, sendVars, SessionTypeOK
  <1>. QED
    BY <1>1, <1>2
    DEF ProbeIsSent, UnackedContentIsWatched, Redundant, SentNewest, sendVars

\* The probe moves on with the ack, to content the client still lacks.
LEMMA ReceiveWatched ==
  ASSUME SessionTypeOK, ProbeInv, NEW ack \in Nat, NEW gap \in BOOLEAN,
         ReceiveAck(ack, gap)
  PROVE  ProbeInv'
  <1>. USE DEF SessionTypeOK, ProbeInv
  <1>1. UNCHANGED <<historyVars, sent>>  BY DEF ReceiveAck
  <1>2. Window'  BY <1>1 DEF Window, historyVars
  <1>3. /\ SentNewest' = SentNewest /\ SentOldest' = SentOldest
        /\ Redundant => SentNewest \in Nat
    BY <1>1, SessionAssumption DEF SentNewest, SentOldest, Redundant
  <1>4. Ring'  BY <1>1, <1>3 DEF Ring, Redundant, historyVars
  <1>5. CASE Acknowledge(ack)
    <2>1. StartFrame <= ackFrame' /\ ackFrame' = Larger(ackFrame, ack)
      BY <1>5, SessionAssumption DEF Acknowledge, Larger
    <2>2. ProbeIsSent'
      BY <1>3, <1>5 DEF Acknowledge, ProbeIsSent, Redundant, None
    <2>3. UnackedContentIsWatched'
      BY <1>3, <1>5 DEF Acknowledge, ProbeIsSent, UnackedContentIsWatched, Redundant,
         Larger, None
    <2>. QED  BY <1>2, <1>4, <2>1, <2>2, <2>3
  <1>6. CASE UNCHANGED <<ackFrame, probeFrame, handshakeVars>>
    BY <1>2, <1>3, <1>4, <1>6 DEF ProbeIsSent, UnackedContentIsWatched, Redundant
  <1>. QED  BY <1>5, <1>6 DEF ReceiveAck

LEMMA BaselineWatched ==
  ASSUME SessionTypeOK, ProbeInv, NEW content \in BOOLEAN, NEW lost \in BOOLEAN,
         SendBaseline(content, lost)
  PROVE  ProbeInv'
  <1>1. HistoryPush(content) /\ NoteContentSent /\ ackFrame' = ackFrame
    BY DEF SendBaseline
  <1>. QED  BY <1>1, PushType, PushWindow, ContentWatched DEF ProbeInv

LEMMA DeltaWatched ==
  ASSUME SessionTypeOK, ProbeInv, ackFrame <= lastFrame, NEW content \in BOOLEAN, NEW rpc \in BOOLEAN,
         NEW overdue \in BOOLEAN, NEW gateOpen \in BOOLEAN,
         SendDelta(content, rpc, overdue, gateOpen)
  PROVE  ProbeInv'
  <1>1. HistoryPush(content) /\ ackFrame' = ackFrame /\ ~NeedsBaseline
    BY DEF SendDelta
  <1>2. CASE DeltaHasContent(content, overdue)
    <2>. NoteContentSent  BY <1>2 DEF SendDelta
    <2>. QED  BY <1>1, PushType, PushWindow, ContentWatched DEF ProbeInv
  <1>3. CASE ~DeltaHasContent(content, overdue)
    <2>. DEFINE keepAlive == KeepAliveDue(content, overdue, gateOpen)
    <2>1. keepAlive \in BOOLEAN  BY DEF KeepAliveDue
    <2>2. NoteEmptySent(keepAlive)  BY <1>3 DEF SendDelta
    <2>3. ~content
      <3>1. To > DeltaBase(overdue) => ~content
        BY <1>3 DEF DeltaHasContent, PushedContent
      <3>2. DeltaBase(overdue) < To
        BY SessionAssumption
        DEF SessionTypeOK, ProbeInv, Window, Ring, DeltaBase, Larger, SentOldest,
            Redundant, To
      <3>. QED  BY <3>1, <3>2, DeltaBaseType DEF SessionTypeOK, To
    <2>. HIDE DEF keepAlive
    <2>. QED  BY <1>1, <1>3, <2>1, <2>2, <2>3, EmptyWatched
  <1>. QED  BY <1>2, <1>3

LEMMA StepProbe == TypeOK /\ ProbeInv /\ HandshakeInv /\ [Next]_vars => ProbeInv'
  <1>. SUFFICES ASSUME SessionTypeOK, acks \subseteq Acks, ProbeInv, HandshakeInv,
                       [Next]_vars
                PROVE ProbeInv'
    BY DEF TypeOK
  <1>1. ASSUME NEW content \in BOOLEAN, NEW lost \in BaselineTimer,
               ServerBaseline(content, lost)
        PROVE  ProbeInv'
    BY <1>1, BaselineWatched DEF ServerBaseline, BaselineTimer
  <1>2. ASSUME NEW content \in BOOLEAN, NEW rpc \in BOOLEAN, NEW overdue \in ProbeTimer,
               NEW gateOpen \in Gate, ServerDelta(content, rpc, overdue, gateOpen)
        PROVE  ProbeInv'
    BY <1>2, DeltaWatched DEF ServerDelta, ProbeTimer, Gate, HandshakeInv, Ordered
  <1>3. ASSUME NEW content \in BOOLEAN, NEW lost \in BaselineTimer,
               NEW overdue \in ProbeTimer, NEW gateOpen \in Gate,
               ServerSilent(content, lost, overdue, gateOpen)
        PROVE  ProbeInv'
    BY <1>3, SilentWatched
    DEF ServerSilent, SkipEmptyBaseline, AwaitBaseline, SendNothing
  <1>4. CASE AckArrives
    <2>. PICK a \in acks : ReceiveAck(a.ack, a.gap)  BY <1>4 DEF AckArrives
    <2>. a.ack \in Nat /\ a.gap \in BOOLEAN  BY DEF Acks
    <2>. QED  BY ReceiveWatched
  <1>5. CASE UNCHANGED sessionVars
    BY <1>5
    DEF sessionVars, historyVars, sendVars, ProbeInv, Window, Ring, ProbeIsSent,
        UnackedContentIsWatched, SentNewest, SentOldest
  <1>. QED
    BY <1>1, <1>2, <1>3, <1>4, <1>5
    DEF Next, Tick, ClientAdvance, ClientAck, vars

(***************************************************************************)
(* While the newest content sent is unacked, the liveness probe is armed   *)
(* on content the client has not acked, so the loss of any frame is        *)
(* noticed (server_world.ts:1226-1230).                                    *)
(***************************************************************************)
THEOREM LossesAreWatched == Spec => []UnackedContentIsWatched
  <1>1. Spec => []ProbeInv
    BY InitType, StepType, InitHandshake, StepHandshake, InitProbe, StepProbe, PTL
    DEF Spec
  <1>. QED  BY <1>1, PTL DEF ProbeInv
=============================================================================

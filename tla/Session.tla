------------------------------ MODULE Session ------------------------------
(***************************************************************************)
(* One client session of a ServerWorld: which frame the next diff starts   *)
(* from, when the session is rebuilt from a baseline, and what the acks    *)
(* and gap reports of its client change.                                   *)
(*                                                                         *)
(* This module keeps the NUMBERS of the protocol only.  What a frame holds *)
(* is one Boolean, "it has content"; Replication.tla adds the data.  The   *)
(* two wall-clock timers (_baselinePresumedLost, _ackOverdue) may fire at  *)
(* any frame at which the code consults them: presumedLost and overdue are *)
(* arguments the environment chooses.                                      *)
(***************************************************************************)
EXTENDS Integers

CONSTANTS
  HistoryFrames,    \* ServerWorldOptions.historyFrames: frames a History retains
  RedundancyFrames, \* ServerWorldOptions.redundancyFrames, 0 while it is unset
  KeepAliveFrames,  \* ServerWorldOptions.keepAliveFrames, 0 while it is unset
  KeepAliveGated,   \* keepAliveWhile() has registered a gate
  StartFrame        \* the server frame before the session's first (_frame - 1)

ASSUME SessionAssumption ==
  /\ HistoryFrames \in Nat /\ HistoryFrames >= 2
  /\ RedundancyFrames \in Nat /\ RedundancyFrames < HistoryFrames
  /\ KeepAliveFrames \in Nat
  /\ KeepAliveGated \in BOOLEAN
  /\ StartFrame \in Nat

VARIABLES
  lastFrame,            \* History.lastFrame; the world's _frame is lastFrame + 1
  contentFrames,        \* the frames of the history window whose diff has content
  lastContentFrame,     \* History.lastContentFrame
  evictedContentFrame,  \* History.evictedContentFrame, None for -Infinity
  ackFrame,             \* newest frame the client has acknowledged
  needsBaseline,
  resyncFrame,          \* baseline in flight, or None
  baselineAcked,
  sent,                 \* SentFrames: sent[1] is the oldest, sent[R] the newest
  lastDiffFrame,
  lastContentSendFrame,
  probeFrame,           \* content watched for an ack, or None
  fallbackFrame         \* frame at which the running fallback began, or None

historyVars   == <<lastFrame, contentFrames, lastContentFrame, evictedContentFrame>>
handshakeVars == <<needsBaseline, resyncFrame, baselineAcked>>
sendVars      == <<sent, lastDiffFrame, lastContentSendFrame, probeFrame>>
sessionVars   == <<historyVars, ackFrame, handshakeVars, sendVars, fallbackFrame>>

None      == -1
Redundant == RedundancyFrames > 0

Larger(a, b)  == IF a >= b THEN a ELSE b
Smaller(a, b) == IF a <= b THEN a ELSE b

-----------------------------------------------------------------------------
(* History, as far as its numbers go.  To is the frame the tick in progress *)
(* pushes, Leaving the frame that push evicts.                              *)

To      == lastFrame + 1
Leaving == To - HistoryFrames

\* Mutant: the content the push evicts is not noticed.
LostLate == evictedContentFrame

\* The newest content the history no longer holds once To is pushed.
Lost == IF Leaving \in contentFrames THEN Leaving ELSE evictedContentFrame

CanPullAfterPush(from) == from >= Lost

PushedContent(content) ==
  (contentFrames \ {Leaving}) \cup (IF content THEN {To} ELSE {})

HistoryPush(content) ==
  /\ lastFrame' = To
  /\ contentFrames' = PushedContent(content)
  /\ lastContentFrame' = IF content THEN To ELSE lastContentFrame
  /\ evictedContentFrame' = Lost

-----------------------------------------------------------------------------
(* SentFrames: the state frames of the last RedundancyFrames sends.         *)

SentNewest == sent[RedundancyFrames]
SentOldest == sent[1]

\* Mutant: the ring holds one entry too many.
SentPushLarger(stateFrame) ==
  [i \in 0..RedundancyFrames |->
     IF i = RedundancyFrames THEN stateFrame ELSE sent[i + 1]]

SentPush(stateFrame) ==
  [i \in 1..RedundancyFrames |->
     IF i = RedundancyFrames THEN stateFrame ELSE sent[i + 1]]

-----------------------------------------------------------------------------
(* Which diff a frame carries.                                              *)

NeedsBaseline == needsBaseline \/ ~CanPullAfterPush(ackFrame)

StartsBaseline(presumedLost) ==
  NeedsBaseline /\ (resyncFrame = None \/ presumedLost)

HoldsBaseline == baselineAcked /\ ~needsBaseline /\ resyncFrame = None

\* _inFallback for a session whose ack is `ack`.
InFallback(ack) ==
  /\ fallbackFrame # None
  /\ Redundant
  /\ ack < Smaller(fallbackFrame, SentNewest)

\* _ackOverdue, once the environment has said whether the timeout has passed.
AckOverdue(overdue) == overdue /\ probeFrame # None /\ ackFrame < probeFrame

Healthy(overdue) == HoldsBaseline /\ ~InFallback(ackFrame) /\ ~AckOverdue(overdue)

\* Mutant: the optimistic base ignores how far the client has acked.
DeltaBaseUnclamped(overdue) ==
  IF Redundant /\ Healthy(overdue) THEN SentOldest ELSE ackFrame

DeltaBase(overdue) ==
  IF Redundant /\ Healthy(overdue) THEN Larger(ackFrame, SentOldest) ELSE ackFrame

\* What _isHealthy leaves in fallbackFrame besides its answer.
FallbackAfter(overdue) ==
  IF ~Redundant \/ ~HoldsBaseline \/ InFallback(ackFrame) THEN fallbackFrame
  ELSE IF AckOverdue(overdue) THEN To ELSE None

\* The delta holds something: a frame after its base had content.
DeltaHasContent(content, overdue) ==
  \E f \in PushedContent(content) : f > DeltaBase(overdue)

KeepAliveDue(content, overdue, gateOpen) ==
  /\ KeepAliveFrames > 0
  /\ ~DeltaHasContent(content, overdue)
  /\ To - lastDiffFrame >= KeepAliveFrames
  /\ ~KeepAliveGated \/ gateOpen \/ ackFrame < lastContentSendFrame

\* What the environment chooses: a timer may have run out only while it runs,
\* and the gate of the keepalives matters only where one is registered.
BaselineTimer == IF resyncFrame = None THEN {FALSE} ELSE BOOLEAN
ProbeTimer    == IF probeFrame # None /\ ackFrame < probeFrame THEN BOOLEAN ELSE {FALSE}
Gate          == IF KeepAliveFrames > 0 /\ KeepAliveGated THEN BOOLEAN ELSE {FALSE}

-----------------------------------------------------------------------------
(* Book-keeping of a send.                                                  *)

NoteContentSent ==
  LET stateFrame == lastContentFrame' IN
  /\ lastContentSendFrame' = IF KeepAliveGated THEN To ELSE lastContentSendFrame
  /\ lastDiffFrame' = IF KeepAliveFrames > 0 THEN To ELSE lastDiffFrame
  /\ sent' = IF Redundant THEN SentPush(stateFrame) ELSE sent
  /\ probeFrame' =
       IF /\ Redundant
          /\ stateFrame > ackFrame
          /\ probeFrame = None \/ ackFrame >= probeFrame
       THEN stateFrame ELSE probeFrame

\* An empty delta: a keepalive joins the ring, one that rides with RPC does not.
NoteEmptySent(keepAlive) ==
  /\ lastDiffFrame' = IF KeepAliveFrames > 0 THEN To ELSE lastDiffFrame
  /\ sent' = IF Redundant /\ keepAlive THEN SentPush(lastContentFrame) ELSE sent
  /\ UNCHANGED <<lastContentSendFrame, probeFrame>>

-----------------------------------------------------------------------------
SessionInit ==
  /\ lastFrame = StartFrame
  /\ contentFrames = {}
  /\ lastContentFrame = StartFrame
  /\ evictedContentFrame = None
  /\ ackFrame = StartFrame
  /\ needsBaseline = TRUE
  /\ resyncFrame = None
  /\ baselineAcked = FALSE
  /\ sent = [i \in 1..RedundancyFrames |-> StartFrame]
  /\ lastDiffFrame = StartFrame
  /\ lastContentSendFrame = 0
  /\ probeFrame = None
  /\ fallbackFrame = None

(* One tick of ServerWorld.send for this session: exactly one of the next   *)
(* five actions.  `content` says whether the frame's own diff is non-empty. *)

\* The frame is a baseline: the whole view, fromFrame 0.
SendBaseline(content, presumedLost) ==
  /\ StartsBaseline(presumedLost)
  /\ content \/ baselineAcked
  /\ HistoryPush(content)
  /\ needsBaseline' = TRUE
  /\ resyncFrame' = To
  /\ NoteContentSent
  /\ UNCHANGED <<ackFrame, baselineAcked, fallbackFrame>>

\* Nothing to tell a client that holds nothing: the empty baseline is not sent.
SkipEmptyBaseline(presumedLost) ==
  /\ StartsBaseline(presumedLost)
  /\ ~baselineAcked
  /\ HistoryPush(FALSE)
  /\ needsBaseline' = TRUE
  /\ UNCHANGED <<ackFrame, resyncFrame, baselineAcked, sendVars, fallbackFrame>>

\* No state while a baseline is in flight and not presumed lost.
AwaitBaseline(content) ==
  /\ NeedsBaseline
  /\ resyncFrame # None
  /\ HistoryPush(content)
  /\ needsBaseline' = TRUE
  /\ UNCHANGED <<ackFrame, resyncFrame, baselineAcked, sendVars, fallbackFrame>>

\* A delta from DeltaBase: it has content, or is a keepalive, or rides with RPC.
SendDelta(content, rpc, overdue, gateOpen) ==
  LET keepAlive == KeepAliveDue(content, overdue, gateOpen)
      carries   == DeltaHasContent(content, overdue)
  IN
  /\ ~NeedsBaseline
  /\ carries \/ keepAlive \/ rpc
  /\ HistoryPush(content)
  /\ fallbackFrame' = FallbackAfter(overdue)
  /\ IF carries THEN NoteContentSent ELSE NoteEmptySent(keepAlive)
  /\ UNCHANGED <<ackFrame, handshakeVars>>

\* The delta is empty and nothing else asks for a frame.
SendNothing(overdue, gateOpen) ==
  /\ ~NeedsBaseline
  /\ ~DeltaHasContent(FALSE, overdue)
  /\ ~KeepAliveDue(FALSE, overdue, gateOpen)
  /\ HistoryPush(FALSE)
  /\ fallbackFrame' = FallbackAfter(overdue)
  /\ UNCHANGED <<ackFrame, handshakeVars, sendVars>>

-----------------------------------------------------------------------------
(* _receive: the ack first, then the gap report of the same message.        *)

\* Mutant: any ack counts as the ack of the baseline in flight.
AcknowledgeAny(ack) ==
  /\ ackFrame' = Larger(ackFrame, ack)
  /\ UNCHANGED probeFrame
  /\ needsBaseline' = (needsBaseline /\ resyncFrame = None)
  /\ baselineAcked' = (baselineAcked \/ resyncFrame # None)
  /\ resyncFrame' = None

\* Mutant: an ack of the probed content disarms the probe for good.
AcknowledgeDisarms(ack) ==
  /\ ackFrame' = Larger(ackFrame, ack)
  /\ probeFrame' = IF probeFrame # None /\ ack >= probeFrame THEN None ELSE probeFrame
  /\ IF resyncFrame # None /\ ackFrame' >= resyncFrame
     THEN /\ needsBaseline' = FALSE
          /\ baselineAcked' = TRUE
          /\ resyncFrame' = None
     ELSE UNCHANGED handshakeVars

Acknowledge(ack) ==
  /\ ackFrame' = Larger(ackFrame, ack)
  /\ probeFrame' =
       IF /\ Redundant
          /\ ack > ackFrame
          /\ probeFrame # None
          /\ ack >= probeFrame
       THEN IF SentNewest > ack THEN SentNewest ELSE None
       ELSE probeFrame
  /\ IF resyncFrame # None /\ ackFrame' >= resyncFrame
     THEN /\ needsBaseline' = FALSE
          /\ baselineAcked' = TRUE
          /\ resyncFrame' = None
     ELSE UNCHANGED handshakeVars

OnGapReported(gap) ==
  fallbackFrame' =
    IF gap /\ Redundant /\ ~InFallback(ackFrame') THEN To ELSE fallbackFrame

\* An ack past the newest frame sent is ignored, its gap report is not.
ReceiveAck(ack, gap) ==
  /\ IF ack <= lastFrame
     THEN Acknowledge(ack)
     ELSE UNCHANGED <<ackFrame, probeFrame, handshakeVars>>
  /\ OnGapReported(gap)
  /\ UNCHANGED <<historyVars, sent, lastDiffFrame, lastContentSendFrame>>

\* An ack without a gap report that is not past ackFrame changes nothing when it
\* arrives, now or later: a model may forget it.
StillMatter(acks) == {a \in acks : a.gap \/ a.ack > ackFrame'}

-----------------------------------------------------------------------------
\* Every variable holds a value of its kind.
SessionTypeOK ==
  /\ lastFrame \in Nat
  /\ contentFrames \subseteq Nat
  /\ lastContentFrame \in Nat
  /\ evictedContentFrame \in Nat \cup {None}
  /\ ackFrame \in Nat
  /\ needsBaseline \in BOOLEAN
  /\ resyncFrame \in Nat \cup {None}
  /\ baselineAcked \in BOOLEAN
  /\ sent \in [1..RedundancyFrames -> Nat]
  /\ lastDiffFrame \in Nat
  /\ lastContentSendFrame \in Nat
  /\ probeFrame \in Nat \cup {None}
  /\ fallbackFrame \in Nat \cup {None}

(***************************************************************************)
(* No content the server sent goes unwatched: while the newest content     *)
(* sent is unacked, the liveness probe is armed, and on content the client *)
(* has not acked.  It is what finds a loss that no later frame reveals     *)
(* (server_world.ts:1226-1230), across retargets, repeats, baselines and   *)
(* keepalives.                                                             *)
(***************************************************************************)
UnackedContentIsWatched ==
  Redundant /\ SentNewest > ackFrame =>
    /\ probeFrame # None
    /\ ackFrame < probeFrame
    /\ probeFrame <= SentNewest
=============================================================================

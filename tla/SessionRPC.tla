----------------------------- MODULE SessionRPC -----------------------------
(***************************************************************************)
(* One SessionRPC: a peer's RPC channel, which issues calls and answers    *)
(* the other side's.  A channel is a record and every method an operator   *)
(* from channels to channels; RpcConnections.tla joins two of them.        *)
(*                                                                         *)
(* Parameters, results and errors are left out: a call is its id, and a    *)
(* reply is the id with the connection its request arrived on.  The code   *)
(* has no such field; it says whose call a reply really answers.           *)
(***************************************************************************)
EXTENDS Integers

Replies == [call : Nat, conn : Nat]
Running == [call : Nat, conn : Nat, epoch : Nat]

Channels ==
  [next : Nat,                \* _nextCallId
   pending : SUBSET Nat,      \* _pending, the calls awaiting a reply
   below : Nat,               \* _peerSettledBelow
   epoch : Nat,               \* _epoch
   outbox : SUBSET Replies,   \* _outbox
   cached : SUBSET Replies,   \* _cachedReplies
   inFlight : SUBSET Nat,     \* _inFlight
   running : SUBSET Running]  \* the handlers that have not settled

NewChannel ==
  [next |-> 0, pending |-> {}, below |-> 0, epoch |-> 0,
   outbox |-> {}, cached |-> {}, inFlight |-> {}, running |-> {}]

-----------------------------------------------------------------------------
(* The calling side.                                                        *)

Invoke(ch) == [ch EXCEPT !.pending = @ \cup {ch.next}, !.next = @ + 1]

\* Mutant: the watermark forgets the calls that still wait.
SettledBelowNext(ch) == ch.next

\* The oldest call still pending, or the id of the next one.
SettledBelow(ch) ==
  IF ch.pending = {} THEN ch.next
  ELSE CHOOSE c \in ch.pending : \A o \in ch.pending : c <= o

TimeoutTick(ch, expired) == [ch EXCEPT !.pending = @ \ expired]

ProcessResponse(ch, reply) == [ch EXCEPT !.pending = @ \ {reply.call}]

-----------------------------------------------------------------------------
(* The answering side.                                                      *)

\* Mutant: the watermark lets go of unsent replies only.
SetPeerSettledBelowKeeps(ch, value) ==
  IF value <= ch.below THEN ch
  ELSE [ch EXCEPT !.below = value, !.outbox = {r \in @ : r.call >= value}]

SetPeerSettledBelow(ch, value) ==
  LET kept(replies) == {r \in replies : r.call >= value} IN
  IF value <= ch.below THEN ch
  ELSE [ch EXCEPT !.below = value, !.cached = kept(@), !.outbox = kept(@)]

\* A reply takes the place of an earlier one with its call id.
PutReply(replies, reply) == {r \in replies : r.call # reply.call} \cup {reply}

QueueResponse(ch, reply) ==
  [ch EXCEPT !.cached = PutReply(@, reply), !.outbox = PutReply(@, reply)]

CachedFor(ch, call) == {r \in ch.cached : r.call = call}

\* Mutant: a copy that arrives while the handler runs is taken for a new call.
IsNewRunning(ch, call) == call >= ch.below /\ CachedFor(ch, call) = {}

\* The request is neither stale, nor answered, nor being answered.
IsNew(ch, call) ==
  /\ call >= ch.below
  /\ CachedFor(ch, call) = {}
  /\ call \notin ch.inFlight

\* Mutant: a copy of an answered call is ignored.
ProcessCopyIgnored(ch, call) == ch

\* A copy of a call that is not new: its cached reply is queued again.
ProcessCopy(ch, call) ==
  IF call < ch.below THEN ch
  ELSE [ch EXCEPT !.outbox = {r \in @ : r.call # call \/ CachedFor(ch, call) = {}}
                               \cup CachedFor(ch, call)]

\* No handler: the error reply is queued at once.
RejectUnknown(ch, call, conn) == QueueResponse(ch, [call |-> call, conn |-> conn])

StartHandler(ch, call, conn) ==
  [ch EXCEPT !.inFlight = @ \cup {call},
             !.running  = @ \cup {[call |-> call, conn |-> conn, epoch |-> ch.epoch]}]

\* Mutant: the reply of a handler that outlived its peer is queued.
HandlerSettlesAnyEpoch(ch, run) ==
  LET done == [ch EXCEPT !.running = @ \ {run}, !.inFlight = @ \ {run.call}] IN
  IF run.call < ch.below THEN done
  ELSE QueueResponse(done, [call |-> run.call, conn |-> run.conn])

\* The handler's promise settles.  A channel that has forgotten the peer since
\* is left alone, and a reply nobody waits for is discarded.
HandlerSettles(ch, run) ==
  LET done  == [ch EXCEPT !.running = @ \ {run}]
      taken == [done EXCEPT !.inFlight = @ \ {run.call}]
  IN  IF run.epoch # ch.epoch THEN done
      ELSE IF run.call < ch.below THEN taken
      ELSE QueueResponse(taken, [call |-> run.call, conn |-> run.conn])

-----------------------------------------------------------------------------
(* Both.                                                                    *)

\* What getOutgoing hands out, and the channel it leaves.
Outgoing(ch) ==
  [requests |-> ch.pending, replies |-> ch.outbox, below |-> SettledBelow(ch)]

TakeOutgoing(ch) == [ch EXCEPT !.outbox = {}]

HasOutgoing(ch) == ch.pending # {} \/ ch.outbox # {}

AbortPending(ch) ==
  [ch EXCEPT !.pending = {}, !.outbox = {}, !.below = 0, !.cached = {},
             !.inFlight = {}, !.epoch = @ + 1]
=============================================================================

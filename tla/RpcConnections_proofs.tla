----------------------- MODULE RpcConnections_proofs -----------------------
(***************************************************************************)
(* Theorems about RpcConnections, for every load, every number of calls    *)
(* and of connections, and every bound on the frames in flight.            *)
(***************************************************************************)
EXTENDS RpcConnections, WellFoundedInduction, TLAPS

-----------------------------------------------------------------------------
(* The oldest of a set of calls.                                            *)

\* A nonempty set of naturals has a least member.
LEMMA LeastMember ==
  ASSUME NEW S, S \subseteq Nat, S # {}
  PROVE  \E m \in S : \A n \in S : m <= n
  <1>. DEFINE Less == OpToRel(<, Nat)
  <1>1. \A n, m \in Nat : <<n, m>> \in Less <=> n < m  BY DEF OpToRel
  <1>2. IsWellFoundedOn(Less, Nat)  BY NatLessThanWellFounded
  <1>. HIDE DEF Less
  <1>3. PICK m \in S : \A n \in S : ~ (<<n, m>> \in Less)  BY <1>2, WFMin
  <1>4. \A n \in S : ~ (n < m)  BY <1>1, <1>3, Zenon
  <1>5. \A n \in S : m <= n  BY <1>4
  <1>. QED  BY <1>5

\* First picks the oldest of a set of calls.
LEMMA FirstIsLeast ==
  ASSUME NEW S, S \subseteq Nat, S # {}
  PROVE  First(S) \in S /\ \A o \in S : First(S) <= o
  BY LeastMember DEF First

-----------------------------------------------------------------------------
(* One channel.                                                             *)

\* The handler of the call was started, or its reply is no longer wanted.
Seen(ch, k) == ~IsNew(ch, k)

Kept(ch)        == \A r \in ch.cached : r.call >= ch.below
Covered(ch)     == ch.outbox \subseteq ch.cached
CallsIssued(ch) == \A k \in ch.pending : k < ch.next
RunsSeen(ch)    == \A run \in ch.running :
                     /\ run.epoch <= ch.epoch
                     /\ run.epoch = ch.epoch => Seen(ch, run.call)

ChannelOK(ch) == Kept(ch) /\ Covered(ch) /\ CallsIssued(ch) /\ RunsSeen(ch)

\* `below` is ahead of no call of the channel that still waits.
Within(below, ch) == below <= ch.next /\ \A k \in ch.pending : below <= k

\* The answering side is left as it was.
AnswersKept(old, new) ==
  /\ new.below = old.below /\ new.cached = old.cached
  /\ new.inFlight = old.inFlight /\ new.running = old.running
  /\ new.epoch = old.epoch

\* What makes a call seen: the watermark, a cached reply or a running handler.
LEMMA SeenIff ==
  ASSUME NEW ch \in Channels, NEW k \in Nat
  PROVE  Seen(ch, k) <=> \/ k < ch.below
                         \/ \E r \in ch.cached : r.call = k
                         \/ k \in ch.inFlight
  BY DEF Seen, IsNew, CachedFor, Channels

\* settledBelow never runs ahead of a call that still waits.
LEMMA SettledBelowLeast ==
  ASSUME NEW ch \in Channels, ChannelOK(ch)
  PROVE  /\ SettledBelow(ch) \in Nat
         /\ Within(SettledBelow(ch), ch)
  BY LeastMember DEF SettledBelow, Within, Channels, ChannelOK, CallsIssued

\* A new channel keeps nothing and has seen nothing.
LEMMA NewEffect ==
  /\ NewChannel \in Channels
  /\ ChannelOK(NewChannel)
  /\ \A k \in Nat : ~Seen(NewChannel, k)
  BY DEF NewChannel, Channels, ChannelOK, Kept, Covered, CallsIssued, RunsSeen, Seen,
         IsNew, CachedFor

\* invoke() adds one pending call and leaves the answering side alone.
LEMMA InvokeEffect ==
  ASSUME NEW ch \in Channels, ChannelOK(ch)
  PROVE  LET new == Invoke(ch) IN
         /\ new \in Channels
         /\ ChannelOK(new)
         /\ new.pending = ch.pending \cup {ch.next}
         /\ new.next = ch.next + 1
         /\ AnswersKept(ch, new) /\ new.outbox = ch.outbox
         /\ \A k \in Nat : Seen(new, k) <=> Seen(ch, k)
  <1>. DEFINE new == Invoke(ch)
  <1>0. ch.next \in Nat /\ ch.next + 1 \in Nat  BY DEF Channels
  <1>1. /\ new.pending = ch.pending \cup {ch.next} /\ new.next = ch.next + 1
        /\ AnswersKept(ch, new) /\ new.outbox = ch.outbox
        /\ new \in Channels
    BY <1>0, Zenon DEF Invoke, Channels, AnswersKept
  <1>. HIDE DEF new
  <1>2. \A k \in Nat : Seen(new, k) <=> Seen(ch, k)
    BY <1>1 DEF Seen, IsNew, CachedFor, AnswersKept
  <1>3. CallsIssued(new)  BY <1>1 DEF Channels, ChannelOK, CallsIssued
  <1>4. RunsSeen(new)
    BY <1>1, <1>2 DEF Channels, Running, ChannelOK, RunsSeen, AnswersKept
  <1>5. Kept(new) /\ Covered(new)
    BY <1>1 DEF ChannelOK, Kept, Covered, AnswersKept
  <1>. QED  BY <1>1, <1>2, <1>3, <1>4, <1>5 DEF ChannelOK, new

\* A reply, or a timeout, settles calls.
LEMMA SettleEffect ==
  ASSUME NEW ch \in Channels, ChannelOK(ch), NEW settled
  PROVE  LET new == [ch EXCEPT !.pending = @ \ settled] IN
         /\ new \in Channels
         /\ ChannelOK(new)
         /\ new.pending = ch.pending \ settled
         /\ new.next = ch.next
         /\ AnswersKept(ch, new) /\ new.outbox = ch.outbox
         /\ \A k \in Nat : Seen(new, k) <=> Seen(ch, k)
  BY DEF Channels, ChannelOK, Kept, Covered, CallsIssued, RunsSeen, Seen, IsNew,
         CachedFor, AnswersKept

\* takeOutgoing() empties what is queued and leaves the rest.
LEMMA TakeEffect ==
  ASSUME NEW ch \in Channels, ChannelOK(ch)
  PROVE  LET new == TakeOutgoing(ch) IN
         /\ new \in Channels
         /\ ChannelOK(new)
         /\ new.pending = ch.pending
         /\ new.next = ch.next
         /\ AnswersKept(ch, new)
         /\ \A k \in Nat : Seen(new, k) <=> Seen(ch, k)
  BY DEF TakeOutgoing, Channels, ChannelOK, Kept, Covered, CallsIssued, RunsSeen, Seen,
         IsNew, CachedFor, AnswersKept

\* The calling side is left as it was.
CallsKept(old, new) == new.pending = old.pending /\ new.next = old.next

\* The peer's watermark drops the replies below it, and makes their calls seen.
LEMMA WatermarkEffect ==
  ASSUME NEW ch \in Channels, ChannelOK(ch), NEW value \in Nat
  PROVE  LET new == SetPeerSettledBelow(ch, value) IN
         /\ new \in Channels
         /\ ChannelOK(new)
         /\ CallsKept(ch, new)
         /\ new.below = IF value <= ch.below THEN ch.below ELSE value
         /\ new.cached \subseteq ch.cached
         /\ new.running = ch.running /\ new.epoch = ch.epoch
         /\ \A k \in Nat : Seen(new, k) <=> Seen(ch, k) \/ k < value
  <1>. DEFINE new == SetPeerSettledBelow(ch, value)
  <1>1. CASE value <= ch.below
    BY <1>1, SeenIff DEF SetPeerSettledBelow, CallsKept, Channels
  <1>2. CASE ~(value <= ch.below)
    <2>1. /\ new = [ch EXCEPT !.below = value,
                              !.cached = {r \in @ : r.call >= value},
                              !.outbox = {r \in @ : r.call >= value}]
      BY <1>2 DEF SetPeerSettledBelow
    <2>. HIDE DEF new
    <2>2. /\ new.below = value
          /\ new.cached = {r \in ch.cached : r.call >= value}
          /\ new.outbox = {r \in ch.outbox : r.call >= value}
          /\ new.pending = ch.pending /\ new.next = ch.next
          /\ new.inFlight = ch.inFlight
          /\ new.running = ch.running /\ new.epoch = ch.epoch
          /\ new \in Channels
      BY <2>1 DEF Channels
    <2>3. ASSUME NEW k \in Nat PROVE Seen(new, k) <=> Seen(ch, k) \/ k < value
      <3>1. \A r \in ch.cached : r.call \in Nat  BY DEF Channels, Replies
      <3>2. ch.below \in Nat  BY DEF Channels
      <3>. QED  BY <1>2, <2>2, <3>1, <3>2, SeenIff
    <2>4. \A run \in ch.running : run.call \in Nat  BY DEF Channels, Running
    <2>5. ChannelOK(new)
      BY <2>2, <2>3, <2>4 DEF ChannelOK, Kept, Covered, CallsIssued, RunsSeen
    <2>. QED  BY <1>2, <2>2, <2>3, <2>5 DEF CallsKept, new
  <1>. QED  BY <1>1, <1>2

\* A copy changes nothing but what is queued.
LEMMA CopyEffect ==
  ASSUME NEW ch \in Channels, ChannelOK(ch), NEW call \in Nat
  PROVE  LET new == ProcessCopy(ch, call) IN
         /\ new \in Channels
         /\ ChannelOK(new)
         /\ CallsKept(ch, new) /\ AnswersKept(ch, new)
         /\ \A k \in Nat : Seen(new, k) <=> Seen(ch, k)
  <1>. DEFINE new == ProcessCopy(ch, call)
  <1>1. /\ new \in Channels
        /\ CallsKept(ch, new) /\ AnswersKept(ch, new)
        /\ new.outbox \subseteq ch.outbox \cup ch.cached
    BY DEF ProcessCopy, Channels, CachedFor, CallsKept, AnswersKept
  <1>. HIDE DEF new
  <1>2. \A k \in Nat : Seen(new, k) <=> Seen(ch, k)
    BY <1>1 DEF Seen, IsNew, CachedFor, AnswersKept
  <1>3. RunsSeen(new)
    BY <1>1, <1>2 DEF Channels, Running, ChannelOK, RunsSeen, AnswersKept
  <1>4. Kept(new) /\ Covered(new) /\ CallsIssued(new)
    BY <1>1 DEF ChannelOK, Kept, Covered, CallsIssued, AnswersKept, CallsKept
  <1>. QED  BY <1>1, <1>2, <1>3, <1>4 DEF ChannelOK, new

\* Queueing a reply, which makes its call seen.
LEMMA QueueEffect ==
  ASSUME NEW ch \in Channels, ChannelOK(ch), NEW reply \in Replies, reply.call >= ch.below
  PROVE  LET new == QueueResponse(ch, reply) IN
         /\ new \in Channels
         /\ ChannelOK(new)
         /\ CallsKept(ch, new)
         /\ new.below = ch.below /\ new.inFlight = ch.inFlight
         /\ new.running = ch.running /\ new.epoch = ch.epoch
         /\ new.cached \subseteq ch.cached \cup {reply}
         /\ \A k \in Nat : Seen(new, k) <=> Seen(ch, k) \/ k = reply.call
  <1>. DEFINE new == QueueResponse(ch, reply)
  <1>1. /\ new \in Channels
        /\ CallsKept(ch, new)
        /\ new.below = ch.below /\ new.inFlight = ch.inFlight
        /\ new.running = ch.running /\ new.epoch = ch.epoch
        /\ new.cached = {r \in ch.cached : r.call # reply.call} \cup {reply}
        /\ new.outbox = {r \in ch.outbox : r.call # reply.call} \cup {reply}
    BY DEF QueueResponse, PutReply, Channels, CallsKept
  <1>. HIDE DEF new
  <1>2. \A k \in Nat : Seen(new, k) <=> Seen(ch, k) \/ k = reply.call
    BY <1>1, SeenIff
  <1>3. RunsSeen(new)
    BY <1>1, <1>2 DEF Channels, Running, ChannelOK, RunsSeen
  <1>4. Kept(new) /\ Covered(new) /\ CallsIssued(new)
    BY <1>1 DEF ChannelOK, Kept, Covered, CallsIssued, CallsKept
  <1>. QED  BY <1>1, <1>2, <1>3, <1>4 DEF ChannelOK, new

\* What process() does with a request it starts no handler for.
LEMMA ProcessEffect ==
  ASSUME NEW ch \in Channels, ChannelOK(ch), NEW call \in Nat, NEW c \in Nat, NEW new,
         \/ ~IsNew(ch, call) /\ new = ProcessCopy(ch, call)
         \/ IsNew(ch, call) /\ new = RejectUnknown(ch, call, c)
  PROVE  /\ new \in Channels
         /\ ChannelOK(new)
         /\ CallsKept(ch, new)
         /\ new.below = ch.below
         /\ new.running = ch.running /\ new.epoch = ch.epoch
         /\ new.cached \subseteq ch.cached \cup {[call |-> call, conn |-> c]}
         /\ \A k \in Nat : Seen(new, k) <=> Seen(ch, k) \/ k = call
  <1>1. CASE ~IsNew(ch, call) /\ new = ProcessCopy(ch, call)
    BY <1>1, CopyEffect DEF AnswersKept, Seen
  <1>2. CASE IsNew(ch, call) /\ new = RejectUnknown(ch, call, c)
    <2>. DEFINE reply == [call |-> call, conn |-> c]
    <2>1. reply \in Replies /\ reply.call = call /\ call >= ch.below
      BY <1>2 DEF Replies, IsNew
    <2>2. new = QueueResponse(ch, reply)  BY <1>2 DEF RejectUnknown
    <2>. HIDE DEF reply
    <2>3. /\ new \in Channels
          /\ ChannelOK(new)
          /\ CallsKept(ch, new)
          /\ new.below = ch.below
          /\ new.running = ch.running /\ new.epoch = ch.epoch
          /\ new.cached \subseteq ch.cached \cup {reply}
          /\ \A k \in Nat : Seen(new, k) <=> Seen(ch, k) \/ k = reply.call
      BY <2>1, <2>2, QueueEffect
    <2>. QED  BY <2>1, <2>3 DEF reply
  <1>. QED  BY <1>1, <1>2

\* A handler that starts makes its call, and no other, seen.
LEMMA StartEffect ==
  ASSUME NEW ch \in Channels, NEW call \in Nat, NEW c \in Nat,
         NEW new, new = StartHandler(ch, call, c)
  PROVE  /\ CallsKept(ch, new)
         /\ new.below = ch.below /\ new.epoch = ch.epoch
         /\ new.cached = ch.cached /\ new.outbox = ch.outbox
         /\ \A run \in new.running :
              run \in ch.running \/ (run.call = call /\ run.conn = c /\ run.epoch = ch.epoch)
         /\ \A k \in Nat : Seen(new, k) <=> Seen(ch, k) \/ k = call
  <1>. DEFINE run == [call |-> call, conn |-> c, epoch |-> ch.epoch]
  <1>1. /\ new \in Channels
        /\ CallsKept(ch, new)
        /\ new.below = ch.below /\ new.epoch = ch.epoch
        /\ new.inFlight = ch.inFlight \cup {call}
        /\ new.running = ch.running \cup {run}
        /\ new.cached = ch.cached /\ new.outbox = ch.outbox
    <2>1. run \in Running  BY DEF Channels, Running
    <2>. HIDE DEF run
    <2>. QED  BY <2>1 DEF StartHandler, Channels, CallsKept, run
  <1>2. run.call = call /\ run.conn = c /\ run.epoch = ch.epoch  OBVIOUS
  <1>. HIDE DEF run
  <1>3. \A k \in Nat : Seen(new, k) <=> Seen(ch, k) \/ k = call
    BY <1>1, SeenIff
  <1>. QED  BY <1>1, <1>2, <1>3

\* A handler starts soundly on a call the channel has not seen.
LEMMA StartSound ==
  ASSUME NEW ch \in Channels, ChannelOK(ch), NEW call \in Nat, NEW c \in Nat,
         NEW new, new = StartHandler(ch, call, c)
  PROVE  new \in Channels /\ ChannelOK(new)
  <1>0. new \in Channels
    <2>1. [call |-> call, conn |-> c, epoch |-> ch.epoch] \in Running
      BY DEF Channels, Running
    <2>. QED  BY <2>1 DEF StartHandler, Channels
  <1>1. /\ CallsKept(ch, new)
        /\ new.below = ch.below /\ new.epoch = ch.epoch
        /\ new.cached = ch.cached /\ new.outbox = ch.outbox
        /\ \A run \in new.running :
             run \in ch.running \/ (run.call = call /\ run.epoch = ch.epoch)
        /\ \A k \in Nat : Seen(new, k) <=> Seen(ch, k) \/ k = call
    BY StartEffect
  <1>2. RunsSeen(new)
    BY <1>1 DEF Channels, Running, ChannelOK, RunsSeen
  <1>3. Kept(new) /\ Covered(new) /\ CallsIssued(new)
    BY <1>1 DEF ChannelOK, Kept, Covered, CallsIssued, CallsKept
  <1>. QED  BY <1>0, <1>1, <1>2, <1>3 DEF ChannelOK

\* A handler that settles adds at most the reply of its own run, and only if the
\* channel has not forgotten the peer; what was seen stays seen.
LEMMA HandlerEffect ==
  ASSUME NEW ch \in Channels, ChannelOK(ch), NEW run \in ch.running
  PROVE  LET new == HandlerSettles(ch, run) IN
         /\ new \in Channels
         /\ ChannelOK(new)
         /\ CallsKept(ch, new)
         /\ new.below = ch.below /\ new.epoch = ch.epoch
         /\ new.running \subseteq ch.running
         /\ \A r \in new.cached :
              r \in ch.cached \/ (r.conn = run.conn /\ run.epoch = ch.epoch)
         /\ \A k \in Nat : Seen(new, k) <=> Seen(ch, k)
  <1>. DEFINE done  == [ch EXCEPT !.running = @ \ {run}]
              taken == [done EXCEPT !.inFlight = @ \ {run.call}]
              reply == [call |-> run.call, conn |-> run.conn]
  <1>1. run \in Running /\ run.call \in Nat /\ reply \in Replies
    BY DEF Channels, Running, Replies
  <1>2. /\ done \in Channels
        /\ CallsKept(ch, done)
        /\ done.running = ch.running \ {run}
        /\ done.below = ch.below /\ done.epoch = ch.epoch
        /\ done.cached = ch.cached /\ done.outbox = ch.outbox
        /\ done.inFlight = ch.inFlight
    BY DEF Channels, CallsKept
  <1>. HIDE DEF done
  <1>3. \A k \in Nat : Seen(done, k) <=> Seen(ch, k)
    BY <1>2 DEF Seen, IsNew, CachedFor
  <1>4. ChannelOK(done)
    BY <1>2, <1>3 DEF ChannelOK, Kept, Covered, CallsIssued, RunsSeen, CallsKept, Channels, Running
  <1>5. CASE run.epoch # ch.epoch
    <2>1. HandlerSettles(ch, run) = done  BY <1>5 DEF HandlerSettles, done
    <2>. QED  BY <2>1, <1>2, <1>3, <1>4
  <1>6. CASE run.epoch = ch.epoch
    <2>1. /\ taken \in Channels
          /\ CallsKept(ch, taken)
          /\ taken.running = ch.running \ {run}
          /\ taken.below = ch.below /\ taken.epoch = ch.epoch
          /\ taken.cached = ch.cached /\ taken.outbox = ch.outbox
          /\ taken.inFlight = ch.inFlight \ {run.call}
      BY <1>2 DEF Channels, CallsKept
    <2>. HIDE DEF taken
    <2>2. \A k \in Nat : Seen(ch, k) <=> Seen(taken, k) \/ k = run.call
      <3>1. Seen(ch, run.call)  BY <1>6 DEF ChannelOK, RunsSeen
      <3>. QED  BY <1>1, <2>1, <3>1, SeenIff
    <2>3. CASE run.call < ch.below
      <3>1. HandlerSettles(ch, run) = taken  BY <1>6, <2>3 DEF HandlerSettles, taken, done
      <3>2. Seen(taken, run.call)  BY <1>1, <2>1, <2>3, SeenIff
      <3>3. \A k \in Nat : Seen(taken, k) <=> Seen(ch, k)  BY <2>2, <3>2
      <3>4. ChannelOK(taken)
        BY <2>1, <3>3 DEF ChannelOK, Kept, Covered, CallsIssued, RunsSeen, CallsKept, Channels, Running
      <3>. QED  BY <2>1, <3>1, <3>3, <3>4
    <2>4. CASE ~(run.call < ch.below)
      <3>. DEFINE new == QueueResponse(taken, reply)
      <3>1. HandlerSettles(ch, run) = new
        BY <1>6, <2>4 DEF HandlerSettles, taken, done
      <3>2. /\ new \in Channels
            /\ CallsKept(ch, new)
            /\ new.below = ch.below /\ new.inFlight = taken.inFlight
            /\ new.running = taken.running /\ new.epoch = ch.epoch
            /\ new.cached = {r \in ch.cached : r.call # reply.call} \cup {reply}
            /\ new.outbox = {r \in ch.outbox : r.call # reply.call} \cup {reply}
        BY <1>1, <2>1 DEF QueueResponse, PutReply, Channels, CallsKept
      <3>. HIDE DEF new
      <3>3. \A k \in Nat : Seen(new, k) <=> Seen(ch, k)
        <4>1. reply.call = run.call  OBVIOUS
        <4>. HIDE DEF reply
        <4>2. \A k \in Nat : Seen(new, k) <=> Seen(taken, k) \/ k = run.call
          BY <1>1, <2>1, <3>2, <4>1, SeenIff
        <4>. QED  BY <2>2, <4>2
      <3>4. RunsSeen(new)
        BY <2>1, <3>2, <3>3 DEF ChannelOK, RunsSeen, Channels, Running
      <3>5. Kept(new)
        BY <2>4, <3>2, <1>1 DEF ChannelOK, Kept, Channels
      <3>6. Covered(new) /\ CallsIssued(new)
        BY <3>2 DEF ChannelOK, Covered, CallsIssued, CallsKept
      <3>. QED  BY <1>6, <2>1, <3>1, <3>2, <3>3, <3>4, <3>5, <3>6 DEF ChannelOK
    <2>. QED  BY <2>3, <2>4
  <1>. QED  BY <1>5, <1>6

\* abortPending() settles every call, forgets the peer and keeps the numbering.
LEMMA AbortEffect ==
  ASSUME NEW ch \in Channels, ChannelOK(ch)
  PROVE  LET new == AbortPending(ch) IN
         /\ new \in Channels
         /\ ChannelOK(new)
         /\ new.next = ch.next /\ new.pending = {}
         /\ new.below = 0 /\ new.cached = {} /\ new.outbox = {}
         /\ new.running = ch.running
         /\ \A run \in new.running : run.epoch # new.epoch
         /\ \A k \in Nat : ~Seen(new, k)
  <1>. DEFINE new == AbortPending(ch)
  <1>1. /\ new \in Channels
        /\ new.next = ch.next /\ new.pending = {}
        /\ new.below = 0 /\ new.cached = {} /\ new.outbox = {} /\ new.inFlight = {}
        /\ new.running = ch.running /\ new.epoch = ch.epoch + 1
    <2>1. ch.epoch + 1 \in Nat  BY DEF Channels
    <2>. QED  BY <2>1, Zenon DEF AbortPending, Channels
  <1>. HIDE DEF new
  <1>2. \A k \in Nat : ~Seen(new, k)  BY <1>1, SeenIff
  <1>3. \A run \in ch.running : run.epoch <= ch.epoch /\ run.epoch \in Nat /\ ch.epoch \in Nat
    BY DEF ChannelOK, RunsSeen, Channels, Running
  <1>4. \A run \in new.running : run.epoch <= new.epoch /\ run.epoch # new.epoch
    BY <1>1, <1>3
  <1>5. ChannelOK(new)
    BY <1>1, <1>4 DEF ChannelOK, Kept, Covered, CallsIssued, RunsSeen
  <1>. QED  BY <1>1, <1>2, <1>4, <1>5 DEF new

-----------------------------------------------------------------------------
(* Type correctness, with what makes each channel sound by itself.          *)

Batches == [requests : SUBSET Nat, replies : SUBSET Replies, conn : Nat]
Counts  == [{"client", "server"} -> [0..MaxConnections -> [Calls -> Nat]]]

ChannelsOK ==
  /\ TypeOK
  /\ conn <= MaxConnections
  /\ clientBatch \in Batches /\ serverBatch \in Batches
  /\ started \in Counts
  /\ ChannelOK(client) /\ ChannelOK(server)

\* The channels of the initial states are sound.
LEMMA InitChannels == Init => ChannelsOK
  <1>. SUFFICES ASSUME Init PROVE ChannelsOK
    OBVIOUS
  <1>1. NoBatch \in Batches  BY DEF NoBatch, Batches
  <1>2. started \in Counts  BY DEF Init, Counts
  <1>3. TypeOK
    <2>1. NoBatch.requests = {} /\ NoBatch.replies = {} /\ NoBatch.conn = 0  BY DEF NoBatch
    <2>2. client = NewChannel /\ server = NewChannel /\ clientBatch = NoBatch /\ serverBatch = NoBatch
      BY DEF Init
    <2>3. client \in Channels /\ server \in Channels  BY <2>2, NewEffect
    <2>4. \A batch \in {clientBatch, serverBatch} :
            batch.requests \subseteq Nat /\ batch.replies \subseteq Replies /\ batch.conn \in Nat
      BY <2>1, <2>2
    <2>. QED  BY <2>3, <2>4 DEF Init, TypeOK
  <1>. QED
    BY <1>1, <1>2, <1>3, NewEffect, RpcAssumption DEF Init, ChannelsOK

\* What a side sends is a frame.
LEMMA OutgoingType ==
  ASSUME NEW ch \in Channels, ChannelOK(ch)
  PROVE  Outgoing(ch) \in Frames
  BY SettledBelowLeast DEF Outgoing, Frames, Channels

\* One more start of the handler of a call.
Counted(s, c, k) == [started EXCEPT ![s][c][k] = @ + 1]

\* Counting a start keeps the counts in their type.
LEMMA CountedType ==
  ASSUME started \in Counts, NEW s \in {"client", "server"}, NEW c, NEW k
  PROVE  Counted(s, c, k) \in Counts
  <1>. DEFINE ofConn == [started[s][c] EXCEPT ![k] = @ + 1]
              ofSide == [started[s] EXCEPT ![c] = ofConn]
  <1>1. c \in 0..MaxConnections => ofConn \in [Calls -> Nat]
    <2>. SUFFICES ASSUME c \in 0..MaxConnections, started[s][c] \in [Calls -> Nat]
                  PROVE  ofConn \in [Calls -> Nat]
      BY DEF Counts
    <2>1. k \in Calls => started[s][c][k] + 1 \in Nat  OBVIOUS
    <2>. QED  BY <2>1
  <1>. HIDE DEF ofConn
  <1>2. ofSide \in [0..MaxConnections -> [Calls -> Nat]]  BY <1>1 DEF Counts
  <1>. HIDE DEF ofSide
  <1>3. [started EXCEPT ![s] = ofSide] \in Counts  BY <1>2 DEF Counts
  <1>. QED  BY <1>3 DEF Counted, ofSide, ofConn

\* Which of the counts a start changes.
LEMMA CountedEffect ==
  ASSUME started \in Counts, NEW s \in {"client", "server"}, NEW c, NEW k,
         started' = Counted(s, c, k),
         NEW t \in {"client", "server"}, NEW d \in 0..MaxConnections, NEW j \in Calls
  PROVE  /\ started[t][d][j] \in Nat
         /\ started'[t][d][j] = IF t = s /\ d = c /\ j = k THEN started[t][d][j] + 1
                                                       ELSE started[t][d][j]
  <1>. PICK ofConn : ofConn = [started[s][c] EXCEPT ![k] = @ + 1]  OBVIOUS
  <1>. PICK ofSide : ofSide = [started[s] EXCEPT ![c] = ofConn]  OBVIOUS
  <1>1. /\ started[t] \in [0..MaxConnections -> [Calls -> Nat]]
        /\ started[t][d] \in [Calls -> Nat]
        /\ started[t][d][j] \in Nat
    BY DEF Counts
  <1>2. started'[t] = IF t = s THEN ofSide ELSE started[t]  BY DEF Counted, Counts
  <1>3. t = s => ofSide[d] = IF d = c THEN ofConn ELSE started[t][d]  BY <1>1
  <1>4. t = s /\ d = c => ofConn[j] = IF j = k THEN started[t][d][j] + 1 ELSE started[t][d][j]
    BY <1>1
  <1>. QED  BY <1>1, <1>2, <1>3, <1>4

\* Every step keeps the channels sound.
LEMMA StepChannels == ChannelsOK /\ [Next]_vars => ChannelsOK'
  <1>. SUFFICES ASSUME ChannelsOK, [Next]_vars PROVE ChannelsOK'
    OBVIOUS
  <1>. USE DEF ChannelsOK, TypeOK
  <1>1. CASE UNCHANGED vars
    BY <1>1 DEF vars, runVars, channelVars, linkVars, netVars, batchVars
  <1>. SUFFICES ASSUME Next PROVE ChannelsOK'
    BY <1>1
  <1>0. load' = load  BY DEF Next
  <1>2. CASE Connect
    BY <1>0, <1>2, NewEffect, RpcAssumption DEF Connect, batchVars
  <1>3. CASE ClientDisconnects
    BY <1>0, <1>3, AbortEffect DEF ClientDisconnects, ClientForgets, netVars
  <1>4. CASE ServerEnds
    BY <1>0, <1>4, AbortEffect DEF ServerEnds, netVars, batchVars
  <1>5. CASE ClientInvokes
    BY <1>0, <1>5, InvokeEffect DEF ClientInvokes, linkVars, netVars, batchVars
  <1>6. CASE ServerInvokes
    BY <1>0, <1>6, InvokeEffect DEF ServerInvokes, linkVars, netVars, batchVars
  <1>7. CASE ClientSends
    BY <1>0, <1>7, TakeEffect, OutgoingType DEF ClientSends, Sent, linkVars, batchVars
  <1>8. ASSUME NEW expired \in SUBSET server.pending, NEW state \in BOOLEAN,
               ServerSends(expired, state)
        PROVE  ChannelsOK'
    <2>. DEFINE ticked == TimeoutTick(server, expired)
    <2>1. ticked \in Channels /\ ChannelOK(ticked)
      BY SettleEffect DEF TimeoutTick
    <2>. HIDE DEF ticked
    <2>2. /\ toClient' \in Sent(toClient, Outgoing(ticked), MaxToClient)
          /\ server' = TakeOutgoing(ticked)
          /\ UNCHANGED <<client, linkVars, toServer, batchVars, started>>
      BY <1>8 DEF ServerSends, ticked
    <2>. QED
      BY <1>0, <2>1, <2>2, TakeEffect, OutgoingType DEF Sent, linkVars, batchVars
  <1>9. CASE ServerTimesOut
    BY <1>0, <1>9, SettleEffect DEF ServerTimesOut, TimeoutTick, linkVars, netVars, batchVars
  <1>10. ASSUME NEW frame \in toServer, ServerReceives(frame)
         PROVE  ChannelsOK'
    <2>1. frame.below \in Nat /\ frame.requests \in SUBSET Nat /\ frame.replies \in SUBSET Replies
      BY DEF Frames
    <2>2. serverBatch' \in Batches  BY <1>10, <2>1 DEF ServerReceives, Batches
    <2>3. serverBatch'.requests \subseteq Nat /\ serverBatch'.replies \subseteq Replies
          /\ serverBatch'.conn \in Nat
      BY <2>2 DEF Batches
    <2>. QED
      BY <1>0, <1>10, <2>1, <2>2, <2>3, WatermarkEffect DEF ServerReceives, Arrived, linkVars
  <1>11. ASSUME NEW frame \in toClient, ClientReceives(frame)
         PROVE  ChannelsOK'
    <2>. DEFINE below == SetPeerSettledBelow(client, frame.below)
    <2>1. frame.below \in Nat /\ frame.requests \in SUBSET Nat
      BY DEF Frames
    <2>2. below \in Channels /\ ChannelOK(below)  BY <2>1, WatermarkEffect
    <2>. HIDE DEF below
    <2>3. client' = [below EXCEPT !.pending = @ \ {r.call : r \in frame.replies}]
      BY <1>11 DEF ClientReceives, below
    <2>4. client' \in Channels /\ ChannelOK(client')  BY <2>2, <2>3, SettleEffect
    <2>. QED
      BY <1>0, <1>11, <2>1, <2>4 DEF ClientReceives, Arrived, linkVars
  <1>12. CASE ClientPulls
    <2>1. clientBatch' \in Batches /\ clientBatch'.requests \subseteq Nat
          /\ clientBatch'.replies \subseteq Replies /\ clientBatch'.conn \in Nat
      BY <1>12 DEF ClientPulls, Batches
    <2>. QED  BY <1>0, <1>12, <2>1 DEF ClientPulls, channelVars, linkVars, netVars
  <1>13. CASE ServerProcesses
    <2>. DEFINE call == First(serverBatch.requests)
    <2>1. call \in Nat  BY <1>13, FirstIsLeast DEF ServerProcesses
    <2>4. serverBatch' \in Batches /\ serverBatch'.requests \subseteq Nat
          /\ serverBatch'.replies \subseteq Replies /\ serverBatch'.conn \in Nat
      BY <1>13 DEF ServerProcesses, Batches
    <2>. HIDE DEF call
    <2>5. \/ ~IsNew(server, call) /\ server' = ProcessCopy(server, call)
          \/ IsNew(server, call) /\ server' = RejectUnknown(server, call, serverBatch.conn)
      BY <1>13 DEF ServerProcesses, call
    <2>6. server' \in Channels /\ ChannelOK(server')
      BY <2>1, <2>5, ProcessEffect
    <2>. QED
      BY <1>0, <1>13, <2>4, <2>6 DEF ServerProcesses, linkVars, netVars
  <1>14. ASSUME NEW closes \in MayClose("server"), ServerStarts(closes)
         PROVE  ChannelsOK'
    <2>. DEFINE call == First(serverBatch.requests)
    <2>0. PICK run : run = StartHandler(server, call, serverBatch.conn)  OBVIOUS
    <2>1. call \in Nat  BY <1>14, FirstIsLeast DEF ServerStarts
    <2>2. serverBatch' \in Batches /\ serverBatch'.requests \subseteq Nat
          /\ serverBatch'.replies \subseteq Replies /\ serverBatch'.conn \in Nat
      BY <1>14 DEF ServerStarts, Batches
    <2>. HIDE DEF call
    <2>3. run \in Channels /\ ChannelOK(run)  BY <2>0, <2>1, StartSound
    <2>4. server' = IF closes THEN AbortPending(run) ELSE run
      BY <1>14, <2>0 DEF ServerStarts, call
    <2>5. server' \in Channels /\ ChannelOK(server')  BY <2>3, <2>4, AbortEffect
    <2>6. started' \in Counts  BY <1>14, CountedType DEF ServerStarts, Counted
    <2>7. serverUp' \in BOOLEAN  BY <1>14 DEF ServerStarts
    <2>. QED
      BY <1>0, <1>14, <2>2, <2>5, <2>6, <2>7 DEF ServerStarts, netVars
  <1>15. CASE ServerSettles
    <2>1. NoBatch \in Batches /\ NoBatch.requests = {} /\ NoBatch.replies = {} /\ NoBatch.conn = 0
      BY DEF NoBatch, Batches
    <2>2. server' \in Channels /\ ChannelOK(server')  BY <1>15, SettleEffect DEF ServerSettles
    <2>3. serverBatch' = NoBatch  BY <1>15 DEF ServerSettles
    <2>4. \A batch \in {clientBatch, serverBatch'} :
            batch.requests \subseteq Nat /\ batch.replies \subseteq Replies /\ batch.conn \in Nat
      BY <2>1, <2>3
    <2>. QED  BY <1>0, <1>15, <2>1, <2>2, <2>3, <2>4 DEF ServerSettles, linkVars, netVars
  <1>16. CASE ClientProcesses
    <2>. DEFINE call == First(clientBatch.requests)
    <2>1. call \in Nat  BY <1>16, FirstIsLeast DEF ClientProcesses
    <2>4. clientBatch' \in Batches /\ clientBatch'.requests \subseteq Nat
          /\ clientBatch'.replies \subseteq Replies /\ clientBatch'.conn \in Nat
      BY <1>16 DEF ClientProcesses, Batches
    <2>. HIDE DEF call
    <2>5. \/ ~IsNew(client, call) /\ client' = ProcessCopy(client, call)
          \/ IsNew(client, call) /\ client' = RejectUnknown(client, call, clientBatch.conn)
      BY <1>16 DEF ClientProcesses, call
    <2>6. client' \in Channels /\ ChannelOK(client')
      BY <2>1, <2>5, ProcessEffect
    <2>. QED
      BY <1>0, <1>16, <2>4, <2>6 DEF ClientProcesses, linkVars, netVars
  <1>17. ASSUME NEW closes \in MayClose("client"), ClientStarts(closes)
         PROVE  ChannelsOK'
    <2>. DEFINE call == First(clientBatch.requests)
    <2>0. PICK run : run = StartHandler(client, call, clientBatch.conn)  OBVIOUS
    <2>1. call \in Nat  BY <1>17, FirstIsLeast DEF ClientStarts
    <2>2. clientBatch' \in Batches /\ clientBatch'.requests \subseteq Nat
          /\ clientBatch'.replies \subseteq Replies /\ clientBatch'.conn \in Nat
      BY <1>17 DEF ClientStarts, Batches
    <2>. HIDE DEF call
    <2>3. run \in Channels /\ ChannelOK(run)  BY <2>0, <2>1, StartSound
    <2>4. /\ client' = AbortPending(run) \/ client' = run
          /\ clientState' \in {"new", "up", "down"} /\ inbox' \subseteq Nat
      BY <1>17, <2>0 DEF ClientStarts, ClientForgets, call
    <2>5. client' \in Channels /\ ChannelOK(client')  BY <2>3, <2>4, AbortEffect
    <2>6. started' \in Counts  BY <1>17, CountedType DEF ClientStarts, Counted
    <2>. QED
      BY <1>0, <1>17, <2>2, <2>4, <2>5, <2>6 DEF ClientStarts, netVars
  <1>18. ASSUME NEW call \in Calls, ServerHandlerSettles(call)
         PROVE  ChannelsOK'
    BY <1>0, <1>18, HandlerEffect DEF ServerHandlerSettles, linkVars, netVars, batchVars
  <1>19. ASSUME NEW call \in Calls, ClientHandlerSettles(call)
         PROVE  ChannelsOK'
    BY <1>0, <1>19, HandlerEffect DEF ClientHandlerSettles, linkVars, netVars, batchVars
  <1>. QED
    BY <1>2, <1>3, <1>4, <1>5, <1>6, <1>7, <1>8, <1>9, <1>10, <1>11, <1>12, <1>13, <1>14,
       <1>15, <1>16, <1>17, <1>18, <1>19
    DEF Next, ServerStep, ClientStep

(***************************************************************************)
(* Every variable of the two channels and of what runs between them holds  *)
(* a value of its kind, however many calls, connections and frames there   *)
(* are, and whichever side's handlers may end a connection.                *)
(***************************************************************************)
THEOREM TypeCorrect == Spec => []TypeOK
  <1>1. ChannelsOK => TypeOK  BY DEF ChannelsOK
  <1>. QED  BY <1>1, InitChannels, StepChannels, PTL DEF Spec

(***************************************************************************)
(* The channels keep their bookkeeping: no reply below the peer's          *)
(* watermark is kept, what is queued is also cached for a repeat, every    *)
(* pending call was issued, and a handler that runs for the current peer   *)
(* makes its call seen.                                                    *)
(***************************************************************************)
THEOREM ChannelsCorrect == Spec => []ChannelsOK
  BY InitChannels, StepChannels, PTL DEF Spec

-----------------------------------------------------------------------------
(* The watermarks: what a side has been told is settled, or will be told by *)
(* a frame in flight, is ahead of no call of the other side that waits.     *)

Watermarks ==
  /\ clientState # "up" => client.below = 0
  /\ clientState = "up" /\ serverUp =>
       /\ Within(server.below, client) /\ \A f \in toServer : Within(f.below, client)
       /\ Within(client.below, server) /\ \A f \in toClient : Within(f.below, server)

\* The watermarks of the initial states are within.
LEMMA InitWatermarks == Init => Watermarks
  BY DEF Init, Watermarks, NewChannel

\* Calls that settle leave every watermark within.
LEMMA WithinFewer ==
  ASSUME NEW old, NEW new, NEW below, Within(below, old),
         new.pending \subseteq old.pending, new.next = old.next
  PROVE  Within(below, new)
  BY DEF Within

\* A call that is issued stays above every watermark.
LEMMA WithinInvoke ==
  ASSUME NEW ch \in Channels, ChannelOK(ch), NEW below \in Nat, Within(below, ch)
  PROVE  Within(below, Invoke(ch))
  <1>1. ch.next \in Nat  BY DEF Channels
  <1>. QED  BY <1>1, InvokeEffect DEF Within

\* Every step keeps the watermarks within.
LEMMA StepWatermarks ==
  ChannelsOK /\ Watermarks /\ [Next]_vars => Watermarks'
  <1>. SUFFICES ASSUME ChannelsOK, Watermarks, [Next]_vars PROVE Watermarks'
    OBVIOUS
  <1>. USE DEF ChannelsOK, TypeOK
  <1>0. /\ client.below \in Nat /\ server.below \in Nat
        /\ \A f \in toServer \cup toClient : f.below \in Nat
    BY DEF Channels, Frames
  <1>1. CASE UNCHANGED vars
    BY <1>1 DEF Watermarks, vars, runVars, channelVars, linkVars, netVars
  <1>. SUFFICES ASSUME Next PROVE Watermarks'
    BY <1>1
  <1>2. CASE Connect
    <2>1. NewChannel.below = 0 /\ NewChannel.next = 0 /\ NewChannel.pending = {}
      BY DEF NewChannel
    <2>2. client.next \in Nat /\ \A k \in client.pending : k \in Nat  BY DEF Channels
    <2>. QED  BY <1>2, <2>1, <2>2 DEF Watermarks, Connect, Within
  <1>3. CASE ClientDisconnects
    BY <1>3, AbortEffect DEF Watermarks, ClientDisconnects, ClientForgets
  <1>4. CASE ServerEnds
    BY <1>4 DEF Watermarks, ServerEnds
  <1>5. CASE ClientInvokes
    BY <1>0, <1>5, InvokeEffect, WithinInvoke
    DEF Watermarks, ClientInvokes, AnswersKept, linkVars, netVars
  <1>6. CASE ServerInvokes
    BY <1>0, <1>6, InvokeEffect, WithinInvoke
    DEF Watermarks, ServerInvokes, AnswersKept, linkVars, netVars
  <1>7. CASE ClientSends
    <2>1. Within(Outgoing(client).below, client)
      BY SettledBelowLeast DEF Outgoing
    <2>2. \A f \in toServer' : f \in toServer \/ f = Outgoing(client)
      BY <1>7 DEF ClientSends, Sent
    <2>. QED
      BY <1>7, <2>1, <2>2, TakeEffect, WithinFewer DEF Watermarks, ClientSends, AnswersKept, linkVars
  <1>8. ASSUME NEW expired \in SUBSET server.pending, NEW state \in BOOLEAN,
               ServerSends(expired, state)
        PROVE  Watermarks'
    <2>. DEFINE ticked == TimeoutTick(server, expired)
    <2>1. /\ ticked \in Channels /\ ChannelOK(ticked)
          /\ ticked.pending \subseteq server.pending /\ ticked.next = server.next
          /\ ticked.below = server.below
      BY SettleEffect DEF TimeoutTick, AnswersKept
    <2>. HIDE DEF ticked
    <2>2. /\ toClient' \in Sent(toClient, Outgoing(ticked), MaxToClient)
          /\ server' = TakeOutgoing(ticked)
          /\ UNCHANGED <<client, linkVars, toServer>>
      BY <1>8 DEF ServerSends, ticked
    <2>3. /\ server'.pending = ticked.pending /\ server'.next = ticked.next
          /\ server'.below = server.below
      BY <2>1, <2>2, TakeEffect DEF AnswersKept
    <2>4. Within(Outgoing(ticked).below, server')
      BY <2>1, <2>3, SettledBelowLeast, WithinFewer DEF Outgoing
    <2>5. \A f \in toClient' : f \in toClient \/ f = Outgoing(ticked)
      BY <2>2 DEF Sent
    <2>. QED
      BY <2>1, <2>2, <2>3, <2>4, <2>5, WithinFewer DEF Watermarks, linkVars
  <1>9. CASE ServerTimesOut
    <2>1. /\ server'.pending \subseteq server.pending /\ server'.next = server.next
          /\ server'.below = server.below
      BY <1>9, SettleEffect DEF ServerTimesOut, TimeoutTick, AnswersKept
    <2>. QED  BY <1>9, <2>1, WithinFewer DEF Watermarks, ServerTimesOut, linkVars, netVars
  <1>10. ASSUME NEW frame \in toServer, ServerReceives(frame)
         PROVE  Watermarks'
    <2>1. /\ CallsKept(server, server')
          /\ server'.below \in {server.below, frame.below}
      BY <1>0, <1>10, WatermarkEffect DEF ServerReceives
    <2>. QED
      BY <1>10, <2>1, WithinFewer DEF Watermarks, ServerReceives, Arrived, CallsKept, linkVars
  <1>11. ASSUME NEW frame \in toClient, ClientReceives(frame)
         PROVE  Watermarks'
    <2>. DEFINE below == SetPeerSettledBelow(client, frame.below)
    <2>1. /\ below \in Channels /\ ChannelOK(below)
          /\ CallsKept(client, below)
          /\ below.below \in {client.below, frame.below}
      BY <1>0, WatermarkEffect
    <2>. HIDE DEF below
    <2>2. client' = [below EXCEPT !.pending = @ \ {r.call : r \in frame.replies}]
      BY <1>11 DEF ClientReceives, below
    <2>3. /\ client'.pending \subseteq client.pending /\ client'.next = client.next
          /\ client'.below = below.below
      BY <2>1, <2>2, SettleEffect DEF CallsKept, AnswersKept
    <2>. QED
      BY <1>11, <2>1, <2>3, WithinFewer DEF Watermarks, ClientReceives, Arrived, linkVars
  <1>12. CASE ClientPulls
    BY <1>12 DEF Watermarks, ClientPulls, channelVars, linkVars, netVars
  <1>13. CASE ServerProcesses
    <2>. DEFINE call == First(serverBatch.requests)
    <2>1. call \in Nat  BY <1>13, FirstIsLeast DEF ServerProcesses
    <2>. HIDE DEF call
    <2>4. \/ ~IsNew(server, call) /\ server' = ProcessCopy(server, call)
          \/ IsNew(server, call) /\ server' = RejectUnknown(server, call, serverBatch.conn)
      BY <1>13 DEF ServerProcesses, call
    <2>5. CallsKept(server, server') /\ server'.below = server.below
      BY <2>1, <2>4, ProcessEffect
    <2>. QED
      BY <1>13, <2>5, WithinFewer DEF Watermarks, ServerProcesses, CallsKept, linkVars, netVars
  <1>14. ASSUME NEW closes \in MayClose("server"), ServerStarts(closes)
         PROVE  Watermarks'
    <2>. DEFINE call == First(serverBatch.requests)
    <2>0. PICK run : run = StartHandler(server, call, serverBatch.conn)  OBVIOUS
    <2>1. call \in Nat  BY <1>14, FirstIsLeast DEF ServerStarts
    <2>. HIDE DEF call
    <2>2. CallsKept(server, run) /\ run.below = server.below
      BY <2>0 DEF StartHandler, Channels, CallsKept
    <2>3. ~closes => server' = run  BY <1>14, <2>0 DEF ServerStarts, call
    <2>4. closes => ~serverUp'  BY <1>14 DEF ServerStarts
    <2>5. UNCHANGED <<client, clientState, netVars>> /\ (serverUp' => serverUp)
      BY <1>14 DEF ServerStarts
    <2>. QED  BY <2>2, <2>3, <2>4, <2>5, WithinFewer DEF Watermarks, CallsKept, netVars
  <1>15. CASE ServerSettles
    <2>1. /\ server'.pending \subseteq server.pending /\ server'.next = server.next
          /\ server'.below = server.below
      BY <1>15, SettleEffect DEF ServerSettles, AnswersKept
    <2>. QED  BY <1>15, <2>1, WithinFewer DEF Watermarks, ServerSettles, linkVars, netVars
  <1>16. CASE ClientProcesses
    <2>. DEFINE call == First(clientBatch.requests)
    <2>1. call \in Nat  BY <1>16, FirstIsLeast DEF ClientProcesses
    <2>. HIDE DEF call
    <2>4. \/ ~IsNew(client, call) /\ client' = ProcessCopy(client, call)
          \/ IsNew(client, call) /\ client' = RejectUnknown(client, call, clientBatch.conn)
      BY <1>16 DEF ClientProcesses, call
    <2>5. CallsKept(client, client') /\ client'.below = client.below
      BY <2>1, <2>4, ProcessEffect
    <2>. QED
      BY <1>16, <2>5, WithinFewer DEF Watermarks, ClientProcesses, CallsKept, linkVars, netVars
  <1>17. ASSUME NEW closes \in MayClose("client"), ClientStarts(closes)
         PROVE  Watermarks'
    <2>. DEFINE call == First(clientBatch.requests)
    <2>0. PICK run : run = StartHandler(client, call, clientBatch.conn)  OBVIOUS
    <2>1. call \in Nat  BY <1>17, FirstIsLeast DEF ClientStarts
    <2>. HIDE DEF call
    <2>2. run \in Channels /\ ChannelOK(run)
      BY <2>0, <2>1, StartSound
    <2>5. CallsKept(client, run) /\ run.below = client.below
      BY <2>0, <2>1, StartEffect
    <2>3. \/ clientState' = "down" /\ client' = AbortPending(run)
          \/ clientState' = clientState /\ client' = run
      BY <1>17, <2>0 DEF ClientStarts, ClientForgets, call
    <2>4. UNCHANGED <<server, serverUp, netVars>>  BY <1>17 DEF ClientStarts
    <2>. QED  BY <2>2, <2>3, <2>4, <2>5, AbortEffect, WithinFewer DEF Watermarks, CallsKept, netVars
  <1>18. ASSUME NEW call \in Calls, ServerHandlerSettles(call)
         PROVE  Watermarks'
    <2>1. CallsKept(server, server') /\ server'.below = server.below
      BY <1>18, HandlerEffect DEF ServerHandlerSettles
    <2>. QED
      BY <1>18, <2>1, WithinFewer DEF Watermarks, ServerHandlerSettles, CallsKept, linkVars, netVars
  <1>19. ASSUME NEW call \in Calls, ClientHandlerSettles(call)
         PROVE  Watermarks'
    <2>1. CallsKept(client, client') /\ client'.below = client.below
      BY <1>19, HandlerEffect DEF ClientHandlerSettles
    <2>. QED
      BY <1>19, <2>1, WithinFewer DEF Watermarks, ClientHandlerSettles, CallsKept, linkVars, netVars
  <1>. QED
    BY <1>2, <1>3, <1>4, <1>5, <1>6, <1>7, <1>8, <1>9, <1>10, <1>11, <1>12, <1>13, <1>14,
       <1>15, <1>16, <1>17, <1>18, <1>19
    DEF Next, ServerStep, ClientStep

(***************************************************************************)
(* No call that still waits is ever taken for one its caller has settled:  *)
(* neither side's watermark runs ahead of a pending call, whatever frames  *)
(* are lost, repeated or reordered, and across timeouts, aborts and        *)
(* reconnects.                                                             *)
(***************************************************************************)
THEOREM PendingCallsNeverStale == Spec => []NoPendingCallIsStale
  <1>1. Watermarks => NoPendingCallIsStale
    BY DEF Watermarks, Within, NoPendingCallIsStale
  <1>. QED
    BY <1>1, InitChannels, StepChannels, InitWatermarks, StepWatermarks, PTL DEF Spec

(***************************************************************************)
(* A side keeps no reply, cached or queued, to a call it knows its peer    *)
(* has settled.                                                            *)
(***************************************************************************)
THEOREM SettledCallsForgotten == Spec => []NothingKeptForSettled
  <1>1. ChannelsOK => NothingKeptForSettled
    BY DEF ChannelsOK, ChannelOK, Kept, Covered, NothingKeptForSettled
  <1>. QED  BY <1>1, ChannelsCorrect, PTL

-----------------------------------------------------------------------------
(* The server's half of the at-most-once guarantee.  It forgets what it     *)
(* answered once a watermark passes it, and it forgets everything when the  *)
(* session ends in the middle of a batch; what it relies on is the order    *)
(* in which calls come: no request that it may still get is older than one  *)
(* it has seen, unless it has seen that one too.                            *)

\* The requests the session has yet to look at, as they come together.
Waves == {f.requests : f \in toServer} \cup {serverBatch.requests}

Current(replies) == \A r \in replies : r.conn = conn

\* Nothing the session holds or sends is of an earlier connection.
ServerIsCurrent ==
  /\ serverBatch.requests # {} => serverBatch.conn = conn
  /\ Current(server.cached) /\ Current(server.running)
  /\ \A f \in toClient : Current(f.replies)

\* What comes with a call, or was seen before it, includes every older call
\* that may still come.
OrderedAfter(calls) ==
  \A j \in calls :
    /\ \A k \in Nat : j < k /\ Seen(server, k) => Seen(server, j)
    /\ \A w \in Waves : \A k \in w : j < k => j \in w \/ Seen(server, j)

SeenInOrder ==
  /\ \A w \in Waves : OrderedAfter(w) /\ \A k \in w : k < client.next
  /\ \A k \in Nat : Seen(server, k) => k < client.next
  /\ \A f \in toServer : f.below <= client.next
  /\ \A f \in toClient : \A r \in f.replies : Seen(server, r.call)

PendingInOrder ==
  /\ OrderedAfter(client.pending)
  /\ \A w \in Waves : \A k \in w : k \in client.pending \/ Seen(server, k)

OrderInv ==
  /\ serverUp => SeenInOrder
  /\ serverUp /\ clientState = "up" => PendingInOrder

ServerStartsSeen ==
  \A k \in Calls :
    /\ \A c \in 0..MaxConnections :
         /\ started["server"][c][k] <= 1
         /\ c > conn => started["server"][c][k] = 0
    /\ started["server"][conn][k] > 0 =>
         IF serverUp THEN Seen(server, k) ELSE k \notin serverBatch.requests

ServerInv == ServerIsCurrent /\ OrderInv /\ ServerStartsSeen

\* The initial states satisfy the invariant of the session.
LEMMA InitServer == Init => ServerInv
  <1>. SUFFICES ASSUME Init PROVE ServerInv
    OBVIOUS
  <1>1. NoBatch.requests = {} /\ NewChannel.cached = {} /\ NewChannel.running = {}
    BY DEF NoBatch, NewChannel
  <1>2. ServerIsCurrent  BY <1>1 DEF Init, ServerIsCurrent, Current
  <1>3. OrderInv  BY DEF Init, OrderInv
  <1>4. ServerStartsSeen  BY RpcAssumption DEF Init, ServerStartsSeen
  <1>. QED  BY <1>2, <1>3, <1>4 DEF ServerInv

\* The calls of the waves of requests are naturals.
LEMMA WavesType ==
  ASSUME ChannelsOK
  PROVE  /\ \A w \in Waves : \A k \in w : k \in Nat
         /\ \A k \in client.pending : k \in Nat
         /\ client.next \in Nat
         /\ \A f \in toServer : f.below \in Nat
         /\ \A f \in toClient : \A r \in f.replies : r.call \in Nat
  BY DEF ChannelsOK, TypeOK, Waves, Frames, Replies, Channels

\* A step in which the session sees no call: requests are lost or taken up,
\* calls settle, replies to calls it has seen go out.
LEMMA QuietOrder ==
  ASSUME ChannelsOK, OrderInv,
         serverUp' => serverUp,
         \A k \in Nat : Seen(server', k) <=> Seen(server, k),
         Waves' \subseteq Waves, toServer' \subseteq toServer,
         client'.next = client.next, client'.pending \subseteq client.pending,
         clientState' = "up" => clientState = "up",
         serverUp' /\ clientState' = "up" =>
           \A k \in client.pending : k \in client'.pending \/ Seen(server, k),
         serverUp' => \A f \in toClient' : \A r \in f.replies :
                        f \in toClient \/ (r.call \in Nat /\ Seen(server, r.call))
  PROVE  OrderInv'
  <1>. USE WavesType
  <1>1. ASSUME serverUp' PROVE SeenInOrder'
    <2>. SeenInOrder  BY <1>1 DEF OrderInv
    <2>1. ASSUME NEW w \in Waves' PROVE OrderedAfter(w)'
      BY <2>1 DEF SeenInOrder, OrderedAfter
    <2>. QED  BY <1>1, <2>1 DEF SeenInOrder
  <1>2. ASSUME serverUp', clientState' = "up" PROVE PendingInOrder'
    <2>. PendingInOrder  BY <1>2 DEF OrderInv
    <2>1. OrderedAfter(client.pending)'  BY DEF PendingInOrder, OrderedAfter
    <2>. QED  BY <1>2, <2>1 DEF PendingInOrder
  <1>. QED  BY <1>1, <1>2 DEF OrderInv

\* The session sees the oldest call of its batch.
LEMMA SeeingOrder ==
  ASSUME ChannelsOK, OrderInv, serverUp, NEW call \in serverBatch.requests,
         \A o \in serverBatch.requests : call <= o,
         \A k \in Nat : Seen(server', k) <=> Seen(server, k) \/ k = call,
         serverBatch'.requests = serverBatch.requests \ {call},
         UNCHANGED <<toServer, toClient, client, clientState, serverUp>>
  PROVE  OrderInv'
  <1>. USE WavesType
  <1>. SeenInOrder  BY DEF OrderInv
  <1>1. serverBatch.requests \in Waves /\ call \in Nat  BY DEF Waves
  <1>2. ASSUME NEW w \in Waves'
        PROVE  \E v \in Waves : w \subseteq v /\ v \subseteq w \cup {call}
    BY DEF Waves
  <1>3. ASSUME NEW j \in Nat, j < call,
               \A k \in Nat : j < k /\ Seen(server, k) => Seen(server, j),
               \A w \in Waves : \A k \in w : j < k => j \in w \/ Seen(server, j)
        PROVE  Seen(server, j)
    BY <1>1, <1>3
  <1>4. ASSUME NEW calls, \A j \in calls : j \in Nat, OrderedAfter(calls)
        PROVE  OrderedAfter(calls)'
    BY <1>1, <1>2, <1>3, <1>4 DEF OrderedAfter
  <1>5. ASSUME NEW w \in Waves' PROVE OrderedAfter(w)' /\ \A k \in w : k < client.next
    <2>1. PICK v \in Waves : w \subseteq v  BY <1>2
    <2>2. OrderedAfter(w)  BY <2>1 DEF SeenInOrder, OrderedAfter
    <2>3. \A j \in w : j \in Nat  BY <2>1
    <2>. QED  BY <1>4, <2>1, <2>2, <2>3 DEF SeenInOrder
  <1>6. SeenInOrder'  BY <1>1, <1>5 DEF SeenInOrder
  <1>7. ASSUME clientState = "up" PROVE PendingInOrder'
    <2>. PendingInOrder  BY <1>7 DEF OrderInv
    <2>1. OrderedAfter(client.pending)'  BY <1>4 DEF PendingInOrder
    <2>2. ASSUME NEW w \in Waves', NEW k \in w
          PROVE  k \in client.pending \/ Seen(server', k)
      BY <1>2 DEF PendingInOrder
    <2>. QED  BY <2>1, <2>2 DEF PendingInOrder
  <1>. QED  BY <1>6, <1>7 DEF OrderInv

\* A frame is taken up: its watermark passes calls, its requests are the batch.
LEMMA ReceiveOrder ==
  ASSUME ChannelsOK, OrderInv, NEW frame \in toServer, ServerReceives(frame)
  PROVE  OrderInv'
  <1>. USE WavesType
  <1>. SeenInOrder  BY DEF OrderInv, ServerReceives
  <1>1. /\ server' = SetPeerSettledBelow(server, frame.below)
        /\ toServer' \subseteq toServer
        /\ serverBatch'.requests = frame.requests
        /\ UNCHANGED <<toClient, client, clientState, serverUp>>
        /\ serverUp
    BY DEF ServerReceives, Arrived, linkVars
  <1>2. \A k \in Nat : Seen(server', k) <=> Seen(server, k) \/ k < frame.below
    BY <1>1, WatermarkEffect DEF ChannelsOK, TypeOK
  <1>3. Waves' \subseteq Waves  BY <1>1 DEF Waves
  <1>4. frame.below \in Nat /\ frame.below <= client.next  BY DEF SeenInOrder
  <1>5. ASSUME NEW calls, \A j \in calls : j \in Nat, OrderedAfter(calls)
        PROVE  OrderedAfter(calls)'
    BY <1>2, <1>3, <1>4, <1>5 DEF OrderedAfter
  <1>6. SeenInOrder'
    <2>1. ASSUME NEW w \in Waves' PROVE OrderedAfter(w)' /\ \A k \in w : k < client.next
      BY <1>3, <1>5 DEF SeenInOrder
    <2>. QED  BY <1>1, <1>2, <1>4, <2>1 DEF SeenInOrder
  <1>7. ASSUME clientState = "up" PROVE PendingInOrder'
    BY <1>1, <1>2, <1>3, <1>5, <1>7 DEF OrderInv, PendingInOrder
  <1>. QED  BY <1>1, <1>6, <1>7 DEF OrderInv

\* A call the client issues is younger than every call the session has seen.
LEMMA InvokeOrder ==
  ASSUME ChannelsOK, OrderInv, ClientInvokes
  PROVE  OrderInv'
  <1>. USE WavesType
  <1>1. /\ client'.pending = client.pending \cup {client.next}
        /\ client'.next = client.next + 1
    BY InvokeEffect DEF ChannelsOK, TypeOK, ClientInvokes
  <1>2. UNCHANGED <<server, toServer, toClient, serverBatch, clientState, serverUp>>
    BY DEF ClientInvokes, linkVars, netVars, batchVars
  <1>3. Waves' = Waves  BY <1>2 DEF Waves
  <1>4. ASSUME NEW calls, OrderedAfter(calls) PROVE OrderedAfter(calls)'
    BY <1>2, <1>3, <1>4 DEF OrderedAfter
  <1>5. ASSUME serverUp PROVE SeenInOrder'
    <2>. SeenInOrder  BY <1>5 DEF OrderInv
    <2>1. ASSUME NEW w \in Waves' PROVE OrderedAfter(w)' /\ \A k \in w : k < client.next
      BY <1>3, <1>4 DEF SeenInOrder
    <2>2. \A w \in Waves' : \A k \in w : k < client'.next  BY <1>1, <1>3, <2>1
    <2>3. \A k \in Nat : Seen(server, k) => k < client'.next  BY <1>1 DEF SeenInOrder
    <2>4. \A f \in toServer : f.below <= client'.next  BY <1>1 DEF SeenInOrder
    <2>. QED  BY <1>2, <2>1, <2>2, <2>3, <2>4 DEF SeenInOrder
  <1>6. ASSUME serverUp, clientState = "up" PROVE PendingInOrder'
    <2>. SeenInOrder /\ PendingInOrder  BY <1>6 DEF OrderInv
    <2>1. OrderedAfter({client.next})  BY DEF OrderedAfter, SeenInOrder
    <2>2. OrderedAfter(client'.pending)
      BY <1>1, <2>1 DEF OrderedAfter, PendingInOrder
    <2>. QED  BY <1>1, <1>2, <1>3, <1>4, <2>2 DEF PendingInOrder
  <1>. QED  BY <1>2, <1>5, <1>6 DEF OrderInv

\* A frame the client sends is in order with what the session has seen.
LEMMA SendOrder ==
  ASSUME ChannelsOK, OrderInv, ClientSends
  PROVE  OrderInv'
  <1>. USE WavesType
  <1>1. /\ client'.pending = client.pending /\ client'.next = client.next
        /\ UNCHANGED <<server, toClient, serverBatch, clientState, serverUp>>
        /\ clientState = "up"
    BY TakeEffect DEF ChannelsOK, TypeOK, ClientSends, linkVars, batchVars
  <1>2. /\ Outgoing(client).requests = client.pending
        /\ Outgoing(client).below <= client.next
    BY SettledBelowLeast DEF ChannelsOK, TypeOK, Outgoing, Within
  <1>3. \A f \in toServer' : f \in toServer \/ f = Outgoing(client)
    BY DEF ClientSends, Sent
  <1>4. \A w \in Waves' : w \in Waves \/ w = client.pending
    BY <1>1, <1>2, <1>3 DEF Waves
  <1>5. ASSUME serverUp PROVE SeenInOrder' /\ PendingInOrder'
    <2>. SeenInOrder /\ PendingInOrder  BY <1>1, <1>5 DEF OrderInv
    <2>1. ASSUME NEW calls, OrderedAfter(calls),
                 \A j \in calls : j \in client.pending \/ Seen(server, j)
          PROVE  OrderedAfter(calls)'
      BY <1>1, <1>4, <2>1 DEF OrderedAfter
    <2>2. OrderedAfter(client.pending)'
      <3>. PICK pending : pending = client.pending  OBVIOUS
      <3>1. OrderedAfter(pending)'  BY <2>1 DEF PendingInOrder
      <3>. QED  BY <1>1, <3>1
    <2>3. \A k \in client.pending : k < client.next
      BY DEF ChannelsOK, ChannelOK, CallsIssued
    <2>4. ASSUME NEW w \in Waves'
          PROVE  /\ OrderedAfter(w)'
                 /\ \A k \in w : k < client.next /\ (k \in client.pending \/ Seen(server, k))
      BY <1>4, <2>1, <2>2, <2>3 DEF SeenInOrder, PendingInOrder
    <2>5. SeenInOrder'
      BY <1>1, <1>2, <1>3, <2>4 DEF SeenInOrder
    <2>. QED  BY <1>1, <2>2, <2>4, <2>5 DEF PendingInOrder
  <1>. QED  BY <1>1, <1>5 DEF OrderInv

\* A step of the client starts no handler of the session.
LEMMA ClientQuiet ==
  ASSUME ServerIsCurrent, ServerStartsSeen,
         UNCHANGED <<server, serverUp, conn, serverBatch>>,
         toClient' \subseteq toClient, started'["server"] = started["server"]
  PROVE  ServerIsCurrent' /\ ServerStartsSeen'
  BY DEF ServerIsCurrent, ServerStartsSeen, Current

\* A step of the session that starts no handler.
LEMMA QuietStarts ==
  ASSUME ServerStartsSeen, started' = started, conn' = conn,
         serverUp' => serverUp /\ \A k \in Nat : Seen(server, k) => Seen(server', k),
         ~serverUp' => \/ serverBatch'.requests = {}
                       \/ ~serverUp /\ serverBatch'.requests \subseteq serverBatch.requests
  PROVE  ServerStartsSeen'
  <1>1. Calls \subseteq Nat  BY RpcAssumption DEF Calls
  <1>. QED  BY <1>1 DEF ServerStartsSeen

\* Every step leaves the session's handlers and batch on the current connection.
LEMMA StepServerIsCurrent ==
  ASSUME ChannelsOK, ServerIsCurrent, Next
  PROVE  ServerIsCurrent'
  <1>. USE DEF ChannelsOK, TypeOK
  <1>2. CASE Connect
    <2>1. NewChannel.cached = {} /\ NewChannel.running = {}  BY DEF NewChannel
    <2>. QED  BY <1>2, <2>1 DEF Connect, ServerIsCurrent, Current, ServerIdle, batchVars
  <1>4. CASE ServerEnds
    BY <1>4, AbortEffect DEF ServerEnds, ServerIsCurrent, Current, netVars, batchVars
  <1>6. CASE ServerInvokes
    BY <1>6, InvokeEffect
    DEF ServerInvokes, ServerIsCurrent, Current, AnswersKept, linkVars, netVars, batchVars
  <1>8. ASSUME NEW expired \in SUBSET server.pending, NEW state \in BOOLEAN,
               ServerSends(expired, state)
        PROVE  ServerIsCurrent'
    <2>. DEFINE ticked == TimeoutTick(server, expired)
    <2>1. /\ ticked \in Channels /\ ChannelOK(ticked)
          /\ ticked.cached = server.cached /\ ticked.running = server.running
      BY SettleEffect DEF TimeoutTick, AnswersKept
    <2>. HIDE DEF ticked
    <2>2. /\ toClient' \in Sent(toClient, Outgoing(ticked), MaxToClient)
          /\ server' = TakeOutgoing(ticked)
          /\ UNCHANGED <<conn, serverBatch>>
      BY <1>8 DEF ServerSends, ticked, linkVars, batchVars
    <2>3. server'.cached = server.cached /\ server'.running = server.running
      BY <2>1, <2>2, TakeEffect DEF AnswersKept
    <2>4. Outgoing(ticked).replies \subseteq server.cached
      BY <2>1 DEF Outgoing, ChannelOK, Covered
    <2>5. \A f \in toClient' : f \in toClient \/ f = Outgoing(ticked)
      BY <2>2 DEF Sent
    <2>. QED  BY <2>2, <2>3, <2>4, <2>5 DEF ServerIsCurrent, Current
  <1>9. CASE ServerTimesOut
    BY <1>9, SettleEffect
    DEF ServerTimesOut, TimeoutTick, ServerIsCurrent, Current, AnswersKept, linkVars,
        netVars, batchVars
  <1>10. ASSUME NEW frame \in toServer, ServerReceives(frame)
         PROVE  ServerIsCurrent'
    <2>1. frame.below \in Nat  BY DEF Frames
    <2>2. server'.cached \subseteq server.cached /\ server'.running = server.running
      BY <1>10, <2>1, WatermarkEffect DEF ServerReceives
    <2>3. serverBatch'.conn = conn /\ UNCHANGED <<conn, toClient>>
      BY <1>10 DEF ServerReceives, linkVars
    <2>. QED  BY <2>2, <2>3 DEF ServerIsCurrent, Current
  <1>13. CASE ServerProcesses
    <2>. DEFINE call == First(serverBatch.requests)
    <2>1. call \in Nat  BY <1>13, FirstIsLeast DEF ServerProcesses
    <2>2. serverBatch.conn = conn  BY <1>13 DEF ServerProcesses, ServerIsCurrent
    <2>. HIDE DEF call
    <2>3. \/ ~IsNew(server, call) /\ server' = ProcessCopy(server, call)
          \/ IsNew(server, call) /\ server' = RejectUnknown(server, call, serverBatch.conn)
      BY <1>13 DEF ServerProcesses, call
    <2>. DEFINE reply == [call |-> call, conn |-> serverBatch.conn]
    <2>4. server'.running = server.running /\ server'.cached \subseteq server.cached \cup {reply}
      BY <2>1, <2>3, ProcessEffect
    <2>5. reply.conn = conn  BY <2>2
    <2>. HIDE DEF reply
    <2>6. /\ serverBatch'.conn = serverBatch.conn
          /\ UNCHANGED <<conn, toClient>>
      BY <1>13 DEF ServerProcesses, Batches, linkVars, netVars
    <2>. QED  BY <2>2, <2>4, <2>5, <2>6 DEF ServerIsCurrent, Current
  <1>14. ASSUME NEW closes \in MayClose("server"), ServerStarts(closes)
         PROVE  ServerIsCurrent'
    <2>. DEFINE call == First(serverBatch.requests)
    <2>0. PICK run : run = StartHandler(server, call, serverBatch.conn)  OBVIOUS
    <2>1. call \in Nat  BY <1>14, FirstIsLeast DEF ServerStarts
    <2>2. serverBatch.conn = conn  BY <1>14 DEF ServerStarts, ServerIsCurrent
    <2>. HIDE DEF call
    <2>3. run \in Channels /\ ChannelOK(run)  BY <2>0, <2>1, StartSound
    <2>4. /\ run.cached = server.cached
          /\ \A r \in run.running : r \in server.running \/ r.conn = conn
      BY <2>0, <2>1, <2>2, StartEffect
    <2>5. server' = IF closes THEN AbortPending(run) ELSE run
      BY <1>14, <2>0 DEF ServerStarts, call
    <2>6. server'.cached \subseteq run.cached /\ server'.running = run.running
      BY <2>3, <2>5, AbortEffect
    <2>7. /\ serverBatch'.conn = serverBatch.conn
          /\ UNCHANGED <<conn, toClient>>
      BY <1>14 DEF ServerStarts, Batches, netVars
    <2>. QED  BY <2>2, <2>4, <2>6, <2>7 DEF ServerIsCurrent, Current
  <1>15. CASE ServerSettles
    <2>1. NoBatch.requests = {}  BY DEF NoBatch
    <2>2. server'.cached = server.cached /\ server'.running = server.running
      BY <1>15, SettleEffect DEF ServerSettles, AnswersKept
    <2>. QED
      BY <1>15, <2>1, <2>2 DEF ServerSettles, ServerIsCurrent, Current, linkVars, netVars
  <1>18. ASSUME NEW call \in Calls, ServerHandlerSettles(call)
         PROVE  ServerIsCurrent'
    <2>. PICK run \in server.running : server' = HandlerSettles(server, run)
      BY <1>18 DEF ServerHandlerSettles
    <2>1. run.conn = conn  BY DEF ServerIsCurrent, Current
    <2>2. /\ server'.running \subseteq server.running
          /\ \A r \in server'.cached : r \in server.cached \/ r.conn = run.conn
      BY HandlerEffect
    <2>. QED
      BY <1>18, <2>1, <2>2
      DEF ServerHandlerSettles, ServerIsCurrent, Current, linkVars, netVars, batchVars
  <1>20. CASE ClientStep
    <2>1. UNCHANGED <<server, conn, serverBatch>> /\ toClient' \subseteq toClient
      BY <1>20
      DEF ClientStep, ClientDisconnects, ClientInvokes, ClientSends, ClientReceives,
          ClientPulls, ClientProcesses, ClientStarts, ClientHandlerSettles, Arrived,
          channelVars, linkVars, netVars, batchVars
    <2>. QED  BY <2>1 DEF ServerIsCurrent, Current
  <1>. QED
    BY <1>2, <1>4, <1>6, <1>8, <1>9, <1>10, <1>13, <1>14, <1>15, <1>18, <1>20
    DEF Next, ServerStep

\* Every step keeps what the session has yet to see in order.
LEMMA StepOrder ==
  ASSUME ChannelsOK, OrderInv, Next
  PROVE  OrderInv'
  <1>. USE DEF ChannelsOK, TypeOK
  <1>2. CASE Connect
    <2>1. /\ toServer' = {} /\ toClient' = {} /\ serverBatch'.requests = {}
          /\ server' = NewChannel
      BY <1>2 DEF Connect, ServerIdle, batchVars
    <2>2. \A w \in Waves' : w = {}  BY <2>1 DEF Waves
    <2>3. \A k \in Nat : ~Seen(server', k)  BY <2>1, NewEffect
    <2>4. \A k \in client'.pending : k \in Nat
      BY <1>2, WavesType DEF Connect
    <2>. QED
      BY <2>1, <2>2, <2>3, <2>4 DEF OrderInv, SeenInOrder, PendingInOrder, OrderedAfter
  <1>3. CASE ClientDisconnects
    <2>1. client'.next = client.next /\ client'.pending = {}
      BY <1>3, AbortEffect DEF ClientDisconnects
    <2>2. /\ clientState' = "down"
          /\ UNCHANGED <<server, serverUp, toServer, toClient, serverBatch>>
      BY <1>3 DEF ClientDisconnects, ClientForgets, netVars
    <2>3. Waves' = Waves  BY <2>2 DEF Waves
    <2>. QED  BY <2>1, <2>2, <2>3, QuietOrder
  <1>4. CASE ServerEnds
    BY <1>4 DEF ServerEnds, OrderInv
  <1>5. CASE ClientInvokes
    BY <1>5, InvokeOrder
  <1>6. CASE ServerInvokes
    <2>1. \A k \in Nat : Seen(server', k) <=> Seen(server, k)
      BY <1>6, InvokeEffect DEF ServerInvokes
    <2>2. UNCHANGED <<client, clientState, serverUp, toServer, toClient, serverBatch>>
      BY <1>6 DEF ServerInvokes, linkVars, netVars, batchVars
    <2>3. Waves' = Waves  BY <2>2 DEF Waves
    <2>. QED  BY <2>1, <2>2, <2>3, QuietOrder
  <1>7. CASE ClientSends
    BY <1>7, SendOrder
  <1>8. ASSUME NEW expired \in SUBSET server.pending, NEW state \in BOOLEAN,
               ServerSends(expired, state)
        PROVE  OrderInv'
    <2>. DEFINE ticked == TimeoutTick(server, expired)
    <2>1. /\ ticked \in Channels /\ ChannelOK(ticked)
          /\ ticked.cached = server.cached
          /\ \A k \in Nat : Seen(ticked, k) <=> Seen(server, k)
      BY SettleEffect DEF TimeoutTick, AnswersKept
    <2>. HIDE DEF ticked
    <2>2. /\ toClient' \in Sent(toClient, Outgoing(ticked), MaxToClient)
          /\ server' = TakeOutgoing(ticked)
          /\ UNCHANGED <<client, clientState, serverUp, toServer, serverBatch>>
      BY <1>8 DEF ServerSends, ticked, linkVars, batchVars
    <2>3. \A k \in Nat : Seen(server', k) <=> Seen(server, k)
      BY <2>1, <2>2, TakeEffect
    <2>4. \A r \in Outgoing(ticked).replies : r.call \in Nat /\ Seen(server, r.call)
      <3>1. Outgoing(ticked).replies \subseteq server.cached
        BY <2>1 DEF Outgoing, ChannelOK, Covered
      <3>2. \A r \in server.cached : r.call \in Nat  BY DEF Channels, Replies
      <3>. QED  BY <3>1, <3>2, SeenIff
    <2>5. \A f \in toClient' : f \in toClient \/ f = Outgoing(ticked)
      BY <2>2 DEF Sent
    <2>6. Waves' = Waves  BY <2>2 DEF Waves
    <2>. QED  BY <2>2, <2>3, <2>4, <2>5, <2>6, QuietOrder
  <1>9. CASE ServerTimesOut
    <2>1. \A k \in Nat : Seen(server', k) <=> Seen(server, k)
      BY <1>9, SettleEffect DEF ServerTimesOut, TimeoutTick
    <2>2. UNCHANGED <<client, clientState, serverUp, toServer, toClient, serverBatch>>
      BY <1>9 DEF ServerTimesOut, linkVars, netVars, batchVars
    <2>3. Waves' = Waves  BY <2>2 DEF Waves
    <2>. QED  BY <2>1, <2>2, <2>3, QuietOrder
  <1>10. ASSUME NEW frame \in toServer, ServerReceives(frame)
         PROVE  OrderInv'
    BY <1>10, ReceiveOrder
  <1>11. ASSUME NEW frame \in toClient, ClientReceives(frame)
         PROVE  OrderInv'
    <2>. DEFINE below   == SetPeerSettledBelow(client, frame.below)
                settled == {r.call : r \in frame.replies}
    <2>1. /\ below \in Channels /\ ChannelOK(below)
          /\ CallsKept(client, below)
      BY WatermarkEffect DEF Frames
    <2>. HIDE DEF below
    <2>2. client' = [below EXCEPT !.pending = @ \ settled]
      BY <1>11 DEF ClientReceives, below
    <2>3. client'.pending = client.pending \ settled /\ client'.next = client.next
      BY <2>1, <2>2, SettleEffect DEF CallsKept
    <2>4. /\ UNCHANGED <<server, clientState, serverUp, toServer, serverBatch>>
          /\ toClient' \subseteq toClient
      BY <1>11 DEF ClientReceives, Arrived, linkVars
    <2>5. serverUp => \A k \in settled : Seen(server, k)
      BY DEF OrderInv, SeenInOrder
    <2>. HIDE DEF settled
    <2>6. Waves' = Waves  BY <2>4 DEF Waves
    <2>. QED  BY <2>3, <2>4, <2>5, <2>6, QuietOrder
  <1>12. CASE ClientPulls
    <2>1. UNCHANGED <<client, server, clientState, serverUp, toServer, toClient, serverBatch>>
      BY <1>12 DEF ClientPulls, channelVars, linkVars, netVars
    <2>2. Waves' = Waves  BY <2>1 DEF Waves
    <2>. QED  BY <2>1, <2>2, QuietOrder
  <1>13. CASE ServerProcesses
    <2>. DEFINE call == First(serverBatch.requests)
    <2>1. /\ call \in Nat /\ call \in serverBatch.requests
          /\ \A o \in serverBatch.requests : call <= o
      BY <1>13, FirstIsLeast DEF ServerProcesses
    <2>2. serverBatch'.requests = serverBatch.requests \ {call}
      BY <1>13 DEF ServerProcesses, Batches
    <2>. HIDE DEF call
    <2>3. \/ ~IsNew(server, call) /\ server' = ProcessCopy(server, call)
          \/ IsNew(server, call) /\ server' = RejectUnknown(server, call, serverBatch.conn)
      BY <1>13 DEF ServerProcesses, call
    <2>4. \A k \in Nat : Seen(server', k) <=> Seen(server, k) \/ k = call
      BY <2>1, <2>3, ProcessEffect
    <2>5. UNCHANGED <<client, clientState, serverUp, toServer, toClient>>
      BY <1>13 DEF ServerProcesses, linkVars, netVars
    <2>6. CASE serverUp  BY <2>1, <2>2, <2>4, <2>5, <2>6, SeeingOrder
    <2>7. CASE ~serverUp  BY <2>5, <2>7 DEF OrderInv
    <2>. QED  BY <2>6, <2>7
  <1>14. ASSUME NEW closes \in MayClose("server"), ServerStarts(closes)
         PROVE  OrderInv'
    <2>. DEFINE call == First(serverBatch.requests)
    <2>1. /\ call \in Nat /\ call \in serverBatch.requests
          /\ \A o \in serverBatch.requests : call <= o
      BY <1>14, FirstIsLeast DEF ServerStarts
    <2>2. serverBatch'.requests = serverBatch.requests \ {call}
      BY <1>14 DEF ServerStarts, Batches
    <2>3. ~closes => server' = StartHandler(server, call, serverBatch.conn)
      BY <1>14 DEF ServerStarts
    <2>. HIDE DEF call
    <2>4. ~closes => \A k \in Nat : Seen(server', k) <=> Seen(server, k) \/ k = call
      BY <2>1, <2>3, StartEffect
    <2>5. /\ UNCHANGED <<client, clientState, toServer, toClient>>
          /\ serverUp' = (serverUp /\ ~closes)
      BY <1>14 DEF ServerStarts, netVars
    <2>6. CASE serverUp /\ ~closes  BY <2>1, <2>2, <2>4, <2>5, <2>6, SeeingOrder
    <2>7. CASE ~(serverUp /\ ~closes)  BY <2>5, <2>7 DEF OrderInv
    <2>. QED  BY <2>6, <2>7
  <1>15. CASE ServerSettles
    <2>1. \A k \in Nat : Seen(server', k) <=> Seen(server, k)
      BY <1>15, SettleEffect DEF ServerSettles
    <2>2. /\ UNCHANGED <<client, clientState, serverUp, toServer, toClient>>
          /\ serverBatch'.requests = serverBatch.requests
      BY <1>15 DEF ServerSettles, NoBatch, linkVars, netVars
    <2>3. Waves' = Waves  BY <2>2 DEF Waves
    <2>. QED  BY <2>1, <2>2, <2>3, QuietOrder
  <1>16. CASE ClientProcesses
    <2>. DEFINE call == First(clientBatch.requests)
    <2>1. call \in Nat  BY <1>16, FirstIsLeast DEF ClientProcesses
    <2>. HIDE DEF call
    <2>2. \/ ~IsNew(client, call) /\ client' = ProcessCopy(client, call)
          \/ IsNew(client, call) /\ client' = RejectUnknown(client, call, clientBatch.conn)
      BY <1>16 DEF ClientProcesses, call
    <2>3. client'.next = client.next /\ client'.pending = client.pending
      BY <2>1, <2>2, ProcessEffect DEF CallsKept
    <2>4. UNCHANGED <<server, clientState, serverUp, toServer, toClient, serverBatch>>
      BY <1>16 DEF ClientProcesses, linkVars, netVars
    <2>5. Waves' = Waves  BY <2>4 DEF Waves
    <2>. QED  BY <2>3, <2>4, <2>5, QuietOrder
  <1>17. ASSUME NEW closes \in MayClose("client"), ClientStarts(closes)
         PROVE  OrderInv'
    <2>. DEFINE call == First(clientBatch.requests)
    <2>0. PICK run : run = StartHandler(client, call, clientBatch.conn)  OBVIOUS
    <2>1. call \in Nat  BY <1>17, FirstIsLeast DEF ClientStarts
    <2>. HIDE DEF call
    <2>2. run \in Channels /\ ChannelOK(run)  BY <2>0, <2>1, StartSound
    <2>3. run.next = client.next /\ run.pending = client.pending
      BY <2>0, <2>1, StartEffect DEF CallsKept
    <2>4. \/ clientState' = "down" /\ client' = AbortPending(run)
          \/ clientState' = clientState /\ client' = run
      BY <1>17, <2>0 DEF ClientStarts, ClientForgets, call
    <2>5. /\ client'.next = client.next
          /\ client'.pending \subseteq client.pending
          /\ clientState' = "up" => clientState = "up" /\ client'.pending = client.pending
      BY <2>2, <2>3, <2>4, AbortEffect
    <2>6. UNCHANGED <<server, serverUp, toServer, toClient, serverBatch>>
      BY <1>17 DEF ClientStarts, netVars
    <2>7. Waves' = Waves  BY <2>6 DEF Waves
    <2>. QED  BY <2>5, <2>6, <2>7, QuietOrder
  <1>18. ASSUME NEW call \in Calls, ServerHandlerSettles(call)
         PROVE  OrderInv'
    <2>1. \A k \in Nat : Seen(server', k) <=> Seen(server, k)
      BY <1>18, HandlerEffect DEF ServerHandlerSettles
    <2>2. UNCHANGED <<client, clientState, serverUp, toServer, toClient, serverBatch>>
      BY <1>18 DEF ServerHandlerSettles, linkVars, netVars, batchVars
    <2>3. Waves' = Waves  BY <2>2 DEF Waves
    <2>. QED  BY <2>1, <2>2, <2>3, QuietOrder
  <1>19. ASSUME NEW call \in Calls, ClientHandlerSettles(call)
         PROVE  OrderInv'
    <2>1. client'.next = client.next /\ client'.pending = client.pending
      BY <1>19, HandlerEffect DEF ClientHandlerSettles, CallsKept
    <2>2. UNCHANGED <<server, clientState, serverUp, toServer, toClient, serverBatch>>
      BY <1>19 DEF ClientHandlerSettles, linkVars, netVars, batchVars
    <2>3. Waves' = Waves  BY <2>2 DEF Waves
    <2>. QED  BY <2>1, <2>2, <2>3, QuietOrder
  <1>. QED
    BY <1>2, <1>3, <1>4, <1>5, <1>6, <1>7, <1>8, <1>9, <1>10, <1>11, <1>12, <1>13, <1>14,
       <1>15, <1>16, <1>17, <1>18, <1>19
    DEF Next, ServerStep, ClientStep

\* Every step leaves each call started at most once, and seen once started.
LEMMA StepServerStarts ==
  ASSUME ChannelsOK, ServerInv, Next
  PROVE  ServerStartsSeen'
  <1>. USE DEF ChannelsOK, TypeOK, ServerInv
  <1>0. Calls \subseteq Nat  BY RpcAssumption DEF Calls
  <1>2. CASE Connect
    <2>1. /\ conn' = conn + 1 /\ conn' \in 0..MaxConnections /\ conn' > conn
          /\ started' = started
      BY <1>2, RpcAssumption DEF Connect
    <2>2. ASSUME NEW k \in Calls, NEW c \in 0..MaxConnections
          PROVE  /\ started["server"][c][k] <= 1
                 /\ c > conn' => started["server"][c][k] = 0
      BY <2>1 DEF ServerStartsSeen
    <2>3. \A k \in Calls : started["server"][conn'][k] = 0
      BY <2>1 DEF ServerStartsSeen
    <2>. QED  BY <2>1, <2>2, <2>3 DEF ServerStartsSeen
  <1>4. CASE ServerEnds
    BY <1>4, QuietStarts DEF ServerEnds, ServerIdle, batchVars
  <1>6. CASE ServerInvokes
    <2>1. \A k \in Nat : Seen(server', k) <=> Seen(server, k)
      BY <1>6, InvokeEffect DEF ServerInvokes
    <2>. QED  BY <1>6, <2>1, QuietStarts DEF ServerInvokes, linkVars, batchVars
  <1>8. ASSUME NEW expired \in SUBSET server.pending, NEW state \in BOOLEAN,
               ServerSends(expired, state)
        PROVE  ServerStartsSeen'
    <2>. DEFINE ticked == TimeoutTick(server, expired)
    <2>1. /\ ticked \in Channels /\ ChannelOK(ticked)
          /\ \A k \in Nat : Seen(ticked, k) <=> Seen(server, k)
      BY SettleEffect DEF TimeoutTick
    <2>. HIDE DEF ticked
    <2>2. /\ server' = TakeOutgoing(ticked)
          /\ UNCHANGED <<serverUp, conn, serverBatch, started>>
      BY <1>8 DEF ServerSends, ticked, linkVars, batchVars
    <2>3. \A k \in Nat : Seen(server', k) <=> Seen(server, k)
      BY <2>1, <2>2, TakeEffect
    <2>. QED  BY <2>2, <2>3, QuietStarts
  <1>9. CASE ServerTimesOut
    <2>1. \A k \in Nat : Seen(server', k) <=> Seen(server, k)
      BY <1>9, SettleEffect DEF ServerTimesOut, TimeoutTick
    <2>. QED  BY <1>9, <2>1, QuietStarts DEF ServerTimesOut, linkVars, batchVars
  <1>10. ASSUME NEW frame \in toServer, ServerReceives(frame)
         PROVE  ServerStartsSeen'
    <2>1. \A k \in Nat : Seen(server', k) <=> Seen(server, k) \/ k < frame.below
      BY <1>10, WatermarkEffect DEF ServerReceives, Frames
    <2>. QED  BY <1>10, <2>1, QuietStarts DEF ServerReceives, linkVars
  <1>13. CASE ServerProcesses
    <2>. DEFINE call == First(serverBatch.requests)
    <2>1. call \in Nat  BY <1>13, FirstIsLeast DEF ServerProcesses
    <2>2. serverBatch'.requests \subseteq serverBatch.requests
      BY <1>13 DEF ServerProcesses, Batches
    <2>. HIDE DEF call
    <2>3. \/ ~IsNew(server, call) /\ server' = ProcessCopy(server, call)
          \/ IsNew(server, call) /\ server' = RejectUnknown(server, call, serverBatch.conn)
      BY <1>13 DEF ServerProcesses, call
    <2>4. \A k \in Nat : Seen(server', k) <=> Seen(server, k) \/ k = call
      BY <2>1, <2>3, ProcessEffect
    <2>. QED  BY <1>13, <2>2, <2>4, QuietStarts DEF ServerProcesses, linkVars
  <1>14. ASSUME NEW closes \in MayClose("server"), ServerStarts(closes)
         PROVE  ServerStartsSeen'
    <2>. DEFINE call == First(serverBatch.requests)
    <2>1. /\ call \in Nat /\ call \in serverBatch.requests
          /\ \A o \in serverBatch.requests : call <= o /\ o \in Nat
      BY <1>14, FirstIsLeast DEF ServerStarts
    <2>2. serverBatch.conn = conn  BY <1>14 DEF ServerStarts, ServerIsCurrent
    <2>3. /\ serverBatch'.requests = serverBatch.requests \ {call}
          /\ ~Seen(server, call)
          /\ ~closes => server' = StartHandler(server, call, serverBatch.conn)
          /\ started' = Counted("server", conn, call)
          /\ conn' = conn /\ serverUp' = (serverUp /\ ~closes)
      BY <1>14, <2>2 DEF ServerStarts, Batches, Seen, Counted
    <2>. HIDE DEF call
    <2>4. ~closes => \A k \in Nat : Seen(server', k) <=> Seen(server, k) \/ k = call
      BY <2>1, <2>3, StartEffect
    <2>5. ASSUME NEW d \in 0..MaxConnections, NEW j \in Calls
          PROVE  /\ started["server"][d][j] \in Nat
                 /\ started'["server"][d][j] =
                      IF d = conn /\ j = call THEN started["server"][d][j] + 1
                                             ELSE started["server"][d][j]
      BY <2>3, CountedEffect
    <2>6. call \in Calls => started["server"][conn][call] = 0
      BY <2>1, <2>3, <2>5 DEF ServerStartsSeen
    <2>7. ASSUME NEW k \in Calls, NEW c \in 0..MaxConnections
          PROVE  /\ started'["server"][c][k] <= 1
                 /\ c > conn' => started'["server"][c][k] = 0
      BY <2>3, <2>5, <2>6 DEF ServerStartsSeen
    <2>8. ASSUME NEW k \in Calls, started'["server"][conn'][k] > 0, serverUp'
          PROVE  Seen(server', k)
      <3>1. conn \in 0..MaxConnections /\ k \in Nat  BY <1>0, RpcAssumption
      <3>2. k = call \/ started["server"][conn][k] > 0  BY <2>3, <2>5, <2>8, <3>1
      <3>3. ~closes /\ (k = call \/ Seen(server, k))
        BY <2>3, <2>8, <3>2 DEF ServerStartsSeen
      <3>. QED  BY <2>4, <3>1, <3>3
    <2>9. ASSUME NEW k \in Calls, started'["server"][conn'][k] > 0, ~serverUp',
                 k \in serverBatch'.requests
          PROVE  FALSE
      <3>1. k # call /\ k \in serverBatch.requests /\ call < k  BY <2>1, <2>3, <2>9
      <3>2. started["server"][conn][k] > 0  BY <2>3, <2>5, <2>9, <3>1
      <3>3. serverUp /\ Seen(server, k)  BY <3>1, <3>2 DEF ServerStartsSeen
      <3>4. OrderedAfter(serverBatch.requests)
        BY <3>3 DEF OrderInv, SeenInOrder, Waves
      <3>. QED  BY <2>1, <2>3, <3>1, <3>3, <3>4 DEF OrderedAfter
    <2>. QED  BY <2>7, <2>8, <2>9 DEF ServerStartsSeen
  <1>15. CASE ServerSettles
    <2>1. \A k \in Nat : Seen(server', k) <=> Seen(server, k)
      BY <1>15, SettleEffect DEF ServerSettles
    <2>2. serverBatch'.requests = {}  BY <1>15 DEF ServerSettles, NoBatch
    <2>. QED  BY <1>15, <2>1, <2>2, QuietStarts DEF ServerSettles, linkVars
  <1>18. ASSUME NEW call \in Calls, ServerHandlerSettles(call)
         PROVE  ServerStartsSeen'
    <2>1. \A k \in Nat : Seen(server', k) <=> Seen(server, k)
      BY <1>18, HandlerEffect DEF ServerHandlerSettles
    <2>. QED  BY <1>18, <2>1, QuietStarts DEF ServerHandlerSettles, linkVars, batchVars
  <1>20. CASE ClientStep
    <2>1. UNCHANGED <<server, serverUp, conn, serverBatch>> /\ toClient' \subseteq toClient
      BY <1>20
      DEF ClientStep, ClientDisconnects, ClientInvokes, ClientSends, ClientReceives,
          ClientPulls, ClientProcesses, ClientStarts, ClientHandlerSettles, Arrived,
          channelVars, linkVars, netVars, batchVars
    <2>2. ASSUME NEW closes \in MayClose("client"), ClientStarts(closes)
          PROVE  started'["server"] = started["server"]
      BY <2>2 DEF ClientStarts, Counts
    <2>3. started' = started \/ \E closes \in MayClose("client") : ClientStarts(closes)
      BY <1>20
      DEF ClientStep, ClientDisconnects, ClientInvokes, ClientSends, ClientReceives,
          ClientPulls, ClientProcesses, ClientHandlerSettles, batchVars
    <2>. QED  BY <2>1, <2>2, <2>3, ClientQuiet
  <1>. QED
    BY <1>2, <1>4, <1>6, <1>8, <1>9, <1>10, <1>13, <1>14, <1>15, <1>18, <1>20
    DEF Next, ServerStep

\* Every step keeps the invariant of the session.
LEMMA StepServer ==
  ChannelsOK /\ ServerInv /\ [Next]_vars => ServerInv'
  <1>. SUFFICES ASSUME ChannelsOK, ServerInv, [Next]_vars PROVE ServerInv'
    OBVIOUS
  <1>1. CASE Next
    BY <1>1, StepServerIsCurrent, StepOrder, StepServerStarts DEF ServerInv
  <1>2. CASE UNCHANGED vars
    BY <1>2
    DEF vars, runVars, channelVars, linkVars, netVars, batchVars, ServerInv,
        ServerIsCurrent, Current, OrderInv, SeenInOrder, PendingInOrder, OrderedAfter,
        Waves, ServerStartsSeen
  <1>. QED  BY <1>1, <1>2

\* A session starts the handler of no call twice.
ServerRunsOnce ==
  \A c \in 0..MaxConnections, k \in Calls : started["server"][c][k] <= 1

(***************************************************************************)
(* A session starts the handler of a call at most once, whatever the       *)
(* channel loses, repeats or reorders, also when a handler ends the        *)
(* session while the rest of its batch is still to be processed, and       *)
(* whatever the client's handlers do.                                      *)
(***************************************************************************)
THEOREM SessionRunsOnce == Spec => []ServerRunsOnce
  <1>1. ServerInv => ServerRunsOnce  BY DEF ServerInv, ServerStartsSeen, ServerRunsOnce
  <1>. QED
    BY <1>1, InitChannels, StepChannels, InitServer, StepServer, PTL DEF Spec

-----------------------------------------------------------------------------
(* The client's half.  Its channel outlives a connection, so what it has    *)
(* seen is of the current one only if no handler may close the client in    *)
(* the middle of a batch: the rest of that batch would be processed by a    *)
(* channel that has forgotten the peer (client_world.ts:854).               *)

\* A batch and what waits for one are of the current, living connection.
BatchIsCurrent ==
  /\ clientBatch.requests # {} => clientState = "up" /\ clientBatch.conn = conn
  /\ inbox # {} => clientState = "up"

\* Nothing the client holds or sends is of an earlier connection, but for the
\* handlers that started on one.
ClientIsCurrent ==
  /\ clientState # "up" => client.cached = {}
  /\ Current(client.cached)
  /\ \A run \in client.running :
       run.epoch = client.epoch => run.conn = conn /\ clientState = "up"
  /\ \A f \in toServer : Current(f.replies)

ClientStartsSeen ==
  \A k \in Calls :
    /\ \A c \in 0..MaxConnections :
         /\ started["client"][c][k] <= 1
         /\ c > conn => started["client"][c][k] = 0
    /\ clientState = "up" /\ started["client"][conn][k] > 0 => Seen(client, k)

ClientInv == BatchIsCurrent /\ ClientIsCurrent /\ ClientStartsSeen

\* The initial states satisfy the invariant of the client.
LEMMA InitClient == Init => ClientInv
  <1>. SUFFICES ASSUME Init PROVE ClientInv
    OBVIOUS
  <1>1. NoBatch.requests = {} /\ NewChannel.cached = {} /\ NewChannel.running = {}
    BY DEF NoBatch, NewChannel
  <1>2. BatchIsCurrent /\ ClientIsCurrent
    BY <1>1 DEF Init, BatchIsCurrent, ClientIsCurrent, Current
  <1>3. ClientStartsSeen  BY RpcAssumption DEF Init, ClientStartsSeen
  <1>. QED  BY <1>2, <1>3 DEF ClientInv

\* A step of the session does nothing to what the client holds.
LEMMA ServerQuiet ==
  ASSUME ChannelsOK, ClientInv, ServerStep
  PROVE  ClientInv'
  <1>1. UNCHANGED <<client, clientState, conn, inbox, clientBatch>> /\ toServer' \subseteq toServer
    BY DEF ServerStep, ServerEnds, ServerInvokes, ServerSends, ServerTimesOut, ServerReceives,
           ServerProcesses, ServerStarts, ServerSettles, ServerHandlerSettles, Arrived,
           linkVars, netVars, batchVars
  <1>2. ASSUME NEW closes \in MayClose("server"), ServerStarts(closes)
        PROVE  started'["client"] = started["client"]
    BY <1>2 DEF ServerStarts, ChannelsOK, Counts
  <1>3. started' = started \/ \E closes \in MayClose("server") : ServerStarts(closes)
    BY DEF ServerStep, ServerEnds, ServerInvokes, ServerSends, ServerTimesOut, ServerReceives,
           ServerProcesses, ServerSettles, ServerHandlerSettles, batchVars
  <1>4. started'["client"] = started["client"]  BY <1>2, <1>3
  <1>. QED
    BY <1>1, <1>4 DEF ClientInv, BatchIsCurrent, ClientIsCurrent, ClientStartsSeen, Current

\* Every step leaves the client's batch on the current connection.
LEMMA StepBatchIsCurrent ==
  ASSUME "client" \notin Closers, ChannelsOK, BatchIsCurrent, Connect \/ ClientStep
  PROVE  BatchIsCurrent'
  <1>. USE DEF BatchIsCurrent
  <1>2. CASE Connect
    BY <1>2 DEF Connect, ClientIdle, batchVars
  <1>3. CASE ClientDisconnects
    BY <1>3 DEF ClientDisconnects, ClientForgets, ClientIdle
  <1>5. CASE ClientInvokes
    BY <1>5 DEF ClientInvokes, linkVars, batchVars
  <1>7. CASE ClientSends
    BY <1>7 DEF ClientSends, linkVars, batchVars
  <1>11. ASSUME NEW frame \in toClient, ClientReceives(frame)
         PROVE  BatchIsCurrent'
    BY <1>11 DEF ClientReceives, linkVars
  <1>12. CASE ClientPulls
    BY <1>12 DEF ClientPulls, linkVars
  <1>16. CASE ClientProcesses
    BY <1>16 DEF ClientProcesses, ChannelsOK, Batches, linkVars
  <1>17. ASSUME NEW closes \in MayClose("client"), ClientStarts(closes)
         PROVE  BatchIsCurrent'
    <2>1. ~closes  BY DEF MayClose
    <2>. QED  BY <1>17, <2>1 DEF ClientStarts, ChannelsOK, Batches
  <1>19. ASSUME NEW call \in Calls, ClientHandlerSettles(call)
         PROVE  BatchIsCurrent'
    BY <1>19 DEF ClientHandlerSettles, linkVars, batchVars
  <1>. QED
    BY <1>2, <1>3, <1>5, <1>7, <1>11, <1>12, <1>16, <1>17, <1>19 DEF ClientStep

\* Every step leaves the client's handlers and replies on the current connection.
LEMMA StepClientIsCurrent ==
  ASSUME "client" \notin Closers, ChannelsOK, BatchIsCurrent, ClientIsCurrent,
         Connect \/ ClientStep
  PROVE  ClientIsCurrent'
  <1>. USE DEF ChannelsOK, TypeOK
  <1>2. CASE Connect
    BY <1>2 DEF Connect, ClientIsCurrent, Current
  <1>3. CASE ClientDisconnects
    BY <1>3, AbortEffect
    DEF ClientDisconnects, ClientForgets, ClientIsCurrent, Current, netVars
  <1>5. CASE ClientInvokes
    BY <1>5, InvokeEffect
    DEF ClientInvokes, ClientIsCurrent, Current, AnswersKept, linkVars, netVars
  <1>7. CASE ClientSends
    <2>1. client'.cached = client.cached /\ client'.running = client.running
          /\ client'.epoch = client.epoch
      BY <1>7, TakeEffect DEF ClientSends, AnswersKept
    <2>2. Outgoing(client).replies \subseteq client.cached
      BY DEF Outgoing, ChannelOK, Covered
    <2>3. \A f \in toServer' : f \in toServer \/ f = Outgoing(client)
      BY <1>7 DEF ClientSends, Sent
    <2>4. UNCHANGED <<clientState, conn>>  BY <1>7 DEF ClientSends, linkVars
    <2>. QED  BY <2>1, <2>2, <2>3, <2>4 DEF ClientIsCurrent, Current
  <1>11. ASSUME NEW frame \in toClient, ClientReceives(frame)
         PROVE  ClientIsCurrent'
    <2>. DEFINE below   == SetPeerSettledBelow(client, frame.below)
                settled == {r.call : r \in frame.replies}
    <2>1. /\ below \in Channels /\ ChannelOK(below)
          /\ below.cached \subseteq client.cached
          /\ below.running = client.running /\ below.epoch = client.epoch
      BY WatermarkEffect DEF Frames
    <2>. HIDE DEF below
    <2>2. client' = [below EXCEPT !.pending = @ \ settled]
      BY <1>11 DEF ClientReceives, below
    <2>3. /\ client'.cached \subseteq client.cached
          /\ client'.running = client.running /\ client'.epoch = client.epoch
      BY <2>1, <2>2, SettleEffect DEF AnswersKept
    <2>4. UNCHANGED <<clientState, conn, toServer>>
      BY <1>11 DEF ClientReceives, linkVars
    <2>. QED  BY <2>3, <2>4 DEF ClientIsCurrent, Current
  <1>12. CASE ClientPulls
    BY <1>12 DEF ClientPulls, ClientIsCurrent, Current, channelVars, linkVars, netVars
  <1>16. CASE ClientProcesses
    <2>. DEFINE call == First(clientBatch.requests)
    <2>1. call \in Nat  BY <1>16, FirstIsLeast DEF ClientProcesses
    <2>2. clientBatch.conn = conn /\ clientState = "up"
      BY <1>16 DEF ClientProcesses, BatchIsCurrent
    <2>. HIDE DEF call
    <2>3. \/ ~IsNew(client, call) /\ client' = ProcessCopy(client, call)
          \/ IsNew(client, call) /\ client' = RejectUnknown(client, call, clientBatch.conn)
      BY <1>16 DEF ClientProcesses, call
    <2>. DEFINE reply == [call |-> call, conn |-> clientBatch.conn]
    <2>4. /\ client'.running = client.running /\ client'.epoch = client.epoch
          /\ client'.cached \subseteq client.cached \cup {reply}
      BY <2>1, <2>3, ProcessEffect
    <2>5. reply.conn = conn  BY <2>2
    <2>. HIDE DEF reply
    <2>6. UNCHANGED <<conn, clientState, toServer>>
      BY <1>16 DEF ClientProcesses, linkVars, netVars
    <2>. QED  BY <2>2, <2>4, <2>5, <2>6 DEF ClientIsCurrent, Current
  <1>17. ASSUME NEW closes \in MayClose("client"), ClientStarts(closes)
         PROVE  ClientIsCurrent'
    <2>. DEFINE call == First(clientBatch.requests)
    <2>0. ~closes  BY DEF MayClose
    <2>1. call \in Nat  BY <1>17, FirstIsLeast DEF ClientStarts
    <2>2. clientBatch.conn = conn /\ clientState = "up"
      BY <1>17 DEF ClientStarts, BatchIsCurrent
    <2>. HIDE DEF call
    <2>3. client' = StartHandler(client, call, clientBatch.conn)
      BY <1>17, <2>0 DEF ClientStarts, call
    <2>. DEFINE run == [call |-> call, conn |-> clientBatch.conn, epoch |-> client.epoch]
    <2>4. /\ client'.cached = client.cached /\ client'.epoch = client.epoch
          /\ \A r \in client'.running : r \in client.running \/ r.conn = conn
      <3>1. /\ client'.cached = client.cached /\ client'.epoch = client.epoch
            /\ client'.running = client.running \cup {run}
        BY <2>3 DEF StartHandler, Channels
      <3>. QED  BY <2>2, <3>1
    <2>5. UNCHANGED <<conn, clientState, toServer>>
      BY <1>17, <2>0 DEF ClientStarts, netVars
    <2>. QED  BY <2>2, <2>4, <2>5 DEF ClientIsCurrent, Current
  <1>19. ASSUME NEW call \in Calls, ClientHandlerSettles(call)
         PROVE  ClientIsCurrent'
    <2>. PICK run \in client.running : client' = HandlerSettles(client, run)
      BY <1>19 DEF ClientHandlerSettles
    <2>1. /\ client'.running \subseteq client.running /\ client'.epoch = client.epoch
          /\ \A r \in client'.cached :
               r \in client.cached \/ (r.conn = run.conn /\ run.epoch = client.epoch)
      BY HandlerEffect
    <2>2. UNCHANGED <<conn, clientState, toServer>>
      BY <1>19 DEF ClientHandlerSettles, linkVars, netVars
    <2>. QED  BY <2>1, <2>2 DEF ClientIsCurrent, Current
  <1>. QED
    BY <1>2, <1>3, <1>5, <1>7, <1>11, <1>12, <1>16, <1>17, <1>19 DEF ClientStep

\* A step of the client that starts no handler.
LEMMA QuietClientStarts ==
  ASSUME ClientStartsSeen, started' = started, conn' = conn,
         clientState' = "up" =>
           clientState = "up" /\ \A k \in Nat : Seen(client, k) => Seen(client', k)
  PROVE  ClientStartsSeen'
  <1>1. Calls \subseteq Nat  BY RpcAssumption DEF Calls
  <1>. QED  BY <1>1 DEF ClientStartsSeen

\* Every step leaves each call of the client started at most once, and seen once started.
LEMMA StepClientStarts ==
  ASSUME "client" \notin Closers, ChannelsOK, ClientInv, Connect \/ ClientStep
  PROVE  ClientStartsSeen'
  <1>. USE DEF ChannelsOK, TypeOK, ClientInv
  <1>2. CASE Connect
    <2>1. /\ conn' = conn + 1 /\ conn' \in 0..MaxConnections /\ conn' > conn
          /\ started' = started
      BY <1>2, RpcAssumption DEF Connect
    <2>2. ASSUME NEW k \in Calls, NEW c \in 0..MaxConnections
          PROVE  /\ started["client"][c][k] <= 1
                 /\ c > conn' => started["client"][c][k] = 0
      BY <2>1 DEF ClientStartsSeen
    <2>3. \A k \in Calls : started["client"][conn'][k] = 0
      BY <2>1 DEF ClientStartsSeen
    <2>. QED  BY <2>1, <2>2, <2>3 DEF ClientStartsSeen
  <1>3. CASE ClientDisconnects
    BY <1>3, QuietClientStarts DEF ClientDisconnects, ClientForgets
  <1>5. CASE ClientInvokes
    <2>1. \A k \in Nat : Seen(client', k) <=> Seen(client, k)
      BY <1>5, InvokeEffect DEF ClientInvokes
    <2>. QED  BY <1>5, <2>1, QuietClientStarts DEF ClientInvokes, linkVars, batchVars
  <1>7. CASE ClientSends
    <2>1. \A k \in Nat : Seen(client', k) <=> Seen(client, k)
      BY <1>7, TakeEffect DEF ClientSends
    <2>. QED  BY <1>7, <2>1, QuietClientStarts DEF ClientSends, linkVars, batchVars
  <1>11. ASSUME NEW frame \in toClient, ClientReceives(frame)
         PROVE  ClientStartsSeen'
    <2>. DEFINE below   == SetPeerSettledBelow(client, frame.below)
                settled == {r.call : r \in frame.replies}
    <2>1. /\ below \in Channels /\ ChannelOK(below)
          /\ \A k \in Nat : Seen(below, k) <=> Seen(client, k) \/ k < frame.below
      BY WatermarkEffect DEF Frames
    <2>. HIDE DEF below
    <2>2. client' = [below EXCEPT !.pending = @ \ settled]
      BY <1>11 DEF ClientReceives, below
    <2>3. \A k \in Nat : Seen(client', k) <=> Seen(below, k)
      BY <2>1, <2>2, SettleEffect
    <2>4. UNCHANGED <<clientState, conn, started>>
      BY <1>11 DEF ClientReceives, linkVars
    <2>. QED  BY <2>1, <2>3, <2>4, QuietClientStarts
  <1>12. CASE ClientPulls
    BY <1>12, QuietClientStarts DEF ClientPulls, channelVars, linkVars
  <1>16. CASE ClientProcesses
    <2>. DEFINE call == First(clientBatch.requests)
    <2>1. call \in Nat  BY <1>16, FirstIsLeast DEF ClientProcesses
    <2>. HIDE DEF call
    <2>2. \/ ~IsNew(client, call) /\ client' = ProcessCopy(client, call)
          \/ IsNew(client, call) /\ client' = RejectUnknown(client, call, clientBatch.conn)
      BY <1>16 DEF ClientProcesses, call
    <2>3. \A k \in Nat : Seen(client', k) <=> Seen(client, k) \/ k = call
      BY <2>1, <2>2, ProcessEffect
    <2>. QED  BY <1>16, <2>3, QuietClientStarts DEF ClientProcesses, linkVars
  <1>17. ASSUME NEW closes \in MayClose("client"), ClientStarts(closes)
         PROVE  ClientStartsSeen'
    <2>. DEFINE call == First(clientBatch.requests)
    <2>0. ~closes  BY DEF MayClose
    <2>1. call \in Nat  BY <1>17, FirstIsLeast DEF ClientStarts
    <2>2. clientBatch.conn = conn /\ clientState = "up"
      BY <1>17 DEF ClientStarts, BatchIsCurrent
    <2>3. /\ ~Seen(client, call)
          /\ client' = StartHandler(client, call, clientBatch.conn)
          /\ started' = Counted("client", conn, call)
          /\ UNCHANGED <<clientState, conn>>
      BY <1>17, <2>0, <2>2 DEF ClientStarts, Seen, Counted
    <2>. HIDE DEF call
    <2>4. \A k \in Nat : Seen(client', k) <=> Seen(client, k) \/ k = call
      BY <2>1, <2>3, StartEffect
    <2>5. ASSUME NEW d \in 0..MaxConnections, NEW j \in Calls
          PROVE  /\ started["client"][d][j] \in Nat
                 /\ started'["client"][d][j] =
                      IF d = conn /\ j = call THEN started["client"][d][j] + 1
                                             ELSE started["client"][d][j]
      BY <2>3, CountedEffect
    <2>6. Calls \subseteq Nat /\ conn \in 0..MaxConnections
      BY RpcAssumption DEF Calls
    <2>7. call \in Calls => started["client"][conn][call] = 0
      BY <2>2, <2>3, <2>5, <2>6 DEF ClientStartsSeen
    <2>8. ASSUME NEW k \in Calls, NEW c \in 0..MaxConnections
          PROVE  /\ started'["client"][c][k] <= 1
                 /\ c > conn' => started'["client"][c][k] = 0
      BY <2>3, <2>5, <2>7 DEF ClientStartsSeen
    <2>9. ASSUME NEW k \in Calls, started'["client"][conn'][k] > 0
          PROVE  Seen(client', k)
      <3>1. k = call \/ started["client"][conn][k] > 0  BY <2>3, <2>5, <2>6, <2>9
      <3>2. k = call \/ Seen(client, k)  BY <2>2, <3>1 DEF ClientStartsSeen
      <3>. QED  BY <2>4, <2>6, <3>2
    <2>. QED  BY <2>8, <2>9 DEF ClientStartsSeen
  <1>19. ASSUME NEW call \in Calls, ClientHandlerSettles(call)
         PROVE  ClientStartsSeen'
    <2>1. \A k \in Nat : Seen(client', k) <=> Seen(client, k)
      BY <1>19, HandlerEffect DEF ClientHandlerSettles
    <2>. QED  BY <1>19, <2>1, QuietClientStarts DEF ClientHandlerSettles, linkVars, batchVars
  <1>. QED
    BY <1>2, <1>3, <1>5, <1>7, <1>11, <1>12, <1>16, <1>17, <1>19 DEF ClientStep

\* Every step keeps the invariant of the client.
LEMMA StepClient ==
  ASSUME "client" \notin Closers
  PROVE  ChannelsOK /\ ClientInv /\ [Next]_vars => ClientInv'
  <1>. SUFFICES ASSUME ChannelsOK, ClientInv, [Next]_vars PROVE ClientInv'
    OBVIOUS
  <1>1. CASE ServerStep
    BY <1>1, ServerQuiet
  <1>2. CASE Connect \/ ClientStep
    BY <1>2, StepBatchIsCurrent, StepClientIsCurrent, StepClientStarts DEF ClientInv
  <1>3. CASE UNCHANGED vars
    BY <1>3
    DEF vars, runVars, channelVars, linkVars, netVars, batchVars, ClientInv,
        BatchIsCurrent, ClientIsCurrent, Current, ClientStartsSeen
  <1>. QED  BY <1>1, <1>2, <1>3 DEF Next

(***************************************************************************)
(* A handler runs at most once for a call, on either side, if no handler   *)
(* of the client closes its world.                                         *)
(***************************************************************************)
THEOREM HandlersRunOnce ==
  ASSUME "client" \notin Closers
  PROVE  Spec => []HandlerRunsOnce
  <1>1. ChannelsOK /\ ServerInv /\ ClientInv => HandlerRunsOnce
    BY DEF ChannelsOK, Counts, ServerInv, ClientInv, ServerStartsSeen, ClientStartsSeen,
           HandlerRunsOnce
  <1>. QED
    BY <1>1, InitChannels, StepChannels, InitServer, StepServer, InitClient, StepClient, PTL
    DEF Spec

(***************************************************************************)
(* A reply that is kept, queued or in flight answers a request of the      *)
(* current connection, never one of an earlier peer, and one its caller    *)
(* has not settled, if no handler of the client closes its world.          *)
(***************************************************************************)
THEOREM RepliesStayWanted ==
  ASSUME "client" \notin Closers
  PROVE  Spec => []RepliesAreWanted
  <1>1. ChannelsOK /\ ServerInv /\ ClientInv => RepliesAreOfThisPeer
    BY DEF ChannelsOK, ChannelOK, Covered, ServerInv, ServerIsCurrent, ClientInv,
           ClientIsCurrent, Current, RepliesAreOfThisPeer
  <1>2. ChannelsOK => TypeOK  BY DEF ChannelsOK
  <1>. QED
    BY <1>1, <1>2, InitChannels, StepChannels, InitServer, StepServer, InitClient, StepClient,
       SettledCallsForgotten, PTL
    DEF Spec, RepliesAreWanted
=============================================================================

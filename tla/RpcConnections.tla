--------------------------- MODULE RpcConnections ---------------------------
(***************************************************************************)
(* The RPC channels of a ClientWorld and of the server sessions it is      *)
(* connected to in turn.  The client keeps one SessionRPC for its life,    *)
(* every session has its own.  Frames of the current connection may be     *)
(* lost, duplicated and reordered; those of an earlier one are dropped by  *)
(* both sides (client_world.ts:643, server_world.ts:1389).                 *)
(*                                                                         *)
(* A batch is the loop of SessionRPC.process: each step dispatches one     *)
(* message, and no other step of that side comes between, except what the  *)
(* handler it starts does before its first await: it may end the           *)
(* connection.  The order of a batch is that of the call ids, requests     *)
(* before replies, as getOutgoing builds it; a second copy in one batch    *)
(* changes nothing and is left out.                                        *)
(***************************************************************************)
EXTENDS SessionRPC, FiniteSets

CONSTANTS
  Closers,         \* the sides whose handlers may end the connection
  MaxCalls,        \* bound of the model: the calls of one side
  Loads,           \* bound of the model: for each side the calls it may issue,
                   \* the server by its first session, each later one one less
  MaxConnections,  \* bound of the model: connections, one after another
  MaxToServer,     \* bound of the model: frames in flight to the server
  MaxToClient      \* bound of the model: frames in flight to the client

\* The loads of the runs.
Load(c, s) == [side \in {"client", "server"} |-> IF side = "client" THEN c ELSE s]
ClientCalls == {Load(2, 0)}
EitherCalls == {Load(2, 0), Load(0, 2), Load(1, 1)}

ASSUME RpcAssumption ==
  /\ Closers \subseteq {"client", "server"}
  /\ MaxCalls \in Nat
  /\ Loads \subseteq [{"client", "server"} -> 0..MaxCalls]
  /\ MaxConnections \in Nat \ {0}
  /\ MaxToServer \in Nat \ {0} /\ MaxToClient \in Nat \ {0}

VARIABLES
  load,          \* the load of this behaviour
  client,        \* ClientWorld._rpc
  server,        \* ServerClientSession.rpc of the newest session
  clientState,   \* "new" until a socket is attached, then "up" or "down"
  serverUp,      \* the session is not closed
  conn,          \* the number of the newest connection
  toServer,      \* frames in flight from the client
  toClient,      \* frames in flight to the client
  inbox,         \* ClientWorld._rpcInbox, the requests that wait for apply
  clientBatch,   \* what the running process() of the client has left
  serverBatch,   \* what the running process() of the session has left
  started        \* history variable: how often the handler of each call started

channelVars == <<client, server>>
linkVars    == <<clientState, serverUp, conn>>
netVars     == <<toServer, toClient>>
batchVars   == <<inbox, clientBatch, serverBatch>>
runVars == <<channelVars, linkVars, netVars, batchVars, started>>
vars == <<load, runVars>>

Calls == 0..(MaxCalls - 1)
Frames == [requests : SUBSET Nat, replies : SUBSET Replies, below : Nat]

NoBatch == [requests |-> {}, replies |-> {}, conn |-> 0]

ClientIdle == clientBatch.requests = {}
ServerIdle == serverBatch.requests = {} /\ serverBatch.replies = {}

First(requests) == CHOOSE c \in requests : \A o \in requests : c <= o

Init ==
  /\ load \in Loads
  /\ client = NewChannel /\ server = NewChannel
  /\ clientState = "new" /\ serverUp = FALSE /\ conn = 0
  /\ toServer = {} /\ toClient = {}
  /\ inbox = {} /\ clientBatch = NoBatch /\ serverBatch = NoBatch
  /\ started = [s \in {"client", "server"} |->
                  [c \in 0..MaxConnections |-> [k \in Calls |-> 0]]]

-----------------------------------------------------------------------------
(* Connections.                                                             *)

\* attachSocket and _onNewConnection.
Connect ==
  /\ clientState # "up" /\ conn < MaxConnections
  /\ ClientIdle /\ ServerIdle
  /\ clientState' = "up" /\ serverUp' = TRUE /\ conn' = conn + 1
  /\ server' = NewChannel
  /\ toServer' = {} /\ toClient' = {}
  /\ UNCHANGED <<client, batchVars, started>>

\* _handleDisconnect of the client, for whatever reason.
ClientForgets ==
  /\ clientState' = "down"
  /\ inbox' = {}

ClientDisconnects ==
  /\ clientState = "up" /\ ClientIdle
  /\ ClientForgets
  /\ client' = AbortPending(client)
  /\ UNCHANGED <<server, serverUp, conn, netVars, clientBatch, serverBatch, started>>

\* _endSession, for whatever reason.
ServerEnds ==
  /\ serverUp /\ ServerIdle
  /\ serverUp' = FALSE
  /\ server' = AbortPending(server)
  /\ UNCHANGED <<client, clientState, conn, netVars, batchVars, started>>

-----------------------------------------------------------------------------
(* Calls and frames.                                                        *)

\* ClientWorld.invoke; before the first connection the call waits for it.
ClientInvokes ==
  /\ clientState # "down" /\ ClientIdle /\ client.next < load["client"]
  /\ client' = Invoke(client)
  /\ UNCHANGED <<server, linkVars, netVars, batchVars, started>>

ServerInvokes ==
  /\ serverUp /\ ServerIdle /\ server.next < load["server"] + 1 - conn
  /\ server' = Invoke(server)
  /\ UNCHANGED <<client, linkVars, netVars, batchVars, started>>

\* A frame joins those in flight, of which any may be lost meanwhile.
Sent(frames, frame, bound) ==
  {kept \cup {frame} : kept \in {k \in SUBSET frames : Cardinality(k) < bound}}

\* A frame may arrive again later, or not.
Arrived(frames, frame) == {frames, frames \ {frame}}

\* ClientWorld.send, from its ack timer.
ClientSends ==
  /\ clientState = "up" /\ ClientIdle
  /\ toServer' \in Sent(toServer, Outgoing(client), MaxToServer)
  /\ client' = TakeOutgoing(client)
  /\ UNCHANGED <<server, linkVars, toClient, batchVars, started>>

\* ServerWorld.send: calls whose time is up are rejected, then a frame goes out
\* if there is something to tell, or `state` to send.
ServerSends(expired, state) ==
  LET ticked == TimeoutTick(server, expired) IN
  /\ serverUp /\ ServerIdle
  /\ expired \subseteq server.pending
  /\ state \/ HasOutgoing(ticked)
  /\ toClient' \in Sent(toClient, Outgoing(ticked), MaxToClient)
  /\ server' = TakeOutgoing(ticked)
  /\ UNCHANGED <<client, linkVars, toServer, batchVars, started>>

\* A tick that only rejects the calls whose time is up.
ServerTimesOut ==
  /\ serverUp /\ ServerIdle
  /\ server.pending # {} /\ server.outbox = {}
  /\ server' = TimeoutTick(server, server.pending)
  /\ UNCHANGED <<client, linkVars, netVars, batchVars, started>>

\* ServerWorld._receive: the watermark, then the whole batch.
ServerReceives(frame) ==
  /\ serverUp /\ ServerIdle
  /\ toServer' \in Arrived(toServer, frame)
  /\ server' = SetPeerSettledBelow(server, frame.below)
  /\ serverBatch' = [requests |-> frame.requests, replies |-> frame.replies, conn |-> conn]
  /\ UNCHANGED <<client, linkVars, toClient, inbox, clientBatch, started>>

\* ClientWorld._receive: the watermark, then the replies; requests wait.
ClientReceives(frame) ==
  LET below == SetPeerSettledBelow(client, frame.below) IN
  /\ clientState = "up" /\ ClientIdle
  /\ toClient' \in Arrived(toClient, frame)
  /\ client' = [below EXCEPT !.pending = @ \ {r.call : r \in frame.replies}]
  /\ inbox' = inbox \cup frame.requests
  /\ UNCHANGED <<server, linkVars, toServer, clientBatch, serverBatch, started>>

\* _pull, from apply(), which also runs while the client is disconnected.
ClientPulls ==
  /\ ClientIdle /\ inbox # {}
  /\ clientBatch' = [requests |-> inbox, replies |-> {}, conn |-> conn]
  /\ inbox' = {}
  /\ UNCHANGED <<channelVars, linkVars, netVars, serverBatch, started>>

-----------------------------------------------------------------------------
(* process(): one message of a batch.                                       *)

\* The request is a copy, or has no handler.
ServerProcesses ==
  LET call == First(serverBatch.requests) IN
  /\ serverBatch.requests # {}
  /\ \/ ~IsNew(server, call) /\ server' = ProcessCopy(server, call)
     \/ IsNew(server, call) /\ server' = RejectUnknown(server, call, serverBatch.conn)
  /\ serverBatch' = [serverBatch EXCEPT !.requests = @ \ {call}]
  /\ UNCHANGED <<client, linkVars, netVars, inbox, clientBatch, started>>

\* The request is new: its handler starts, and may destroy the session.
ServerStarts(closes) ==
  LET call == First(serverBatch.requests)
      run  == StartHandler(server, call, serverBatch.conn)
  IN
  /\ serverBatch.requests # {}
  /\ IsNew(server, call)
  /\ server' = IF closes THEN AbortPending(run) ELSE run
  /\ serverUp' = (serverUp /\ ~closes)
  /\ serverBatch' = [serverBatch EXCEPT !.requests = @ \ {call}]
  /\ started' = [started EXCEPT !["server"][serverBatch.conn][call] = @ + 1]
  /\ UNCHANGED <<client, clientState, conn, netVars, inbox, clientBatch>>

\* The replies of the batch settle the calls they answer.
ServerSettles ==
  /\ serverBatch.requests = {} /\ serverBatch.replies # {}
  /\ server' = [server EXCEPT !.pending = @ \ {r.call : r \in serverBatch.replies}]
  /\ serverBatch' = NoBatch
  /\ UNCHANGED <<client, linkVars, netVars, inbox, clientBatch, started>>

ClientProcesses ==
  LET call == First(clientBatch.requests) IN
  /\ clientBatch.requests # {}
  /\ \/ ~IsNew(client, call) /\ client' = ProcessCopy(client, call)
     \/ IsNew(client, call) /\ client' = RejectUnknown(client, call, clientBatch.conn)
  /\ clientBatch' = [clientBatch EXCEPT !.requests = @ \ {call}]
  /\ UNCHANGED <<server, linkVars, netVars, inbox, serverBatch, started>>

\* The handler of a request starts, and may close the client.
ClientStarts(closes) ==
  LET call == First(clientBatch.requests)
      run  == StartHandler(client, call, clientBatch.conn)
  IN
  /\ clientBatch.requests # {}
  /\ IsNew(client, call)
  /\ clientBatch' = [clientBatch EXCEPT !.requests = @ \ {call}]
  /\ started' = [started EXCEPT !["client"][clientBatch.conn][call] = @ + 1]
  /\ IF closes /\ clientState = "up"
     THEN ClientForgets /\ client' = AbortPending(run)
     ELSE client' = run /\ UNCHANGED <<clientState, inbox>>
  /\ UNCHANGED <<server, serverUp, conn, netVars, serverBatch>>

ServerHandlerSettles(call) ==
  /\ ServerIdle
  /\ \E run \in server.running :
       run.call = call /\ server' = HandlerSettles(server, run)
  /\ UNCHANGED <<client, linkVars, netVars, batchVars, started>>

ClientHandlerSettles(call) ==
  /\ ClientIdle
  /\ \E run \in client.running :
       run.call = call /\ client' = HandlerSettles(client, run)
  /\ UNCHANGED <<server, linkVars, netVars, batchVars, started>>

-----------------------------------------------------------------------------
MayClose(side) == {FALSE, (side \in Closers)}

ServerStep ==
  \/ ServerEnds
  \/ ServerInvokes
  \/ \E expired \in SUBSET server.pending, state \in BOOLEAN : ServerSends(expired, state)
  \/ ServerTimesOut
  \/ \E frame \in toServer : ServerReceives(frame)
  \/ ServerProcesses
  \/ \E closes \in MayClose("server") : ServerStarts(closes)
  \/ ServerSettles
  \/ \E call \in Calls : ServerHandlerSettles(call)

ClientStep ==
  \/ ClientDisconnects
  \/ ClientInvokes
  \/ ClientSends
  \/ \E frame \in toClient : ClientReceives(frame)
  \/ ClientPulls
  \/ ClientProcesses
  \/ \E closes \in MayClose("client") : ClientStarts(closes)
  \/ \E call \in Calls : ClientHandlerSettles(call)

Next == (Connect \/ ServerStep \/ ClientStep) /\ UNCHANGED load

Spec == Init /\ [][Next]_vars

(* What the scheduling guarantees the calls of the client: its ack timer    *)
(* and the server's ticks go on and every handler settles, strongly because *)
(* a batch holds them up but always ends; and a message that is sent over   *)
(* and over arrives.                                                        *)
Fairness ==
  /\ SF_runVars(ClientSends)
  /\ SF_runVars(ServerSends({}, FALSE))
  /\ WF_runVars(ServerProcesses \/ ServerSettles \/ \E b \in MayClose("server") : ServerStarts(b))
  /\ \A k \in Calls :
       /\ SF_runVars(ServerHandlerSettles(k))
       /\ SF_runVars(\E f \in toServer : k \in f.requests /\ ServerReceives(f))
       /\ SF_runVars(\E f \in toServer : f.below > k /\ ServerReceives(f))
       /\ SF_runVars(\E f \in toClient : (\E r \in f.replies : r.call = k) /\ ClientReceives(f))

FairSpec == Spec /\ Fairness

-----------------------------------------------------------------------------
\* Every variable holds a value of its kind.
TypeOK ==
  /\ load \in Loads
  /\ client \in Channels /\ server \in Channels
  /\ clientState \in {"new", "up", "down"} /\ serverUp \in BOOLEAN /\ conn \in Nat
  /\ toServer \subseteq Frames /\ toClient \subseteq Frames
  /\ inbox \subseteq Nat
  /\ \A batch \in {clientBatch, serverBatch} :
       /\ batch.requests \subseteq Nat /\ batch.replies \subseteq Replies /\ batch.conn \in Nat

(***************************************************************************)
(* A handler runs at most once for a call, however many copies of the      *)
(* request arrive, while it runs, after it settled, and after the caller   *)
(* settled the call (rpc.ts:199-212).                                      *)
(***************************************************************************)
HandlerRunsOnce ==
  \A s \in DOMAIN started, c \in 0..MaxConnections, k \in Calls : started[s][c][k] <= 1

(***************************************************************************)
(* No peer is answered with a reply to an earlier peer's call, whose id    *)
(* may be the same (rpc.ts:385-392): every reply that is in flight, queued *)
(* or cached answers a request of the current connection.                  *)
(***************************************************************************)
RepliesAreOfThisPeer ==
  /\ clientState = "up" =>
       \A r \in client.cached \cup client.outbox : r.conn = conn
  /\ \A f \in toServer \cup toClient : \A r \in f.replies : r.conn = conn

(***************************************************************************)
(* A call that still waits is never stale to the side that must answer it, *)
(* or it would wait for ever: the watermark runs ahead of no pending call, *)
(* across reordered frames, timeouts, aborts and reconnects.               *)
(***************************************************************************)
NoPendingCallIsStale ==
  clientState = "up" /\ serverUp =>
    /\ \A k \in client.pending : k >= server.below
    /\ \A k \in server.pending : k >= client.below

\* Nothing is kept for a call the peer is known to have settled.
NothingKeptForSettled ==
  \A ch \in {client, server} : \A r \in ch.cached \cup ch.outbox : r.call >= ch.below

(***************************************************************************)
(* A reply that is kept, queued or in flight is still wanted: it answers a *)
(* request of this connection that its caller has not settled.             *)
(***************************************************************************)
RepliesAreWanted == TypeOK /\ RepliesAreOfThisPeer /\ NothingKeptForSettled

\* A call settles, by its reply or by the loss of the connection, although
\* requests and replies are lost and a reply is queued only once per copy.
EveryCallSettles ==
  \A k \in Calls :
    k \in client.pending /\ clientState = "up" ~>
      k \notin client.pending \/ ~serverUp

\* The reply of a call is not kept for ever: once calls stop, the cache drains.
RepliesAreForgotten ==
  \A k \in Calls :
    CachedFor(server, k) # {} ~> CachedFor(server, k) = {} \/ clientState # "up"

\* A call comes to its end on both sides.
CallsSettle == EveryCallSettles /\ RepliesAreForgotten
=============================================================================

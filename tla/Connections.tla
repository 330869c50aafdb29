---------------------------- MODULE Connections ----------------------------
(***************************************************************************)
(* One ClientWorld that connects, loses its connection, reconnects, maybe  *)
(* to another ServerWorld, and the server worlds it meets.  A frame may be *)
(* lost, delayed, reordered and, while the link is up, duplicated; a link  *)
(* may fail, and each end learns of it on its own.                         *)
(***************************************************************************)
EXTENDS ClientLifecycle, FiniteSets

CONSTANT Scenarios   \* bound of the model: the events below that a behaviour
                     \* may contain (the others always may), and the frames
                     \* each world numbers before its counter stays

Events ==
  {"call", "garbage", "close", "destroy", "shutdown",
   "abort", "leave", "dispose", "progress", "undecodable", "switch", "failure"}

ASSUME ScenarioAssumption == Scenarios \subseteq [may : SUBSET Events, ticks : Nat \ {0}]

\* The runs: the frames of the worlds are far apart, so that no ack of one is a
\* frame of the other; and either a client that may connect twice, or more that
\* may happen to one session.
FarApart == [w \in Worlds |-> IF w = FirstWorld THEN 9 ELSE 1]

Mixed ==
  [may : {{"close"}, {"switch", "leave", "failure"}, {"undecodable", "progress", "leave"},
          {"dispose", "abort", "progress", "leave"}},
   ticks : {2}]
  \cup
  [may : {{"call", "close"}, {"close", "progress", "undecodable"}, {"call", "destroy", "garbage"},
          {"shutdown", "garbage", "close"}, {"shutdown", "failure"}},
   ticks : {1}]

VARIABLES
  scenario,  \* one of Scenarios, fixed
  link,      \* [socket |-> "none", "opening", "up" or "down"]
  down,      \* frames on their way to the client
  up,        \* messages on their way to a server
  receipts   \* history variable: sockets whose receipt frame the client handled

netVars == <<link, down, up, receipts>>
runVars == <<lifecycleVars, client, netVars>>
vars == <<runVars, scenario>>

May(event) == event \in scenario.may

Messages == [socket : Sockets, ack : Nat, request : BOOLEAN, garbage : BOOLEAN]

Message(c) ==
  [socket |-> c.socket, ack |-> AckOf(c), request |-> c.call = "waiting",
   garbage |-> FALSE]

Init ==
  /\ LifecycleInit
  /\ ClientInit
  /\ link = [s \in Sockets |-> "none"]
  /\ down = {}
  /\ up = {}
  /\ receipts = {}
  /\ scenario \in Scenarios

\* What either end can no longer be changed by is forgotten.
Heard(frames) == {m \in frames : Listens(client', m.socket) \/ client'.connecting = m.socket}
Matter(messages) ==
  LET live == {m \in messages : Live(session'[m.socket])}
  IN  {m \in live : m.request \/ m.ack > session'[m.socket].ack}
        \cup {[socket |-> m.socket, ack |-> 0, request |-> TRUE, garbage |-> FALSE] :
               m \in messages \ live}   \* all one to a session that has ended

Cut(sockets) == [s \in Sockets |-> IF s \in sockets THEN "down" ELSE link[s]]

-----------------------------------------------------------------------------
(* The client.                                                              *)

\* connectDgram: refused while connected, connecting or disposed.
BeginConnect(w) ==
  \E s \in Sockets :
    /\ ~client.disposed /\ ~Connected(client) /\ client.connecting = None
    /\ link[s] = "none"
    /\ w = FirstWorld \/ May("switch")
    /\ \A o \in Sockets : o < s => link[o] # "none"
    /\ client' = [client EXCEPT !.connecting = s]
    /\ session' = [session EXCEPT ![s].world = w]
    /\ link' = [link EXCEPT ![s] = "opening"]
    /\ UNCHANGED <<frame, shutdown, down, up, receipts>>

\* Mutant: a world disposed while it connects leaves the new socket open.
FinishConnectLeaking ==
  LET s == client.connecting IN
  /\ s # None /\ link[s] \in {"up", "down"}
  /\ client' = IF client.disposed THEN [client EXCEPT !.connecting = None]
               ELSE Attach(client, s)
  /\ UNCHANGED <<lifecycleVars, link, down, up, receipts>>

\* The transport's connect() resolved: attach, unless the world was disposed in
\* the meantime, which makes attachSocket throw and the socket close.
FinishConnect ==
  LET s == client.connecting IN
  /\ s # None /\ link[s] \in {"up", "down"}
  /\ client' = IF client.disposed THEN [client EXCEPT !.connecting = None]
               ELSE Attach(client, s)
  /\ link' = IF client.disposed THEN Cut({s}) ELSE link
  /\ down' = Heard(down)
  /\ UNCHANGED <<lifecycleVars, up, receipts>>

\* The signal aborts, or connect() rejects, before the attach.
AbortConnect ==
  LET s == client.connecting IN
  /\ May("abort") /\ s # None
  /\ client' = [client EXCEPT !.connecting = None]
  /\ link' = Cut({s})
  /\ down' = Heard(down)
  /\ UNCHANGED <<lifecycleVars, up, receipts>>

\* close() and dispose() of the application; dispose is refused inside a call.
Leave ==
  /\ Attached(client) \/ client.connecting # None
  /\ \/ May("leave") /\ client' = Close(client)
     \/ May("dispose") /\ ~client.inCall /\ ~client.disposed /\ client' = Dispose(client)
  /\ link' = Cut({client.socket})
  /\ down' = Heard(down)
  /\ UNCHANGED <<lifecycleVars, up, receipts>>

\* invoke(): the one call of this model.
Invoke ==
  /\ May("call") /\ client.call = "none"
  /\ client' = [client EXCEPT
       !.call = IF client.disposed \/ client.disconnected THEN "rejected" ELSE "waiting"]
  /\ UNCHANGED <<lifecycleVars, netVars>>

\* The outermost progress() or apply() begins, and ends.
BeginCall ==
  /\ May("progress") /\ Attached(client) /\ ~client.inCall /\ ~client.disposed
  /\ client' = [client EXCEPT !.inCall = TRUE]
  /\ UNCHANGED <<lifecycleVars, netVars>>

CallEnds ==
  /\ client.inCall
  /\ client' = EndCall(client)
  /\ UNCHANGED <<lifecycleVars, netVars>>

\* apply() meets a snapshot it cannot decode, connected or not.
PayloadFails ==
  /\ May("undecodable") /\ client.inCall /\ client.base # None
  /\ client' = CloseForProtocolError(client)
  /\ link' = Cut({client.socket})
  /\ down' = Heard(down)
  /\ UNCHANGED <<lifecycleVars, up, receipts>>

\* The ack timer fires: send().  A send that fails is a disconnect.
AckTimer ==
  /\ client.timer /\ Connected(client)
  /\ UNCHANGED <<lifecycleVars, link, receipts>>
  /\ IF link[client.socket] = "up"
     THEN up' = Matter(up \cup {Message(client)}) /\ UNCHANGED <<client, down>>
     ELSE client' = Disconnect(client) /\ down' = Heard(down) /\ UNCHANGED up

ClientSeesDown ==
  /\ Attached(client) /\ link[client.socket] = "down"
  /\ client' = Disconnect(client)
  /\ down' = Heard(down)
  /\ UNCHANGED <<lifecycleVars, link, up, receipts>>

\* _receive.  A close notice is acked before the client disconnects; a refused
\* diff closes the socket instead.
ClientReceives(m) ==
  LET buffered == AfterDiff(AfterReply(client, m), m) IN
  /\ Listens(client, m.socket)
  /\ UNCHANGED lifecycleVars
  /\ client' = Handled(client, m)
  /\ link' = IF Rejects(client, m) THEN Cut({m.socket}) ELSE link
  /\ up' = IF m.close # NoNotice /\ ~Rejects(client, m) /\ link[m.socket] = "up"
           THEN Matter(up \cup {Message(buffered)}) ELSE up
  /\ receipts' = IF m.final /\ ~Rejects(client, m) THEN receipts \cup {m.socket}
                 ELSE receipts
  /\ down' = Heard(IF link[m.socket] = "up" THEN down ELSE down \ {m})

BaselineArrives == \E m \in down : m.from = 0 /\ ClientReceives(m)

-----------------------------------------------------------------------------
(* The servers.                                                             *)

Bound(w) == StartFrame[w] + scenario.ticks

\* The transport opens: the world accepts, or refuses by closing the socket.
\* A world at its bound has no frame left for a session's first baseline.
TransportOpens(s) ==
  LET w == session[s].world IN
  /\ link[s] = "opening" /\ frame[w] < Bound(w)
  /\ session' = [session EXCEPT ![s] = Accepted(w)]
  /\ link' = [link EXCEPT ![s] = IF Live(Accepted(w)) THEN "up" ELSE "down"]
  /\ UNCHANGED <<frame, shutdown, client, down, up, receipts>>

\* Sessions `ending` are torn down, in a step that leaves the others alone.
TearDown(ending, how) ==
  /\ session' = [s \in Sockets |->
                   IF s \in ending THEN Ended(session[s], how) ELSE session[s]]
  /\ link' = Cut(ending)
  /\ up' = Matter(up)

\* send(): every session of the world advances by one frame; sessions destroyed on
\* the way end once the loop over them is over.  The baselines in `lost` are
\* presumed lost, the sessions in `late` are past their linger or their grace.
TickWith(w, lost, late) ==
  LET to       == IF frame[w] < Bound(w) THEN frame[w] + 1 ELSE frame[w]
      closes(s) == session[s].status = "closing"
      after(s) == IF closes(s) THEN Linger(session[s], s \in late)
                  ELSE Replicate(session[s], to, s \in lost, s \in late)
      sent(s)  == IF link[s] # "up" THEN {}
                  ELSE IF closes(s) THEN CloseFrames(s, after(s))
                  ELSE StateFrames(s, session[s], to, s \in lost, s \in late)
  IN
  /\ LiveIn(w) # {}
  /\ frame' = [frame EXCEPT ![w] = to]
  /\ session' = [s \in Sockets |-> IF s \in LiveIn(w) THEN after(s) ELSE session[s]]
  /\ link' = Cut({s \in LiveIn(w) : ~Live(after(s))})
  /\ UNCHANGED <<shutdown, client, receipts>>
  /\ up' = Matter(up)
  /\ down' = Heard(down \cup UNION {sent(s) : s \in LiveIn(w)})

Awaited(w) == {s \in LiveIn(w) : session[s].status = "open" /\ session[s].resync # None}
Timed(w)   == {s \in LiveIn(w) : session[s].status = "open" \/ session[s].flush # NoFlush}
Lingering(w) == {s \in LiveIn(w) : session[s].flush # NoFlush}

Tick(w) ==
  \E lost \in SUBSET Awaited(w), late \in SUBSET Timed(w) : TickWith(w, lost, late)

\* A tick after the timeouts of the baselines and the lingers have run out.
TickInTheEnd(w) == TickWith(w, Awaited(w), Lingering(w))

ServerReceives(m) ==
  /\ session' = [session EXCEPT ![m.socket] = Received(@, m)]
  /\ up' = Matter(IF link[m.socket] = "up" THEN up ELSE up \ {m})
  /\ UNCHANGED <<frame, shutdown, client, link, down, receipts>>

AckArrives == \E m \in up : m.ack > session[m.socket].ack /\ ServerReceives(m)

\* A datagram arrives that cannot be decoded.
GarbageArrives(s) ==
  /\ May("garbage") /\ link[s] = "up"
  /\ session' = [session EXCEPT ![s] =
       Received(@, [socket |-> s, ack |-> 0, request |-> FALSE, garbage |-> TRUE])]
  /\ UNCHANGED <<frame, shutdown, client, link, down, up, receipts>>

\* The handler of the client's call settles, on a session that may be closing.
HandlerSettles(s) ==
  /\ Live(session[s]) /\ session[s].handler = "running"
  /\ session' = [session EXCEPT ![s].handler = "settled", ![s].outbox = TRUE]
  /\ UNCHANGED <<frame, shutdown, client, netVars>>

CloseSession(s) ==
  /\ May("close") /\ Live(session[s])
  /\ \E notice \in {NoNotice, "application"} :
       session' = [session EXCEPT ![s] = Closing(@, notice)]
  /\ UNCHANGED <<frame, shutdown, client, netVars>>

\* The application destroys the NetworkClient entity.
AppDestroys(s) ==
  /\ May("destroy") /\ Live(session[s])
  /\ TearDown({s}, "application")
  /\ UNCHANGED <<frame, shutdown, client, down, receipts>>

\* _onDisconnect, from the transport or from a send that failed.
ServerSeesDown(s) ==
  /\ Live(session[s]) /\ link[s] = "down"
  /\ TearDown({s}, "transport")
  /\ UNCHANGED <<frame, shutdown, client, down, receipts>>

Shutdown(w) ==
  /\ May("shutdown") /\ shutdown[w] = "no"
  /\ shutdown' = [shutdown EXCEPT ![w] = "running"]
  /\ session' = [s \in Sockets |-> IF s \in LiveIn(w) THEN Closing(session[s], "shutting down")
                                   ELSE session[s]]
  /\ UNCHANGED <<frame, client, netVars>>

\* The polling loop finds no session left, or its deadline passes.
ShutdownResolves(w) ==
  /\ shutdown[w] = "running" /\ LiveIn(w) = {}
  /\ shutdown' = [shutdown EXCEPT ![w] = "resolved"]
  /\ UNCHANGED <<frame, session, client, netVars>>

ShutdownDeadline(w) ==
  /\ shutdown[w] = "running" /\ LiveIn(w) # {}
  /\ shutdown' = [shutdown EXCEPT ![w] = "resolved"]
  /\ TearDown(LiveIn(w), "deadline")
  /\ UNCHANGED <<frame, client, down, receipts>>

\* The link fails.
LinkFails(s) ==
  /\ May("failure") /\ link[s] = "up"
  /\ link' = [link EXCEPT ![s] = "down"]
  /\ UNCHANGED <<lifecycleVars, client, down, up, receipts>>

ClientSteps ==
  \/ \E w \in Worlds : BeginConnect(w)
  \/ FinishConnect \/ AbortConnect \/ Leave \/ Invoke \/ BeginCall \/ CallEnds
  \/ PayloadFails \/ AckTimer \/ ClientSeesDown
  \/ \E m \in down : ClientReceives(m)

ServerSteps ==
  \/ \E s \in Sockets :
       \/ TransportOpens(s) \/ GarbageArrives(s) \/ HandlerSettles(s) \/ CloseSession(s)
       \/ AppDestroys(s) \/ ServerSeesDown(s) \/ LinkFails(s)
  \/ \E w \in Worlds :
       Tick(w) \/ Shutdown(w) \/ ShutdownResolves(w) \/ ShutdownDeadline(w)
  \/ \E m \in up : ServerReceives(m)

Next == (ClientSteps \/ ServerSteps) /\ UNCHANGED scenario

Spec == Init /\ [][Next]_vars

\* What the code's timers and the event loop give: worlds tick, the polling and
\* the deadlines come, an ended link is noticed by both ends, a call returns; and
\* what is sent over and over on a link that stays up arrives at last.
Fairness ==
  /\ \A w \in Worlds : WF_runVars(TickInTheEnd(w)) /\ WF_runVars(ShutdownResolves(w))
  /\ \A s \in Sockets : WF_runVars(ServerSeesDown(s))
  /\ WF_runVars(CallEnds) /\ WF_runVars(ClientSeesDown) /\ WF_runVars(AckTimer)
  /\ SF_runVars(BaselineArrives) /\ SF_runVars(AckArrives)

FairSpec == Spec /\ Fairness

-----------------------------------------------------------------------------
\* Every variable holds a value of its kind; no ack is past the newest frame sent.
TypeOK ==
  /\ \A w \in Worlds : frame[w] \in StartFrame[w]..Bound(w)
  /\ shutdown \in [Worlds -> {"no", "running", "resolved"}]
  /\ session \in [Sockets -> Sessions]
  /\ \A s \in Sockets : session[s].ack <= session[s].last
  /\ client \in Clients
  /\ link \in [Sockets -> {"none", "opening", "up", "down"}]
  /\ down \subseteq Frames
  /\ up \subseteq Messages
  /\ receipts \subseteq Sockets

(***************************************************************************)
(* A closing session ends by a receipt only if its client has handled the  *)
(* frame with the notice and the replies: the ack that ends the linger is  *)
(* never one of an earlier frame, nor of an earlier connection.            *)
(***************************************************************************)
ReceiptMeansDelivered ==
  \A s \in Sockets : session[s].how = "receipt" =>
    /\ s \in receipts
    /\ session[s].owed => client.call # "waiting"

(***************************************************************************)
(* No socket is left open for nobody: one that is up is being connected,   *)
(* or is the client's connection, or has a session that will close it.     *)
(***************************************************************************)
SocketsAccounted ==
  \A s \in Sockets : link[s] = "up" =>
    \/ client.connecting = s
    \/ client.socket = s /\ Connected(client)
    \/ session[s].status = "closing"

(***************************************************************************)
(* A connection's loss is reported with the reason of that connection: its *)
(* own session told the client so, or the client met what it cannot read   *)
(* on it.  A reason that came up after the connection was gone is not kept *)
(* for the next one.                                                       *)
(***************************************************************************)
Reported == client.reported \cup {client.pending[i] : i \in DOMAIN client.pending}

NoticeIsOfThisConnection ==
  \A event \in Reported :
    /\ event.notice \in Notices => session[event.socket].told = event.notice
    /\ event.notice = "unreadable" => event.socket \in client.faulty

(***************************************************************************)
(* A lost connection is reported once, however many of close notice,       *)
(* transport event, failed send and close() say so, and its pending call   *)
(* is settled.                                                             *)
(***************************************************************************)
LossIsReportedOnce ==
  /\ \A e, f \in Reported : e.socket = f.socket => e = f
  /\ Attached(client) /\ client.disconnected /\ ~client.disposed =>
       /\ \E e \in Reported : e.socket = client.socket
       /\ client.call # "waiting"

(***************************************************************************)
(* A client that reconnects is rebuilt from a baseline of the new          *)
(* connection before any delta: no state frame is refused, and no delta is *)
(* merged into what an earlier connection, maybe to another world, left.   *)
(***************************************************************************)
StateOfOneConnection == ~client.mixed /\ client.rejects # "state"

(***************************************************************************)
(* A client adopts the first baseline of a connection whatever its frame   *)
(* number, as the new server may count its frames from the start.          *)
(***************************************************************************)
FirstBaselineAdopted == ~client.skipped

(***************************************************************************)
(* A world that shuts down has closing sessions only, and none at the end: *)
(* a connection whose handshake was under way does not slip in.            *)
(***************************************************************************)
ShutdownDrivesOut ==
  \A w \in Worlds :
    /\ shutdown[w] # "no" => \A s \in LiveIn(w) : session[s].status = "closing"
    /\ shutdown[w] = "resolved" => LiveIn(w) = {}

(***************************************************************************)
(* Sockets and sessions are all accounted for, by their worlds and by the  *)
(* client, from the handshake to the end of a shutdown.                    *)
(***************************************************************************)
ResourcesAccounted == TypeOK /\ SocketsAccounted /\ ShutdownDrivesOut

(***************************************************************************)
(* The application is told of each lost connection once, with the reason   *)
(* of that connection.                                                     *)
(***************************************************************************)
LossIsToldTruly == LossIsReportedOnce /\ NoticeIsOfThisConnection

(***************************************************************************)
(* Each connection is rebuilt from a baseline of its own, adopted whatever *)
(* its frame number and merged with nothing of an earlier connection.      *)
(***************************************************************************)
EachConnectionRebuilt == StateOfOneConnection /\ FirstBaselineAdopted

(***************************************************************************)
(* A closing session ends, although its client may never ack: the linger   *)
(* has a deadline.                                                         *)
(***************************************************************************)
ClosingEnds ==
  \A s \in Sockets : session[s].status = "closing" ~> session[s].status = "ended"

(***************************************************************************)
(* A client that stays connected to an open session is resynchronised:     *)
(* its first baseline is acked, whatever it held from the connection       *)
(* before.                                                                 *)
(***************************************************************************)
Awaiting(s) == session[s].status = "open" /\ session[s].needs

ConnectedIsResynced ==
  \A s \in Sockets :
    (Awaiting(s) /\ client.socket = s) ~>
      ~(Awaiting(s) /\ client.socket = s /\ Connected(client))

(***************************************************************************)
(* Everything that has begun comes to its end: a closing session is gone,  *)
(* and a new connection is synchronised.                                   *)
(***************************************************************************)
ConnectionsSettle == ClosingEnds /\ ConnectedIsResynced
=============================================================================

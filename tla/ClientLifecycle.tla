--------------------------- MODULE ClientLifecycle --------------------------
(***************************************************************************)
(* The life of a ClientWorld: connectDgram and its races with abort and    *)
(* dispose, one attached socket after another, the ack timer, the pending  *)
(* call, and the disconnect events with the reason they report.            *)
(*                                                                         *)
(* A client is a record and each method an operator from records to        *)
(* records, so that one handler can run several of them in a row.  Of the  *)
(* diff buffer only `version` is kept, with the world its state is of.     *)
(***************************************************************************)
EXTENDS ServerLifecycle, Sequences

VARIABLE client   \* the ClientWorld

Clients ==
  [socket : Sockets \cup {None},       \* _socket
   connecting : Sockets \cup {None},   \* the socket connectDgram awaits
   disconnected : BOOLEAN, disposed : BOOLEAN,
   timer : BOOLEAN,                    \* the ack timer runs
   inCall : BOOLEAN,                   \* _callDepth > 0
   version : Nat \cup {None},          \* DiffBuffer.version
   base : Sockets \cup {None},         \* history variable: the connection whose
                                       \* baseline the state is built on
   force : BOOLEAN, applied : BOOLEAN, \* _forceBaselineReset, _baselineApplied
   call : {"none", "waiting", "replied", "rejected"},
   notice : Notices \cup {NoNotice, "unreadable"},             \* _closeNotice
   pending : Seq([socket : Sockets, notice : Notices \cup {NoNotice, "unreadable"}]),
   reported : SUBSET [socket : Sockets, notice : Notices \cup {NoNotice, "unreadable"}],
   faulty : SUBSET Sockets,  \* history variable: it met the unreadable on these
   mixed : BOOLEAN,          \* history variable: a delta of one connection was
                             \* merged into the state of another
   skipped : BOOLEAN,        \* history variable: the first baseline of a
                             \* connection was skipped, its session still open
   rejects : {"none", "state", "receipt"}]  \* history variable: on which kind of
                                        \* frame a diff was refused

NewClient ==
  [socket |-> None, connecting |-> None, disconnected |-> FALSE, disposed |-> FALSE,
   timer |-> FALSE, inCall |-> FALSE, version |-> None, base |-> None,
   force |-> FALSE, applied |-> FALSE, call |-> "none", notice |-> NoNotice,
   pending |-> <<>>, reported |-> {}, faulty |-> {}, mixed |-> FALSE, skipped |-> FALSE, rejects |-> "none"]

ClientInit == client = NewClient

Attached(c)  == c.socket # None
Connected(c) == Attached(c) /\ ~c.disconnected /\ ~c.disposed

AckOf(c) == IF c.version = None THEN 0 ELSE c.version

-----------------------------------------------------------------------------

\* attachSocket.
Attach(c, s) ==
  [c EXCEPT !.socket = s, !.disconnected = FALSE, !.timer = TRUE,
            !.notice = NoNotice, !.connecting = None]

\* Reject what is still pending.
AbortCall(c) == [c EXCEPT !.call = IF @ = "waiting" THEN "rejected" ELSE @]

\* Mutant: a connection may be lost more than once.
DisconnectAgain(c) ==
  LET event == [socket |-> c.socket, notice |-> c.notice]
      gone  == [AbortCall(c) EXCEPT
                 !.disconnected = TRUE, !.timer = FALSE,
                 !.force = @ \/ c.applied, !.notice = NoNotice]
  IN  IF c.inCall THEN [gone EXCEPT !.pending = Append(@, event)]
      ELSE [gone EXCEPT !.reported = @ \cup {event}]

\* Mutant: the reset the next baseline needs is not forced.
DisconnectUnforced(c) ==
  IF c.disposed \/ c.disconnected THEN c
  ELSE LET event == [socket |-> c.socket, notice |-> c.notice]
           gone  == [AbortCall(c) EXCEPT !.disconnected = TRUE, !.timer = FALSE,
                                         !.notice = NoNotice]
       IN  IF c.inCall THEN [gone EXCEPT !.pending = Append(@, event)]
           ELSE [gone EXCEPT !.reported = @ \cup {event}]

\* _handleDisconnect of the attached socket: at most once per connection.  The
\* event waits for the end of a progress() or apply() in progress.
Disconnect(c) ==
  IF c.disposed \/ c.disconnected THEN c
  ELSE LET event == [socket |-> c.socket, notice |-> c.notice]
           gone  == [AbortCall(c) EXCEPT
                      !.disconnected = TRUE, !.timer = FALSE,
                      !.force = @ \/ c.applied, !.notice = NoNotice]
       IN  IF c.inCall THEN [gone EXCEPT !.pending = Append(@, event)]
           ELSE [gone EXCEPT !.reported = @ \cup {event}]

\* close(): the timer stops and the attached socket is disconnected; the caller
\* closes the socket.
Close(c) == IF Attached(c) THEN Disconnect(c) ELSE [c EXCEPT !.timer = FALSE]

\* _closeForProtocolError.
CloseForProtocolError(c) ==
  Close([c EXCEPT !.notice = "unreadable",
                  !.faulty = IF Connected(c) THEN @ \cup {c.socket} ELSE @])

\* dispose(): no event, nothing kept.
Dispose(c) ==
  Close([AbortCall(c) EXCEPT
          !.disposed = TRUE, !.version = None, !.base = None, !.timer = FALSE])

EndCall(c) ==
  [c EXCEPT !.inCall = FALSE, !.pending = <<>>,
            !.reported = @ \cup {c.pending[i] : i \in DOMAIN c.pending}]

-----------------------------------------------------------------------------
(* _receive, in the order of the code: replies, the diff, the close notice. *)

AfterReply(c, m) ==
  [c EXCEPT !.call = IF m.reply /\ @ = "waiting" THEN "replied" ELSE @]

\* The buffer refuses a delta that starts past what it has received.
Refused(c, m) == c.version # None /\ m.from > c.version

\* A delta the buffer accepts: an empty buffer starts at it.  That of a receipt
\* frame changes nothing, whatever it is merged into.
BufferDelta(c, m) ==
  [c EXCEPT !.version = IF @ = None \/ m.to > @ THEN m.to ELSE @,
            !.mixed   = @ \/ (~m.final /\ c.base # m.socket)]

\* _pushDiff: a baseline replaces everything, unless the client has passed it and
\* no reset is forced; a refused delta closes the client.
AfterDiff(c, m) ==
  CASE m.from = None -> c
    [] m.from = 0 ->
         IF ~c.force /\ m.to <= c.version
         THEN [c EXCEPT !.skipped = @ \/ (c.base # m.socket /\ session[m.socket].status = "open")]
         ELSE [c EXCEPT !.force = FALSE, !.applied = TRUE, !.version = m.to,
                        !.base = m.socket]
    [] m.from > 0 ->
         IF Refused(c, m)
         THEN [CloseForProtocolError(c) EXCEPT
                !.rejects = IF m.final THEN "receipt" ELSE "state"]
         ELSE BufferDelta(c, m)

\* _handleServerClose, its ack aside: the notice is what the event reports.
AfterClose(c, m) ==
  IF m.close = NoNotice THEN c ELSE Disconnect([c EXCEPT !.notice = m.close])

\* The diff of m is refused, so that its close notice is not handled.
Rejects(c, m) == m.from > 0 /\ Refused(c, m)

Handled(c, m) ==
  IF Rejects(c, m) THEN AfterDiff(AfterReply(c, m), m)
  ELSE AfterClose(AfterDiff(AfterReply(c, m), m), m)

\* Frames of a socket no longer attached, or after the end, are dropped.
Listens(c, s) == ~c.disposed /\ ~c.disconnected /\ c.socket = s
=============================================================================

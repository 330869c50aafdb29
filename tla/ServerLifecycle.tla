--------------------------- MODULE ServerLifecycle --------------------------
(***************************************************************************)
(* The life of a ServerWorld's sessions: accepted, replicated to, closed   *)
(* gracefully (flush, linger, receipt) or torn down at once, and the       *)
(* shutdown that drives all of them out.                                   *)
(*                                                                         *)
(* What a state frame holds is Replication.tla's subject: here a frame is  *)
(* its numbers, the RPC reply and the close notice it carries.  Wall-clock *)
(* deadlines (the close linger, the disconnect grace, the shutdown's       *)
(* timeout) are events of their own that may come at any moment.           *)
(***************************************************************************)
EXTENDS Integers

CONSTANTS
  Worlds,      \* the server worlds
  FirstWorld,  \* the one the client connects to first
  Sockets,     \* connections, 1..N in the order they are opened
  StartFrame   \* [Worlds -> Nat]: the newest frame each world has numbered

ASSUME LifecycleAssumption ==
  /\ FirstWorld \in Worlds
  /\ Sockets \subseteq Nat \ {0}
  /\ StartFrame \in [Worlds -> Nat]

None == -1

\* Why a session is closing: closeNotice, or none.
Notices   == {"application", "protocol error", "shutting down"}
NoNotice  == "no notice"
NoWorld   == "no world"

VARIABLES
  frame,     \* [world |-> the newest frame numbered, ServerWorld._frame - 1]
  shutdown,  \* [world |-> "no", "running" or "resolved"]
  session    \* [socket |-> the ServerClientSession of that connection]

lifecycleVars == <<frame, shutdown, session>>

\* One frame on the wire.  from = None is a frame without a diff, 0 a baseline.
Frames ==
  [socket : Sockets, from : Nat \cup {None}, to : Nat,
   reply : BOOLEAN, close : Notices \cup {NoNotice},
   final : BOOLEAN]   \* history variable: the receipt frame of a closing session

NoFlush == [from |-> None, to |-> None, reply |-> FALSE]

Sessions ==
  [status : {"none", "open", "closing", "ended"},
   world  : Worlds \cup {NoWorld},
   ack    : Nat, last : Nat,              \* ackFrame, History.lastFrame
   needs  : BOOLEAN, resync : Nat \cup {None},
   notice : Notices \cup {NoNotice},      \* closeNotice
   handler : {"idle", "running", "settled"},  \* the client's one call
   outbox : BOOLEAN,                      \* a reply waits for the next frame
   flush  : [from : Nat \cup {None}, to : Nat \cup {None}, reply : BOOLEAN],
   told   : Notices \cup {NoNotice},      \* the notice of the flushed frame
   owed   : BOOLEAN,                      \* history variable: the flush had a reply
   how    : {"none", "receipt", "linger", "owes nothing", "grace",
             "transport", "application", "deadline"},
   closes : 0..2]                         \* calls of socket.close()

NoSession ==
  [status |-> "none", world |-> NoWorld, ack |-> 0, last |-> 0, needs |-> TRUE,
   resync |-> None, notice |-> NoNotice, handler |-> "idle", outbox |-> FALSE,
   flush |-> NoFlush, told |-> NoNotice, owed |-> FALSE,
   how |-> "none", closes |-> 0]

Live(r)   == r.status \in {"open", "closing"}
LiveIn(w) == {s \in Sockets : session[s].world = w /\ Live(session[s])}

Larger(a, b) == IF a >= b THEN a ELSE b

LifecycleInit ==
  /\ frame = StartFrame
  /\ shutdown = [w \in Worlds |-> "no"]
  /\ session = [s \in Sockets |-> NoSession]

-----------------------------------------------------------------------------
(* Operations on one session.                                               *)

\* Mutant: a new session takes the client for one that holds its state.
AcceptedSynced(w) ==
  IF shutdown[w] # "no"
  THEN [NoSession EXCEPT !.status = "ended", !.world = w, !.closes = 1]
  ELSE [NoSession EXCEPT
         !.status = "open", !.world = w, !.ack = frame[w], !.last = frame[w], !.needs = FALSE]

\* _onNewConnection: a session that starts at the frame it was created on, or,
\* once the world is shutting down, nothing but the close of the socket.
Accepted(w) ==
  IF shutdown[w] # "no"
  THEN [NoSession EXCEPT !.status = "ended", !.world = w, !.closes = 1]
  ELSE [NoSession EXCEPT
         !.status = "open", !.world = w, !.ack = frame[w], !.last = frame[w]]

\* _endSession, by the entity's destruction: nothing is kept of a session, its
\* pending RPC state least, and its socket is closed.
Ended(r, how) ==
  [NoSession EXCEPT
    !.status = "ended", !.world = r.world, !.how = how, !.owed = r.owed,
    !.told = r.told, !.closes = r.closes + 1]

\* closeSession: mark it; a later close replaces the notice, one without a
\* reason or code leaves it.
Closing(r, notice) ==
  [r EXCEPT !.status = "closing",
            !.notice = IF notice = NoNotice THEN @ ELSE notice]

\* Mutant: the receipt frame reuses the number of the newest state frame.
FlushedUnnumbered(r) ==
  [r EXCEPT
    !.flush  = [from |-> Larger(r.ack, 1), to |-> r.last, reply |-> r.outbox],
    !.told   = r.notice,
    !.owed   = r.outbox,
    !.outbox = FALSE]

\* The receipt frame of a closing session: a frame of its own, an empty delta
\* from the newest ack.
Flushed(r) ==
  [r EXCEPT
    !.last   = r.last + 1,
    !.flush  = [from |-> Larger(r.ack, 1), to |-> r.last + 1, reply |-> r.outbox],
    !.told   = r.notice,
    !.owed   = r.outbox,
    !.outbox = FALSE]

\* Mutant: the linger has no deadline.
LingerForReceipt(r, overdue) ==
  IF r.flush = NoFlush
  THEN IF ~r.outbox /\ r.notice = NoNotice THEN Ended(r, "owes nothing")
       ELSE Flushed(r)
  ELSE IF r.ack >= r.flush.to THEN Ended(r, "receipt")
  ELSE [r EXCEPT !.flush.reply = @ \/ r.outbox, !.outbox = FALSE]

\* _lingerOrClose: end at the receipt or the deadline, else flush or flush
\* again, with the replies that came up since.  `overdue`: closeDeadlineMs passed.
Linger(r, overdue) ==
  IF r.flush = NoFlush
  THEN IF ~r.outbox /\ r.notice = NoNotice THEN Ended(r, "owes nothing")
       ELSE Flushed(r)
  ELSE IF r.ack >= r.flush.to THEN Ended(r, "receipt")
  ELSE IF overdue THEN Ended(r, "linger")
  ELSE [r EXCEPT !.flush.reply = @ \/ r.outbox, !.outbox = FALSE]

\* The session starts a baseline at this frame.
Starts(r, lost) == r.needs /\ (r.resync = None \/ lost)

\* An open session's part of one send(): the frame `to` is recorded, and sent as
\* a baseline, a delta from the ack, or not at all while a baseline is awaited.
\* `silent`: nothing was received for disconnectGraceMs.
Replicate(r, to, lost, silent) ==
  IF silent THEN Ended(r, "grace")
  ELSE [r EXCEPT
         !.last   = to,
         !.resync = IF Starts(r, lost) THEN to ELSE @,
         !.outbox = FALSE]

\* What that send hands to the socket.  Every numbered frame changed something.
StateFrames(s, r, to, lost, silent) ==
  LET sent(from) == {[socket |-> s, from |-> from, to |-> to,
                      reply |-> r.outbox, close |-> NoNotice, final |-> FALSE]}
  IN  IF silent THEN {}
      ELSE IF Starts(r, lost) THEN sent(0)
      ELSE IF r.needs THEN IF r.outbox THEN sent(None) ELSE {}
      ELSE IF r.ack < to \/ r.outbox THEN sent(r.ack) ELSE {}

CloseFrames(s, r) ==
  IF r.status = "closing"
  THEN {[socket |-> s, from |-> r.flush.from, to |-> r.flush.to,
         reply |-> r.flush.reply, close |-> r.told, final |-> TRUE]}
  ELSE {}

\* The ack of a message; one past the newest frame sent is ignored.
Acked(r, ack) ==
  LET ackFrame == Larger(r.ack, ack)
      covers   == r.resync # None /\ ackFrame >= r.resync
  IN  IF ack > r.last THEN r
      ELSE IF r.status = "closing" THEN [r EXCEPT !.ack = ackFrame]
      ELSE [r EXCEPT !.ack = ackFrame,
                     !.needs  = @ /\ ~covers,
                     !.resync = IF covers THEN None ELSE @]

\* A request: the first copy starts the handler, one after it settled gets the
\* reply again.
Requested(r) ==
  [r EXCEPT !.handler = IF @ = "idle" THEN "running" ELSE @,
            !.outbox  = @ \/ r.handler = "settled"]

\* _receive: dropped once the session is closed; an undecodable frame closes it;
\* a closing session honours nothing but the ack.
Received(r, m) ==
  CASE ~Live(r)               -> r
    [] Live(r) /\ m.garbage   -> IF r.status = "closing" THEN r
                                 ELSE Closing(r, "protocol error")
    [] r.status = "closing" /\ ~m.garbage -> Acked(r, m.ack)
    [] r.status = "open" /\ ~m.garbage ->
         IF m.request THEN Requested(Acked(r, m.ack)) ELSE Acked(r, m.ack)
=============================================================================

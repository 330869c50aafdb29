------------------------- MODULE Connections_proofs -------------------------
EXTENDS Connections, TLAPS

-----------------------------------------------------------------------------
Flushing(r) == r.flush # NoFlush

-----------------------------------------------------------------------------
(* Connections, sessions and events.                                        *)

TypeInv ==
  /\ TypeOK
  /\ frame \in [Worlds -> Nat]
  /\ scenario \in Scenarios
  /\ \A s \in Sockets :
       /\ Live(session[s]) => session[s].closes = 0 /\ session[s].how = "none"
       /\ Flushing(session[s]) => session[s].flush.to # None
       /\ session[s].status = "open" => session[s].last <= frame[session[s].world]

\* A socket, its session and the client that opened it.
SocketInv ==
  \A s \in Sockets :
    /\ link[s] \in {"none", "opening"} => session[s].status = "none"
    /\ link[s] = "up" => Live(session[s])
    /\ link[s] = "opening" => client.connecting = s
    /\ session[s].status # "none" \/ link[s] = "opening" => session[s].world \in Worlds
    /\ (session[s].status # "none" \/ link[s] = "opening") /\ ~May("switch") => session[s].world = FirstWorld

LinkInv ==
  /\ Attached(client) => link[client.socket] \in {"up", "down"}
  /\ client.connecting # None =>
       /\ link[client.connecting] # "none"
       /\ ~Connected(client)
       /\ client.connecting # client.socket
  /\ Connected(client) => client.notice = NoNotice

\* A close notice on its way is the one its session flushed.
NoticeInv ==
  \A m \in down : LET r == session[m.socket] IN
    /\ r.status # "none"
    /\ m.final => r.status # "open" /\ (Live(r) => Flushing(r))
    /\ m.close # NoNotice => m.final /\ r.told = m.close

LossInv ==
  /\ LossIsToldTruly
  /\ \A e \in Reported :
       /\ link[e.socket] \notin {"none", "opening"} /\ e.socket # client.connecting
       /\ Connected(client) => e.socket # client.socket
       /\ e.notice \in Notices =>
            /\ session[e.socket].status \in {"closing", "ended"}
            /\ Live(session[e.socket]) => Flushing(session[e.socket])

LifeInv ==
  /\ TypeInv /\ SocketInv /\ LinkInv /\ NoticeInv /\ LossInv
  /\ SocketsAccounted /\ ShutdownDrivesOut
-----------------------------------------------------------------------------
(* What the client's methods leave.                                         *)

Told(c) == c.reported \cup {c.pending[i] : i \in DOMAIN c.pending}
Event(c) == [socket |-> c.socket, notice |-> c.notice]

\* The fields that a method may leave alone: the state, and the connection.
SameState(c, d) ==
  /\ d.version = c.version /\ d.base = c.base /\ d.applied = c.applied
  /\ d.mixed = c.mixed /\ d.skipped = c.skipped /\ d.rejects = c.rejects
SameLink(c, d) == d.socket = c.socket /\ d.connecting = c.connecting /\ d.disposed = c.disposed

LEMMA AttachIs ==
  ASSUME NEW c \in Clients, NEW s \in Sockets
  PROVE  LET d == Attach(c, s) IN
         /\ d \in Clients /\ SameState(c, d) /\ Told(d) = Told(c)
         /\ d.socket = s /\ d.connecting = None /\ d.disposed = c.disposed /\ ~d.disconnected
         /\ d.notice = NoNotice /\ d.faulty = c.faulty /\ d.call = c.call /\ d.force = c.force
  BY ZenonT(40) DEF Attach, Clients, SameState, Told

LEMMA AppendedElements ==
  ASSUME NEW S, NEW q \in Seq(S), NEW x \in S
  PROVE  LET r == Append(q, x) IN
         r \in Seq(S) /\ {r[i] : i \in DOMAIN r} = {q[i] : i \in DOMAIN q} \cup {x}
  <1>. DEFINE r == Append(q, x)
  <1>1. r \in Seq(S) /\ DOMAIN q = 1..Len(q) /\ DOMAIN r = 1..(Len(q) + 1) /\ Len(q) \in Nat
    OBVIOUS
  <1>2. \A i \in 1..(Len(q) + 1) : r[i] = IF i = Len(q) + 1 THEN x ELSE q[i]
    OBVIOUS
  <1>. HIDE DEF r
  <1>3. {r[i] : i \in DOMAIN r} \subseteq {q[i] : i \in DOMAIN q} \cup {x}
    BY <1>1, <1>2
  <1>4. \A i \in DOMAIN q : q[i] \in {r[j] : j \in DOMAIN r}
    BY <1>1, <1>2
  <1>5. x \in {r[j] : j \in DOMAIN r}
    BY <1>1, <1>2
  <1>. QED  BY <1>1, <1>3, <1>4, <1>5

AllTold == [socket : Sockets, notice : Notices \cup {NoNotice, "unreadable"}]

LEMMA AbortCallIs ==
  ASSUME NEW c \in Clients
  PROVE  LET a == AbortCall(c) IN
         /\ a \in Clients /\ SameState(c, a) /\ SameLink(c, a)
         /\ a.faulty = c.faulty /\ a.force = c.force /\ a.notice = c.notice
         /\ a.pending = c.pending /\ a.reported = c.reported
         /\ a.disconnected = c.disconnected /\ a.inCall = c.inCall
         /\ a.call = IF c.call = "waiting" THEN "rejected" ELSE c.call
  <1>. DEFINE call == IF c.call = "waiting" THEN "rejected" ELSE c.call
              a == AbortCall(c)
  <1>1. a = [c EXCEPT !.call = call]  BY DEF AbortCall
  <1>2. call \in {"none", "waiting", "replied", "rejected"}  BY DEF Clients
  <1>. HIDE DEF call, a
  <1>3. a \in Clients  BY <1>1, <1>2 DEF Clients
  <1>4. a.call = call  BY <1>1, <1>2 DEF Clients
  <1>5. SameState(c, a) /\ SameLink(c, a)
    BY <1>1 DEF Clients, SameState, SameLink
  <1>6. /\ a.faulty = c.faulty /\ a.force = c.force /\ a.notice = c.notice
        /\ a.pending = c.pending /\ a.reported = c.reported
        /\ a.disconnected = c.disconnected /\ a.inCall = c.inCall
    BY <1>1 DEF Clients
  <1>. QED  BY <1>3, <1>4, <1>5, <1>6 DEF call, a

\* A client whose connection is lost, whether the event waits or not.
Lose(a, force, p, told) ==
  [a EXCEPT !.disconnected = TRUE, !.timer = FALSE, !.force = force,
            !.notice = NoNotice, !.pending = p, !.reported = told]

LEMMA LoseIs ==
  ASSUME NEW a \in Clients, NEW force \in BOOLEAN, NEW p \in Seq(AllTold),
         NEW told \in SUBSET AllTold, NEW d, d = Lose(a, force, p, told)
  PROVE  /\ d \in Clients /\ SameState(a, d) /\ SameLink(a, d)
         /\ d.disconnected /\ d.notice = NoNotice /\ d.force = force
         /\ d.call = a.call /\ d.faulty = a.faulty /\ d.pending = p /\ d.reported = told
  <1>1. d \in Clients  BY ZenonT(40) DEF Clients, AllTold, Lose
  <1>2. SameState(a, d)  BY DEF Clients, SameState, Lose
  <1>3. SameLink(a, d)  BY DEF Clients, SameLink, Lose
  <1>4. d.disconnected = TRUE /\ d.notice = NoNotice /\ d.force = force  BY DEF Clients, Lose
  <1>5. d.call = a.call /\ d.faulty = a.faulty  BY DEF Clients, Lose
  <1>6. d.pending = p /\ d.reported = told  BY DEF Clients, Lose
  <1>. QED  BY <1>1, <1>2, <1>3, <1>4, <1>5, <1>6

LEMMA DisconnectIs ==
  ASSUME NEW c \in Clients, Attached(c)
  PROVE  LET d == Disconnect(c) IN
         /\ d \in Clients /\ SameState(c, d) /\ SameLink(c, d) /\ d.faulty = c.faulty
         /\ ~Connected(d)
         /\ IF c.disposed \/ c.disconnected THEN d = c
            ELSE /\ d.disconnected /\ d.notice = NoNotice /\ (c.force \/ c.applied => d.force)
                 /\ d.call = IF c.call = "waiting" THEN "rejected" ELSE c.call
                 /\ Told(d) = Told(c) \cup {Event(c)}
  <1>1. CASE c.disposed \/ c.disconnected
    BY <1>1 DEF Disconnect, SameState, SameLink, Connected
  <1>2. CASE ~(c.disposed \/ c.disconnected)
    <2>. DEFINE a == AbortCall(c)
                d == Disconnect(c)
                p == IF c.inCall THEN Append(c.pending, Event(c)) ELSE c.pending
                told == IF c.inCall THEN c.reported ELSE c.reported \cup {Event(c)}
                force == c.force \/ c.applied
    <2>1. Event(c) \in AllTold /\ c.pending \in Seq(AllTold) /\ c.reported \in SUBSET AllTold
      BY DEF Event, Clients, Attached, AllTold
    <2>2. p \in Seq(AllTold) /\ told \in SUBSET AllTold /\ force \in BOOLEAN
      <3>1. p \in Seq(AllTold)  BY <2>1, AppendedElements
      <3>2. told \in SUBSET AllTold  BY <2>1
      <3>3. force \in BOOLEAN  BY DEF Clients
      <3>. QED  BY <3>1, <3>2, <3>3
    <2>3. /\ a \in Clients /\ SameState(c, a) /\ SameLink(c, a)
          /\ a.faulty = c.faulty /\ a.force = c.force /\ a.pending = c.pending
          /\ a.reported = c.reported
          /\ a.call = IF c.call = "waiting" THEN "rejected" ELSE c.call
      BY AbortCallIs
    <2>4. d = Lose(a, force, p, told)
      <3>1. d = IF c.inCall
                THEN [a EXCEPT !.disconnected = TRUE, !.timer = FALSE, !.force = a.force \/ c.applied,
                               !.notice = NoNotice, !.pending = Append(a.pending, Event(c))]
                ELSE [a EXCEPT !.disconnected = TRUE, !.timer = FALSE, !.force = a.force \/ c.applied,
                               !.notice = NoNotice, !.reported = a.reported \cup {Event(c)}]
        BY <1>2, <2>3 DEF Disconnect, Event, Clients
      <3>. HIDE DEF a, d
      <3>2. CASE c.inCall   BY ZenonT(40), <2>3, <3>1, <3>2 DEF Clients, Lose
      <3>3. CASE ~c.inCall  BY ZenonT(40), <2>3, <3>1, <3>3 DEF Clients, Lose
      <3>. QED  BY <3>2, <3>3
    <2>. HIDE DEF a, d, p, told, force
    <2>5. /\ d \in Clients /\ SameState(a, d) /\ SameLink(a, d)
          /\ d.disconnected /\ d.notice = NoNotice /\ d.force = force
          /\ d.call = a.call /\ d.faulty = a.faulty /\ d.pending = p /\ d.reported = told
      BY <2>2, <2>3, <2>4, LoseIs
    <2>6. Told(d) = Told(c) \cup {Event(c)}
      <3>1. CASE c.inCall
        <4>1. {p[i] : i \in DOMAIN p} = {c.pending[i] : i \in DOMAIN c.pending} \cup {Event(c)}
          <5>1. p = Append(c.pending, Event(c))  BY <3>1 DEF p
          <5>. QED  BY <2>1, <5>1, AppendedElements
        <4>. QED  BY <2>5, <3>1, <4>1 DEF Told, told
      <3>2. CASE ~c.inCall
        BY <2>5, <3>2 DEF Told, told, p
      <3>. QED  BY <3>1, <3>2
    <2>. QED
      BY <1>2, <2>3, <2>5, <2>6 DEF SameState, SameLink, Connected, force, d
  <1>. QED  BY <1>1, <1>2

(***************************************************************************)
(* d is c, and its connection may be over: the loss is told once, with the *)
(* reason `notice`, unless the client was disposed.                        *)
(***************************************************************************)
Ends(c, d, notice) ==
  /\ d \in Clients
  /\ d.socket = c.socket /\ d.connecting \in {c.connecting, None}
  /\ c.faulty \subseteq d.faulty
  /\ c.disposed => d.disposed
  /\ c.disconnected => d.disconnected
  /\ d.call = "none" => c.call = "none"
  /\ d.call = "waiting" => c.call = "waiting" \/ (c.call = "none" /\ ~d.disposed /\ ~d.disconnected)
  /\ Connected(d) => d.notice = c.notice
  /\ d.disconnected /\ ~d.disposed /\ ~c.disconnected =>
       /\ Connected(c)
       /\ d.call # "waiting"
       /\ Told(d) = Told(c) \cup {[socket |-> c.socket, notice |-> notice]}
  /\ ~(d.disconnected /\ ~d.disposed /\ ~c.disconnected) => Told(d) = Told(c)

\* The state stays as it is, but must be replaced if one was built.
Keeps(c, d) ==
  /\ SameState(c, d)
  /\ c.force \/ (Connected(c) /\ ~Connected(d) /\ c.applied) => d.force
  /\ Connected(d) /\ d.force => c.force

LEMMA DisconnectEnds ==
  ASSUME NEW c \in Clients, Attached(c)
  PROVE  LET d == Disconnect(c) IN
         Ends(c, d, c.notice) /\ Keeps(c, d) /\ ~Connected(d) /\ SameLink(c, d) /\ d.faulty = c.faulty
  <1>. DEFINE d == Disconnect(c)
  <1>1. /\ d \in Clients /\ SameState(c, d) /\ SameLink(c, d) /\ d.faulty = c.faulty
        /\ ~Connected(d)
        /\ IF c.disposed \/ c.disconnected THEN d = c
           ELSE /\ d.disconnected /\ d.notice = NoNotice /\ (c.force \/ c.applied => d.force)
                /\ d.call = IF c.call = "waiting" THEN "rejected" ELSE c.call
                /\ Told(d) = Told(c) \cup {Event(c)}
    BY DisconnectIs
  <1>2. c.disposed \in BOOLEAN /\ c.disconnected \in BOOLEAN  BY DEF Clients
  <1>. HIDE DEF d
  <1>3. CASE c.disposed \/ c.disconnected
    <2>1. d = c  BY <1>1, <1>3
    <2>2. Ends(c, c, c.notice)  BY DEF Ends
    <2>3. Keeps(c, c)  BY DEF Keeps, SameState
    <2>. QED  BY <1>1, <2>1, <2>2, <2>3 DEF d
  <1>4. CASE ~(c.disposed \/ c.disconnected)
    <2>1. Connected(c)  BY <1>4 DEF Connected
    <2>2. /\ d.socket = c.socket /\ d.connecting \in {c.connecting, None}
          /\ d.disposed = c.disposed /\ d.disconnected /\ c.faulty \subseteq d.faulty
      BY <1>1, <1>4 DEF SameLink
    <2>3. (d.call = "none" => c.call = "none") /\ d.call # "waiting"
      BY <1>1, <1>4
    <2>4. Told(d) = Told(c) \cup {[socket |-> c.socket, notice |-> c.notice]}
      BY <1>1, <1>4 DEF Event
    <2>5. Ends(c, d, c.notice)  BY <1>1, <1>4, <2>1, <2>2, <2>3, <2>4 DEF Ends
    <2>6. Keeps(c, d)  BY <1>1, <1>4, <2>1 DEF Keeps
    <2>. QED  BY <1>1, <2>5, <2>6 DEF d
  <1>. QED  BY <1>3, <1>4

LEMMA CloseEnds ==
  ASSUME NEW c \in Clients
  PROVE  LET d == Close(c) IN
         Ends(c, d, c.notice) /\ Keeps(c, d) /\ ~Connected(d) /\ SameLink(c, d) /\ d.faulty = c.faulty
  <1>1. CASE Attached(c)  BY <1>1, DisconnectEnds DEF Close
  <1>2. CASE ~Attached(c)
    <2>. DEFINE d == Close(c)
    <2>1. d = [c EXCEPT !.timer = FALSE]  BY <1>2 DEF Close
    <2>. HIDE DEF d
    <2>2. d \in Clients  BY <2>1 DEF Clients
    <2>3. SameState(c, d) /\ SameLink(c, d) /\ Told(d) = Told(c) /\ d.faulty = c.faulty
      BY <2>1 DEF Clients, SameState, SameLink, Told
    <2>4. d.force = c.force /\ d.call = c.call /\ d.disconnected = c.disconnected
      BY <2>1 DEF Clients
    <2>. QED  BY <1>2, <2>2, <2>3, <2>4 DEF Ends, Keeps, SameLink, Connected, Attached, d
  <1>. QED  BY <1>1, <1>2

\* What was unreadable is noted, and the connection it came on closed.
Faulted(c) == [c EXCEPT !.notice = "unreadable",
                        !.faulty = IF Connected(c) THEN c.faulty \cup {c.socket} ELSE c.faulty]

LEMMA FaultEnds ==
  ASSUME NEW c \in Clients
  PROVE  LET d == CloseForProtocolError(c) IN
         /\ Ends(c, d, "unreadable") /\ Keeps(c, d) /\ ~Connected(d) /\ SameLink(c, d)
         /\ Connected(c) => c.socket \in d.faulty
  <1>. DEFINE f == Faulted(c)
              d == CloseForProtocolError(c)
              faulty == IF Connected(c) THEN c.faulty \cup {c.socket} ELSE c.faulty
  <1>1. d = Close(f)  BY DEF CloseForProtocolError, Faulted, Clients
  <1>2. faulty \subseteq Sockets /\ c.faulty \subseteq faulty
    BY DEF Clients, Connected, Attached
  <1>3. f = [c EXCEPT !.notice = "unreadable", !.faulty = faulty]  BY DEF Faulted
  <1>4. Connected(c) => c.socket \in faulty  OBVIOUS
  <1>. HIDE DEF f, d, faulty
  <1>5. f \in Clients  BY <1>2, <1>3 DEF Clients
  <1>6. SameState(c, f) /\ SameLink(c, f)  BY <1>3 DEF Clients, SameState, SameLink
  <1>7. /\ Told(f) = Told(c) /\ f.faulty = faulty /\ f.notice = "unreadable"
        /\ f.force = c.force
    BY <1>3 DEF Clients, Told
  <1>8. f.call = c.call /\ f.disconnected = c.disconnected  BY <1>3 DEF Clients
  <1>9. Ends(f, d, "unreadable") /\ Keeps(f, d) /\ ~Connected(d) /\ SameLink(f, d) /\ d.faulty = f.faulty
    BY <1>1, <1>5, <1>7, CloseEnds
  <1>10. Connected(f) = Connected(c)  BY <1>6, <1>8 DEF Connected, Attached, SameLink
  <1>11. SameLink(c, d) /\ Keeps(c, d)
    BY <1>6, <1>7, <1>9, <1>10 DEF SameLink, Keeps, SameState
  <1>12. Ends(c, d, "unreadable")
    BY <1>2, <1>6, <1>7, <1>8, <1>9, <1>10 DEF Ends, SameLink
  <1>. QED  BY <1>4, <1>7, <1>9, <1>11, <1>12 DEF d

\* Nothing is kept.
Emptied(a) == [a EXCEPT !.disposed = TRUE, !.version = None, !.base = None, !.timer = FALSE]

LEMMA DisposeEnds ==
  ASSUME NEW c \in Clients
  PROVE  LET d == Dispose(c) IN
         /\ Ends(c, d, c.notice) /\ d.disposed /\ d.version = None /\ d.base = None
         /\ d.connecting = c.connecting
         /\ d.applied = c.applied /\ (c.force => d.force)
         /\ d.mixed = c.mixed /\ d.skipped = c.skipped /\ d.rejects = c.rejects
  <1>. DEFINE a == AbortCall(c)
              e == Emptied(a)
              d == Dispose(c)
  <1>1. d = Close(e)  BY DEF Dispose, Emptied
  <1>2. /\ a \in Clients /\ SameState(c, a) /\ SameLink(c, a)
        /\ a.faulty = c.faulty /\ a.force = c.force /\ a.notice = c.notice
        /\ a.pending = c.pending /\ a.reported = c.reported
        /\ a.disconnected = c.disconnected /\ a.inCall = c.inCall
        /\ a.call = IF c.call = "waiting" THEN "rejected" ELSE c.call
    BY AbortCallIs
  <1>. HIDE DEF a
  <1>3. e \in Clients  BY <1>2 DEF Clients, Emptied, None
  <1>4. /\ e.socket = a.socket /\ e.connecting = a.connecting /\ e.disposed = TRUE
        /\ e.faulty = a.faulty /\ e.force = a.force /\ e.notice = a.notice
    BY <1>2 DEF Clients, Emptied
  <1>5. /\ e.pending = a.pending /\ e.reported = a.reported
        /\ e.disconnected = a.disconnected /\ e.call = a.call
    BY <1>2 DEF Clients, Emptied
  <1>6. /\ e.version = None /\ e.base = None /\ e.applied = a.applied
        /\ e.mixed = a.mixed /\ e.skipped = a.skipped /\ e.rejects = a.rejects
    BY <1>2 DEF Clients, Emptied
  <1>. HIDE DEF e, d
  <1>7. Ends(e, d, e.notice) /\ Keeps(e, d) /\ ~Connected(d) /\ SameLink(e, d) /\ d.faulty = e.faulty
    BY <1>1, <1>3, CloseEnds
  <1>8. Told(e) = Told(c)  BY <1>2, <1>5 DEF Told
  <1>9. Ends(c, d, c.notice)
    BY <1>2, <1>4, <1>5, <1>7, <1>8 DEF Ends, SameLink, Connected
  <1>10. /\ d.disposed /\ d.version = None /\ d.base = None
         /\ d.connecting = c.connecting /\ d.applied = c.applied /\ (c.force => d.force)
         /\ d.mixed = c.mixed /\ d.skipped = c.skipped /\ d.rejects = c.rejects
    BY <1>2, <1>4, <1>6, <1>7 DEF SameLink, SameState, Keeps
  <1>. QED  BY <1>9, <1>10 DEF d

LEMMA EndCallEnds ==
  ASSUME NEW c \in Clients
  PROVE  LET d == EndCall(c) IN
         Ends(c, d, c.notice) /\ Keeps(c, d) /\ SameLink(c, d) /\ d.disconnected = c.disconnected
  <1>. DEFINE d == EndCall(c)
              told == c.reported \cup {c.pending[i] : i \in DOMAIN c.pending}
  <1>1. d = [c EXCEPT !.inCall = FALSE, !.pending = <<>>, !.reported = told]
    BY DEF EndCall, Clients
  <1>2. told \in SUBSET AllTold /\ << >> \in Seq(AllTold)
    <2>1. c.pending \in Seq(AllTold) /\ c.reported \in SUBSET AllTold  BY DEF Clients, AllTold
    <2>2. \A i \in DOMAIN c.pending : c.pending[i] \in AllTold  BY <2>1
    <2>. QED  BY <2>1, <2>2
  <1>3. told = Told(c)  BY DEF Told
  <1>. HIDE DEF d, told
  <1>4. d \in Clients  BY <1>1, <1>2 DEF Clients, AllTold
  <1>5. SameState(c, d) /\ SameLink(c, d)  BY <1>1 DEF Clients, SameState, SameLink
  <1>6. d.faulty = c.faulty /\ d.force = c.force /\ d.call = c.call /\ d.disconnected = c.disconnected
    BY <1>1 DEF Clients
  <1>7. d.pending = <<>> /\ d.reported = told /\ d.notice = c.notice  BY <1>1 DEF Clients
  <1>8. Told(d) = Told(c)  BY <1>3, <1>7 DEF Told
  <1>. QED  BY <1>4, <1>5, <1>6, <1>7, <1>8 DEF Ends, Keeps, SameLink, Connected, Attached, d

-----------------------------------------------------------------------------
(* What the client does with a frame.                                       *)

SameEvents(c, d) ==
  /\ SameLink(c, d) /\ d.disconnected = c.disconnected
  /\ d.notice = c.notice /\ d.faulty = c.faulty /\ Told(d) = Told(c)

\* A baseline of a connection the client has passed already.
Skips(c, m) == ~c.force /\ m.to <= c.version

\* d is c with the diff of m taken in.
Takes(c, d, m) ==
  /\ d.rejects = c.rejects
  /\ Connected(d) /\ d.force => c.force /\ ~(m.from = 0 /\ ~Skips(c, m))
  /\ m.from = None => SameState(c, d) /\ (c.force => d.force)
  /\ m.from = 0 /\ Skips(c, m) =>
       /\ d.version = c.version /\ d.base = c.base /\ d.applied = c.applied /\ d.mixed = c.mixed
       /\ c.force => d.force
       /\ d.skipped => c.skipped \/ (c.base # m.socket /\ session[m.socket].status = "open")
  /\ m.from = 0 /\ ~Skips(c, m) =>
       /\ d.version = m.to /\ d.base = m.socket /\ d.applied
       /\ d.mixed = c.mixed /\ d.skipped = c.skipped
  /\ m.from # None /\ m.from > 0 =>
       /\ d.version = IF c.version = None \/ m.to > c.version THEN m.to ELSE c.version
       /\ d.base = c.base /\ d.applied = c.applied /\ d.skipped = c.skipped
       /\ c.force => d.force
       /\ d.mixed => c.mixed \/ (~m.final /\ c.base # m.socket)

LEMMA FrameTypes ==
  ASSUME NEW m \in Frames
  PROVE  /\ m.socket \in Sockets /\ m.to \in Nat /\ m.from \in Int
         /\ m.from = None \/ m.from = 0 \/ m.from > 0
         /\ m.reply \in BOOLEAN /\ m.final \in BOOLEAN /\ m.close \in Notices \cup {NoNotice}
         /\ m.from = None => ~(m.from > 0) /\ m.from # 0
         /\ m.from = 0 => ~(m.from > 0) /\ m.from # None
         /\ m.from > 0 => m.from # None /\ m.from # 0
  BY DEF Frames, None

LEMMA ReplyIs ==
  ASSUME NEW c \in Clients, NEW m \in Frames
  PROVE  LET d == AfterReply(c, m) IN
         /\ d \in Clients /\ SameState(c, d) /\ SameEvents(c, d) /\ d.force = c.force
         /\ d.call = IF m.reply /\ c.call = "waiting" THEN "replied" ELSE c.call
  <1>. DEFINE call == IF m.reply /\ c.call = "waiting" THEN "replied" ELSE c.call
              d == AfterReply(c, m)
  <1>1. d = [c EXCEPT !.call = call]  BY DEF AfterReply
  <1>2. call \in {"none", "waiting", "replied", "rejected"}  BY DEF Clients
  <1>. HIDE DEF call, d
  <1>3. d \in Clients  BY <1>1, <1>2 DEF Clients
  <1>4. d.call = call  BY <1>1, <1>2 DEF Clients
  <1>5. SameState(c, d) /\ d.force = c.force  BY <1>1 DEF Clients, SameState
  <1>6. SameLink(c, d) /\ d.disconnected = c.disconnected /\ d.notice = c.notice /\ d.faulty = c.faulty
    BY <1>1 DEF Clients, SameLink
  <1>7. d.pending = c.pending /\ d.reported = c.reported  BY <1>1 DEF Clients
  <1>8. SameEvents(c, d)  BY <1>6, <1>7 DEF SameEvents, Told
  <1>. QED  BY <1>3, <1>4, <1>5, <1>8 DEF d, call

Skipped(c, skipped) == [c EXCEPT !.skipped = skipped]
Adopted(c, m) == [c EXCEPT !.force = FALSE, !.applied = TRUE, !.version = m.to, !.base = m.socket]
Merged(c, version, mixed) == [c EXCEPT !.version = version, !.mixed = mixed]

LEMMA SkippedIs ==
  ASSUME NEW c \in Clients, NEW skipped \in BOOLEAN
  PROVE  LET d == Skipped(c, skipped) IN
         /\ d \in Clients /\ SameEvents(c, d) /\ d.call = c.call /\ d.force = c.force
         /\ d.rejects = c.rejects /\ d.version = c.version /\ d.base = c.base
         /\ d.applied = c.applied /\ d.mixed = c.mixed /\ d.skipped = skipped
  <1>. DEFINE d == Skipped(c, skipped)
  <1>1. d \in Clients  BY DEF Clients, Skipped
  <1>2. SameLink(c, d) /\ d.disconnected = c.disconnected /\ d.notice = c.notice /\ d.faulty = c.faulty
    BY DEF Clients, SameLink, Skipped
  <1>3. d.pending = c.pending /\ d.reported = c.reported /\ d.call = c.call /\ d.force = c.force
    BY DEF Clients, Skipped
  <1>4. /\ d.rejects = c.rejects /\ d.version = c.version /\ d.base = c.base
        /\ d.applied = c.applied /\ d.mixed = c.mixed /\ d.skipped = skipped
    BY DEF Clients, Skipped
  <1>. HIDE DEF d
  <1>5. SameEvents(c, d)  BY <1>2, <1>3 DEF SameEvents, Told
  <1>. QED  BY <1>1, <1>3, <1>4, <1>5 DEF d

LEMMA AdoptedIs ==
  ASSUME NEW c \in Clients, NEW m \in Frames
  PROVE  LET d == Adopted(c, m) IN
         /\ d \in Clients /\ SameEvents(c, d) /\ d.call = c.call
         /\ d.rejects = c.rejects /\ d.version = m.to /\ d.base = m.socket
         /\ d.applied /\ ~d.force /\ d.mixed = c.mixed /\ d.skipped = c.skipped
  <1>. DEFINE d == Adopted(c, m)
  <1>0. m.to \in Nat /\ m.socket \in Sockets  BY FrameTypes
  <1>1. d \in Clients  BY <1>0 DEF Clients, Adopted
  <1>2. SameLink(c, d) /\ d.disconnected = c.disconnected /\ d.notice = c.notice /\ d.faulty = c.faulty
    BY DEF Clients, SameLink, Adopted
  <1>3. d.pending = c.pending /\ d.reported = c.reported /\ d.call = c.call
    BY DEF Clients, Adopted
  <1>4. /\ d.rejects = c.rejects /\ d.version = m.to /\ d.base = m.socket
        /\ d.applied = TRUE /\ d.force = FALSE /\ d.mixed = c.mixed /\ d.skipped = c.skipped
    BY DEF Clients, Adopted
  <1>. HIDE DEF d
  <1>5. SameEvents(c, d)  BY <1>2, <1>3 DEF SameEvents, Told
  <1>. QED  BY <1>1, <1>3, <1>4, <1>5 DEF d

LEMMA MergedIs ==
  ASSUME NEW c \in Clients, NEW version \in Nat, NEW mixed \in BOOLEAN
  PROVE  LET d == Merged(c, version, mixed) IN
         /\ d \in Clients /\ SameEvents(c, d) /\ d.call = c.call /\ d.force = c.force
         /\ d.rejects = c.rejects /\ d.version = version /\ d.base = c.base
         /\ d.applied = c.applied /\ d.mixed = mixed /\ d.skipped = c.skipped
  <1>. DEFINE d == Merged(c, version, mixed)
  <1>1. d \in Clients  BY DEF Clients, Merged
  <1>2. SameLink(c, d) /\ d.disconnected = c.disconnected /\ d.notice = c.notice /\ d.faulty = c.faulty
    BY DEF Clients, SameLink, Merged
  <1>3. d.pending = c.pending /\ d.reported = c.reported /\ d.call = c.call /\ d.force = c.force
    BY DEF Clients, Merged
  <1>4. /\ d.rejects = c.rejects /\ d.version = version /\ d.base = c.base
        /\ d.applied = c.applied /\ d.mixed = mixed /\ d.skipped = c.skipped
    BY DEF Clients, Merged
  <1>. HIDE DEF d
  <1>5. SameEvents(c, d)  BY <1>2, <1>3 DEF SameEvents, Told
  <1>. QED  BY <1>1, <1>3, <1>4, <1>5 DEF d

\* A diff that is not refused changes the state only.
LEMMA DiffIs ==
  ASSUME NEW c \in Clients, NEW m \in Frames, ~Rejects(c, m)
  PROVE  LET d == AfterDiff(c, m) IN
         d \in Clients /\ SameEvents(c, d) /\ d.call = c.call /\ Takes(c, d, m)
  <1>. DEFINE d == AfterDiff(c, m)
  <1>0. /\ m.to \in Nat /\ m.from \in Int
        /\ m.from = None \/ m.from = 0 \/ m.from > 0
        /\ m.from = None => ~(m.from > 0) /\ m.from # 0
        /\ m.from = 0 => ~(m.from > 0) /\ m.from # None
        /\ m.from > 0 => m.from # None /\ m.from # 0
        /\ m.final \in BOOLEAN
    BY FrameTypes
  <1>1. CASE m.from = None
    <2>1. d = c  BY <1>0, <1>1 DEF AfterDiff
    <2>. HIDE DEF d
    <2>2. Takes(c, c, m) /\ SameEvents(c, c)
      BY <1>0, <1>1 DEF Takes, SameState, SameEvents, SameLink
    <2>. QED  BY <2>1, <2>2 DEF d
  <1>2. CASE m.from = 0 /\ Skips(c, m)
    <2>. DEFINE skipped == c.skipped \/ (c.base # m.socket /\ session[m.socket].status = "open")
    <2>1. d = Skipped(c, skipped)  BY <1>0, <1>2 DEF AfterDiff, Skips, Skipped
    <2>2. skipped \in BOOLEAN  BY DEF Clients
    <2>3. skipped => c.skipped \/ (c.base # m.socket /\ session[m.socket].status = "open")
      OBVIOUS
    <2>. HIDE DEF d, skipped
    <2>4. /\ d \in Clients /\ SameEvents(c, d) /\ d.call = c.call /\ d.force = c.force
          /\ d.rejects = c.rejects /\ d.version = c.version /\ d.base = c.base
          /\ d.applied = c.applied /\ d.mixed = c.mixed /\ d.skipped = skipped
      BY <2>1, <2>2, SkippedIs
    <2>5. Takes(c, d, m)  BY <1>0, <1>2, <2>3, <2>4 DEF Takes
    <2>. QED  BY <2>4, <2>5 DEF d
  <1>3. CASE m.from = 0 /\ ~Skips(c, m)
    <2>1. d = Adopted(c, m)  BY <1>0, <1>3 DEF AfterDiff, Skips, Adopted
    <2>. HIDE DEF d
    <2>4. /\ d \in Clients /\ SameEvents(c, d) /\ d.call = c.call
          /\ d.rejects = c.rejects /\ d.version = m.to /\ d.base = m.socket
          /\ d.applied /\ ~d.force /\ d.mixed = c.mixed /\ d.skipped = c.skipped
      BY <2>1, AdoptedIs
    <2>5. Takes(c, d, m)  BY <1>0, <1>3, <2>4 DEF Takes
    <2>. QED  BY <2>4, <2>5 DEF d
  <1>4. CASE m.from > 0
    <2>. DEFINE version == IF c.version = None \/ m.to > c.version THEN m.to ELSE c.version
                mixed == c.mixed \/ (~m.final /\ c.base # m.socket)
    <2>1. d = Merged(c, version, mixed)
      <3>1. ~Refused(c, m)  BY <1>4 DEF Rejects
      <3>2. d = BufferDelta(c, m)  BY <1>0, <1>4, <3>1 DEF AfterDiff
      <3>. QED  BY <3>2 DEF BufferDelta, Merged
    <2>2. mixed \in BOOLEAN /\ version \in Nat  BY <1>0 DEF Clients
    <2>3. mixed => c.mixed \/ (~m.final /\ c.base # m.socket)
      OBVIOUS
    <2>. HIDE DEF d, mixed
    <2>4. /\ d \in Clients /\ SameEvents(c, d) /\ d.call = c.call /\ d.force = c.force
          /\ d.rejects = c.rejects /\ d.version = version /\ d.base = c.base
          /\ d.applied = c.applied /\ d.mixed = mixed /\ d.skipped = c.skipped
      BY <2>1, <2>2, MergedIs
    <2>5. Takes(c, d, m)  BY <1>0, <1>4, <2>3, <2>4 DEF Takes
    <2>. QED  BY <2>4, <2>5 DEF d
  <1>. QED  BY <1>0, <1>1, <1>2, <1>3, <1>4

\* A refused diff closes the connection, and only that is noted of it.
LEMMA RefusedIs ==
  ASSUME NEW c \in Clients, NEW m \in Frames, Rejects(c, m)
  PROVE  LET d == AfterDiff(c, m) IN
         /\ Ends(c, d, "unreadable") /\ ~Connected(d) /\ SameLink(c, d)
         /\ Connected(c) => c.socket \in d.faulty /\ (c.applied => d.force)
         /\ c.force => d.force
         /\ d.version = c.version /\ d.base = c.base /\ d.applied = c.applied
         /\ d.mixed = c.mixed /\ d.skipped = c.skipped
         /\ d.rejects = IF m.final THEN "receipt" ELSE "state"
  <1>. DEFINE x == CloseForProtocolError(c)
              d == AfterDiff(c, m)
              rejects == IF m.final THEN "receipt" ELSE "state"
  <1>1. m.from > 0 /\ m.from # 0 /\ m.from # None  BY FrameTypes DEF Rejects
  <1>2. d = [x EXCEPT !.rejects = rejects]  BY <1>1 DEF AfterDiff, Rejects
  <1>3. /\ Ends(c, x, "unreadable") /\ Keeps(c, x) /\ ~Connected(x) /\ SameLink(c, x)
        /\ Connected(c) => c.socket \in x.faulty
    BY FaultEnds
  <1>4. rejects \in {"none", "state", "receipt"}  OBVIOUS
  <1>5. x \in Clients  BY <1>3 DEF Ends
  <1>. HIDE DEF x, d, rejects
  <1>6. d \in Clients  BY <1>2, <1>4, <1>5 DEF Clients
  <1>7. SameLink(x, d) /\ d.disconnected = x.disconnected /\ d.notice = x.notice /\ d.faulty = x.faulty
    BY <1>2, <1>5 DEF Clients, SameLink
  <1>8. d.pending = x.pending /\ d.reported = x.reported /\ d.call = x.call /\ d.force = x.force
    BY <1>2, <1>5 DEF Clients
  <1>9. /\ d.rejects = rejects /\ d.version = x.version /\ d.base = x.base
        /\ d.applied = x.applied /\ d.mixed = x.mixed /\ d.skipped = x.skipped
    BY <1>2, <1>5 DEF Clients
  <1>10. Told(d) = Told(x)  BY <1>8 DEF Told
  <1>11. Ends(c, d, "unreadable")
    BY <1>3, <1>6, <1>7, <1>8, <1>10 DEF Ends, SameLink, Connected, Attached
  <1>12. ~Connected(d) /\ SameLink(c, d)
    BY <1>3, <1>7 DEF SameLink, Connected, Attached
  <1>. QED  BY <1>3, <1>7, <1>8, <1>9, <1>11, <1>12 DEF Keeps, SameState, d, rejects

\* The close notice comes last.
LEMMA NoticeIs ==
  ASSUME NEW c \in Clients, Connected(c), NEW m \in Frames
  PROVE  LET d == AfterClose(c, m) IN
         /\ Ends(c, d, m.close) /\ Keeps(c, d) /\ SameLink(c, d)
         /\ Connected(d) <=> m.close = NoNotice
         /\ m.close = NoNotice => d = c
  <1>1. CASE m.close = NoNotice
    <2>1. AfterClose(c, m) = c  BY <1>1 DEF AfterClose
    <2>2. Ends(c, c, m.close) /\ Keeps(c, c) /\ SameLink(c, c)
      BY DEF Ends, Keeps, SameState, SameLink
    <2>. QED  BY <1>1, <2>1, <2>2
  <1>2. CASE m.close # NoNotice
    <2>. DEFINE x == [c EXCEPT !.notice = m.close]
                d == AfterClose(c, m)
    <2>1. d = Disconnect(x)  BY <1>2 DEF AfterClose
    <2>2. m.close \in Notices  BY <1>2, FrameTypes
    <2>3. x \in Clients /\ x.notice = m.close  BY <2>2 DEF Clients
    <2>4. SameState(c, x) /\ SameLink(c, x)  BY DEF Clients, SameState, SameLink
    <2>5. /\ x.faulty = c.faulty /\ x.force = c.force /\ x.call = c.call
          /\ x.disconnected = c.disconnected /\ x.pending = c.pending /\ x.reported = c.reported
      BY DEF Clients
    <2>. HIDE DEF x, d
    <2>6. Told(x) = Told(c)  BY <2>5 DEF Told
    <2>7. Connected(x) /\ Attached(x)  BY <2>4, <2>5 DEF Connected, Attached, SameLink
    <2>8. Ends(x, d, m.close) /\ Keeps(x, d) /\ ~Connected(d) /\ SameLink(x, d) /\ d.faulty = x.faulty
      BY <2>1, <2>3, <2>7, DisconnectEnds
    <2>9. Ends(c, d, m.close)
      BY <2>4, <2>5, <2>6, <2>7, <2>8 DEF Ends, SameLink
    <2>10. Keeps(c, d) /\ SameLink(c, d)
      BY <2>4, <2>5, <2>7, <2>8 DEF Keeps, SameState, SameLink
    <2>. QED  BY <1>2, <2>8, <2>9, <2>10 DEF d
  <1>. QED  BY <1>1, <1>2

\* One handler: the replies, the diff, the notice.
LEMMA HandledIs ==
  ASSUME NEW c \in Clients, Connected(c), NEW m \in Frames
  PROVE  LET d == Handled(c, m) IN
         /\ SameLink(c, d)
         /\ m.reply => d.call # "waiting"
         /\ Rejects(c, m) =>
              /\ Ends(c, d, "unreadable") /\ ~Connected(d) /\ c.socket \in d.faulty
              /\ d.version = c.version /\ d.base = c.base /\ d.applied = c.applied
              /\ d.mixed = c.mixed /\ d.skipped = c.skipped
              /\ d.rejects = IF m.final THEN "receipt" ELSE "state"
              /\ c.applied \/ c.force => d.force
         /\ ~Rejects(c, m) =>
              /\ Ends(c, d, m.close) /\ Takes(c, d, m)
              /\ Connected(d) <=> m.close = NoNotice
              /\ d.applied /\ m.close # NoNotice => d.force
              /\ AckOf(AfterDiff(AfterReply(c, m), m)) = AckOf(d)
  <1>. DEFINE b == AfterReply(c, m)
              x == AfterDiff(b, m)
              d == Handled(c, m)
  <1>1. /\ b \in Clients /\ SameState(c, b) /\ SameEvents(c, b) /\ b.force = c.force
        /\ b.call = IF m.reply /\ c.call = "waiting" THEN "replied" ELSE c.call
    BY ReplyIs
  <1>2. Rejects(b, m) = Rejects(c, m)  BY <1>1 DEF Rejects, Refused, SameState
  <1>3. Connected(b)  BY <1>1 DEF SameEvents, SameLink, Connected, Attached
  <1>4. c.call \in {"none", "waiting", "replied", "rejected"} /\ (m.reply => b.call # "waiting")
    BY <1>1 DEF Clients
  <1>5. CASE Rejects(c, m)
    <2>1. d = x  BY <1>5 DEF Handled
    <2>. HIDE DEF b
    <2>2. /\ Ends(b, x, "unreadable") /\ ~Connected(x) /\ SameLink(b, x)
          /\ Connected(b) => b.socket \in x.faulty /\ (b.applied => x.force)
          /\ b.force => x.force
          /\ x.version = b.version /\ x.base = b.base /\ x.applied = b.applied
          /\ x.mixed = b.mixed /\ x.skipped = b.skipped
          /\ x.rejects = IF m.final THEN "receipt" ELSE "state"
      BY <1>1, <1>2, <1>5, RefusedIs
    <2>. HIDE DEF x, d
    <2>3. Ends(c, x, "unreadable")
      BY <1>1, <1>3, <1>4, <2>2 DEF Ends, SameEvents, SameLink
    <2>4. SameLink(c, x)  BY <1>1, <2>2 DEF SameEvents, SameLink
    <2>5. /\ x.version = c.version /\ x.base = c.base /\ x.applied = c.applied
          /\ x.mixed = c.mixed /\ x.skipped = c.skipped
          /\ c.applied \/ c.force => x.force
      BY <1>1, <1>3, <2>2 DEF SameState
    <2>6. x.call # "waiting"  BY <2>2, <1>3 DEF Ends, Connected, SameLink, Attached
    <2>7. c.socket \in x.faulty  BY <1>1, <1>3, <2>2 DEF SameEvents, SameLink
    <2>. QED  BY <1>5, <2>1, <2>2, <2>3, <2>4, <2>5, <2>6, <2>7 DEF d
  <1>6. CASE ~Rejects(c, m)
    <2>1. d = AfterClose(x, m)  BY <1>6 DEF Handled
    <2>0. AckOf(AfterDiff(AfterReply(c, m), m)) = AckOf(x)  OBVIOUS
    <2>. HIDE DEF b
    <2>2. x \in Clients /\ SameEvents(b, x) /\ x.call = b.call /\ Takes(b, x, m)
      BY <1>1, <1>2, <1>6, DiffIs
    <2>. HIDE DEF x, d
    <2>3. Connected(x)  BY <1>3, <2>2 DEF SameEvents, SameLink, Connected, Attached
    <2>4. /\ Ends(x, d, m.close) /\ Keeps(x, d) /\ SameLink(x, d)
          /\ Connected(d) <=> m.close = NoNotice
          /\ m.close = NoNotice => d = x
      BY <2>1, <2>2, <2>3, NoticeIs
    <2>5. SameEvents(c, x)  BY <1>1, <2>2 DEF SameEvents, SameLink
    <2>6. Ends(c, d, m.close)
      <3>1. x.call = "none" => c.call = "none"  BY <1>1, <2>2
      <3>2. x.call = "waiting" => c.call = "waiting"  BY <1>1, <2>2
      <3>3. Connected(x) = Connected(c)  BY <2>3
      <3>. QED  BY <2>4, <2>5, <3>1, <3>2, <3>3 DEF Ends, SameEvents, SameLink
    <2>7. SameLink(c, d)  BY <2>4, <2>5 DEF SameEvents, SameLink
    <2>8. Takes(c, d, m)
      <3>1. SameState(x, d) /\ (x.force => d.force)  BY <2>4 DEF Keeps
      <3>2. Skips(c, m) = Skips(b, m)  BY <1>1 DEF Skips, SameState
      <3>3. Connected(d) /\ d.force => c.force /\ ~(m.from = 0 /\ ~Skips(c, m))
        BY <1>1, <2>2, <2>3, <2>4, <3>2 DEF Takes, Keeps
      <3>. QED  BY <1>1, <2>2, <3>1, <3>2, <3>3 DEF Takes, SameState
    <2>9. m.reply => d.call # "waiting"
      <3>1. CASE m.close = NoNotice  BY <1>4, <2>2, <2>4, <3>1
      <3>2. CASE m.close # NoNotice  BY <2>3, <2>4, <3>2 DEF Ends, Connected, SameLink, Attached
      <3>. QED  BY <3>1, <3>2
    <2>10. d.applied /\ m.close # NoNotice => d.force
      BY <2>3, <2>4 DEF Keeps, SameState
    <2>11. AckOf(d) = AckOf(x)  BY <2>4 DEF Keeps, SameState, AckOf
    <2>. QED  BY <1>6, <2>0, <2>4, <2>6, <2>7, <2>8, <2>9, <2>10, <2>11 DEF d
  <1>. QED  BY <1>5, <1>6

-----------------------------------------------------------------------------
(* What a server does with a session.                                       *)

SameRest(r, q)  == q.world = r.world /\ q.how = r.how /\ q.closes = r.closes
SameFlush(r, q) == q.flush = r.flush /\ q.told = r.told /\ q.owed = r.owed
SameAcks(r, q)  == q.ack = r.ack /\ q.last = r.last /\ q.needs = r.needs /\ q.resync = r.resync
SameCall(r, q)  == q.handler = r.handler /\ q.outbox = r.outbox

Hows == {"none", "receipt", "linger", "owes nothing", "grace",
         "transport", "application", "deadline"}

LEMMA NoSessionIs ==
  /\ NoSession \in Sessions /\ ~Flushing(NoSession) /\ NoFlush.to = None
  /\ NoSession.status = "none" /\ NoSession.world = NoWorld /\ NoSession.ack = 0 /\ NoSession.last = 0
  /\ NoSession.handler = "idle" /\ NoSession.outbox = FALSE /\ NoSession.owed = FALSE
  /\ NoSession.told = NoNotice /\ NoSession.how = "none" /\ NoSession.closes = 0
  /\ NoSession.needs = TRUE /\ NoSession.resync = None
  BY DEF NoSession, Sessions, NoFlush, Flushing, None

LEMMA FlushTypes ==
  ASSUME NEW r \in Sessions
  PROVE  /\ r.flush \in [from : Nat \cup {None}, to : Nat \cup {None}, reply : BOOLEAN]
         /\ r.flush.from \in Nat \cup {None} /\ r.flush.to \in Nat \cup {None} /\ r.flush.reply \in BOOLEAN
  BY DEF Sessions

\* Little is kept of a session that has ended.
Over(n, world, how, owed, told, closes) ==
  [n EXCEPT !.status = "ended", !.world = world, !.how = how, !.owed = owed, !.told = told,
            !.closes = closes]

LEMMA OverIs ==
  ASSUME NEW n \in Sessions, NEW world \in Worlds \cup {NoWorld}, NEW how \in Hows,
         NEW owed \in BOOLEAN, NEW told \in Notices \cup {NoNotice}, NEW closes \in 0..2
  PROVE  LET q == Over(n, world, how, owed, told, closes) IN
         /\ q \in Sessions /\ q.status = "ended" /\ q.world = world /\ q.how = how
         /\ q.owed = owed /\ q.told = told /\ q.ack = n.ack /\ q.last = n.last
         /\ q.handler = n.handler /\ q.outbox = n.outbox /\ q.flush = n.flush
  <1>. DEFINE q == Over(n, world, how, owed, told, closes)
              p == [n EXCEPT !.status = "ended", !.world = world, !.how = how]
  <1>0. p \in Sessions  BY ZenonT(40) DEF Sessions, Hows
  <1>1. q \in Sessions
    <2>1. q = [p EXCEPT !.owed = owed, !.told = told, !.closes = closes]  BY DEF Over
    <2>. HIDE DEF p, q
    <2>. QED  BY ZenonT(40), <1>0, <2>1 DEF Sessions
  <1>2. q.status = "ended" /\ q.world = world /\ q.how = how /\ q.owed = owed
    BY DEF Over, Sessions
  <1>3. q.told = told /\ q.ack = n.ack /\ q.last = n.last  BY DEF Over, Sessions
  <1>4. q.handler = n.handler /\ q.outbox = n.outbox /\ q.flush = n.flush
    BY DEF Over, Sessions
  <1>. QED  BY <1>1, <1>2, <1>3, <1>4

LEMMA EndedIs ==
  ASSUME NEW r \in Sessions, r.closes = 0, NEW how \in Hows
  PROVE  LET q == Ended(r, how) IN
         /\ q \in Sessions /\ q.status = "ended" /\ q.world = r.world /\ q.how = how
         /\ q.told = r.told /\ q.owed = r.owed /\ q.ack = 0 /\ q.last = 0
         /\ q.handler = "idle" /\ q.outbox = FALSE /\ ~Flushing(q)
  <1>. DEFINE q == Ended(r, how)
  <1>1. q = Over(NoSession, r.world, how, r.owed, r.told, r.closes + 1)
    <2>1. \A n : n.closes = 0 =>
            [n EXCEPT !.status = "ended", !.world = r.world, !.how = how, !.owed = r.owed,
                      !.told = r.told, !.closes = r.closes + 1]
              = Over(n, r.world, how, r.owed, r.told, r.closes + 1)
      BY DEF Over
    <2>. QED  BY <2>1, NoSessionIs DEF Ended
  <1>2. r.world \in Worlds \cup {NoWorld} /\ r.owed \in BOOLEAN /\ r.told \in Notices \cup {NoNotice}
    BY DEF Sessions
  <1>3. r.closes + 1 \in 0..2  OBVIOUS
  <1>. HIDE DEF q
  <1>4. /\ q \in Sessions /\ q.status = "ended" /\ q.world = r.world /\ q.how = how
        /\ q.owed = r.owed /\ q.told = r.told /\ q.ack = NoSession.ack /\ q.last = NoSession.last
        /\ q.handler = NoSession.handler /\ q.outbox = NoSession.outbox /\ q.flush = NoSession.flush
    <2>. DEFINE closes == r.closes + 1
    <2>1. closes \in 0..2  BY <1>3
    <2>2. NoSession \in Sessions  BY NoSessionIs
    <2>3. q = Over(NoSession, r.world, how, r.owed, r.told, closes)  BY <1>1
    <2>. HIDE DEF closes
    <2>. QED  BY <1>2, <2>1, <2>2, <2>3, OverIs
  <1>5. q.ack = 0 /\ q.last = 0 /\ q.handler = "idle" /\ q.outbox = FALSE /\ ~Flushing(q)
    BY <1>4, NoSessionIs DEF Flushing
  <1>. QED  BY <1>4, <1>5 DEF q

LEMMA ClosingIs ==
  ASSUME NEW r \in Sessions, NEW notice \in Notices \cup {NoNotice}
  PROVE  LET q == Closing(r, notice) IN
         /\ q \in Sessions /\ q.status = "closing"
         /\ SameRest(r, q) /\ SameFlush(r, q) /\ SameAcks(r, q) /\ SameCall(r, q)
  <1>. DEFINE n == IF notice = NoNotice THEN r.notice ELSE notice
              q == Closing(r, notice)
  <1>1. q = [r EXCEPT !.status = "closing", !.notice = n]  BY DEF Closing, Sessions
  <1>2. n \in Notices \cup {NoNotice}  BY DEF Sessions
  <1>. HIDE DEF q, n
  <1>3. q \in Sessions /\ q.status = "closing"  BY <1>1, <1>2 DEF Sessions
  <1>4. SameRest(r, q) /\ SameFlush(r, q)  BY <1>1 DEF Sessions, SameRest, SameFlush
  <1>5. SameAcks(r, q) /\ SameCall(r, q)  BY <1>1 DEF Sessions, SameAcks, SameCall
  <1>. QED  BY <1>3, <1>4, <1>5 DEF q

LEMMA FlushedIs ==
  ASSUME NEW r \in Sessions
  PROVE  LET q == Flushed(r) IN
         /\ q \in Sessions /\ q.status = r.status /\ SameRest(r, q)
         /\ q.ack = r.ack /\ q.last = r.last + 1 /\ q.needs = r.needs /\ q.resync = r.resync
         /\ q.handler = r.handler /\ q.outbox = FALSE
         /\ Flushing(q) /\ q.flush.to = r.last + 1 /\ q.flush.from > 0
         /\ q.flush.from \in Nat /\ q.flush.reply = r.outbox
         /\ q.owed = r.outbox
  <1>. DEFINE from == Larger(r.ack, 1)
              flush == [from |-> from, to |-> r.last + 1, reply |-> r.outbox]
              q == Flushed(r)
  <1>1. q = [r EXCEPT !.last = r.last + 1, !.flush = flush, !.told = r.notice, !.owed = r.outbox,
                      !.outbox = FALSE]
    BY DEF Flushed
  <1>2. r.ack \in Nat /\ r.last \in Nat /\ r.outbox \in BOOLEAN /\ r.notice \in Notices \cup {NoNotice}
    BY DEF Sessions
  <1>3. from \in Nat /\ from > 0  BY <1>2 DEF Larger
  <1>. HIDE DEF from
  <1>4. /\ flush \in [from : Nat \cup {None}, to : Nat \cup {None}, reply : BOOLEAN]
        /\ flush.from = from /\ flush.to = r.last + 1 /\ flush.reply = r.outbox
    BY <1>2, <1>3
  <1>5. flush # NoFlush
    <2>1. NoFlush.to = None  BY DEF NoFlush
    <2>2. r.last + 1 # None  BY <1>2 DEF None
    <2>. QED  BY <1>4, <2>1, <2>2
  <1>. HIDE DEF q, flush
  <1>6. q \in Sessions
    <2>1. r.last + 1 \in Nat /\ flush \in [from : Nat \cup {None}, to : Nat \cup {None}, reply : BOOLEAN]
      BY <1>2, <1>4
    <2>. QED  BY <1>1, <1>2, <2>1 DEF Sessions
  <1>7. q.status = r.status /\ SameRest(r, q) /\ q.ack = r.ack /\ q.last = r.last + 1
    BY <1>1 DEF Sessions, SameRest
  <1>8. q.needs = r.needs /\ q.resync = r.resync /\ q.handler = r.handler /\ q.outbox = FALSE
    BY <1>1 DEF Sessions
  <1>9. q.flush = flush /\ q.owed = r.outbox  BY <1>1 DEF Sessions
  <1>. QED  BY <1>3, <1>4, <1>5, <1>6, <1>7, <1>8, <1>9 DEF q, Flushing

\* The receipt frame is sent again, with the replies that came up since.
Again(r, reply) == [r EXCEPT !.flush.reply = reply, !.outbox = FALSE]

LEMMA AgainIs ==
  ASSUME NEW r \in Sessions, Flushing(r), r.flush.to # None, NEW reply \in BOOLEAN
  PROVE  LET q == Again(r, reply) IN
         /\ q \in Sessions /\ q.status = r.status /\ SameRest(r, q) /\ SameAcks(r, q)
         /\ q.handler = r.handler /\ q.outbox = FALSE /\ q.told = r.told /\ q.owed = r.owed
         /\ Flushing(q) /\ q.flush.to = r.flush.to /\ q.flush.from = r.flush.from
         /\ q.flush.reply = reply
  <1>. DEFINE flush == [r.flush EXCEPT !.reply = reply]
              q == Again(r, reply)
  <1>1. q = [r EXCEPT !.flush = flush, !.outbox = FALSE]  BY DEF Again, Sessions
  <1>2. /\ flush \in [from : Nat \cup {None}, to : Nat \cup {None}, reply : BOOLEAN]
        /\ flush.from = r.flush.from /\ flush.to = r.flush.to /\ flush.reply = reply
    BY FlushTypes
  <1>3. flush # NoFlush
    <2>1. NoFlush.to = None  BY DEF NoFlush
    <2>. QED  BY <1>2, <2>1
  <1>. HIDE DEF q, flush
  <1>4. q \in Sessions  BY <1>1, <1>2 DEF Sessions
  <1>5. q.status = r.status /\ SameRest(r, q) /\ SameAcks(r, q)  BY <1>1 DEF Sessions, SameRest, SameAcks
  <1>6. q.handler = r.handler /\ q.outbox = FALSE /\ q.told = r.told /\ q.owed = r.owed
    BY <1>1 DEF Sessions
  <1>7. q.flush = flush  BY <1>1 DEF Sessions
  <1>. QED  BY <1>2, <1>3, <1>4, <1>5, <1>6, <1>7 DEF q, Flushing

\* A closing session ends, flushes, or flushes again.
LEMMA LingerIs ==
  ASSUME NEW r \in Sessions, r.status = "closing", r.closes = 0, NEW overdue \in BOOLEAN,
         Flushing(r) => r.flush.to # None
  PROVE  LET q == Linger(r, overdue) IN
         \/ \E how \in Hows \ {"none"} :
              /\ q = Ended(r, how)
              /\ how = "receipt" => Flushing(r) /\ r.ack >= r.flush.to
         \/ ~Flushing(r) /\ q = Flushed(r)
         \/ Flushing(r) /\ ~(r.ack >= r.flush.to) /\ q = Again(r, r.flush.reply \/ r.outbox)
  <1>. DEFINE q == Linger(r, overdue)
              again == Again(r, r.flush.reply \/ r.outbox)
  <1>0. q = IF ~Flushing(r)
            THEN IF ~r.outbox /\ r.notice = NoNotice THEN Ended(r, "owes nothing")
                 ELSE Flushed(r)
            ELSE IF r.ack >= r.flush.to THEN Ended(r, "receipt")
            ELSE IF overdue THEN Ended(r, "linger")
            ELSE again
    BY DEF Linger, Flushing, Again, Sessions
  <1>. HIDE DEF q, again
  <1>1. CASE ~Flushing(r) /\ ~r.outbox /\ r.notice = NoNotice
    <2>1. q = Ended(r, "owes nothing")  BY <1>0, <1>1
    <2>2. "owes nothing" \in Hows \ {"none"} /\ "owes nothing" # "receipt"  BY DEF Hows
    <2>. QED  BY <2>1, <2>2 DEF q
  <1>2. CASE ~Flushing(r) /\ ~(~r.outbox /\ r.notice = NoNotice)
    <2>1. q = Flushed(r)  BY <1>0, <1>2
    <2>. QED  BY <1>2, <2>1 DEF q
  <1>3. CASE Flushing(r) /\ r.ack >= r.flush.to
    <2>1. q = Ended(r, "receipt")  BY <1>0, <1>3
    <2>2. "receipt" \in Hows \ {"none"}  BY DEF Hows
    <2>. QED  BY <1>3, <2>1, <2>2 DEF q
  <1>4. CASE Flushing(r) /\ ~(r.ack >= r.flush.to) /\ overdue
    <2>1. q = Ended(r, "linger")  BY <1>0, <1>4
    <2>2. "linger" \in Hows \ {"none"} /\ "linger" # "receipt"  BY DEF Hows
    <2>. QED  BY <2>1, <2>2 DEF q
  <1>5. CASE Flushing(r) /\ ~(r.ack >= r.flush.to) /\ ~overdue
    <2>1. q = again  BY <1>0, <1>5
    <2>. QED  BY <1>5, <2>1 DEF q, again
  <1>. QED  BY <1>1, <1>2, <1>3, <1>4, <1>5

\* The part of an open session that is not silent.
Replicated(r, to, resync) == [r EXCEPT !.last = to, !.resync = resync, !.outbox = FALSE]

\* The frame of the baseline that is awaited after a send.
Resync(r, to, lost) == IF Starts(r, lost) THEN to ELSE r.resync

LEMMA ReplicateIs ==
  ASSUME NEW r \in Sessions, NEW to, NEW lost, NEW silent
  PROVE  /\ silent => Replicate(r, to, lost, silent) = Ended(r, "grace")
         /\ ~silent => Replicate(r, to, lost, silent) = Replicated(r, to, Resync(r, to, lost))
  <1>1. CASE silent   BY <1>1 DEF Replicate
  <1>2. CASE ~silent  BY <1>2 DEF Replicate, Replicated, Resync, Sessions
  <1>. QED  BY <1>1, <1>2

LEMMA ReplicatedIs ==
  ASSUME NEW r \in Sessions, NEW to \in Nat, NEW resync \in Nat \cup {None}
  PROVE  LET q == Replicated(r, to, resync) IN
         /\ q \in Sessions /\ q.status = r.status /\ SameRest(r, q) /\ SameFlush(r, q)
         /\ q.ack = r.ack /\ q.last = to /\ q.needs = r.needs /\ q.resync = resync
         /\ q.handler = r.handler /\ q.outbox = FALSE
  <1>. DEFINE q == Replicated(r, to, resync)
  <1>1. q = [r EXCEPT !.last = to, !.resync = resync, !.outbox = FALSE]
    BY DEF Replicated
  <1>. HIDE DEF q
  <1>3. q \in Sessions /\ q.status = r.status  BY <1>1 DEF Sessions
  <1>4. SameRest(r, q) /\ SameFlush(r, q)  BY <1>1 DEF Sessions, SameRest, SameFlush
  <1>5. q.ack = r.ack /\ q.last = to /\ q.needs = r.needs /\ q.resync = resync
    BY <1>1 DEF Sessions
  <1>6. q.handler = r.handler /\ q.outbox = FALSE  BY <1>1 DEF Sessions
  <1>. QED  BY <1>3, <1>4, <1>5, <1>6 DEF q

\* The ack of a message that is not ignored.
Counts(r, q, ack) ==
  /\ ack <= r.last /\ q.ack = Larger(r.ack, ack)
  /\ IF r.status = "open" /\ r.resync # None /\ q.ack >= r.resync
     THEN q.needs = FALSE /\ q.resync = None
     ELSE q.needs = r.needs /\ q.resync = r.resync

LEMMA AckedIs ==
  ASSUME NEW r \in Sessions, Live(r), NEW ack \in Nat
  PROVE  LET q == Acked(r, ack) IN
         /\ q \in Sessions /\ q.status = r.status /\ SameRest(r, q) /\ SameFlush(r, q) /\ SameCall(r, q)
         /\ q.last = r.last
         /\ SameAcks(r, q) \/ Counts(r, q, ack)
  <1>. DEFINE top == Larger(r.ack, ack)
              covers == r.status = "open" /\ r.resync # None /\ top >= r.resync
              needs == IF covers THEN FALSE ELSE r.needs
              resync == IF covers THEN None ELSE r.resync
              q == Acked(r, ack)
  <1>1. CASE ack > r.last
    BY <1>1 DEF Acked, SameRest, SameFlush, SameCall, SameAcks
  <1>2. CASE ~(ack > r.last)
    <2>1. q = [r EXCEPT !.ack = top, !.needs = needs, !.resync = resync]
      <3>1. CASE r.status = "closing"
        BY <1>2, <3>1 DEF Acked, Sessions
      <3>2. CASE r.status = "open"
        BY <1>2, <3>2 DEF Acked, Sessions
      <3>. QED  BY <3>1, <3>2 DEF Live
    <2>2. top \in Nat /\ needs \in BOOLEAN /\ resync \in Nat \cup {None} /\ ack <= r.last
      <3>1. /\ r.ack \in Nat /\ r.last \in Nat
            /\ r.needs \in BOOLEAN /\ r.resync \in Nat \cup {None}
        BY DEF Sessions
      <3>2. top \in Nat /\ ack <= r.last  BY <1>2, <3>1 DEF Larger
      <3>. HIDE DEF covers
      <3>. QED  BY <3>1, <3>2
    <2>3. IF covers THEN needs = FALSE /\ resync = None ELSE needs = r.needs /\ resync = r.resync
      OBVIOUS
    <2>. HIDE DEF q, top, needs, resync
    <2>4. q \in Sessions /\ q.status = r.status  BY <2>1, <2>2 DEF Sessions
    <2>5. SameRest(r, q) /\ SameFlush(r, q)  BY <2>1 DEF Sessions, SameRest, SameFlush
    <2>6. q.ack = top /\ q.last = r.last /\ q.needs = needs /\ q.resync = resync
      BY <2>1 DEF Sessions
    <2>7. SameCall(r, q)  BY <2>1 DEF Sessions, SameCall
    <2>8. Counts(r, q, ack)  BY <2>2, <2>3, <2>6 DEF Counts, top
    <2>. QED  BY <2>4, <2>5, <2>6, <2>7, <2>8 DEF q
  <1>. QED  BY <1>1, <1>2

LEMMA RequestedIs ==
  ASSUME NEW r \in Sessions
  PROVE  LET q == Requested(r) IN
         /\ q \in Sessions /\ q.status = r.status /\ SameRest(r, q) /\ SameFlush(r, q) /\ SameAcks(r, q)
  <1>. DEFINE handler == IF r.handler = "idle" THEN "running" ELSE r.handler
              outbox == r.outbox \/ r.handler = "settled"
              q == Requested(r)
  <1>1. q = [r EXCEPT !.handler = handler, !.outbox = outbox]
    BY DEF Requested, Sessions
  <1>2. handler \in {"idle", "running", "settled"} /\ outbox \in BOOLEAN  BY DEF Sessions
  <1>. HIDE DEF q, handler, outbox
  <1>3. q \in Sessions /\ q.status = r.status  BY <1>1, <1>2 DEF Sessions
  <1>4. SameRest(r, q) /\ SameFlush(r, q) /\ SameAcks(r, q)
    BY <1>1 DEF Sessions, SameRest, SameFlush, SameAcks
  <1>. QED  BY <1>3, <1>4 DEF q

\* One message received by a session, dropped once it has ended.
LEMMA ReceivedIs ==
  ASSUME NEW r \in Sessions, NEW m \in Messages
  PROVE  LET q == Received(r, m) IN
         /\ ~Live(r) => q = r
         /\ Live(r) =>
              /\ q \in Sessions /\ SameRest(r, q) /\ SameFlush(r, q) /\ q.last = r.last
              /\ q.status = r.status \/ (q.status = "closing" /\ m.garbage /\ SameAcks(r, q))
              /\ SameAcks(r, q) \/ Counts(r, q, m.ack)
              /\ SameCall(r, q) \/ (m.request /\ r.status = "open")
              /\ m.garbage => SameAcks(r, q) /\ SameCall(r, q)
  <1>. DEFINE q == Received(r, m)
  <1>0. m.ack \in Nat /\ m.garbage \in BOOLEAN /\ m.request \in BOOLEAN  BY DEF Messages
  <1>1. CASE ~Live(r)
    <2>1. q = r  BY <1>1 DEF Received, Live
    <2>. QED  BY <1>1, <2>1
  <1>2. CASE Live(r) /\ m.garbage
    <2>1. CASE r.status = "closing"
      <3>1. q = r  BY <1>2, <2>1 DEF Received
      <3>. QED  BY <1>2, <3>1 DEF SameRest, SameFlush, SameAcks, SameCall
    <2>2. CASE r.status # "closing"
      <3>1. q = Closing(r, "protocol error")  BY <1>2, <2>2 DEF Received
      <3>2. "protocol error" \in Notices \cup {NoNotice}  BY DEF Notices
      <3>. HIDE DEF q
      <3>3. /\ q \in Sessions /\ q.status = "closing"
            /\ SameRest(r, q) /\ SameFlush(r, q) /\ SameAcks(r, q) /\ SameCall(r, q)
        BY <3>1, <3>2, ClosingIs
      <3>4. q.last = r.last  BY <3>3 DEF SameAcks
      <3>. QED  BY <1>2, <3>3, <3>4 DEF q
    <2>. QED  BY <2>1, <2>2
  <1>3. CASE Live(r) /\ ~m.garbage
    <2>. DEFINE a == Acked(r, m.ack)
    <2>1. /\ a \in Sessions /\ a.status = r.status /\ SameRest(r, a) /\ SameFlush(r, a) /\ SameCall(r, a)
          /\ a.last = r.last /\ (SameAcks(r, a) \/ Counts(r, a, m.ack))
      BY <1>0, <1>3, AckedIs
    <2>2. CASE r.status = "open" /\ m.request
      <3>1. q = Requested(a)  BY <1>3, <2>2 DEF Received, Live
      <3>. HIDE DEF a, q
      <3>2. /\ q \in Sessions /\ q.status = a.status /\ SameRest(a, q) /\ SameFlush(a, q) /\ SameAcks(a, q)
        BY <2>1, <3>1, RequestedIs
      <3>3. SameRest(r, q) /\ SameFlush(r, q) /\ q.last = r.last /\ q.status = r.status
        BY <2>1, <3>2 DEF SameRest, SameFlush, SameAcks
      <3>4. SameAcks(r, q) \/ Counts(r, q, m.ack)
        BY <2>1, <3>2 DEF SameAcks, Counts
      <3>. QED  BY <1>3, <2>2, <3>2, <3>3, <3>4 DEF q
    <2>3. CASE ~(r.status = "open" /\ m.request)
      <3>1. q = a  BY <1>3, <2>3 DEF Received, Live
      <3>. HIDE DEF a, q
      <3>. QED  BY <1>3, <2>1, <3>1 DEF q
    <2>. QED  BY <2>2, <2>3
  <1>. QED  BY <1>1, <1>2, <1>3

-----------------------------------------------------------------------------
(* Messages, frames and the constants.                                      *)

LEMMA MatterIs ==
  ASSUME NEW M, M \subseteq Messages
  PROVE  /\ Matter(M) \subseteq Messages
         /\ \A m \in Matter(M) :
              \/ m \in M /\ Live(session'[m.socket])
              \/ /\ ~Live(session'[m.socket]) /\ m.ack = 0 /\ ~m.garbage
                 /\ \E n \in M : n.socket = m.socket
  <1>. DEFINE dead(m) == [socket |-> m.socket, ack |-> 0, request |-> TRUE, garbage |-> FALSE]
  <1>1. SUFFICES ASSUME NEW m \in Matter(M)
                 PROVE  /\ m \in Messages
                        /\ \/ m \in M /\ Live(session'[m.socket])
                           \/ /\ ~Live(session'[m.socket]) /\ m.ack = 0 /\ ~m.garbage
                              /\ \E n \in M : n.socket = m.socket
    OBVIOUS
  <1>2. CASE m \in M /\ Live(session'[m.socket])  BY <1>2
  <1>3. CASE ~(m \in M /\ Live(session'[m.socket]))
    <2>1. \E n \in M : ~Live(session'[n.socket]) /\ m = dead(n)
      BY <1>1, <1>3 DEF Matter
    <2>2. PICK n \in M : ~Live(session'[n.socket]) /\ m = dead(n)  BY <2>1
    <2>3. n \in Messages  OBVIOUS
    <2>4. m.socket = n.socket /\ m.ack = 0 /\ m.garbage = FALSE  BY <2>2
    <2>5. m \in Messages  BY <2>2, <2>3 DEF Messages
    <2>. QED  BY <2>2, <2>4, <2>5
  <1>. QED  BY <1>2, <1>3

LEMMA MessageIs ==
  ASSUME NEW c \in Clients, c.socket \in Sockets
  PROVE  /\ Message(c) \in Messages /\ Message(c).socket = c.socket /\ Message(c).ack = AckOf(c)
         /\ Message(c).garbage = FALSE /\ Message(c).request = (c.call = "waiting")
         /\ AckOf(c) \in Nat
  <1>1. AckOf(c) \in Nat  BY DEF Clients, AckOf
  <1>. QED  BY <1>1 DEF Message, Messages

LEMMA HeardIs ==
  ASSUME NEW F
  PROVE  Heard(F) \subseteq F /\ \A m \in Heard(F) : Listens(client', m.socket) \/ client'.connecting = m.socket
  BY DEF Heard

LEMMA Constants ==
  ASSUME TypeInv
  PROVE  /\ Sockets \subseteq Nat \ {0} /\ None \notin Sockets /\ FirstWorld \in Worlds
         /\ \A w \in Worlds : StartFrame[w] \in Nat /\ Bound(w) \in Nat
         /\ scenario.ticks \in Nat
  BY LifecycleAssumption, ScenarioAssumption DEF TypeInv, Bound, None

LEMMA CutIs ==
  ASSUME NEW S, NEW s \in Sockets
  PROVE  Cut(S)[s] = IF s \in S THEN "down" ELSE link[s]
  BY DEF Cut

LEMMA ToldIs ==
  ASSUME NEW c \in Clients
  PROVE  Told(c) \subseteq AllTold
  <1>1. c.pending \in Seq(AllTold) /\ c.reported \subseteq AllTold  BY DEF Clients, AllTold
  <1>2. \A i \in DOMAIN c.pending : c.pending[i] \in AllTold  BY <1>1
  <1>. QED  BY <1>1, <1>2 DEF Told

LEMMA ReportedIs ==
  TypeInv => Reported = Told(client) /\ \A e \in Reported : e.socket \in Sockets
  BY ToldIs DEF Reported, Told, TypeInv, TypeOK, AllTold

-----------------------------------------------------------------------------
(* A step of the client that opens no connection.                           *)

\* The reason a loss is told with is that of the connection.
Honest(notice) ==
  /\ notice \in Notices =>
       /\ session[client.socket].told = notice
       /\ session[client.socket].status \in {"closing", "ended"}
       /\ Live(session[client.socket]) => Flushing(session[client.socket])
  /\ notice = "unreadable" => client.socket \in client'.faulty

ClientMove(notice, S) ==
  /\ UNCHANGED <<lifecycleVars, scenario>>
  /\ Ends(client, client', notice)
  /\ Connected(client) /\ client'.disconnected => Honest(notice)
  /\ link' = Cut(S) /\ S \subseteq {client.socket, client.connecting}
  /\ client.connecting # client'.connecting => client.connecting \in S
  /\ Connected(client) /\ ~Connected(client') =>
       client.socket \in S \/ link[client.socket] # "up" \/ session[client.socket].status = "closing"
  /\ down' \subseteq down /\ up' \subseteq Messages /\ receipts' \subseteq Sockets

LEMMA ClientMoves ==
  ASSUME LifeInv, NEW notice, NEW S, ClientMove(notice, S)
  PROVE  LifeInv'
  <1>0. /\ TypeInv /\ SocketInv /\ LinkInv /\ NoticeInv /\ LossInv
        /\ SocketsAccounted /\ ShutdownDrivesOut
    BY DEF LifeInv
  <1>1. /\ frame' = frame /\ shutdown' = shutdown /\ session' = session /\ scenario' = scenario
        /\ link' = Cut(S) /\ down' \subseteq down /\ up' \subseteq Messages /\ receipts' \subseteq Sockets
    BY DEF ClientMove, lifecycleVars
  <1>2. Ends(client, client', notice)  BY DEF ClientMove
  <1>3. None \notin Sockets /\ client \in Clients /\ client' \in Clients
    BY <1>0, <1>2, Constants DEF TypeInv, TypeOK, Ends
  <1>4. client.connecting \in Sockets \cup {None} /\ client.socket \in Sockets \cup {None}
    BY <1>3 DEF Clients
  <1>5. /\ client'.socket = client.socket /\ client'.connecting \in {client.connecting, None}
        /\ Connected(client') => Connected(client)
    BY <1>2 DEF Ends, Connected, Attached
  <1>6. /\ S \subseteq {client.socket, client.connecting}
        /\ client.connecting # client'.connecting => client.connecting \in S
    BY DEF ClientMove
  <1>7. \A s \in Sockets : link'[s] = IF s \in S THEN "down" ELSE link[s]
    BY <1>1, CutIs
  <1>10. TypeInv'
    <2>1. link \in [Sockets -> {"none", "opening", "up", "down"}]  BY <1>0 DEF TypeInv, TypeOK
    <2>2. link' \in [Sockets -> {"none", "opening", "up", "down"}]
      BY <1>1, <2>1 DEF Cut
    <2>3. down' \subseteq Frames  BY <1>0, <1>1 DEF TypeInv, TypeOK
    <2>4. TypeOK'  BY <1>0, <1>1, <1>3, <2>2, <2>3 DEF TypeInv, TypeOK, Bound
    <2>. QED  BY <1>0, <1>1, <2>4 DEF TypeInv
  <1>11. SocketInv'
    <2>1. \A s \in Sockets : link'[s] \in {"none", "opening", "up"} => link'[s] = link[s]
      BY <1>7
    <2>2. \A s \in Sockets : link'[s] = "opening" => client'.connecting = s
      <3>1. SUFFICES ASSUME NEW s \in Sockets, link'[s] = "opening"
                     PROVE  client'.connecting = s
        OBVIOUS
      <3>2. s \notin S /\ link[s] = "opening"  BY <1>7, <3>1
      <3>3. client.connecting = s  BY <1>0, <3>2 DEF SocketInv
      <3>. QED  BY <1>5, <1>6, <3>2, <3>3
    <2>3. \A s \in Sockets : May("switch")' = May("switch")  BY <1>1 DEF May
    <2>. QED  BY <1>0, <1>1, <1>7, <2>1, <2>2, <2>3 DEF SocketInv
  <1>12. LinkInv'
    <2>1. Attached(client') => link'[client'.socket] \in {"up", "down"}
      BY <1>0, <1>4, <1>5, <1>7 DEF LinkInv, Attached
    <2>2. client'.connecting # None => client'.connecting = client.connecting
      BY <1>5
    <2>3. client'.connecting # None =>
            /\ link'[client'.connecting] # "none"
            /\ ~Connected(client')
            /\ client'.connecting # client'.socket
      BY <1>0, <1>4, <1>5, <1>7, <2>2 DEF LinkInv
    <2>4. Connected(client') => client'.notice = NoNotice
      BY <1>0, <1>2, <1>5 DEF LinkInv, Ends
    <2>. QED  BY <2>1, <2>3, <2>4 DEF LinkInv
  <1>13. NoticeInv'
    BY <1>0, <1>1 DEF NoticeInv
  <1>14. SocketsAccounted'
    <2>1. SUFFICES ASSUME NEW s \in Sockets, link'[s] = "up"
                   PROVE  \/ client'.connecting = s
                          \/ client'.socket = s /\ Connected(client')
                          \/ session'[s].status = "closing"
      BY DEF SocketsAccounted
    <2>2. s \notin S /\ link[s] = "up"  BY <1>7, <2>1
    <2>3. CASE client.connecting = s  BY <1>5, <1>6, <2>2, <2>3
    <2>4. CASE client.socket = s /\ Connected(client)
      BY <1>1, <1>5, <2>2, <2>4 DEF ClientMove
    <2>5. CASE session[s].status = "closing"  BY <1>1, <2>5
    <2>. QED  BY <1>0, <2>2, <2>3, <2>4, <2>5 DEF SocketsAccounted
  <1>15. ShutdownDrivesOut'
    BY <1>0, <1>1 DEF ShutdownDrivesOut, LiveIn
  <1>16. LossInv'
    <2>. DEFINE event == [socket |-> client.socket, notice |-> notice]
                fresh == client'.disconnected /\ ~client'.disposed /\ ~client.disconnected
    <2>1. Reported = Told(client) /\ \A e \in Reported : e.socket \in Sockets
      BY <1>0, ReportedIs
    <2>2. Reported' = Told(client')
      BY DEF Reported, Told
    <2>3. fresh => Connected(client) /\ client'.call # "waiting" /\ Reported' = Reported \cup {event}
      BY <1>2, <2>1, <2>2 DEF Ends
    <2>4. ~fresh => Reported' = Reported
      BY <1>2, <2>1, <2>2 DEF Ends
    <2>. HIDE DEF fresh
    <2>5. event.socket = client.socket /\ event.notice = notice  OBVIOUS
    <2>. HIDE DEF event
    <2>6. \A e \in Reported' : e \in Reported \/ (fresh /\ e = event)
      BY <2>3, <2>4
    <2>7. fresh => Honest(notice) /\ client.socket \in Sockets /\ client.connecting = None
      <3>1. fresh => client'.disconnected  BY DEF fresh
      <3>. QED  BY <1>0, <1>4, <2>3, <3>1 DEF ClientMove, Connected, Attached, LinkInv
    <2>8. NoticeIsOfThisConnection'
      <3>1. SUFFICES ASSUME NEW e \in Reported'
                     PROVE  /\ e.notice \in Notices => session'[e.socket].told = e.notice
                            /\ e.notice = "unreadable" => e.socket \in client'.faulty
        BY DEF NoticeIsOfThisConnection
      <3>2. CASE e \in Reported
        BY <1>0, <1>1, <1>2, <3>2 DEF LossInv, LossIsToldTruly, NoticeIsOfThisConnection, Ends
      <3>3. CASE fresh /\ e = event
        BY <1>1, <2>5, <2>7, <3>3 DEF Honest
      <3>. QED  BY <2>6, <3>2, <3>3
    <2>9. LossIsReportedOnce'
      <3>1. ASSUME NEW e \in Reported', NEW f \in Reported', e.socket = f.socket
            PROVE  e = f
        <4>1. CASE e \in Reported /\ f \in Reported
          BY <1>0, <3>1, <4>1 DEF LossInv, LossIsToldTruly, LossIsReportedOnce
        <4>2. ASSUME NEW g \in Reported, fresh  PROVE g.socket # event.socket
          BY <1>0, <2>3, <2>5, <4>2 DEF LossInv
        <4>. QED  BY <2>6, <3>1, <4>1, <4>2
      <3>2. ASSUME Attached(client'), client'.disconnected, ~client'.disposed
            PROVE  /\ \E e \in Reported' : e.socket = client'.socket
                   /\ client'.call # "waiting"
        <4>1. CASE fresh
          BY <1>5, <2>3, <2>5, <4>1
        <4>2. CASE ~fresh
          <5>1. client.disconnected /\ ~client.disposed /\ Attached(client)
            BY <1>2, <1>5, <3>2, <4>2 DEF fresh, Ends, Attached
          <5>2. (\E e \in Reported : e.socket = client.socket) /\ client.call # "waiting"
            BY <1>0, <5>1 DEF LossInv, LossIsToldTruly, LossIsReportedOnce
          <5>3. client'.call # "waiting"  BY <1>2, <3>2, <5>2 DEF Ends
          <5>. QED  BY <1>5, <2>4, <4>2, <5>2, <5>3
        <4>. QED  BY <4>1, <4>2
      <3>. QED  BY <3>1, <3>2 DEF LossIsReportedOnce
    <2>10. ASSUME NEW e \in Reported'
           PROVE  /\ link'[e.socket] \notin {"none", "opening"} /\ e.socket # client'.connecting
                  /\ Connected(client') => e.socket # client'.socket
                  /\ e.notice \in Notices =>
                       /\ session'[e.socket].status \in {"closing", "ended"}
                       /\ Live(session'[e.socket]) => Flushing(session'[e.socket])
      <3>1. CASE e \in Reported
        <4>1. e.socket \in Sockets  BY <2>1, <3>1
        <4>2. /\ link[e.socket] \notin {"none", "opening"} /\ e.socket # client.connecting
              /\ Connected(client) => e.socket # client.socket
              /\ e.notice \in Notices =>
                   /\ session[e.socket].status \in {"closing", "ended"}
                   /\ Live(session[e.socket]) => Flushing(session[e.socket])
          BY <1>0, <3>1 DEF LossInv
        <4>. QED  BY <1>1, <1>3, <1>5, <1>7, <4>1, <4>2
      <3>2. CASE fresh /\ e = event
        <4>1. e.socket = client.socket /\ e.notice = notice /\ e.socket \in Sockets
          BY <2>5, <2>7, <3>2
        <4>2. Attached(client) /\ ~Connected(client')
          BY <2>3, <3>2 DEF Connected, fresh
        <4>3. link[client.socket] \in {"up", "down"}
          BY <1>0, <4>2 DEF LinkInv
        <4>4. link'[e.socket] \notin {"none", "opening"}  BY <1>7, <4>1, <4>3
        <4>5. e.socket # client'.connecting  BY <1>3, <1>5, <2>7, <3>2, <4>1
        <4>. QED  BY <1>1, <2>7, <3>2, <4>1, <4>2, <4>4, <4>5 DEF Honest
      <3>. QED  BY <2>6, <3>1, <3>2
    <2>. QED  BY <2>8, <2>9, <2>10 DEF LossInv, LossIsToldTruly
  <1>. QED  BY <1>10, <1>11, <1>12, <1>13, <1>14, <1>15, <1>16 DEF LifeInv

-----------------------------------------------------------------------------
(* A step of the servers that accepts no connection.                        *)

\* q is what becomes of a session r.
Serves(r, q) ==
  /\ q \in Sessions /\ q.ack <= q.last /\ q.world = r.world
  /\ ~Live(r) => q = r
  /\ r.status = "closing" => q.status \in {"closing", "ended"}
  /\ r.status = "open" => q.status \in {"open", "closing", "ended"}
  /\ Live(q) => q.closes = 0 /\ q.how = "none"
  /\ Flushing(r) => q.told = r.told /\ (Live(q) => Flushing(q))
  /\ Flushing(q) => q.flush.to # None

\* What the operations ask of the session they are run on.
Proper(r) ==
  /\ r \in Sessions /\ r.ack <= r.last
  /\ Live(r) => r.closes = 0 /\ r.how = "none"
  /\ Flushing(r) => r.flush.to # None

LEMMA ServesSelf ==
  ASSUME NEW r, Proper(r)
  PROVE  Serves(r, r)
  BY DEF Serves, Proper, Live

LEMMA EndedServes ==
  ASSUME NEW r, Proper(r), Live(r), NEW how \in Hows
  PROVE  Serves(r, Ended(r, how)) /\ Ended(r, how).status = "ended"
  <1>. DEFINE q == Ended(r, how)
  <1>1. /\ q \in Sessions /\ q.status = "ended" /\ q.world = r.world /\ q.told = r.told
        /\ q.ack = 0 /\ q.last = 0 /\ ~Flushing(q)
    BY EndedIs DEF Proper
  <1>. HIDE DEF q
  <1>2. ~Live(q)  BY <1>1 DEF Live
  <1>3. q.ack <= q.last  BY <1>1
  <1>. QED  BY <1>1, <1>2, <1>3 DEF Serves, q

\* Most operations change a session in ways that only matter to its numbers.
LEMMA LightServes ==
  ASSUME NEW r, Proper(r), NEW q \in Sessions, Live(r),
         q.status = r.status \/ q.status = "closing", q.ack <= q.last, SameRest(r, q),
         Flushing(r) => q.told = r.told /\ Flushing(q), Flushing(q) => q.flush.to # None
  PROVE  Serves(r, q)
  BY DEF Serves, Proper, SameRest, Live

LEMMA LingerServes ==
  ASSUME NEW r, Proper(r), r.status = "closing", NEW overdue \in BOOLEAN
  PROVE  Serves(r, Linger(r, overdue))
  <1>. DEFINE q == Linger(r, overdue)
  <1>0. Live(r) /\ r \in Sessions /\ r.closes = 0 /\ (Flushing(r) => r.flush.to # None)
    BY DEF Live, Proper
  <1>1. \/ \E how \in Hows \ {"none"} :
             /\ q = Ended(r, how)
             /\ how = "receipt" => Flushing(r) /\ r.ack >= r.flush.to
        \/ ~Flushing(r) /\ q = Flushed(r)
        \/ Flushing(r) /\ ~(r.ack >= r.flush.to) /\ q = Again(r, r.flush.reply \/ r.outbox)
    BY <1>0, LingerIs
  <1>2. r.ack \in Nat /\ r.last \in Nat /\ r.ack <= r.last /\ r.flush.reply \in BOOLEAN /\ r.outbox \in BOOLEAN
    BY <1>0, FlushTypes DEF Proper, Sessions
  <1>. HIDE DEF q
  <1>3. ASSUME NEW how \in Hows, q = Ended(r, how)  PROVE Serves(r, q)
    BY <1>0, <1>3, EndedServes
  <1>4. CASE ~Flushing(r) /\ q = Flushed(r)
    <2>1. /\ q \in Sessions /\ q.status = r.status /\ SameRest(r, q)
          /\ q.ack = r.ack /\ q.last = r.last + 1 /\ Flushing(q) /\ q.flush.to = r.last + 1
      BY <1>0, <1>4, FlushedIs
    <2>2. q.ack <= q.last /\ q.flush.to # None  BY <1>2, <2>1 DEF None
    <2>3. Serves(r, q)  BY <1>0, <1>4, <2>1, <2>2, LightServes
    <2>. QED  BY <2>3 DEF q
  <1>5. CASE Flushing(r) /\ q = Again(r, r.flush.reply \/ r.outbox)
    <2>1. (r.flush.reply \/ r.outbox) \in BOOLEAN  BY <1>2
    <2>2. /\ q \in Sessions /\ q.status = r.status /\ SameRest(r, q) /\ SameAcks(r, q)
          /\ q.told = r.told /\ Flushing(q) /\ q.flush.to = r.flush.to
      BY <1>0, <1>5, <2>1, AgainIs
    <2>3. q.ack <= q.last /\ q.flush.to # None  BY <1>0, <1>2, <1>5, <2>2 DEF SameAcks
    <2>4. Serves(r, q)  BY <1>0, <1>5, <2>2, <2>3, LightServes
    <2>. QED  BY <2>4 DEF q
  <1>. QED  BY <1>1, <1>3, <1>4, <1>5 DEF q

LEMMA ClosingServes ==
  ASSUME NEW r, Proper(r), Live(r), NEW notice \in Notices \cup {NoNotice}
  PROVE  Serves(r, Closing(r, notice)) /\ Closing(r, notice).status = "closing"
  <1>. DEFINE q == Closing(r, notice)
  <1>1. r \in Sessions  BY DEF Proper
  <1>2. /\ q \in Sessions /\ q.status = "closing"
        /\ SameRest(r, q) /\ SameFlush(r, q) /\ SameAcks(r, q) /\ SameCall(r, q)
    BY <1>1, ClosingIs
  <1>. HIDE DEF q
  <1>3. /\ q.ack <= q.last /\ Flushing(r) = Flushing(q) /\ q.told = r.told
        /\ Flushing(q) => q.flush.to # None
    BY <1>2 DEF SameFlush, SameAcks, Proper, Flushing
  <1>4. Serves(r, q)  BY <1>2, <1>3, LightServes
  <1>. QED  BY <1>2, <1>4 DEF q

LEMMA ReceivedServes ==
  ASSUME NEW r, Proper(r), NEW m \in Messages
  PROVE  /\ Serves(r, Received(r, m))
         /\ Received(r, m).status = "open" => Received(r, m).last = r.last /\ r.status = "open"
  <1>. DEFINE q == Received(r, m)
  <1>0. r \in Sessions  BY DEF Proper
  <1>1. /\ ~Live(r) => q = r
        /\ Live(r) =>
             /\ q \in Sessions /\ SameRest(r, q) /\ SameFlush(r, q) /\ q.last = r.last
             /\ q.status = r.status \/ (q.status = "closing" /\ m.garbage /\ SameAcks(r, q))
             /\ SameAcks(r, q) \/ Counts(r, q, m.ack)
             /\ SameCall(r, q) \/ (m.request /\ r.status = "open")
    BY <1>0, ReceivedIs
  <1>. HIDE DEF q
  <1>2. CASE ~Live(r)
    BY <1>1, <1>2, ServesSelf DEF q
  <1>3. CASE Live(r)
    <2>1. /\ Flushing(r) = Flushing(q) /\ q.told = r.told
          /\ Flushing(q) => q.flush.to # None
      BY <1>1, <1>3 DEF SameFlush, Proper, Flushing
    <2>2. q.ack <= q.last
      <3>1. r.ack <= r.last /\ m.ack \in Nat /\ r.ack \in Nat /\ r.last \in Nat
        BY <1>0 DEF Proper, Messages, Sessions
      <3>. QED  BY <1>1, <1>3, <3>1 DEF SameAcks, Counts, Larger
    <2>3. q.status = r.status \/ q.status = "closing"  BY <1>1, <1>3
    <2>4. Serves(r, q)  BY <1>1, <1>3, <2>1, <2>2, <2>3, LightServes
    <2>. QED  BY <1>1, <1>3, <2>3, <2>4 DEF q
  <1>. QED  BY <1>2, <1>3

LEMMA ReplicateServes ==
  ASSUME NEW r, Proper(r), r.status = "open", NEW to \in Nat, r.last <= to,
         NEW lost \in BOOLEAN, NEW silent \in BOOLEAN
  PROVE  /\ Serves(r, Replicate(r, to, lost, silent))
         /\ Replicate(r, to, lost, silent).status = "open" => Replicate(r, to, lost, silent).last = to
         /\ Replicate(r, to, lost, silent).status # "closing"
  <1>. DEFINE q == Replicate(r, to, lost, silent)
  <1>. r \in Sessions  BY DEF Proper
  <1>0. Live(r) /\ r.ack \in Nat /\ r.last \in Nat /\ r.ack <= r.last
    BY DEF Proper, Live, Sessions
  <1>2. "grace" \in Hows  BY DEF Hows
  <1>3. CASE silent
    <2>1. q = Ended(r, "grace")  BY <1>3, ReplicateIs
    <2>. HIDE DEF q
    <2>2. Serves(r, q) /\ q.status = "ended"  BY <1>0, <1>2, <2>1, EndedServes
    <2>. QED  BY <2>2 DEF q
  <1>4. CASE ~silent
    <2>. DEFINE resync == Resync(r, to, lost)
    <2>0. q = Replicated(r, to, resync)  BY <1>4, ReplicateIs
    <2>9. resync \in Nat \cup {None}  BY DEF Sessions, Resync
    <2>. HIDE DEF q, resync
    <2>1. /\ q \in Sessions /\ q.status = r.status /\ SameRest(r, q) /\ SameFlush(r, q)
          /\ q.ack = r.ack /\ q.last = to
      BY <2>0, <2>9, ReplicatedIs
    <2>2. /\ Flushing(r) = Flushing(q) /\ q.told = r.told
          /\ Flushing(q) => q.flush.to # None
      BY <2>1 DEF SameFlush, Proper, Flushing
    <2>3. q.ack <= q.last  BY <1>0, <2>1
    <2>4. Serves(r, q)  BY <1>0, <2>1, <2>2, <2>3, LightServes
    <2>. QED  BY <2>1, <2>4 DEF q
  <1>. QED  BY <1>3, <1>4

\* A frame under way tells of its session what NoticeInv asks.
Truthful(m, r) ==
  /\ r.status # "none"
  /\ m.final => r.status # "open" /\ (Live(r) => Flushing(r))
  /\ m.close # NoNotice => m.final /\ r.told = m.close

LinkServes(s) ==
  /\ link'[s] = link[s] \/ (link'[s] = "down" /\ link[s] \notin {"none", "opening"})
  /\ link'[s] = "up" => Live(session'[s]) \/ ~Live(session[s])

ServerMove ==
  /\ UNCHANGED <<client, scenario>> /\ receipts' = receipts
  /\ frame' \in [Worlds -> Nat] /\ shutdown' \in [Worlds -> {"no", "running", "resolved"}]
  /\ \A w \in Worlds : frame'[w] = frame[w] \/ (frame'[w] = frame[w] + 1 /\ frame[w] < Bound(w))
  /\ session' \in [Sockets -> Sessions]
  /\ link' \in [Sockets -> {"none", "opening", "up", "down"}]
  /\ \A s \in Sockets :
       /\ Serves(session[s], session'[s]) /\ LinkServes(s)
       /\ session'[s].status = "open" => session'[s].last <= frame'[session'[s].world]
  /\ down' \subseteq Frames /\ \A m \in down' \ down : Truthful(m, session'[m.socket])
  /\ up' \subseteq Messages
  /\ ShutdownDrivesOut'

LEMMA ServerMoves ==
  ASSUME LifeInv, ServerMove
  PROVE  LifeInv'
  <1>0. /\ TypeInv /\ SocketInv /\ LinkInv /\ NoticeInv /\ LossInv
        /\ SocketsAccounted /\ ShutdownDrivesOut
    BY DEF LifeInv
  <1>1. client' = client /\ scenario' = scenario /\ receipts' = receipts  BY DEF ServerMove
  <1>2. \A s \in Sockets : Serves(session[s], session'[s]) /\ LinkServes(s)
    BY DEF ServerMove
  <1>3. \A s \in Sockets :
          /\ Live(session'[s]) => Live(session[s])
          /\ session[s].status = "none" => session'[s] = session[s]
          /\ session'[s].world = session[s].world
    BY <1>2 DEF Serves, Live
  <1>4. TypeInv'
    <2>1. \A w \in Worlds : frame'[w] \in StartFrame[w]..Bound(w)'
      <3>1. SUFFICES ASSUME NEW w \in Worlds  PROVE frame'[w] \in StartFrame[w]..Bound(w)
        BY <1>1 DEF Bound
      <3>2. frame[w] \in StartFrame[w]..Bound(w)  BY <1>0 DEF TypeInv, TypeOK
      <3>3. StartFrame[w] \in Nat /\ Bound(w) \in Nat  BY <1>0, Constants
      <3>4. frame'[w] = frame[w] \/ (frame'[w] = frame[w] + 1 /\ frame[w] < Bound(w))  BY DEF ServerMove
      <3>. QED  BY <3>2, <3>3, <3>4
    <2>2. TypeOK'
      BY <1>0, <1>1, <1>2, <2>1 DEF TypeInv, TypeOK, ServerMove, Serves
    <2>3. \A s \in Sockets :
            /\ Live(session'[s]) => session'[s].closes = 0 /\ session'[s].how = "none"
            /\ Flushing(session'[s]) => session'[s].flush.to # None
      BY <1>2 DEF Serves
    <2>. QED  BY <1>0, <1>1, <2>2, <2>3 DEF TypeInv, ServerMove
  <1>5. SocketInv'
    <2>1. SUFFICES ASSUME NEW s \in Sockets
          PROVE  /\ link'[s] \in {"none", "opening"} => session'[s].status = "none"
                 /\ link'[s] = "up" => Live(session'[s])
                 /\ link'[s] = "opening" => client'.connecting = s
                 /\ session'[s].status # "none" \/ link'[s] = "opening" => session'[s].world \in Worlds
                 /\ (session'[s].status # "none" \/ link'[s] = "opening") /\ ~May("switch") => session'[s].world = FirstWorld
      BY <1>1 DEF SocketInv, May
    <2>2. /\ link[s] \in {"none", "opening"} => session[s].status = "none"
          /\ link[s] = "up" => Live(session[s])
          /\ link[s] = "opening" => client.connecting = s
          /\ session[s].status # "none" \/ link[s] = "opening" => session[s].world \in Worlds
          /\ (session[s].status # "none" \/ link[s] = "opening") /\ ~May("switch") => session[s].world = FirstWorld
      BY <1>0 DEF SocketInv
    <2>3. LinkServes(s)  BY <1>2
    <2>4. session'[s].status # "none" => session[s].status # "none"  BY <1>3
    <2>5. session[s].status = "none" => session'[s].status = "none"  BY <1>3
    <2>6. session'[s].world = session[s].world  BY <1>3
    <2>. QED  BY <1>1, <2>2, <2>3, <2>4, <2>5, <2>6 DEF LinkServes
  <1>6. LinkInv'
    <2>1. \A s \in Sockets : /\ link[s] \in {"up", "down"} => link'[s] \in {"up", "down"}
                             /\ link[s] # "none" => link'[s] # "none"
      BY <1>2 DEF LinkServes
    <2>2. client.socket \in Sockets \cup {None} /\ client.connecting \in Sockets \cup {None}
      BY <1>0 DEF TypeInv, TypeOK, Clients
    <2>. QED  BY <1>0, <1>1, <2>1, <2>2 DEF LinkInv, Attached
  <1>7. NoticeInv'
    <2>1. SUFFICES ASSUME NEW m \in down'  PROVE Truthful(m, session'[m.socket])
      BY DEF NoticeInv, Truthful
    <2>2. CASE m \in down
      <3>1. Truthful(m, session[m.socket])  BY <1>0, <2>2 DEF NoticeInv, Truthful
      <3>2. m.socket \in Sockets  BY <1>0, <2>2 DEF TypeInv, TypeOK, Frames
      <3>3. Serves(session[m.socket], session'[m.socket])  BY <1>2, <3>2
      <3>4. session[m.socket] \in Sessions  BY <1>0, <3>2 DEF TypeInv, TypeOK
      <3>5. session[m.socket].status \in {"none", "open", "closing", "ended"}  BY <3>4 DEF Sessions
      <3>6. session'[m.socket].status # "none"
        BY <3>1, <3>3, <3>5 DEF Truthful, Serves, Live
      <3>7. m.final => /\ session'[m.socket].status # "open"
                       /\ Live(session'[m.socket]) => Flushing(session'[m.socket])
        BY <3>1, <3>3, <3>5 DEF Truthful, Serves, Live
      <3>8. m.close # NoNotice => session'[m.socket].told = m.close
        BY <3>1, <3>3, <3>5 DEF Truthful, Serves, Live
      <3>. QED  BY <3>1, <3>6, <3>7, <3>8 DEF Truthful
    <2>3. CASE m \notin down  BY <2>3 DEF ServerMove
    <2>. QED  BY <2>2, <2>3
  <1>8. SocketsAccounted'
    <2>1. SUFFICES ASSUME NEW s \in Sockets, link'[s] = "up"
                   PROVE  \/ client'.connecting = s
                          \/ client'.socket = s /\ Connected(client')
                          \/ session'[s].status = "closing"
      BY DEF SocketsAccounted
    <2>2. link[s] = "up" /\ (Live(session'[s]) \/ ~Live(session[s]))  BY <1>2, <2>1 DEF LinkServes
    <2>3. Live(session[s])  BY <1>0, <2>2 DEF SocketInv
    <2>4. session[s].status = "closing" => session'[s].status = "closing"
      BY <1>2, <2>2, <2>3 DEF Serves, Live
    <2>. QED  BY <1>0, <1>1, <2>2, <2>4 DEF SocketsAccounted
  <1>9. ShutdownDrivesOut'  BY DEF ServerMove
  <1>10. LossInv'
    <2>1. Reported' = Reported  BY <1>1 DEF Reported
    <2>2. \A e \in Reported : e.socket \in Sockets  BY <1>0, ReportedIs
    <2>3. ASSUME NEW e \in Reported
          PROVE  /\ link'[e.socket] \notin {"none", "opening"} /\ e.socket # client.connecting
                 /\ Connected(client) => e.socket # client.socket
                 /\ e.notice \in Notices =>
                      /\ session'[e.socket].status \in {"closing", "ended"}
                      /\ Live(session'[e.socket]) => Flushing(session'[e.socket])
                      /\ session'[e.socket].told = e.notice
      <3>1. e.socket \in Sockets  BY <2>2
      <3>2. /\ link[e.socket] \notin {"none", "opening"} /\ e.socket # client.connecting
            /\ Connected(client) => e.socket # client.socket
            /\ e.notice \in Notices =>
                 /\ session[e.socket].status \in {"closing", "ended"}
                 /\ Live(session[e.socket]) => Flushing(session[e.socket])
                 /\ session[e.socket].told = e.notice
        BY <1>0 DEF LossInv, LossIsToldTruly, NoticeIsOfThisConnection
      <3>3. link'[e.socket] \notin {"none", "opening"}
        BY <1>2, <3>1, <3>2 DEF LinkServes
      <3>4. e.notice \in Notices =>
                 /\ session'[e.socket].status \in {"closing", "ended"}
                 /\ Live(session'[e.socket]) => Flushing(session'[e.socket])
                 /\ session'[e.socket].told = e.notice
        <4>1. Serves(session[e.socket], session'[e.socket])  BY <1>2, <3>1
        <4>. QED  BY <3>2, <4>1 DEF Serves, Live
      <3>. QED  BY <3>2, <3>3, <3>4
    <2>4. LossIsReportedOnce'
      <3>1. LossIsReportedOnce  BY <1>0 DEF LossInv, LossIsToldTruly
      <3>. QED  BY <1>1, <2>1, <3>1 DEF LossIsReportedOnce
    <2>5. NoticeIsOfThisConnection'
      <3>1. NoticeIsOfThisConnection  BY <1>0 DEF LossInv, LossIsToldTruly
      <3>. QED  BY <1>1, <2>1, <2>3, <3>1 DEF NoticeIsOfThisConnection
    <2>. QED  BY <1>1, <2>1, <2>3, <2>4, <2>5 DEF LossInv, LossIsToldTruly
  <1>. QED  BY <1>4, <1>5, <1>6, <1>7, <1>8, <1>9, <1>10 DEF LifeInv

-----------------------------------------------------------------------------
(* The steps of the client, one by one.                                     *)

LEMMA NoCut ==
  ASSUME TypeInv
  PROVE  Cut({}) = link
  BY DEF TypeInv, TypeOK, Cut

LEMMA ConnectingIs ==
  ASSUME NEW c \in Clients, NEW s \in Sockets \cup {None}
  PROVE  LET d == [c EXCEPT !.connecting = s] IN
         /\ d \in Clients /\ SameState(c, d) /\ d.force = c.force
         /\ d.socket = c.socket /\ d.connecting = s
         /\ d.disposed = c.disposed /\ d.disconnected = c.disconnected
         /\ d.call = c.call /\ d.notice = c.notice /\ d.faulty = c.faulty /\ Told(d) = Told(c)
  <1>. DEFINE d == [c EXCEPT !.connecting = s]
  <1>1. d \in Clients  BY DEF Clients
  <1>2. SameState(c, d) /\ d.force = c.force  BY DEF Clients, SameState
  <1>3. /\ d.socket = c.socket /\ d.connecting = s
        /\ d.disposed = c.disposed /\ d.disconnected = c.disconnected
    BY DEF Clients
  <1>4. /\ d.call = c.call /\ d.notice = c.notice /\ d.faulty = c.faulty
        /\ d.pending = c.pending /\ d.reported = c.reported
    BY DEF Clients
  <1>. HIDE DEF d
  <1>5. Told(d) = Told(c)  BY <1>4 DEF Told
  <1>. QED  BY <1>1, <1>2, <1>3, <1>4, <1>5 DEF d

LEMMA CalledIs ==
  ASSUME NEW c \in Clients, NEW call \in {"waiting", "rejected"},
         call = "waiting" => c.call = "none" /\ ~c.disposed /\ ~c.disconnected
  PROVE  LET d == [c EXCEPT !.call = call] IN
         Ends(c, d, NoNotice) /\ Keeps(c, d) /\ SameEvents(c, d) /\ d.call = call
  <1>. DEFINE d == [c EXCEPT !.call = call]
  <1>1. d \in Clients  BY DEF Clients
  <1>2. SameState(c, d) /\ d.force = c.force  BY DEF Clients, SameState
  <1>3. SameLink(c, d) /\ d.disconnected = c.disconnected /\ d.notice = c.notice /\ d.faulty = c.faulty
    BY DEF Clients, SameLink
  <1>4. d.call = call /\ d.pending = c.pending /\ d.reported = c.reported
    BY DEF Clients
  <1>. HIDE DEF d
  <1>5. SameEvents(c, d)  BY <1>3, <1>4 DEF SameEvents, Told
  <1>6. Ends(c, d, NoNotice)
    BY <1>1, <1>4, <1>5 DEF Ends, SameEvents, SameLink, Connected, Attached
  <1>7. Keeps(c, d)  BY <1>2, <1>3 DEF Keeps, SameLink, Connected, Attached
  <1>. QED  BY <1>4, <1>5, <1>6, <1>7 DEF d

LEMMA InCallIs ==
  ASSUME NEW c \in Clients
  PROVE  LET d == [c EXCEPT !.inCall = TRUE] IN
         Ends(c, d, NoNotice) /\ Keeps(c, d) /\ SameEvents(c, d) /\ d.call = c.call
  <1>. DEFINE d == [c EXCEPT !.inCall = TRUE]
  <1>1. d \in Clients  BY DEF Clients
  <1>2. SameState(c, d) /\ d.force = c.force  BY DEF Clients, SameState
  <1>3. SameLink(c, d) /\ d.disconnected = c.disconnected /\ d.notice = c.notice /\ d.faulty = c.faulty
    BY DEF Clients, SameLink
  <1>4. d.call = c.call /\ d.pending = c.pending /\ d.reported = c.reported
    BY DEF Clients
  <1>. HIDE DEF d
  <1>5. SameEvents(c, d)  BY <1>3, <1>4 DEF SameEvents, Told
  <1>6. Ends(c, d, NoNotice)
    BY <1>1, <1>4, <1>5 DEF Ends, SameEvents, SameLink, Connected, Attached
  <1>7. Keeps(c, d)  BY <1>2, <1>3 DEF Keeps, SameLink, Connected, Attached
  <1>. QED  BY <1>4, <1>5, <1>6, <1>7 DEF d

LEMMA SelfEnds ==
  ASSUME NEW c \in Clients, NEW notice
  PROVE  Ends(c, c, notice)
  BY DEF Ends

LEMMA HonestSilence ==
  Honest(NoNotice)
  BY DEF Honest, NoNotice, Notices

\* What the steps below are shown to be.
Moves == \E notice, S : ClientMove(notice, S)

LEMMA AbortMoves ==
  ASSUME LifeInv, AbortConnect \/ (FinishConnect /\ client.disposed), UNCHANGED scenario
  PROVE  Moves
  <1>. DEFINE s == client.connecting
  <1>1. TypeInv /\ LinkInv  BY DEF LifeInv
  <1>2. client \in Clients /\ receipts \subseteq Sockets /\ up \subseteq Messages
    BY <1>1 DEF TypeInv, TypeOK
  <1>3. client' = [client EXCEPT !.connecting = None] /\ link' = Cut({s}) /\ s # None
    BY DEF AbortConnect, FinishConnect
  <1>4. down' = Heard(down) /\ UNCHANGED <<lifecycleVars, up, receipts>>
    BY DEF AbortConnect, FinishConnect
  <1>5. None \in Sockets \cup {None}  OBVIOUS
  <1>6. /\ client' \in Clients
        /\ client'.socket = client.socket /\ client'.connecting = None
        /\ client'.disposed = client.disposed /\ client'.disconnected = client.disconnected
        /\ client'.call = client.call /\ client'.notice = client.notice
        /\ client'.faulty = client.faulty /\ Told(client') = Told(client)
    BY <1>2, <1>3, <1>5, ConnectingIs
  <1>7. Ends(client, client', NoNotice)  BY <1>6 DEF Ends, Connected, Attached
  <1>8. ~Connected(client)  BY <1>1, <1>3 DEF LinkInv
  <1>9. ClientMove(NoNotice, {s})
    BY <1>2, <1>3, <1>4, <1>6, <1>7, <1>8, HeardIs DEF ClientMove
  <1>. QED  BY <1>9 DEF Moves

LEMMA LeaveMoves ==
  ASSUME LifeInv, Leave, UNCHANGED scenario
  PROVE  Moves
  <1>1. TypeInv /\ LinkInv  BY DEF LifeInv
  <1>2. client \in Clients /\ receipts \subseteq Sockets /\ up \subseteq Messages
    BY <1>1 DEF TypeInv, TypeOK
  <1>3. /\ link' = Cut({client.socket}) /\ down' = Heard(down)
        /\ UNCHANGED <<lifecycleVars, up, receipts>>
        /\ client' = Close(client) \/ client' = Dispose(client)
    BY DEF Leave
  <1>4. Ends(client, client', client.notice) /\ client'.connecting = client.connecting
    BY <1>2, <1>3, CloseEnds, DisposeEnds DEF SameLink
  <1>5. Connected(client) => Honest(client.notice)
    BY <1>1, HonestSilence DEF LinkInv
  <1>6. ClientMove(client.notice, {client.socket})
    BY <1>2, <1>3, <1>4, <1>5, HeardIs DEF ClientMove
  <1>. QED  BY <1>6 DEF Moves

LEMMA CallMoves ==
  ASSUME LifeInv, Invoke \/ BeginCall \/ CallEnds, UNCHANGED scenario
  PROVE  Moves
  <1>1. TypeInv /\ LinkInv  BY DEF LifeInv
  <1>2. /\ client \in Clients /\ receipts \subseteq Sockets /\ up \subseteq Messages
        /\ client.disposed \in BOOLEAN /\ client.disconnected \in BOOLEAN
    BY <1>1 DEF TypeInv, TypeOK, Clients
  <1>3. UNCHANGED <<lifecycleVars, netVars>>
    BY DEF Invoke, BeginCall, CallEnds
  <1>4. /\ link' = Cut({}) /\ UNCHANGED <<lifecycleVars, scenario>>
        /\ down' \subseteq down /\ up' \subseteq Messages /\ receipts' \subseteq Sockets
    BY <1>1, <1>2, <1>3, NoCut DEF netVars
  <1>5. \E notice : /\ Ends(client, client', notice) /\ SameLink(client, client')
                    /\ client'.disconnected = client.disconnected
    <2>1. CASE Invoke
      <3>. DEFINE call == IF client.disposed \/ client.disconnected THEN "rejected" ELSE "waiting"
      <3>1. client' = [client EXCEPT !.call = call]  BY <2>1 DEF Invoke
      <3>2. call \in {"waiting", "rejected"} /\ (call = "waiting" => client.call = "none" /\ ~client.disposed /\ ~client.disconnected)
        BY <2>1 DEF Invoke
      <3>. HIDE DEF call
      <3>3. Ends(client, client', NoNotice) /\ SameEvents(client, client')
        BY <1>2, <3>1, <3>2, CalledIs
      <3>. QED  BY <3>3 DEF SameEvents
    <2>2. CASE BeginCall
      <3>1. client' = [client EXCEPT !.inCall = TRUE]  BY <2>2 DEF BeginCall
      <3>2. Ends(client, client', NoNotice) /\ SameEvents(client, client')
        BY <1>2, <3>1, InCallIs
      <3>. QED  BY <3>2 DEF SameEvents
    <2>3. CASE CallEnds
      <3>1. client' = EndCall(client)  BY <2>3 DEF CallEnds
      <3>2. /\ Ends(client, client', client.notice) /\ SameLink(client, client')
            /\ client'.disconnected = client.disconnected
        BY <1>2, <3>1, EndCallEnds
      <3>. QED  BY <3>2
    <2>. QED  BY <2>1, <2>2, <2>3
  <1>6. PICK notice : /\ Ends(client, client', notice) /\ SameLink(client, client')
                      /\ client'.disconnected = client.disconnected
    BY <1>5
  <1>7. (Connected(client) => Connected(client')) /\ client'.connecting = client.connecting
    BY <1>6 DEF SameLink, Connected, Attached
  <1>8. Connected(client) => ~client'.disconnected  BY <1>6 DEF Connected
  <1>9. ClientMove(notice, {})
    BY <1>4, <1>6, <1>7, <1>8 DEF ClientMove
  <1>. QED  BY <1>9 DEF Moves

LEMMA LossMoves ==
  ASSUME LifeInv, PayloadFails \/ AckTimer \/ ClientSeesDown, UNCHANGED scenario
  PROVE  Moves
  <1>1. TypeInv /\ LinkInv  BY DEF LifeInv
  <1>2. client \in Clients /\ receipts \subseteq Sockets /\ up \subseteq Messages /\ None \notin Sockets
    BY <1>1, Constants DEF TypeInv, TypeOK
  <1>3. Attached(client) => client.socket \in Sockets  BY <1>2 DEF Attached, Clients
  <1>4. CASE PayloadFails
    <2>1. /\ client' = CloseForProtocolError(client) /\ link' = Cut({client.socket})
          /\ down' = Heard(down) /\ UNCHANGED <<lifecycleVars, up, receipts>>
      BY <1>4 DEF PayloadFails
    <2>2. /\ Ends(client, client', "unreadable") /\ SameLink(client, client')
          /\ Connected(client) => client.socket \in client'.faulty
      BY <1>2, <2>1, FaultEnds
    <2>3. Connected(client) => Honest("unreadable")  BY <2>2 DEF Honest, Notices
    <2>4. ClientMove("unreadable", {client.socket})
      BY <1>2, <2>1, <2>2, <2>3, HeardIs DEF ClientMove, SameLink
    <2>. QED  BY <2>4 DEF Moves
  <1>5. CASE AckTimer /\ link[client.socket] = "up"
    <2>1. /\ up' = Matter(up \cup {Message(client)}) /\ UNCHANGED <<client, down>>
          /\ UNCHANGED <<lifecycleVars, link, receipts>> /\ Connected(client)
      BY <1>5 DEF AckTimer
    <2>2. up \cup {Message(client)} \subseteq Messages
      BY <1>2, <1>3, <2>1, MessageIs DEF Connected
    <2>3. up' \subseteq Messages  BY <2>1, <2>2, MatterIs
    <2>4. link' = Cut({})  BY <1>1, <2>1, NoCut
    <2>5. Ends(client, client', NoNotice)  BY <1>2, <2>1, SelfEnds
    <2>6. ~client'.disconnected  BY <2>1 DEF Connected
    <2>7. ClientMove(NoNotice, {})
      BY <1>2, <2>1, <2>3, <2>4, <2>5, <2>6 DEF ClientMove
    <2>. QED  BY <2>7 DEF Moves
  <1>6. CASE (AckTimer /\ link[client.socket] # "up") \/ ClientSeesDown
    <2>1. /\ client' = Disconnect(client) /\ down' = Heard(down) /\ Attached(client)
          /\ UNCHANGED <<lifecycleVars, link, up, receipts>> /\ link[client.socket] # "up"
      BY <1>6 DEF AckTimer, ClientSeesDown, Connected
    <2>2. Ends(client, client', client.notice) /\ SameLink(client, client')
      BY <1>2, <2>1, DisconnectEnds
    <2>3. Connected(client) => Honest(client.notice)
      BY <1>1, HonestSilence DEF LinkInv
    <2>4. link' = Cut({})  BY <1>1, <2>1, NoCut
    <2>5. ClientMove(client.notice, {})
      BY <1>2, <2>1, <2>2, <2>3, <2>4, HeardIs DEF ClientMove, SameLink
    <2>. QED  BY <2>5 DEF Moves
  <1>. QED  BY <1>4, <1>5, <1>6

LEMMA ReceiveMoves ==
  ASSUME LifeInv, NEW m \in down, ClientReceives(m), UNCHANGED scenario
  PROVE  Moves
  <1>. DEFINE buffered == AfterDiff(AfterReply(client, m), m)
              r == session[m.socket]
  <1>1. TypeInv /\ SocketInv /\ LinkInv /\ NoticeInv  BY DEF LifeInv
  <1>2. /\ client \in Clients /\ receipts \subseteq Sockets /\ up \subseteq Messages /\ None \notin Sockets
        /\ m \in Frames
    BY <1>1, Constants DEF TypeInv, TypeOK
  <1>3. m.socket \in Sockets /\ m.close \in Notices \cup {NoNotice}  BY <1>2, FrameTypes
  <1>4. Connected(client) /\ client.socket = m.socket
    BY <1>2, <1>3 DEF ClientReceives, Listens, Connected, Attached
  <1>5. /\ client' = Handled(client, m) /\ UNCHANGED <<lifecycleVars, scenario>>
        /\ link' = IF Rejects(client, m) THEN Cut({m.socket}) ELSE link
    BY DEF ClientReceives
  <1>6. /\ SameLink(client, client')
        /\ Rejects(client, m) =>
             /\ Ends(client, client', "unreadable") /\ ~Connected(client')
             /\ client.socket \in client'.faulty
        /\ ~Rejects(client, m) =>
             /\ Ends(client, client', m.close)
             /\ Connected(client') <=> m.close = NoNotice
    BY <1>2, <1>4, <1>5, HandledIs
  <1>7. receipts' \subseteq Sockets  BY <1>2, <1>3 DEF ClientReceives
  <1>8. down' \subseteq down
    <2>1. down' = Heard(IF link[m.socket] = "up" THEN down ELSE down \ {m})  BY DEF ClientReceives
    <2>. QED  BY <2>1, HeardIs
  <1>9. up' \subseteq Messages
    <2>1. CASE m.close # NoNotice /\ ~Rejects(client, m) /\ link[m.socket] = "up"
      <3>1. up' = Matter(up \cup {Message(buffered)})  BY <2>1 DEF ClientReceives
      <3>2. buffered \in Clients /\ buffered.socket = client.socket
        <4>1. /\ AfterReply(client, m) \in Clients /\ SameState(client, AfterReply(client, m))
              /\ SameEvents(client, AfterReply(client, m))
          BY <1>2, ReplyIs
        <4>2. ~Rejects(AfterReply(client, m), m)
          BY <2>1, <4>1 DEF Rejects, Refused, SameState
        <4>3. buffered \in Clients /\ SameEvents(AfterReply(client, m), buffered)
          BY <1>2, <4>1, <4>2, DiffIs
        <4>. QED  BY <4>1, <4>3 DEF SameEvents, SameLink
      <3>. HIDE DEF buffered
      <3>3. Message(buffered) \in Messages  BY <1>3, <1>4, <3>2, MessageIs
      <3>4. up \cup {Message(buffered)} \subseteq Messages  BY <1>2, <3>3
      <3>. QED  BY <3>1, <3>4, MatterIs
    <2>2. CASE ~(m.close # NoNotice /\ ~Rejects(client, m) /\ link[m.socket] = "up")
      <3>1. up' = up  BY <2>2 DEF ClientReceives
      <3>. QED  BY <1>2, <3>1
    <2>. QED  BY <2>1, <2>2
  <1>10. CASE Rejects(client, m)
    <2>1. Honest("unreadable")  BY <1>6, <1>10 DEF Honest, Notices
    <2>2. ClientMove("unreadable", {client.socket})
      BY <1>4, <1>5, <1>6, <1>7, <1>8, <1>9, <1>10, <2>1 DEF ClientMove, SameLink
    <2>. QED  BY <2>2 DEF Moves
  <1>11. CASE ~Rejects(client, m)
    <2>1. link' = Cut({})  BY <1>1, <1>5, <1>11, NoCut
    <2>2. /\ r.status # "none"
          /\ m.final => r.status # "open" /\ (Live(r) => Flushing(r))
          /\ m.close # NoNotice => m.final /\ r.told = m.close
      BY <1>1 DEF NoticeInv
    <2>3. r.status \in {"none", "open", "closing", "ended"}
      BY <1>1, <1>3 DEF TypeInv, TypeOK, Sessions
    <2>4. Honest(m.close)
      <3>1. CASE m.close = NoNotice  BY <3>1, HonestSilence
      <3>2. CASE m.close # NoNotice
        <4>1. m.close # "unreadable" /\ r.status \in {"closing", "ended"}
          BY <1>3, <2>2, <2>3, <3>2 DEF Notices
        <4>. QED  BY <1>4, <2>2, <3>2, <4>1 DEF Honest
      <3>. QED  BY <3>1, <3>2
    <2>5. ~Connected(client') => link[client.socket] # "up" \/ session[client.socket].status = "closing"
      <3>1. SUFFICES ASSUME ~Connected(client'), link[client.socket] = "up"
                     PROVE  session[client.socket].status = "closing"
        OBVIOUS
      <3>2. Live(r)  BY <1>1, <1>3, <1>4, <3>1 DEF SocketInv
      <3>3. m.close # NoNotice  BY <1>6, <1>11, <3>1
      <3>. QED  BY <1>4, <2>2, <3>2, <3>3 DEF Live
    <2>6. ClientMove(m.close, {})
      BY <1>5, <1>6, <1>7, <1>8, <1>9, <1>11, <2>1, <2>4, <2>5 DEF ClientMove, SameLink
    <2>. QED  BY <2>6 DEF Moves
  <1>. QED  BY <1>10, <1>11

-----------------------------------------------------------------------------
(* The steps of a new connection.                                           *)

LEMMA BeginStep ==
  ASSUME LifeInv, NEW w \in Worlds, BeginConnect(w), UNCHANGED scenario
  PROVE  LifeInv'
  <1>0. /\ TypeInv /\ SocketInv /\ LinkInv /\ NoticeInv /\ LossInv
        /\ SocketsAccounted /\ ShutdownDrivesOut
    BY DEF LifeInv
  <1>1. PICK s \in Sockets :
          /\ ~Connected(client) /\ client.connecting = None /\ link[s] = "none"
          /\ w = FirstWorld \/ May("switch")
          /\ client' = [client EXCEPT !.connecting = s]
          /\ session' = [session EXCEPT ![s].world = w]
          /\ link' = [link EXCEPT ![s] = "opening"]
          /\ UNCHANGED <<frame, shutdown, down, up, receipts>>
    BY DEF BeginConnect
  <1>2. client \in Clients /\ s \in Sockets \cup {None} /\ None \notin Sockets
    BY <1>0, Constants DEF TypeInv, TypeOK
  <1>3. /\ client' \in Clients
        /\ client'.socket = client.socket /\ client'.connecting = s
        /\ client'.disposed = client.disposed /\ client'.disconnected = client.disconnected
        /\ client'.call = client.call /\ client'.notice = client.notice
        /\ client'.faulty = client.faulty /\ Told(client') = Told(client)
    BY <1>1, <1>2, ConnectingIs
  <1>. DEFINE q == [session[s] EXCEPT !.world = w]
  <1>4. session \in [Sockets -> Sessions] /\ session[s] \in Sessions
    BY <1>0 DEF TypeInv, TypeOK
  <1>5. q \in Sessions /\ q.world = w /\ q.status = session[s].status
    BY <1>4 DEF Sessions
  <1>6. /\ q.ack = session[s].ack /\ q.last = session[s].last /\ q.flush = session[s].flush
        /\ q.closes = session[s].closes /\ q.how = session[s].how /\ q.told = session[s].told
    BY <1>4 DEF Sessions
  <1>7. session' = [session EXCEPT ![s] = q]  BY <1>1, <1>4
  <1>8. session[s].status = "none"  BY <1>0, <1>1 DEF SocketInv
  <1>. HIDE DEF q
  <1>9. /\ session' \in [Sockets -> Sessions]
        /\ session'[s] = q /\ \A t \in Sockets \ {s} : session'[t] = session[t]
    BY <1>4, <1>5, <1>7
  <1>10. /\ link' \in [Sockets -> {"none", "opening", "up", "down"}]
         /\ link'[s] = "opening" /\ \A t \in Sockets \ {s} : link'[t] = link[t]
    BY <1>0, <1>1 DEF TypeInv, TypeOK
  <1>11. \A t \in Sockets :
           /\ session'[t].status = session[t].status /\ session'[t].ack = session[t].ack
           /\ session'[t].last = session[t].last /\ session'[t].flush = session[t].flush
           /\ session'[t].closes = session[t].closes /\ session'[t].how = session[t].how
           /\ session'[t].told = session[t].told
           /\ session'[t].status # "none" => session'[t].world = session[t].world
    BY <1>5, <1>6, <1>8, <1>9
  <1>12. \A t \in Sockets : /\ Live(session'[t]) = Live(session[t])
                            /\ Flushing(session'[t]) = Flushing(session[t])
    BY <1>11 DEF Live, Flushing
  <1>13. ~Connected(client')  BY <1>1, <1>3 DEF Connected, Attached
  <1>14. TypeInv'
    <2>1. TypeOK'
      BY <1>0, <1>1, <1>3, <1>9, <1>10, <1>11 DEF TypeInv, TypeOK, Bound
    <2>2. \A t \in Sockets :
            /\ Live(session'[t]) => session'[t].closes = 0 /\ session'[t].how = "none"
            /\ Flushing(session'[t]) => session'[t].flush.to # None
            /\ session'[t].status = "open" => session'[t].last <= frame'[session'[t].world]
      BY <1>0, <1>1, <1>11, <1>12 DEF TypeInv
    <2>. QED  BY <1>0, <1>1, <2>1, <2>2 DEF TypeInv
  <1>15. SocketInv'
    <2>1. SUFFICES ASSUME NEW t \in Sockets
          PROVE  /\ link'[t] \in {"none", "opening"} => session'[t].status = "none"
                 /\ link'[t] = "up" => Live(session'[t])
                 /\ link'[t] = "opening" => client'.connecting = t
                 /\ session'[t].status # "none" \/ link'[t] = "opening" => session'[t].world \in Worlds
                 /\ (session'[t].status # "none" \/ link'[t] = "opening") /\ ~May("switch") => session'[t].world = FirstWorld
      BY DEF SocketInv, May
    <2>2. CASE t = s
      BY <1>1, <1>3, <1>5, <1>8, <1>9, <1>10, <2>2
    <2>3. CASE t # s
      <3>1. link[t] # "opening"  BY <1>0, <1>1, <1>2, <2>3 DEF SocketInv
      <3>. QED  BY <1>0, <1>3, <1>9, <1>10, <2>3, <3>1 DEF SocketInv
    <2>. QED  BY <2>2, <2>3
  <1>16. LinkInv'
    <2>1. client.socket \in Sockets \cup {None}  BY <1>2 DEF Clients
    <2>2. Attached(client) => client.socket # s /\ client.socket \in Sockets
      BY <1>0, <1>1, <2>1 DEF LinkInv, Attached
    <2>3. client'.connecting # client'.socket
      BY <1>2, <1>3, <2>1, <2>2 DEF Attached
    <2>. QED  BY <1>0, <1>3, <1>10, <1>13, <2>2, <2>3 DEF LinkInv, Attached
  <1>17. NoticeInv'
    <2>1. \A m \in down : m.socket \in Sockets  BY <1>0 DEF TypeInv, TypeOK, Frames
    <2>. QED  BY <1>0, <1>1, <1>11, <1>12, <2>1 DEF NoticeInv
  <1>18. SocketsAccounted'
    <2>1. SUFFICES ASSUME NEW t \in Sockets, link'[t] = "up"
                   PROVE  session'[t].status = "closing"
      BY DEF SocketsAccounted
    <2>2. t # s /\ link[t] = "up"  BY <1>10, <2>1
    <2>3. session[t].status = "closing"
      BY <1>0, <1>1, <1>2, <2>2 DEF SocketsAccounted
    <2>. QED  BY <1>11, <2>3
  <1>19. ShutdownDrivesOut'
    <2>1. \A x \in Worlds : LiveIn(x)' = LiveIn(x)
      BY <1>8, <1>9, <1>11, <1>12 DEF LiveIn, Live
    <2>2. \A x \in Worlds : \A t \in LiveIn(x) : session'[t].status = session[t].status
      BY <1>11 DEF LiveIn
    <2>. QED  BY <1>0, <1>1, <2>1, <2>2 DEF ShutdownDrivesOut
  <1>20. LossInv'
    <2>1. Reported = Told(client) /\ \A e \in Reported : e.socket \in Sockets
      BY <1>0, ReportedIs
    <2>2. Reported' = Reported
      <3>1. Reported' = Told(client')  BY DEF Reported, Told
      <3>. QED  BY <1>3, <2>1, <3>1
    <2>3. LossIsReportedOnce'
      BY <1>0, <1>3, <2>2 DEF LossInv, LossIsToldTruly, LossIsReportedOnce, Attached
    <2>4. NoticeIsOfThisConnection'
      BY <1>0, <1>3, <1>11, <2>1, <2>2 DEF LossInv, LossIsToldTruly, NoticeIsOfThisConnection
    <2>5. \A e \in Reported : link[e.socket] \notin {"none", "opening"}
      BY <1>0 DEF LossInv
    <2>6. \A e \in Reported : e.socket # s /\ link'[e.socket] = link[e.socket]
      BY <1>1, <1>10, <2>1, <2>5
    <2>. QED  BY <1>0, <1>3, <1>11, <1>12, <1>13, <2>1, <2>2, <2>3, <2>4, <2>6
              DEF LossInv, LossIsToldTruly
  <1>. QED  BY <1>14, <1>15, <1>16, <1>17, <1>18, <1>19, <1>20 DEF LifeInv

LEMMA FinishStep ==
  ASSUME LifeInv, FinishConnect, ~client.disposed, UNCHANGED scenario
  PROVE  LifeInv'
  <1>. DEFINE s == client.connecting
  <1>0. /\ TypeInv /\ SocketInv /\ LinkInv /\ NoticeInv /\ LossInv
        /\ SocketsAccounted /\ ShutdownDrivesOut
    BY DEF LifeInv
  <1>1. /\ s # None /\ link[s] \in {"up", "down"}
        /\ client' = Attach(client, s) /\ link' = link /\ down' = Heard(down)
        /\ frame' = frame /\ shutdown' = shutdown /\ session' = session
        /\ up' = up /\ receipts' = receipts
    BY DEF FinishConnect, lifecycleVars
  <1>2. client \in Clients /\ s \in Sockets /\ None \notin Sockets
    BY <1>0, <1>1, Constants DEF TypeInv, TypeOK, Clients
  <1>3. /\ client' \in Clients /\ Told(client') = Told(client)
        /\ client'.socket = s /\ client'.connecting = None /\ client'.disposed = client.disposed
        /\ ~client'.disconnected
        /\ client'.notice = NoNotice /\ client'.faulty = client.faulty /\ client'.call = client.call
    BY <1>1, <1>2, AttachIs
  <1>4. down' \subseteq down  BY <1>1, HeardIs
  <1>5. Connected(client') /\ ~Connected(client)
    BY <1>0, <1>1, <1>2, <1>3 DEF Connected, Attached, LinkInv
  <1>6. TypeInv'
    <2>1. TypeOK'  BY <1>0, <1>1, <1>3, <1>4 DEF TypeInv, TypeOK, Bound
    <2>. QED  BY <1>0, <1>1, <2>1 DEF TypeInv
  <1>7. SocketInv'
    BY <1>0, <1>1 DEF SocketInv, May
  <1>8. LinkInv'
    BY <1>1, <1>3 DEF LinkInv
  <1>9. NoticeInv'
    BY <1>0, <1>1, <1>4 DEF NoticeInv
  <1>10. SocketsAccounted'
    BY <1>0, <1>1, <1>3, <1>5 DEF SocketsAccounted
  <1>11. ShutdownDrivesOut'
    BY <1>0, <1>1 DEF ShutdownDrivesOut, LiveIn
  <1>12. LossInv'
    <2>1. Reported = Told(client) /\ \A e \in Reported : e.socket \in Sockets
      BY <1>0, ReportedIs
    <2>2. Reported' = Reported
      <3>1. Reported' = Told(client')  BY DEF Reported, Told
      <3>. QED  BY <1>3, <2>1, <3>1
    <2>3. LossIsReportedOnce'
      BY <1>0, <1>3, <2>2 DEF LossInv, LossIsToldTruly, LossIsReportedOnce, Attached
    <2>4. NoticeIsOfThisConnection'
      BY <1>0, <1>1, <1>3, <2>1, <2>2 DEF LossInv, LossIsToldTruly, NoticeIsOfThisConnection
    <2>5. \A e \in Reported : e.socket # s  BY <1>0 DEF LossInv
    <2>. QED  BY <1>0, <1>1, <1>2, <1>3, <2>1, <2>2, <2>3, <2>4, <2>5
              DEF LossInv, LossIsToldTruly
  <1>. QED  BY <1>6, <1>7, <1>8, <1>9, <1>10, <1>11, <1>12 DEF LifeInv

\* The session of a new connection: n is NoSession.
TurnedAway(n, w) == [n EXCEPT !.status = "ended", !.world = w, !.closes = 1]
Opened(n, w, f)  == [n EXCEPT !.status = "open", !.world = w, !.ack = f, !.last = f]

LEMMA TurnedAwayIs ==
  ASSUME NEW n \in Sessions, NEW w \in Worlds
  PROVE  LET q == TurnedAway(n, w) IN
         /\ q \in Sessions /\ q.status = "ended" /\ q.world = w
         /\ q.ack = n.ack /\ q.last = n.last /\ q.flush = n.flush /\ q.how = n.how
         /\ q.told = n.told /\ q.owed = n.owed /\ q.handler = n.handler /\ q.outbox = n.outbox
         /\ q.needs = n.needs /\ q.resync = n.resync
  <1>. DEFINE q == TurnedAway(n, w)
              p == [n EXCEPT !.status = "ended", !.world = w]
  <1>1. p \in Sessions  BY DEF Sessions
  <1>2. q \in Sessions
    <2>1. q = [p EXCEPT !.closes = 1] /\ 1 \in 0..2  BY DEF TurnedAway
    <2>. HIDE DEF p, q
    <2>. QED  BY <1>1, <2>1 DEF Sessions
  <1>3. q.status = "ended" /\ q.world = w /\ q.ack = n.ack /\ q.last = n.last
    BY DEF TurnedAway, Sessions
  <1>4. q.flush = n.flush /\ q.how = n.how /\ q.told = n.told /\ q.owed = n.owed
    BY DEF TurnedAway, Sessions
  <1>5. q.handler = n.handler /\ q.outbox = n.outbox /\ q.needs = n.needs /\ q.resync = n.resync
    BY DEF TurnedAway, Sessions
  <1>. HIDE DEF q
  <1>. QED  BY <1>2, <1>3, <1>4, <1>5 DEF q

LEMMA OpenedIs ==
  ASSUME NEW n \in Sessions, NEW w \in Worlds, NEW f \in Nat
  PROVE  LET q == Opened(n, w, f) IN
         /\ q \in Sessions /\ q.status = "open" /\ q.world = w
         /\ q.ack = f /\ q.last = f /\ q.flush = n.flush /\ q.how = n.how
         /\ q.told = n.told /\ q.owed = n.owed /\ q.handler = n.handler /\ q.outbox = n.outbox
         /\ q.needs = n.needs /\ q.resync = n.resync /\ q.closes = n.closes
  <1>. DEFINE q == Opened(n, w, f)
  <1>2. q \in Sessions  BY DEF Opened, Sessions
  <1>3. q.status = "open" /\ q.world = w /\ q.ack = f /\ q.last = f
    BY DEF Opened, Sessions
  <1>4. q.flush = n.flush /\ q.how = n.how /\ q.told = n.told /\ q.owed = n.owed
    BY DEF Opened, Sessions
  <1>5. /\ q.handler = n.handler /\ q.outbox = n.outbox /\ q.closes = n.closes
        /\ q.needs = n.needs /\ q.resync = n.resync
    BY DEF Opened, Sessions
  <1>. HIDE DEF q
  <1>. QED  BY <1>2, <1>3, <1>4, <1>5 DEF q

LEMMA AcceptedIs ==
  ASSUME TypeInv, NEW w \in Worlds
  PROVE  LET q == Accepted(w) IN
         /\ q \in Sessions /\ q.world = w /\ q.ack = q.last /\ ~Flushing(q)
         /\ q.how = "none" /\ q.told = NoNotice /\ q.owed = FALSE
         /\ q.handler = "idle" /\ q.outbox = FALSE
         /\ q.needs = TRUE /\ q.resync = None
         /\ shutdown[w] # "no" => q.status = "ended"
         /\ shutdown[w] = "no" => q.status = "open" /\ q.closes = 0 /\ q.ack = frame[w]
  <1>. DEFINE q == Accepted(w)
  <1>1. frame[w] \in Nat  BY DEF TypeInv
  <1>2. NoSession \in Sessions /\ NoSession.flush = NoFlush  BY NoSessionIs DEF Flushing
  <1>3. CASE shutdown[w] # "no"
    <2>1. q = TurnedAway(NoSession, w)
      BY <1>3 DEF Accepted, TurnedAway
    <2>. HIDE DEF q
    <2>2. /\ q \in Sessions /\ q.status = "ended" /\ q.world = w
          /\ q.ack = NoSession.ack /\ q.last = NoSession.last /\ q.flush = NoSession.flush
          /\ q.how = NoSession.how /\ q.told = NoSession.told /\ q.owed = NoSession.owed
          /\ q.handler = NoSession.handler /\ q.outbox = NoSession.outbox
          /\ q.needs = NoSession.needs /\ q.resync = NoSession.resync
      BY <1>2, <2>1, TurnedAwayIs
    <2>3. q.ack = q.last /\ ~Flushing(q)  BY <1>2, <2>2, NoSessionIs DEF Flushing
    <2>. QED  BY <1>3, <2>2, <2>3, NoSessionIs DEF q
  <1>4. CASE shutdown[w] = "no"
    <2>1. q = Opened(NoSession, w, frame[w])
      BY <1>4 DEF Accepted, Opened
    <2>. HIDE DEF q
    <2>2. /\ q \in Sessions /\ q.status = "open" /\ q.world = w
          /\ q.ack = frame[w] /\ q.last = frame[w] /\ q.flush = NoSession.flush
          /\ q.how = NoSession.how /\ q.told = NoSession.told /\ q.owed = NoSession.owed
          /\ q.handler = NoSession.handler /\ q.outbox = NoSession.outbox
          /\ q.needs = NoSession.needs /\ q.resync = NoSession.resync /\ q.closes = NoSession.closes
      BY <1>1, <1>2, <2>1, OpenedIs
    <2>3. q.ack = q.last /\ ~Flushing(q)  BY <1>2, <2>2 DEF Flushing
    <2>. QED  BY <1>4, <2>2, <2>3, NoSessionIs DEF q
  <1>. QED  BY <1>3, <1>4

LEMMA OpensStep ==
  ASSUME LifeInv, NEW s \in Sockets, TransportOpens(s), UNCHANGED scenario
  PROVE  LifeInv'
  <1>. DEFINE w == session[s].world
              q == Accepted(w)
  <1>0. /\ TypeInv /\ SocketInv /\ LinkInv /\ NoticeInv /\ LossInv
        /\ SocketsAccounted /\ ShutdownDrivesOut
    BY DEF LifeInv
  <1>1. /\ link[s] = "opening" /\ session' = [session EXCEPT ![s] = q]
        /\ link' = [link EXCEPT ![s] = IF Live(q) THEN "up" ELSE "down"]
        /\ frame' = frame /\ shutdown' = shutdown /\ client' = client
        /\ down' = down /\ up' = up /\ receipts' = receipts
    BY DEF TransportOpens
  <1>2. session[s].status = "none" /\ w \in Worlds /\ client.connecting = s
    BY <1>0, <1>1 DEF SocketInv
  <1>3. /\ q \in Sessions /\ q.world = w /\ q.ack = q.last /\ ~Flushing(q)
        /\ q.how = "none"
        /\ shutdown[w] # "no" => q.status = "ended"
        /\ shutdown[w] = "no" => q.status = "open" /\ q.closes = 0 /\ q.ack = frame[w]
    BY <1>0, <1>2, AcceptedIs
  <1>. HIDE DEF q
  <1>4. session' \in [Sockets -> Sessions] /\ session'[s] = q
        /\ \A t \in Sockets \ {s} : session'[t] = session[t]
    BY <1>0, <1>1, <1>3 DEF TypeInv, TypeOK
  <1>5. /\ link' \in [Sockets -> {"none", "opening", "up", "down"}]
        /\ link'[s] = IF Live(q) THEN "up" ELSE "down"
        /\ \A t \in Sockets \ {s} : link'[t] = link[t]
    BY <1>0, <1>1 DEF TypeInv, TypeOK
  <1>6. frame[w] \in Nat  BY <1>0, <1>2 DEF TypeInv
  <1>7. Live(q) => q.closes = 0 /\ q.last <= frame[w] /\ q.status = "open"
    BY <1>3, <1>6 DEF Live
  <1>8. q.ack <= q.last
    <2>1. q.last \in Nat  BY <1>3 DEF Sessions
    <2>. QED  BY <1>3, <2>1
  <1>9. TypeInv'
    <2>1. TypeOK'
      BY <1>0, <1>1, <1>4, <1>5, <1>8 DEF TypeInv, TypeOK, Bound
    <2>2. \A t \in Sockets :
            /\ Live(session'[t]) => session'[t].closes = 0 /\ session'[t].how = "none"
            /\ Flushing(session'[t]) => session'[t].flush.to # None
            /\ session'[t].status = "open" => session'[t].last <= frame'[session'[t].world]
      <3>1. SUFFICES ASSUME NEW t \in Sockets
            PROVE  /\ Live(session'[t]) => session'[t].closes = 0 /\ session'[t].how = "none"
                   /\ Flushing(session'[t]) => session'[t].flush.to # None
                   /\ session'[t].status = "open" => session'[t].last <= frame'[session'[t].world]
        OBVIOUS
      <3>2. CASE t = s  BY <1>1, <1>3, <1>4, <1>7, <3>2 DEF Live
      <3>3. CASE t # s  BY <1>0, <1>1, <1>4, <3>3 DEF TypeInv
      <3>. QED  BY <3>2, <3>3
    <2>. QED  BY <1>0, <1>1, <2>1, <2>2 DEF TypeInv
  <1>10. SocketInv'
    <2>1. SUFFICES ASSUME NEW t \in Sockets
          PROVE  /\ link'[t] \in {"none", "opening"} => session'[t].status = "none"
                 /\ link'[t] = "up" => Live(session'[t])
                 /\ link'[t] = "opening" => client'.connecting = t
                 /\ session'[t].status # "none" \/ link'[t] = "opening" => session'[t].world \in Worlds
                 /\ (session'[t].status # "none" \/ link'[t] = "opening") /\ ~May("switch") => session'[t].world = FirstWorld
      BY DEF SocketInv, May
    <2>2. CASE t = s
      <3>1. link[s] = "opening" /\ ~May("switch") => session[s].world = FirstWorld
        BY <1>0 DEF SocketInv
      <3>2. session'[t].world \in Worlds /\ (~May("switch") => session'[t].world = FirstWorld)
        BY <1>1, <1>2, <1>3, <1>4, <2>2, <3>1
      <3>. QED  BY <1>2, <1>3, <1>4, <1>5, <2>2, <3>2
    <2>3. CASE t # s
      BY <1>0, <1>1, <1>4, <1>5, <2>3 DEF SocketInv
    <2>. QED  BY <2>2, <2>3
  <1>11. LinkInv'
    <2>0. client.socket \in Sockets \cup {None} /\ s # None
      BY <1>0, Constants DEF TypeInv, TypeOK, Clients
    <2>1. client.socket \in Sockets \cup {None} /\ client.socket # s
      BY <1>0, <1>2, <2>0 DEF LinkInv
    <2>. QED  BY <1>0, <1>1, <1>2, <1>5, <2>1 DEF LinkInv, Attached
  <1>12. NoticeInv'
    <2>1. \A m \in down : m.socket \in Sockets \ {s}
      BY <1>0, <1>2 DEF TypeInv, TypeOK, Frames, NoticeInv
    <2>. QED  BY <1>0, <1>1, <1>4, <2>1 DEF NoticeInv
  <1>13. SocketsAccounted'
    BY <1>0, <1>1, <1>2, <1>4, <1>5 DEF SocketsAccounted
  <1>14. ShutdownDrivesOut'
    <2>1. SUFFICES ASSUME NEW x \in Worlds, shutdown[x] # "no", NEW t \in LiveIn(x)'
                   PROVE  session'[t].status = "closing" /\ shutdown[x] # "resolved"
      BY <1>1 DEF ShutdownDrivesOut, LiveIn
    <2>2. t \in Sockets /\ session'[t].world = x /\ Live(session'[t])  BY DEF LiveIn
    <2>3. t # s  BY <1>3, <1>4, <2>1, <2>2 DEF Live
    <2>4. t \in LiveIn(x)  BY <1>4, <2>2, <2>3 DEF LiveIn
    <2>. QED  BY <1>0, <1>4, <2>1, <2>2, <2>3, <2>4 DEF ShutdownDrivesOut
  <1>15. LossInv'
    <2>1. Reported' = Reported  BY <1>1 DEF Reported
    <2>2. \A e \in Reported : e.socket \in Sockets /\ e.socket # s
      BY <1>0, <1>2, ReportedIs DEF LossInv
    <2>3. LossIsReportedOnce'
      BY <1>0, <1>1, <2>1 DEF LossInv, LossIsToldTruly, LossIsReportedOnce
    <2>4. NoticeIsOfThisConnection'
      BY <1>0, <1>1, <1>4, <2>1, <2>2 DEF LossInv, LossIsToldTruly, NoticeIsOfThisConnection
    <2>. QED  BY <1>0, <1>1, <1>4, <1>5, <2>1, <2>2, <2>3, <2>4 DEF LossInv, LossIsToldTruly
  <1>. QED  BY <1>9, <1>10, <1>11, <1>12, <1>13, <1>14, <1>15 DEF LifeInv

-----------------------------------------------------------------------------
(* The steps of the servers, one by one.                                    *)

LEMMA SessionsProper ==
  ASSUME TypeInv, NEW s \in Sockets
  PROVE  Proper(session[s]) /\ session[s] \in Sessions
  BY DEF TypeInv, TypeOK, Proper

\* Sessions that are driven out stay so.
LEMMA StillDriven ==
  ASSUME TypeInv, ShutdownDrivesOut, shutdown' = shutdown,
         \A s \in Sockets : Serves(session[s], session'[s])
  PROVE  ShutdownDrivesOut'
  <1>1. SUFFICES ASSUME NEW x \in Worlds, shutdown[x] # "no", NEW t \in LiveIn(x)'
                 PROVE  session'[t].status = "closing" /\ shutdown[x] # "resolved"
    BY DEF ShutdownDrivesOut, LiveIn
  <1>2. t \in Sockets /\ session'[t].world = x /\ Live(session'[t])  BY DEF LiveIn
  <1>3. Serves(session[t], session'[t])  BY <1>2
  <1>4. t \in LiveIn(x)  BY <1>2, <1>3 DEF LiveIn, Serves, Live
  <1>5. session[t].status = "closing" /\ shutdown[x] # "resolved"
    BY <1>1, <1>4 DEF ShutdownDrivesOut
  <1>. QED  BY <1>2, <1>3, <1>5 DEF Serves, Live

\* A step between two ticks.
LEMMA QuietMoves ==
  ASSUME LifeInv, UNCHANGED <<client, scenario, frame, receipts, down>>,
         shutdown' \in [Worlds -> {"no", "running", "resolved"}],
         session' \in [Sockets -> Sessions],
         link' \in [Sockets -> {"none", "opening", "up", "down"}], up' \subseteq Messages,
         \A s \in Sockets : /\ Serves(session[s], session'[s]) /\ LinkServes(s)
                            /\ session'[s].status = "open" =>
                                 session[s].status = "open" /\ session'[s].last = session[s].last,
         ShutdownDrivesOut'
  PROVE  ServerMove
  <1>1. TypeInv  BY DEF LifeInv
  <1>2. \A s \in Sockets : session'[s].status = "open" => session'[s].last <= frame'[session'[s].world]
    BY <1>1 DEF TypeInv, Serves
  <1>3. frame' \in [Worlds -> Nat] /\ down' \subseteq Frames  BY <1>1 DEF TypeInv, TypeOK
  <1>. QED  BY <1>2, <1>3 DEF ServerMove

\* A step that changes one session.
LEMMA OneMoves ==
  ASSUME LifeInv, NEW s \in Sockets, NEW q, session' = [session EXCEPT ![s] = q],
         Serves(session[s], q), q.status = "open" => session[s].status = "open" /\ q.last = session[s].last,
         UNCHANGED <<client, scenario, frame, shutdown, link, receipts, down>>, up' \subseteq Messages,
         Live(session[s]) /\ link[s] = "up" => Live(q)
  PROVE  ServerMove
  <1>1. TypeInv /\ SocketInv /\ ShutdownDrivesOut  BY DEF LifeInv
  <1>2. q \in Sessions /\ session \in [Sockets -> Sessions]
    BY <1>1 DEF Serves, TypeInv, TypeOK
  <1>3. session' \in [Sockets -> Sessions] /\ session'[s] = q /\ \A t \in Sockets \ {s} : session'[t] = session[t]
    BY <1>2
  <1>4. \A t \in Sockets : /\ Serves(session[t], session'[t])
                           /\ session'[t].status = "open" =>
                                session[t].status = "open" /\ session'[t].last = session[t].last
    BY <1>1, <1>3, SessionsProper, ServesSelf
  <1>5. \A t \in Sockets : LinkServes(t)
    BY <1>1, <1>3 DEF LinkServes, SocketInv
  <1>6. ShutdownDrivesOut'  BY <1>1, <1>4, StillDriven
  <1>7. /\ shutdown' \in [Worlds -> {"no", "running", "resolved"}]
        /\ link' \in [Sockets -> {"none", "opening", "up", "down"}]
    BY <1>1 DEF TypeInv, TypeOK
  <1>. QED  BY <1>3, <1>4, <1>5, <1>6, <1>7, QuietMoves

LEMMA ReceiptMoves ==
  ASSUME LifeInv, UNCHANGED scenario,
         (\E m \in up : ServerReceives(m)) \/ (\E s \in Sockets : GarbageArrives(s))
  PROVE  ServerMove
  <1>1. TypeInv /\ up \subseteq Messages  BY DEF LifeInv, TypeInv, TypeOK
  <1>2. ASSUME NEW s \in Sockets, NEW m \in Messages, up' \subseteq Messages,
               session' = [session EXCEPT ![s] = Received(session[s], m)],
               UNCHANGED <<client, frame, shutdown, link, receipts, down>>
        PROVE  ServerMove
    <2>. DEFINE r == session[s]
                q == Received(r, m)
    <2>1. Proper(r) /\ r \in Sessions  BY <1>1, SessionsProper
    <2>2. Serves(r, q) /\ (q.status = "open" => q.last = r.last /\ r.status = "open")
      BY <2>1, ReceivedServes
    <2>3. Live(r) => Live(q)
      <3>1. Live(r) => q.status = r.status \/ q.status = "closing"  BY <2>1, ReceivedIs
      <3>. QED  BY <3>1 DEF Live
    <2>. HIDE DEF q
    <2>. QED  BY <1>2, <2>2, <2>3, OneMoves DEF q
  <1>3. ASSUME NEW m \in up, ServerReceives(m)  PROVE ServerMove
    <2>1. m \in Messages /\ m.socket \in Sockets  BY <1>1 DEF Messages
    <2>2. session' = [session EXCEPT ![m.socket] = Received(session[m.socket], m)]
      BY <1>3 DEF ServerReceives
    <2>3. up' \subseteq Messages
      <3>1. up' = Matter(IF link[m.socket] = "up" THEN up ELSE up \ {m})  BY <1>3 DEF ServerReceives
      <3>2. (IF link[m.socket] = "up" THEN up ELSE up \ {m}) \subseteq Messages  BY <1>1
      <3>. QED  BY <3>1, <3>2, MatterIs
    <2>4. UNCHANGED <<client, frame, shutdown, link, receipts, down>>  BY <1>3 DEF ServerReceives
    <2>. QED  BY <1>2, <2>1, <2>2, <2>3, <2>4
  <1>4. ASSUME NEW s \in Sockets, GarbageArrives(s)  PROVE ServerMove
    <2>. DEFINE m == [socket |-> s, ack |-> 0, request |-> FALSE, garbage |-> TRUE]
    <2>1. m \in Messages  BY DEF Messages
    <2>2. session' = [session EXCEPT ![s] = Received(session[s], m)]
      BY <1>4 DEF GarbageArrives
    <2>3. up' \subseteq Messages /\ UNCHANGED <<client, frame, shutdown, link, receipts, down>>
      BY <1>1, <1>4 DEF GarbageArrives
    <2>. HIDE DEF m
    <2>. QED  BY <1>2, <2>1, <2>2, <2>3
  <1>. QED  BY <1>3, <1>4

\* The handler's reply waits for the next frame.
Settled(r) == [r EXCEPT !.handler = "settled", !.outbox = TRUE]

LEMMA SettledIs ==
  ASSUME NEW r \in Sessions
  PROVE  LET q == Settled(r) IN
         q \in Sessions /\ q.status = r.status /\ SameRest(r, q) /\ SameFlush(r, q) /\ SameAcks(r, q)
  <1>. DEFINE q == Settled(r)
  <1>1. q \in Sessions /\ q.status = r.status  BY DEF Settled, Sessions
  <1>2. SameRest(r, q) /\ SameFlush(r, q)  BY DEF Settled, Sessions, SameRest, SameFlush
  <1>3. SameAcks(r, q)  BY DEF Settled, Sessions, SameAcks
  <1>. HIDE DEF q
  <1>. QED  BY <1>1, <1>2, <1>3 DEF q

LEMMA HandlerMoves ==
  ASSUME LifeInv, UNCHANGED scenario, NEW s \in Sockets, HandlerSettles(s)
  PROVE  ServerMove
  <1>. DEFINE r == session[s]
              q == Settled(r)
  <1>1. TypeInv /\ up \subseteq Messages  BY DEF LifeInv, TypeInv, TypeOK
  <1>2. Proper(r) /\ r \in Sessions /\ Live(r)  BY <1>1, SessionsProper DEF HandlerSettles
  <1>3. session' = [session EXCEPT ![s] = q]
    BY <1>1 DEF HandlerSettles, Settled, TypeInv, TypeOK
  <1>4. q \in Sessions /\ q.status = r.status /\ SameRest(r, q) /\ SameFlush(r, q) /\ SameAcks(r, q)
    BY <1>2, SettledIs
  <1>. HIDE DEF q
  <1>5. /\ q.ack <= q.last /\ Flushing(r) = Flushing(q) /\ q.told = r.told
        /\ Flushing(q) => q.flush.to # None
        /\ q.last = r.last
    BY <1>2, <1>4 DEF SameFlush, SameAcks, Proper, Flushing
  <1>6. Serves(r, q)  BY <1>2, <1>4, <1>5, LightServes
  <1>7. Live(q)  BY <1>2, <1>4 DEF Live
  <1>8. UNCHANGED <<client, frame, shutdown, link, receipts, down>> /\ up' \subseteq Messages
    BY <1>1 DEF HandlerSettles, netVars
  <1>. QED  BY <1>3, <1>4, <1>5, <1>6, <1>7, <1>8, OneMoves

LEMMA CloseMoves ==
  ASSUME LifeInv, UNCHANGED scenario, NEW s \in Sockets, CloseSession(s)
  PROVE  ServerMove
  <1>1. TypeInv /\ up \subseteq Messages  BY DEF LifeInv, TypeInv, TypeOK
  <1>2. PICK notice \in {NoNotice, "application"} :
          session' = [session EXCEPT ![s] = Closing(session[s], notice)]
    BY DEF CloseSession
  <1>. DEFINE r == session[s]
              q == Closing(r, notice)
  <1>3. Proper(r) /\ r \in Sessions /\ Live(r)  BY <1>1, SessionsProper DEF CloseSession
  <1>4. notice \in Notices \cup {NoNotice}  BY DEF Notices
  <1>5. Serves(r, q) /\ q.status = "closing"  BY <1>3, <1>4, ClosingServes
  <1>. HIDE DEF q
  <1>6. Live(q)  BY <1>5 DEF Live
  <1>7. UNCHANGED <<client, frame, shutdown, link, receipts, down>> /\ up' \subseteq Messages
    BY <1>1 DEF CloseSession, netVars
  <1>8. session' = [session EXCEPT ![s] = q]  BY <1>2 DEF q
  <1>. QED  BY <1>5, <1>6, <1>7, <1>8, OneMoves

LEMMA FailureMoves ==
  ASSUME LifeInv, UNCHANGED scenario, NEW s \in Sockets, LinkFails(s)
  PROVE  ServerMove
  <1>1. TypeInv /\ SocketInv /\ ShutdownDrivesOut /\ up \subseteq Messages
    BY DEF LifeInv, TypeInv, TypeOK
  <1>2. /\ link[s] = "up" /\ link' = [link EXCEPT ![s] = "down"]
        /\ UNCHANGED <<client, frame, shutdown, session, receipts, down, up>>
    BY DEF LinkFails, lifecycleVars
  <1>3. \A t \in Sockets : Serves(session[t], session'[t])
    BY <1>1, <1>2, SessionsProper, ServesSelf
  <1>4. \A t \in Sockets : LinkServes(t)
    BY <1>1, <1>2 DEF LinkServes, SocketInv, TypeInv, TypeOK
  <1>5. ShutdownDrivesOut'  BY <1>1, <1>2, <1>3, StillDriven
  <1>6. /\ link' \in [Sockets -> {"none", "opening", "up", "down"}]
        /\ session' \in [Sockets -> Sessions]
        /\ shutdown' \in [Worlds -> {"no", "running", "resolved"}]
    BY <1>1, <1>2 DEF TypeInv, TypeOK
  <1>. QED  BY <1>1, <1>2, <1>3, <1>4, <1>5, <1>6, QuietMoves

LEMMA TearDownMoves ==
  ASSUME LifeInv, NEW ending, NEW how \in Hows, TearDown(ending, how),
         ending \subseteq Sockets, \A s \in ending : Live(session[s])
  PROVE  /\ session' \in [Sockets -> Sessions]
         /\ link' \in [Sockets -> {"none", "opening", "up", "down"}] /\ up' \subseteq Messages
         /\ \A s \in Sockets : /\ Serves(session[s], session'[s]) /\ LinkServes(s)
                               /\ session'[s].status = "open" =>
                                    session[s].status = "open" /\ session'[s].last = session[s].last
         /\ \A s \in ending : session'[s].status = "ended"
         /\ \A s \in Sockets \ ending : session'[s] = session[s]
  <1>1. TypeInv /\ SocketInv /\ up \subseteq Messages  BY DEF LifeInv, TypeInv, TypeOK
  <1>2. /\ session' = [s \in Sockets |-> IF s \in ending THEN Ended(session[s], how) ELSE session[s]]
        /\ link' = Cut(ending) /\ up' = Matter(up)
    BY DEF TearDown
  <1>3. \A s \in ending : /\ Serves(session[s], Ended(session[s], how))
                          /\ Ended(session[s], how).status = "ended"
    BY <1>1, SessionsProper, EndedServes
  <1>4. \A s \in ending : session'[s] = Ended(session[s], how)  BY <1>2
  <1>5. \A s \in Sockets \ ending : session'[s] = session[s]  BY <1>2
  <1>6. \A s \in Sockets : Serves(session[s], session'[s])
    BY <1>1, <1>3, <1>4, <1>5, SessionsProper, ServesSelf
  <1>7. session' \in [Sockets -> Sessions]
    BY <1>2, <1>6 DEF Serves
  <1>8. up' \subseteq Messages  BY <1>1, <1>2, MatterIs
  <1>9. link' \in [Sockets -> {"none", "opening", "up", "down"}]
    BY <1>1, <1>2 DEF Cut, TypeInv, TypeOK
  <1>10. \A s \in Sockets : LinkServes(s)
    <2>1. \A s \in Sockets : link'[s] = IF s \in ending THEN "down" ELSE link[s]  BY <1>2, CutIs
    <2>2. \A s \in ending : link[s] \notin {"none", "opening"}
      BY <1>1 DEF SocketInv, Live
    <2>3. \A s \in Sockets : link[s] = "up" => Live(session[s])  BY <1>1 DEF SocketInv
    <2>. QED  BY <1>5, <2>1, <2>2, <2>3 DEF LinkServes
  <1>. QED  BY <1>3, <1>4, <1>5, <1>6, <1>7, <1>8, <1>9, <1>10

LEMMA EndMoves ==
  ASSUME LifeInv, UNCHANGED scenario, NEW s \in Sockets, AppDestroys(s) \/ ServerSeesDown(s)
  PROVE  ServerMove
  <1>1. TypeInv /\ ShutdownDrivesOut  BY DEF LifeInv
  <1>2. PICK how \in {"application", "transport"} :
          TearDown({s}, how) /\ Live(session[s]) /\ UNCHANGED <<frame, shutdown, client, down, receipts>>
    BY DEF AppDestroys, ServerSeesDown
  <1>3. how \in Hows  BY DEF Hows
  <1>4. {s} \subseteq Sockets /\ \A t \in {s} : Live(session[t])  BY <1>2
  <1>5. /\ session' \in [Sockets -> Sessions]
        /\ link' \in [Sockets -> {"none", "opening", "up", "down"}] /\ up' \subseteq Messages
        /\ \A t \in Sockets : /\ Serves(session[t], session'[t]) /\ LinkServes(t)
                              /\ session'[t].status = "open" =>
                                   session[t].status = "open" /\ session'[t].last = session[t].last
    BY <1>2, <1>3, <1>4, TearDownMoves
  <1>6. ShutdownDrivesOut'  BY <1>1, <1>2, <1>5, StillDriven
  <1>7. shutdown' \in [Worlds -> {"no", "running", "resolved"}]
    BY <1>1, <1>2 DEF TypeInv, TypeOK
  <1>. QED  BY <1>2, <1>5, <1>6, <1>7, QuietMoves

LEMMA ShutdownMoves ==
  ASSUME LifeInv, UNCHANGED scenario, NEW w \in Worlds,
         Shutdown(w) \/ ShutdownResolves(w) \/ ShutdownDeadline(w)
  PROVE  ServerMove
  <1>1. TypeInv /\ SocketInv /\ ShutdownDrivesOut /\ up \subseteq Messages
    BY DEF LifeInv, TypeInv, TypeOK
  <1>2. shutdown \in [Worlds -> {"no", "running", "resolved"}]  BY <1>1 DEF TypeInv, TypeOK
  <1>3. CASE Shutdown(w)
    <2>1. /\ shutdown' = [shutdown EXCEPT ![w] = "running"]
          /\ session' = [s \in Sockets |-> IF s \in LiveIn(w) THEN Closing(session[s], "shutting down")
                                           ELSE session[s]]
          /\ UNCHANGED <<client, scenario, frame, receipts, down, up, link>>
      BY <1>3 DEF Shutdown, netVars
    <2>2. "shutting down" \in Notices \cup {NoNotice}  BY DEF Notices
    <2>3. \A s \in LiveIn(w) : s \in Sockets /\ Live(session[s])  BY DEF LiveIn
    <2>4. \A s \in LiveIn(w) : /\ Serves(session[s], Closing(session[s], "shutting down"))
                               /\ Closing(session[s], "shutting down").status = "closing"
      BY <1>1, <2>2, <2>3, SessionsProper, ClosingServes
    <2>5. \A s \in LiveIn(w) : session'[s] = Closing(session[s], "shutting down")  BY <2>1, <2>3
    <2>6. \A s \in Sockets \ LiveIn(w) : session'[s] = session[s]  BY <2>1
    <2>7. \A s \in Sockets : /\ Serves(session[s], session'[s])
                             /\ session'[s].status = "open" =>
                                  session[s].status = "open" /\ session'[s].last = session[s].last
      BY <1>1, <2>4, <2>5, <2>6, SessionsProper, ServesSelf
    <2>8. session' \in [Sockets -> Sessions]  BY <2>1, <2>7 DEF Serves
    <2>9. \A s \in Sockets : LinkServes(s)
      <3>1. SUFFICES ASSUME NEW s \in Sockets, Live(session[s])  PROVE Live(session'[s])
        BY <1>1, <2>1 DEF LinkServes, SocketInv
      <3>. QED  BY <2>4, <2>5, <2>6, <3>1 DEF Live
    <2>10. shutdown' \in [Worlds -> {"no", "running", "resolved"}]  BY <1>2, <2>1
    <2>11. ShutdownDrivesOut'
      <3>1. SUFFICES ASSUME NEW x \in Worlds, shutdown'[x] # "no", NEW t \in LiveIn(x)'
                     PROVE  session'[t].status = "closing" /\ shutdown'[x] # "resolved"
        BY DEF ShutdownDrivesOut, LiveIn
      <3>2. t \in Sockets /\ session'[t].world = x /\ Live(session'[t])  BY DEF LiveIn
      <3>3. Serves(session[t], session'[t])  BY <2>7, <3>2
      <3>4. t \in LiveIn(x)  BY <3>2, <3>3 DEF LiveIn, Serves, Live
      <3>5. CASE x = w
        BY <1>2, <2>1, <2>4, <2>5, <3>4, <3>5
      <3>6. CASE x # w
        <4>1. shutdown[x] # "no" /\ shutdown'[x] = shutdown[x]  BY <1>2, <2>1, <3>1, <3>6
        <4>2. session[t].status = "closing" /\ shutdown[x] # "resolved"
          BY <1>1, <3>4, <4>1 DEF ShutdownDrivesOut
        <4>. QED  BY <3>2, <3>3, <4>1, <4>2 DEF Serves, Live
      <3>. QED  BY <3>5, <3>6
    <2>12. link' \in [Sockets -> {"none", "opening", "up", "down"}] /\ up' \subseteq Messages
      BY <1>1, <2>1 DEF TypeInv, TypeOK
    <2>. QED  BY <2>1, <2>7, <2>8, <2>9, <2>10, <2>11, <2>12, QuietMoves
  <1>4. ASSUME shutdown' = [shutdown EXCEPT ![w] = "resolved"], shutdown[w] = "running",
               LiveIn(w)' = {}, \A s \in Sockets : Serves(session[s], session'[s])
        PROVE  ShutdownDrivesOut'
    <2>1. SUFFICES ASSUME NEW x \in Worlds, shutdown'[x] # "no", NEW t \in LiveIn(x)'
                   PROVE  session'[t].status = "closing" /\ shutdown'[x] # "resolved"
      BY DEF ShutdownDrivesOut, LiveIn
    <2>2. t \in Sockets /\ session'[t].world = x /\ Live(session'[t])  BY DEF LiveIn
    <2>3. x # w  BY <1>4, <2>1
    <2>4. shutdown[x] # "no" /\ shutdown'[x] = shutdown[x]  BY <1>2, <1>4, <2>1, <2>3
    <2>5. Serves(session[t], session'[t])  BY <1>4, <2>2
    <2>6. t \in LiveIn(x)  BY <2>2, <2>5 DEF LiveIn, Serves, Live
    <2>7. session[t].status = "closing" /\ shutdown[x] # "resolved"
      BY <1>1, <2>4, <2>6 DEF ShutdownDrivesOut
    <2>. QED  BY <2>2, <2>4, <2>5, <2>7 DEF Serves, Live
  <1>5. CASE ShutdownResolves(w)
    <2>1. /\ shutdown' = [shutdown EXCEPT ![w] = "resolved"] /\ shutdown[w] = "running"
          /\ LiveIn(w) = {}
          /\ UNCHANGED <<client, scenario, frame, receipts, down, up, link, session>>
      BY <1>5 DEF ShutdownResolves, netVars
    <2>2. \A s \in Sockets : Serves(session[s], session'[s]) /\ session'[s] = session[s]
      BY <1>1, <2>1, SessionsProper, ServesSelf
    <2>3. \A s \in Sockets : LinkServes(s)
      BY <1>1, <2>1 DEF LinkServes, SocketInv
    <2>4. LiveIn(w)' = {}  BY <2>1 DEF LiveIn
    <2>5. ShutdownDrivesOut'  BY <1>4, <2>1, <2>2, <2>4
    <2>6. /\ session' \in [Sockets -> Sessions] /\ up' \subseteq Messages
          /\ link' \in [Sockets -> {"none", "opening", "up", "down"}]
          /\ shutdown' \in [Worlds -> {"no", "running", "resolved"}]
      BY <1>1, <1>2, <2>1 DEF TypeInv, TypeOK
    <2>. QED  BY <2>1, <2>2, <2>3, <2>5, <2>6, QuietMoves
  <1>6. CASE ShutdownDeadline(w)
    <2>1. /\ shutdown' = [shutdown EXCEPT ![w] = "resolved"] /\ shutdown[w] = "running"
          /\ TearDown(LiveIn(w), "deadline")
          /\ UNCHANGED <<client, scenario, frame, receipts, down>>
      BY <1>6 DEF ShutdownDeadline
    <2>2. "deadline" \in Hows  BY DEF Hows
    <2>3. LiveIn(w) \subseteq Sockets /\ \A s \in LiveIn(w) : Live(session[s])  BY DEF LiveIn
    <2>4. /\ session' \in [Sockets -> Sessions]
          /\ link' \in [Sockets -> {"none", "opening", "up", "down"}] /\ up' \subseteq Messages
          /\ \A s \in Sockets : /\ Serves(session[s], session'[s]) /\ LinkServes(s)
                                /\ session'[s].status = "open" =>
                                     session[s].status = "open" /\ session'[s].last = session[s].last
          /\ \A s \in LiveIn(w) : session'[s].status = "ended"
          /\ \A s \in Sockets \ LiveIn(w) : session'[s] = session[s]
      BY <2>1, <2>2, <2>3, TearDownMoves
    <2>5. LiveIn(w)' = {}
      <3>1. SUFFICES ASSUME NEW t \in Sockets, session'[t].world = w, Live(session'[t])  PROVE FALSE
        BY DEF LiveIn
      <3>2. t \notin LiveIn(w)  BY <2>4, <3>1 DEF Live
      <3>3. session'[t] = session[t]  BY <2>4, <3>1, <3>2
      <3>. QED  BY <3>1, <3>2, <3>3 DEF LiveIn
    <2>6. ShutdownDrivesOut'  BY <1>4, <2>1, <2>4, <2>5
    <2>7. shutdown' \in [Worlds -> {"no", "running", "resolved"}]  BY <1>2, <2>1
    <2>. QED  BY <2>1, <2>4, <2>6, <2>7, QuietMoves
  <1>. QED  BY <1>3, <1>5, <1>6

\* What a session sends is true of it.
Overdue(late, s) == s \in late
StateSent(s, r, to, lost, late) == StateFrames(s, r, to, Overdue(lost, s), Overdue(late, s))

LEMMA StateFramesAre ==
  ASSUME NEW s \in Sockets, NEW r \in Sessions, NEW to \in Nat, NEW lost, NEW late,
         NEW m \in StateSent(s, r, to, lost, late)
  PROVE  m \in Frames /\ m.socket = s /\ ~m.final /\ m.close = NoNotice
  <1>. DEFINE sent(from) == [socket |-> s, from |-> from, to |-> to,
                             reply |-> r.outbox, close |-> NoNotice, final |-> FALSE]
  <1>1. r.outbox \in BOOLEAN /\ r.ack \in Nat  BY DEF Sessions
  <1>2. m = sent(0) \/ m = sent(None) \/ m = sent(r.ack)
    BY DEF StateSent, StateFrames
  <1>3. ASSUME NEW from \in Nat \cup {None}, m = sent(from)
        PROVE  m \in Frames /\ m.socket = s /\ ~m.final /\ m.close = NoNotice
    BY <1>1, <1>3 DEF Frames
  <1>4. 0 \in Nat \cup {None} /\ None \in Nat \cup {None} /\ r.ack \in Nat \cup {None}
    BY <1>1
  <1>. HIDE DEF sent
  <1>. QED  BY <1>2, <1>3, <1>4

LEMMA CloseFramesAre ==
  ASSUME NEW s \in Sockets, NEW q \in Sessions, q.flush.to # None, NEW m \in CloseFrames(s, q)
  PROVE  /\ q.status = "closing"
         /\ m \in Frames /\ m.socket = s /\ m.final = TRUE /\ m.close = q.told
         /\ m.from = q.flush.from /\ m.to = q.flush.to /\ m.reply = q.flush.reply
  <1>1. q.status = "closing"  BY DEF CloseFrames
  <1>2. m = [socket |-> s, from |-> q.flush.from, to |-> q.flush.to,
             reply |-> q.flush.reply, close |-> q.told, final |-> TRUE]
    BY <1>1 DEF CloseFrames
  <1>3. /\ q.flush.from \in Nat \cup {None} /\ q.flush.to \in Nat /\ q.flush.reply \in BOOLEAN
        /\ q.told \in Notices \cup {NoNotice}
    BY FlushTypes DEF Sessions
  <1>4. m \in Frames  BY <1>2, <1>3 DEF Frames
  <1>. QED  BY <1>1, <1>2, <1>4

\* What one send makes of a session, and what it hands to its socket.
After(to, lost, late, s) ==
  IF session[s].status = "closing" THEN Linger(session[s], Overdue(late, s))
  ELSE Replicate(session[s], to, Overdue(lost, s), Overdue(late, s))
Sent(to, lost, late, s) ==
  IF link[s] # "up" THEN {}
  ELSE IF session[s].status = "closing" THEN CloseFrames(s, After(to, lost, late, s))
  ELSE StateSent(s, session[s], to, lost, late)

LEMMA AfterServes ==
  ASSUME LifeInv, NEW s \in Sockets, Live(session[s]), NEW to \in Nat, NEW lost, NEW late,
         session[s].status = "open" => session[s].last <= to
  PROVE  /\ Serves(session[s], After(to, lost, late, s))
         /\ After(to, lost, late, s).status = "open" =>
              session[s].status = "open" /\ After(to, lost, late, s).last = to
  <1>. DEFINE r == session[s]
              q == After(to, lost, late, s)
  <1>1. TypeInv  BY DEF LifeInv
  <1>2. Proper(r) /\ r \in Sessions  BY <1>1, SessionsProper
  <1>3. Overdue(late, s) \in BOOLEAN /\ Overdue(lost, s) \in BOOLEAN  BY DEF Overdue
  <1>4. CASE r.status = "closing"
    <2>1. q = Linger(r, Overdue(late, s))  BY <1>4 DEF After
    <2>. HIDE DEF q
    <2>2. Serves(r, q)  BY <1>2, <1>3, <1>4, <2>1, LingerServes
    <2>3. q.status # "open"  BY <1>4, <2>2 DEF Serves
    <2>. QED  BY <2>2, <2>3 DEF q
  <1>5. CASE r.status = "open"
    <2>1. q = Replicate(r, to, Overdue(lost, s), Overdue(late, s))  BY <1>5 DEF After
    <2>. HIDE DEF q
    <2>2. Serves(r, q) /\ (q.status = "open" => q.last = to)
      BY <1>2, <1>3, <1>5, <2>1, ReplicateServes
    <2>. QED  BY <1>5, <2>2 DEF q
  <1>. QED  BY <1>4, <1>5 DEF Live

LEMMA SentIsTrue ==
  ASSUME LifeInv, NEW s \in Sockets, Live(session[s]), NEW to \in Nat, NEW lost, NEW late,
         session[s].status = "open" => session[s].last <= to,
         NEW m \in Sent(to, lost, late, s)
  PROVE  m \in Frames /\ m.socket = s /\ Truthful(m, After(to, lost, late, s))
  <1>. DEFINE r == session[s]
              q == After(to, lost, late, s)
  <1>1. TypeInv  BY DEF LifeInv
  <1>2. Proper(r) /\ r \in Sessions  BY <1>1, SessionsProper
  <1>3. Serves(r, q)  BY AfterServes
  <1>4. CASE r.status = "closing"
    <2>1. m \in CloseFrames(s, q)  BY <1>4 DEF Sent
    <2>. HIDE DEF q
    <2>2. q.status = "closing"  BY <2>1 DEF CloseFrames
    <2>3. Flushing(q) /\ q.flush.to # None /\ q \in Sessions
      <3>1. q = Linger(r, Overdue(late, s))  BY <1>4 DEF q, After
      <3>2. Overdue(late, s) \in BOOLEAN  BY DEF Overdue
      <3>3. Live(r) /\ r.closes = 0 /\ (Flushing(r) => r.flush.to # None) /\ r.flush.reply \in BOOLEAN /\ r.outbox \in BOOLEAN
        BY <1>2, FlushTypes DEF Proper, Sessions
      <3>4. \/ \E how \in Hows \ {"none"} :
                 /\ q = Ended(r, how)
                 /\ how = "receipt" => Flushing(r) /\ r.ack >= r.flush.to
            \/ ~Flushing(r) /\ q = Flushed(r)
            \/ Flushing(r) /\ ~(r.ack >= r.flush.to) /\ q = Again(r, r.flush.reply \/ r.outbox)
        BY <1>2, <1>4, <3>1, <3>2, <3>3, LingerIs
      <3>5. \A how \in Hows : Ended(r, how).status = "ended"  BY <1>2, <3>3, EndedServes
      <3>6. ~Flushing(r) /\ q = Flushed(r) => Flushing(q)  BY <1>2, FlushedIs
      <3>7. Flushing(r) => Flushing(q)  BY <1>3, <2>2 DEF Serves, Live
      <3>8. Flushing(q)  BY <2>2, <3>4, <3>5, <3>6, <3>7
      <3>. QED  BY <1>3, <3>8 DEF Serves
    <2>4. m \in Frames /\ m.socket = s /\ m.final = TRUE /\ m.close = q.told
      BY <2>1, <2>3, CloseFramesAre
    <2>. QED  BY <2>2, <2>3, <2>4 DEF Truthful, q
  <1>5. CASE r.status = "open"
    <2>1. m \in StateSent(s, r, to, lost, late)  BY <1>5 DEF Sent
    <2>. HIDE DEF r
    <2>8. r \in Sessions  BY <1>2
    <2>2. m \in Frames /\ m.socket = s /\ ~m.final /\ m.close = NoNotice
      <3>1. \A l, k : \A n \in StateSent(s, r, to, l, k) : n \in Frames /\ n.socket = s /\ ~n.final /\ n.close = NoNotice
        BY <2>8, StateFramesAre
      <3>. QED  BY <2>1, <3>1
    <2>. HIDE DEF q
    <2>3. q.status # "none"  BY <1>3, <1>5 DEF Serves
    <2>. QED  BY <2>2, <2>3 DEF Truthful, q
  <1>. QED  BY <1>4, <1>5 DEF Live, Sent

\* One send, in terms of the two operators above.
NextFrame(w) == IF frame[w] < Bound(w) THEN frame[w] + 1 ELSE frame[w]
TickTo(w, to, lost, late) ==
  /\ frame' = [frame EXCEPT ![w] = to]
  /\ session' = [s \in Sockets |-> IF s \in LiveIn(w) THEN After(to, lost, late, s) ELSE session[s]]
  /\ link' = Cut({s \in LiveIn(w) : ~Live(After(to, lost, late, s))})
  /\ UNCHANGED <<shutdown, client, receipts>>
  /\ up' = Matter(up)
  /\ down' = Heard(down \cup UNION {Sent(to, lost, late, s) : s \in LiveIn(w)})

LEMMA TickIs ==
  ASSUME NEW w \in Worlds, Tick(w)
  PROVE  \E lost, late : TickTo(w, NextFrame(w), lost, late)
  <1>. DEFINE to == IF frame[w] < Bound(w) THEN frame[w] + 1 ELSE frame[w]
  <1>1. PICK lost, late : TickWith(w, lost, late)  BY DEF Tick
  <1>2. /\ frame' = [frame EXCEPT ![w] = to]
        /\ UNCHANGED <<shutdown, client, receipts>>
        /\ up' = Matter(up)
    BY <1>1 DEF TickWith
  <1>3. session' = [s \in Sockets |-> IF s \in LiveIn(w) THEN After(to, lost, late, s) ELSE session[s]]
    BY <1>1 DEF TickWith, After, Overdue
  <1>4. link' = Cut({s \in LiveIn(w) : ~Live(After(to, lost, late, s))})
    BY <1>1 DEF TickWith, After, Overdue
  <1>5. down' = Heard(down \cup UNION {Sent(to, lost, late, s) : s \in LiveIn(w)})
    BY <1>1 DEF TickWith, Sent, StateSent, After, Overdue
  <1>6. NextFrame(w) = to  BY DEF NextFrame
  <1>. HIDE DEF to
  <1>7. TickTo(w, to, lost, late)  BY <1>2, <1>3, <1>4, <1>5 DEF TickTo
  <1>. QED  BY <1>6, <1>7

LEMMA TickMoves ==
  ASSUME LifeInv, UNCHANGED scenario, NEW w \in Worlds, Tick(w)
  PROVE  ServerMove
  <1>. DEFINE to == NextFrame(w)
  <1>1. TypeInv /\ SocketInv /\ ShutdownDrivesOut /\ up \subseteq Messages /\ down \subseteq Frames
    BY DEF LifeInv, TypeInv, TypeOK
  <1>20. PICK lost, late : TickTo(w, NextFrame(w), lost, late)  BY TickIs
  <1>2. /\ frame' = [frame EXCEPT ![w] = to]
        /\ session' = [s \in Sockets |-> IF s \in LiveIn(w) THEN After(to, lost, late, s) ELSE session[s]]
        /\ link' = Cut({s \in LiveIn(w) : ~Live(After(to, lost, late, s))})
        /\ UNCHANGED <<shutdown, client, receipts>>
        /\ up' = Matter(up)
        /\ down' = Heard(down \cup UNION {Sent(to, lost, late, s) : s \in LiveIn(w)})
    BY <1>20 DEF TickTo
  <1>3. /\ frame[w] \in Nat /\ Bound(w) \in Nat /\ frame \in [Worlds -> Nat]
        /\ to \in Nat /\ frame[w] <= to
        /\ to = frame[w] \/ (to = frame[w] + 1 /\ frame[w] < Bound(w))
    <2>1. frame[w] \in Nat /\ Bound(w) \in Nat /\ frame \in [Worlds -> Nat]
      BY <1>1, Constants DEF TypeInv
    <2>. QED  BY <2>1 DEF NextFrame
  <1>. HIDE DEF to
  <1>4. \A s \in LiveIn(w) : s \in Sockets /\ Live(session[s]) /\ session[s].world = w  BY DEF LiveIn
  <1>5. \A s \in LiveIn(w) : session[s].status = "open" => session[s].last <= to
    <2>1. SUFFICES ASSUME NEW s \in LiveIn(w), session[s].status = "open"
                   PROVE  session[s].last <= to
      OBVIOUS
    <2>2. session[s].last <= frame[w] /\ session[s].last \in Nat
      BY <1>1, <1>4, <2>1 DEF TypeInv, TypeOK, Sessions
    <2>. QED  BY <1>3, <2>2
  <1>6. \A s \in LiveIn(w) :
          /\ Serves(session[s], After(to, lost, late, s))
          /\ After(to, lost, late, s).status = "open" =>
               session[s].status = "open" /\ After(to, lost, late, s).last = to
    BY <1>3, <1>4, <1>5, AfterServes
  <1>7. \A s \in LiveIn(w) : session'[s] = After(to, lost, late, s)  BY <1>2, <1>4
  <1>8. \A s \in Sockets \ LiveIn(w) : session'[s] = session[s]  BY <1>2
  <1>9. \A s \in Sockets : Serves(session[s], session'[s])
    BY <1>1, <1>6, <1>7, <1>8, SessionsProper, ServesSelf
  <1>10. session' \in [Sockets -> Sessions]  BY <1>2, <1>9 DEF Serves
  <1>11. frame'[w] = to /\ \A x \in Worlds \ {w} : frame'[x] = frame[x]  BY <1>2, <1>3
  <1>12. \A s \in Sockets : session'[s].status = "open" => session'[s].last <= frame'[session'[s].world]
    <2>1. SUFFICES ASSUME NEW s \in Sockets, session'[s].status = "open"
                   PROVE  session'[s].last <= frame'[session'[s].world]
      OBVIOUS
    <2>2. session'[s].world = session[s].world  BY <1>9 DEF Serves
    <2>3. CASE s \in LiveIn(w)
      BY <1>3, <1>4, <1>6, <1>7, <1>11, <2>1, <2>2, <2>3
    <2>4. CASE s \notin LiveIn(w)
      <3>1. session'[s] = session[s]  BY <1>8, <2>4
      <3>2. session[s].world # w  BY <2>1, <2>4, <3>1 DEF LiveIn, Live
      <3>3. session[s].world \in Worlds  BY <1>1, <2>1, <3>1 DEF SocketInv
      <3>. QED  BY <1>1, <1>11, <2>1, <3>1, <3>2, <3>3 DEF TypeInv
    <2>. QED  BY <2>3, <2>4
  <1>13. \A s \in Sockets : LinkServes(s)
    <2>. DEFINE ending == {s \in LiveIn(w) : ~Live(After(to, lost, late, s))}
    <2>1. \A s \in Sockets : link'[s] = IF s \in ending THEN "down" ELSE link[s]
      BY <1>2, CutIs
    <2>2. \A s \in ending : s \in LiveIn(w)  OBVIOUS
    <2>3. \A s \in LiveIn(w) : s \notin ending => Live(session'[s])  BY <1>7
    <2>. HIDE DEF ending
    <2>4. \A s \in ending : link[s] \notin {"none", "opening"}
      BY <1>1, <1>4, <2>2 DEF SocketInv, Live
    <2>. QED  BY <1>8, <2>1, <2>2, <2>3, <2>4 DEF LinkServes
  <1>14. link' \in [Sockets -> {"none", "opening", "up", "down"}]
    BY <1>1, <1>2 DEF Cut, TypeInv, TypeOK
  <1>15. ShutdownDrivesOut'  BY <1>1, <1>2, <1>9, StillDriven
  <1>16. \A m \in down' \ down : m \in Frames /\ Truthful(m, session'[m.socket])
    <2>1. SUFFICES ASSUME NEW m \in down', m \notin down
                   PROVE  m \in Frames /\ Truthful(m, session'[m.socket])
      OBVIOUS
    <2>2. m \in down \cup UNION {Sent(to, lost, late, s) : s \in LiveIn(w)}  BY <1>2, HeardIs
    <2>3. PICK s \in LiveIn(w) : m \in Sent(to, lost, late, s)  BY <2>1, <2>2
    <2>4. m \in Frames /\ m.socket = s /\ Truthful(m, After(to, lost, late, s))
      BY <1>3, <1>4, <1>5, <2>3, SentIsTrue
    <2>. QED  BY <1>7, <2>4
  <1>17. up' \subseteq Messages  BY <1>1, <1>2, MatterIs
  <1>18. shutdown' \in [Worlds -> {"no", "running", "resolved"}]  BY <1>1, <1>2 DEF TypeInv, TypeOK
  <1>19. /\ frame' \in [Worlds -> Nat]
         /\ \A x \in Worlds : frame'[x] = frame[x] \/ (frame'[x] = frame[x] + 1 /\ frame[x] < Bound(x))
    BY <1>2, <1>3, <1>11
  <1>21. down' \subseteq Frames  BY <1>1, <1>16
  <1>. QED
    BY <1>2, <1>9, <1>10, <1>12, <1>13, <1>14, <1>15, <1>16, <1>17, <1>18, <1>19, <1>21
    DEF ServerMove

-----------------------------------------------------------------------------
(* The invariant and the theorems.                                          *)

LEMMA LifeInit ==
  Init => LifeInv
  <1>. SUFFICES ASSUME Init PROVE LifeInv  OBVIOUS
  <1>1. /\ frame = StartFrame /\ shutdown = [w \in Worlds |-> "no"]
        /\ session = [s \in Sockets |-> NoSession]
        /\ link = [s \in Sockets |-> "none"] /\ down = {} /\ up = {} /\ receipts = {}
        /\ scenario \in Scenarios
    <2>1. frame = StartFrame  BY DEF Init, LifecycleInit
    <2>2. shutdown = [w \in Worlds |-> "no"]  BY DEF Init, LifecycleInit
    <2>3. session = [s \in Sockets |-> NoSession]  BY Zenon DEF Init, LifecycleInit
    <2>4. link = [s \in Sockets |-> "none"] /\ down = {} /\ up = {} /\ receipts = {} /\ scenario \in Scenarios
      BY DEF Init
    <2>. QED  BY <2>1, <2>2, <2>3, <2>4, Zenon
  <1>2. frame \in [Worlds -> Nat] /\ scenario.ticks \in Nat
    BY <1>1, LifecycleAssumption, ScenarioAssumption
  <1>3. \A w \in Worlds : frame[w] \in StartFrame[w]..Bound(w)
    <2>1. \A w \in Worlds : frame[w] = StartFrame[w]  BY <1>1
    <2>2. \A w \in Worlds : StartFrame[w] \in Nat  BY LifecycleAssumption
    <2>3. SUFFICES ASSUME NEW w \in Worlds  PROVE frame[w] \in StartFrame[w]..Bound(w)  OBVIOUS
    <2>4. frame[w] = StartFrame[w] /\ StartFrame[w] \in Nat  BY <2>1, <2>2
    <2>5. Bound(w) = StartFrame[w] + scenario.ticks  BY DEF Bound
    <2>6. Bound(w) \in Nat /\ StartFrame[w] <= Bound(w)  BY <1>2, <2>4, <2>5
    <2>. QED  BY <2>4, <2>6
  <1>. DEFINE n == NoSession
  <1>4. /\ n \in Sessions /\ ~Flushing(n) /\ n.status = "none" /\ n.ack = n.last
        /\ n.ack \in Nat /\ n.world = NoWorld
    <2>1. n.ack = 0 /\ n.last = 0  BY NoSessionIs
    <2>. QED  BY <2>1, NoSessionIs
  <1>. HIDE DEF n
  <1>5. \A s \in Sockets : session[s] = n /\ link[s] = "none"  BY <1>1 DEF n
  <1>6. session \in [Sockets -> Sessions]  BY <1>1, <1>4 DEF n
  <1>7. /\ client \in Clients /\ client.socket = None /\ client.connecting = None
        /\ Told(client) = {}
    <2>1. client = NewClient  BY DEF Init, ClientInit
    <2>2. NewClient \in Clients  BY DEF NewClient, Clients
    <2>3. NewClient.socket = None /\ NewClient.connecting = None  BY DEF NewClient
    <2>4. NewClient.pending = << >> /\ NewClient.reported = {}  BY DEF NewClient
    <2>5. Told(NewClient) = {}  BY <2>4 DEF Told
    <2>. QED  BY <2>1, <2>2, <2>3, <2>5
  <1>8. ~Attached(client) /\ ~Connected(client)  BY <1>7 DEF Attached, Connected
  <1>9. TypeInv
    <2>1. TypeOK
      BY <1>1, <1>3, <1>4, <1>5, <1>6, <1>7 DEF TypeOK
    <2>. QED  BY <1>1, <1>2, <1>4, <1>5, <2>1 DEF TypeInv, Live
  <1>10. SocketInv  BY <1>4, <1>5 DEF SocketInv
  <1>11. LinkInv  BY <1>7, <1>8 DEF LinkInv
  <1>12. NoticeInv  BY <1>1 DEF NoticeInv
  <1>13. Reported = {}  BY <1>7 DEF Reported, Told
  <1>14. LossInv  BY <1>8, <1>13 DEF LossInv, LossIsToldTruly, LossIsReportedOnce, NoticeIsOfThisConnection
  <1>15. SocketsAccounted  BY <1>5 DEF SocketsAccounted
  <1>16. ShutdownDrivesOut
    BY <1>1, <1>4, <1>5 DEF ShutdownDrivesOut, LiveIn, Live
  <1>. QED  BY <1>9, <1>10, <1>11, <1>12, <1>14, <1>15, <1>16 DEF LifeInv

LEMMA LifeNext ==
  LifeInv /\ [Next]_vars => LifeInv'
  <1>1. CASE UNCHANGED vars
    <2>1. /\ frame' = frame /\ shutdown' = shutdown /\ session' = session /\ client' = client
          /\ link' = link /\ down' = down /\ up' = up /\ receipts' = receipts /\ scenario' = scenario
      BY <1>1 DEF vars, runVars, lifecycleVars, netVars
    <2>. QED
      BY <2>1 DEF LifeInv, TypeInv, TypeOK, Bound, SocketInv, May, LinkInv, NoticeInv, LossInv,
                  LossIsToldTruly, LossIsReportedOnce, NoticeIsOfThisConnection, Reported,
                  SocketsAccounted, ShutdownDrivesOut, LiveIn
  <1>2. ASSUME LifeInv, ClientSteps, UNCHANGED scenario  PROVE LifeInv'
    <2>1. CASE \E w \in Worlds : BeginConnect(w)  BY <1>2, <2>1, BeginStep
    <2>2. CASE FinishConnect /\ ~client.disposed  BY <1>2, <2>2, FinishStep
    <2>3. CASE AbortConnect \/ (FinishConnect /\ client.disposed)
      BY <1>2, <2>3, AbortMoves, ClientMoves DEF Moves
    <2>4. CASE Leave  BY <1>2, <2>4, LeaveMoves, ClientMoves DEF Moves
    <2>5. CASE Invoke \/ BeginCall \/ CallEnds
      BY <1>2, <2>5, CallMoves, ClientMoves DEF Moves
    <2>6. CASE PayloadFails \/ AckTimer \/ ClientSeesDown
      BY <1>2, <2>6, LossMoves, ClientMoves DEF Moves
    <2>7. CASE \E m \in down : ClientReceives(m)
      BY <1>2, <2>7, ReceiveMoves, ClientMoves DEF Moves
    <2>. QED  BY <1>2, <2>1, <2>2, <2>3, <2>4, <2>5, <2>6, <2>7 DEF ClientSteps
  <1>3. ASSUME LifeInv, ServerSteps, UNCHANGED scenario  PROVE LifeInv'
    <2>1. CASE \E s \in Sockets : TransportOpens(s)  BY <1>3, <2>1, OpensStep
    <2>2. CASE \E s \in Sockets : GarbageArrives(s)
      BY <1>3, <2>2, ReceiptMoves, ServerMoves
    <2>3. CASE \E s \in Sockets : HandlerSettles(s)  BY <1>3, <2>3, HandlerMoves, ServerMoves
    <2>4. CASE \E s \in Sockets : CloseSession(s)  BY <1>3, <2>4, CloseMoves, ServerMoves
    <2>5. CASE \E s \in Sockets : AppDestroys(s) \/ ServerSeesDown(s)
      BY <1>3, <2>5, EndMoves, ServerMoves
    <2>6. CASE \E s \in Sockets : LinkFails(s)  BY <1>3, <2>6, FailureMoves, ServerMoves
    <2>7. CASE \E w \in Worlds : Tick(w)  BY <1>3, <2>7, TickMoves, ServerMoves
    <2>8. CASE \E w \in Worlds : Shutdown(w) \/ ShutdownResolves(w) \/ ShutdownDeadline(w)
      BY <1>3, <2>8, ShutdownMoves, ServerMoves
    <2>9. CASE \E m \in up : ServerReceives(m)  BY <1>3, <2>9, ReceiptMoves, ServerMoves
    <2>. QED  BY <1>3, <2>1, <2>2, <2>3, <2>4, <2>5, <2>6, <2>7, <2>8, <2>9 DEF ServerSteps
  <1>. QED  BY <1>1, <1>2, <1>3 DEF Next

LEMMA LifeInvariant ==
  Spec => []LifeInv
  <1>. QED  BY LifeInit, LifeNext, PTL DEF Spec

(***************************************************************************)
(* Whatever the worlds, the connections and the events: every variable     *)
(* holds a value of its kind, no socket stays open for nobody, and a world *)
(* that shuts down lets no session in and keeps none (ServerWorld.shutdown,*)
(* _onNewConnection, ClientWorld.connectDgram).                            *)
(***************************************************************************)
THEOREM SocketsAndSessions ==
  Spec => []ResourcesAccounted
  <1>1. LifeInv => ResourcesAccounted  BY DEF LifeInv, TypeInv, ResourcesAccounted
  <1>. QED  BY <1>1, LifeInvariant, PTL

(***************************************************************************)
(* Whatever the worlds, the connections and the events: a lost connection  *)
(* is reported once, with the reason its own session gave or with what the *)
(* client met on it (ClientWorld._handleDisconnect, _noteClose).           *)
(***************************************************************************)
THEOREM LossesTold ==
  Spec => []LossIsToldTruly
  <1>1. LifeInv => LossIsToldTruly  BY DEF LifeInv, LossInv
  <1>. QED  BY <1>1, LifeInvariant, PTL

-----------------------------------------------------------------------------
(* A receipt means that what it answers was delivered.                      *)

\* The client is done with connection s, and never comes back to it.
Gone(s) == ~(Connected(client) /\ client.socket = s) /\ client.connecting # s

\* The numbers of a world so far: that of a receipt frame may be one ahead.
Past(w)   == Bound(w) + 1
Newest(w) == IF frame[w] < Bound(w) THEN frame[w] ELSE Past(w)
Numbered(w, n) == StartFrame[w] <= n /\ n <= Newest(w)

\* The receipt frame of a session that flushes is the last it numbers; any other
\* session that lives has recorded the newest frame of its world.
NumberInv ==
  \A s \in Sockets : LET r == session[s] IN
    /\ Flushing(r) =>
         /\ r.status = "closing" /\ r.flush.to = r.last /\ 0 < r.last /\ Numbered(r.world, r.last)
         /\ r.flush.from > 0 /\ (r.owed => r.flush.reply)
    /\ Live(r) /\ ~Flushing(r) => r.last = frame[r.world]

\* Frames on their way: receipt frames are newer than all others.
FrameInv ==
  \A m \in down : LET r == session[m.socket] IN
    /\ Numbered(r.world, m.to)
    /\ m.final => m.from > 0 /\ (Live(r) => m.to = r.flush.to) /\ (r.owed => m.reply)
    /\ ~m.final => m.to <= frame[r.world] /\ (Flushing(r) => m.to < r.flush.to)

\* What its session may count as an ack: what it has counted, what is on its
\* way, and what a client that is not done with it would say.
Said(s, n) ==
  \/ n = session[s].ack
  \/ \E m \in up : m.socket = s /\ m.ack = n
  \/ ~Gone(s) /\ n = AckOf(client)

\* It ignores one past its newest frame; one of its receipt frame is a receipt.
Kept(s, n) == LET r == session[s] IN
  Live(r) =>
    \/ n > Past(r.world)
    \/ n <= r.last /\ (Flushing(r) /\ n >= r.flush.to => s \in receipts)

SaidInv == \A s \in Sockets : \A n \in Nat : Said(s, n) => Kept(s, n)

UpInv == \A m \in up : session[m.socket].status # "none" /\ ~m.garbage

\* Before the call there is no reply.
CallInv ==
  client.call = "none" =>
    /\ \A s \in Sockets : session[s].handler = "idle" /\ ~session[s].outbox /\ ~session[s].owed
    /\ \A m \in up : Live(session[m.socket]) => ~m.request

ReceiptInv ==
  /\ \A s \in receipts :
       /\ session[s].status \notin {"none", "open"}
       /\ Live(session[s]) => Flushing(session[s])
       /\ session[s].owed => client.call # "waiting"
  /\ \A s \in Sockets : session[s].how = "receipt" => s \in receipts

\* The client's version is a number of a world it was connected to.
VersionInv ==
  client.version # None =>
    \E w \in Worlds : Numbered(w, client.version) /\ (~May("switch") => w = FirstWorld)

DeliveryInv ==
  /\ NumberInv /\ FrameInv /\ SaidInv /\ UpInv /\ CallInv /\ ReceiptInv /\ VersionInv

LEMMA Numbers ==
  ASSUME TypeInv
  PROVE  /\ \A w \in Worlds :
              /\ frame[w] \in Nat /\ StartFrame[w] \in Nat /\ Bound(w) \in Nat /\ Past(w) \in Nat
              /\ StartFrame[w] <= frame[w] /\ frame[w] <= Bound(w) /\ Past(w) = Bound(w) + 1
              /\ Newest(w) \in Nat /\ frame[w] <= Newest(w) /\ Newest(w) <= Past(w)
         /\ \A s \in Sockets :
              /\ session[s] \in Sessions /\ session[s].ack \in Nat /\ session[s].last \in Nat
              /\ session[s].ack <= session[s].last
              /\ Flushing(session[s]) => session[s].flush.to \in Nat
  <1>1. ASSUME NEW w \in Worlds
        PROVE  /\ frame[w] \in Nat /\ StartFrame[w] \in Nat /\ Bound(w) \in Nat /\ Past(w) \in Nat
               /\ StartFrame[w] <= frame[w] /\ frame[w] <= Bound(w) /\ Past(w) = Bound(w) + 1
               /\ Newest(w) \in Nat /\ frame[w] <= Newest(w) /\ Newest(w) <= Past(w)
    <2>1. frame[w] \in StartFrame[w]..Bound(w) /\ StartFrame[w] \in Nat /\ Bound(w) \in Nat
      BY Constants DEF TypeInv, TypeOK
    <2>. QED  BY <2>1 DEF Past, Newest
  <1>2. ASSUME NEW s \in Sockets
        PROVE  /\ session[s] \in Sessions /\ session[s].ack \in Nat /\ session[s].last \in Nat
               /\ session[s].ack <= session[s].last
               /\ Flushing(session[s]) => session[s].flush.to \in Nat
    <2>1. session[s] \in Sessions  BY DEF TypeInv, TypeOK
    <2>2. session[s].flush.to \in Nat \cup {None}  BY <2>1, FlushTypes
    <2>. QED  BY <2>1, <2>2 DEF TypeInv, TypeOK, Sessions
  <1>. QED  BY <1>1, <1>2

\* Worlds never take a number back.
LEMMA NumbersGrow ==
  ASSUME TypeInv, TypeInv', scenario' = scenario, NEW w \in Worlds, frame[w] <= frame'[w]
  PROVE  /\ Past(w)' = Past(w) /\ Bound(w)' = Bound(w)
         /\ \A n : Numbered(w, n) /\ n \in Nat => Numbered(w, n)'
  <1>1. Bound(w)' = Bound(w)  BY DEF Bound
  <1>2. Past(w)' = Past(w)  BY <1>1 DEF Past
  <1>3. /\ frame[w] \in Nat /\ Bound(w) \in Nat /\ frame[w] <= Bound(w) /\ Past(w) = Bound(w) + 1
        /\ frame'[w] \in Nat /\ frame'[w] <= Bound(w) /\ StartFrame[w] \in Nat
    <2>1. frame'[w] \in StartFrame[w]..Bound(w)'  BY DEF TypeInv, TypeOK
    <2>2. StartFrame[w] \in Nat /\ Bound(w) \in Nat /\ frame[w] \in Nat /\ frame[w] <= Bound(w)
          /\ Past(w) = Bound(w) + 1
      BY Numbers
    <2>. QED  BY <1>1, <2>1, <2>2
  <1>4. Newest(w)' = IF frame'[w] < Bound(w) THEN frame'[w] ELSE Past(w)
    BY <1>1, <1>2 DEF Newest
  <1>5. Newest(w) = IF frame[w] < Bound(w) THEN frame[w] ELSE Past(w)
    BY DEF Newest
  <1>6. Newest(w) \in Nat /\ Newest(w)' \in Nat /\ Newest(w) <= Newest(w)'
    BY <1>3, <1>4, <1>5
  <1>. QED  BY <1>1, <1>2, <1>3, <1>6 DEF Numbered

-----------------------------------------------------------------------------
(* A step of the client.                                                    *)

\* What the client's steps leave of the sessions: one may get its world.
Untouched(r, q) ==
  \/ q = r
  \/ /\ r.status = "none" /\ q.status = "none" /\ q.flush = r.flush /\ q.owed = r.owed
     /\ q.handler = r.handler /\ q.outbox = r.outbox /\ q.how = r.how

ClientTurn ==
  /\ frame' = frame /\ scenario' = scenario /\ down' \subseteq down
  /\ \A s \in Sockets : Untouched(session[s], session'[s])
  /\ \A m \in up' :
       /\ m \in Messages /\ session[m.socket].status # "none" /\ ~m.garbage
       /\ \/ m \in up
          \/ ~Live(session[m.socket])
          \/ Kept(m.socket, m.ack)' /\ (m.request => client'.call # "none")
  /\ \A s \in Sockets : ~Gone(s)' => Kept(s, AckOf(client))'
  /\ client'.call = "none" => client.call = "none"
  /\ client'.call = "waiting" => client.call \in {"waiting", "none"}
  /\ receipts \subseteq receipts' /\ receipts' \subseteq Sockets
  /\ \A s \in receipts' \ receipts :
       /\ session[s].status \notin {"none", "open"}
       /\ Live(session[s]) => Flushing(session[s])
       /\ session[s].owed => client'.call # "waiting"
  /\ VersionInv'

LEMMA ClientTurns ==
  ASSUME LifeInv, DeliveryInv, ClientTurn
  PROVE  DeliveryInv'
  <1>0. /\ TypeInv /\ SocketInv /\ NoticeInv
        /\ NumberInv /\ FrameInv /\ SaidInv /\ UpInv /\ CallInv /\ ReceiptInv
    BY DEF LifeInv, DeliveryInv
  <1>1. /\ frame' = frame /\ scenario' = scenario /\ down' \subseteq down
        /\ \A s \in Sockets : Untouched(session[s], session'[s])
    BY DEF ClientTurn
  <1>2. \A s \in Sockets :
          /\ session'[s].status = session[s].status /\ session'[s].flush = session[s].flush
          /\ session'[s].owed = session[s].owed /\ session'[s].handler = session[s].handler
          /\ session'[s].outbox = session[s].outbox /\ session'[s].how = session[s].how
          /\ session[s].status # "none" => session'[s] = session[s]
    BY <1>1 DEF Untouched
  <1>3. \A s \in Sockets : /\ Live(session'[s]) = Live(session[s])
                           /\ Flushing(session'[s]) = Flushing(session[s])
                           /\ Live(session[s]) => session'[s] = session[s]
                           /\ Flushing(session[s]) => session'[s] = session[s]
    BY <1>0, <1>2 DEF Live, Flushing, NumberInv
  <1>4. \A w : Past(w)' = Past(w) /\ \A n : Numbered(w, n)' = Numbered(w, n)
    BY <1>1 DEF Past, Bound, Numbered, Newest
  <1>5. NumberInv'  BY <1>0, <1>1, <1>2, <1>3, <1>4 DEF NumberInv
  <1>6. FrameInv'
    <2>1. \A m \in down : m.socket \in Sockets /\ session'[m.socket] = session[m.socket]
      BY <1>0, <1>2 DEF NoticeInv, TypeInv, TypeOK, Frames
    <2>. QED  BY <1>0, <1>1, <1>4, <2>1 DEF FrameInv
  <1>7. \A s \in Sockets : \A n : Kept(s, n) => Kept(s, n)'
    BY <1>3, <1>4 DEF Kept, ClientTurn
  <1>8. SaidInv'
    <2>1. SUFFICES ASSUME NEW s \in Sockets, NEW n \in Nat, Said(s, n)', Live(session'[s])
                   PROVE  Kept(s, n)'
      BY DEF SaidInv, Kept
    <2>2. session'[s] = session[s] /\ Live(session[s])  BY <1>3, <2>1
    <2>3. CASE n = session'[s].ack
      <3>1. Said(s, n)  BY <2>2, <2>3 DEF Said
      <3>. QED  BY <1>0, <1>7, <3>1 DEF SaidInv
    <2>4. CASE \E m \in up' : m.socket = s /\ m.ack = n
      <3>1. PICK m \in up' : m.socket = s /\ m.ack = n  BY <2>4
      <3>2. CASE m \in up
        <4>1. Said(s, n)  BY <3>1, <3>2 DEF Said
        <4>. QED  BY <1>0, <1>7, <4>1 DEF SaidInv
      <3>3. CASE m \notin up
        BY <2>2, <3>1, <3>3 DEF ClientTurn
      <3>. QED  BY <3>2, <3>3
    <2>5. CASE ~Gone(s)' /\ n = AckOf(client')
      BY <2>5 DEF ClientTurn
    <2>. QED  BY <2>1, <2>3, <2>4, <2>5 DEF Said
  <1>9. UpInv'
    BY <1>2 DEF UpInv, ClientTurn, Messages
  <1>10. CallInv'
    <2>1. SUFFICES ASSUME client'.call = "none"
                   PROVE  /\ \A s \in Sockets : /\ session'[s].handler = "idle" /\ ~session'[s].outbox
                                                /\ ~session'[s].owed
                          /\ \A m \in up' : Live(session'[m.socket]) => ~m.request
      BY DEF CallInv
    <2>2. client.call = "none"  BY <2>1 DEF ClientTurn
    <2>3. \A s \in Sockets : session[s].handler = "idle" /\ ~session[s].outbox /\ ~session[s].owed
      BY <1>0, <2>2 DEF CallInv
    <2>4. ASSUME NEW m \in up', Live(session'[m.socket])  PROVE ~m.request
      <3>1. m.socket \in Sockets  BY DEF ClientTurn, Messages
      <3>2. Live(session[m.socket])  BY <1>3, <2>4, <3>1
      <3>. QED  BY <1>0, <2>1, <2>2, <3>2 DEF ClientTurn, CallInv
    <2>. QED  BY <1>2, <2>3, <2>4
  <1>11. ReceiptInv'
    <2>1. ASSUME NEW s \in receipts'
          PROVE  /\ session'[s].status \notin {"none", "open"}
                 /\ Live(session'[s]) => Flushing(session'[s])
                 /\ session'[s].owed => client'.call # "waiting"
      <3>1. s \in Sockets  BY DEF ClientTurn
      <3>2. CASE s \in receipts
        <4>1. /\ session[s].status \notin {"none", "open"}
              /\ Live(session[s]) => Flushing(session[s])
              /\ session[s].owed => client.call # "waiting"
          BY <1>0, <3>2 DEF ReceiptInv
        <4>2. session[s].owed => client.call # "none"  BY <1>0, <3>1 DEF CallInv
        <4>3. session[s].owed => client'.call # "waiting"  BY <4>1, <4>2 DEF ClientTurn
        <4>. QED  BY <1>2, <1>3, <3>1, <4>1, <4>3
      <3>3. CASE s \notin receipts
        BY <1>2, <1>3, <3>1, <3>3 DEF ClientTurn
      <3>. QED  BY <3>2, <3>3
    <2>2. \A s \in Sockets : session'[s].how = "receipt" => s \in receipts'
      BY <1>0, <1>2 DEF ReceiptInv, ClientTurn
    <2>. QED  BY <2>1, <2>2 DEF ReceiptInv
  <1>12. VersionInv'  BY DEF ClientTurn
  <1>. QED  BY <1>5, <1>6, <1>8, <1>9, <1>10, <1>11, <1>12 DEF DeliveryInv

\* An ack of nothing is no receipt.
LEMMA NothingKept ==
  ASSUME LifeInv, NumberInv, NEW s \in Sockets
  PROVE  Kept(s, 0)
  <1>1. TypeInv  BY DEF LifeInv
  <1>2. /\ session[s].last \in Nat
        /\ Flushing(session[s]) => session[s].flush.to \in Nat /\ 0 < session[s].flush.to
    BY <1>1, Numbers DEF NumberInv
  <1>. QED  BY <1>2 DEF Kept

LEMMA KeptStays ==
  ASSUME NEW s \in Sockets, NEW n, Kept(s, n), frame' = frame, scenario' = scenario,
         Untouched(session[s], session'[s]), receipts \subseteq receipts'
  PROVE  Kept(s, n)'
  <1>1. \A w : Past(w)' = Past(w)  BY DEF Past, Bound
  <1>. QED  BY <1>1 DEF Kept, Untouched, Live

\* Most of the client's steps leave its version, or forget it.
QuietTurn ==
  /\ frame' = frame /\ scenario' = scenario /\ receipts' = receipts /\ down' \subseteq down
  /\ \A s \in Sockets : /\ Untouched(session[s], session'[s])
                        /\ ~Gone(s)' => ~Gone(s) \/ session[s].status = "none"
  /\ \A m \in up' :
       /\ m \in Messages /\ session[m.socket].status # "none" /\ ~m.garbage
       /\ m \in up \/ ~Live(session[m.socket]) \/ (m = Message(client) /\ Connected(client))
  /\ client'.version \in {client.version, None}
  /\ client'.call = "none" => client.call = "none"
  /\ client'.call = "waiting" => client.call \in {"waiting", "none"}

LEMMA QuietTurns ==
  ASSUME LifeInv, DeliveryInv, QuietTurn
  PROVE  ClientTurn
  <1>0. TypeInv /\ LinkInv /\ NumberInv /\ SaidInv /\ ReceiptInv /\ VersionInv
    BY DEF LifeInv, DeliveryInv
  <1>1. /\ frame' = frame /\ scenario' = scenario /\ receipts' = receipts /\ down' \subseteq down
        /\ \A s \in Sockets : Untouched(session[s], session'[s])
    BY DEF QuietTurn
  <1>2. client \in Clients /\ AckOf(client) \in Nat /\ receipts \subseteq Sockets
    <2>1. client \in Clients /\ receipts \subseteq Sockets  BY <1>0 DEF TypeInv, TypeOK
    <2>. QED  BY <2>1 DEF Clients, AckOf
  <1>3. AckOf(client') = AckOf(client) \/ AckOf(client') = 0
    BY DEF QuietTurn, AckOf
  <1>4. ASSUME NEW s \in Sockets, ~Gone(s)  PROVE Kept(s, AckOf(client))
    BY <1>0, <1>2, <1>4 DEF Said, SaidInv
  <1>5. \A s \in Sockets : \A n : Kept(s, n) => Kept(s, n)'
    BY <1>1, KeptStays
  <1>6. ASSUME NEW s \in Sockets, ~Gone(s)'  PROVE Kept(s, AckOf(client))'
    <2>1. CASE session[s].status = "none"
      <3>1. ~Live(session'[s])  BY <1>1, <2>1 DEF Untouched, Live
      <3>. QED  BY <3>1 DEF Kept
    <2>2. CASE ~Gone(s)
      <3>1. Kept(s, AckOf(client)) /\ Kept(s, 0)  BY <1>0, <1>4, <2>2, NothingKept
      <3>2. \A n : n = AckOf(client') => Kept(s, n)'
        BY <1>3, <1>5, <3>1
      <3>. QED  BY <3>2 DEF Kept, AckOf
    <2>. QED  BY <1>6, <2>1, <2>2 DEF QuietTurn
  <1>7. ASSUME NEW m \in up'
        PROVE  /\ m \in Messages /\ session[m.socket].status # "none" /\ ~m.garbage
               /\ \/ m \in up
                  \/ ~Live(session[m.socket])
                  \/ Kept(m.socket, m.ack)' /\ (m.request => client'.call # "none")
    <2>1. CASE m = Message(client) /\ Connected(client)
      <3>1. client.socket \in Sockets  BY <1>2, <2>1 DEF Connected, Attached, Clients
      <3>2. /\ m.socket = client.socket /\ m.ack = AckOf(client)
            /\ m.request = (client.call = "waiting")
        BY <1>2, <2>1, <3>1, MessageIs
      <3>3. ~Gone(m.socket)  BY <2>1, <3>2 DEF Gone
      <3>4. Kept(m.socket, m.ack)  BY <1>4, <3>1, <3>2, <3>3
      <3>5. Kept(m.socket, m.ack)'  BY <1>5, <3>1, <3>2, <3>4
      <3>. QED  BY <3>2, <3>5 DEF QuietTurn
    <2>. QED  BY <2>1 DEF QuietTurn
  <1>8. VersionInv'
    BY <1>0, <1>1 DEF VersionInv, QuietTurn, Numbered, Newest, Past, Bound, May
  <1>. QED  BY <1>1, <1>2, <1>6, <1>7, <1>8 DEF ClientTurn, QuietTurn

\* What a message of the client adds to those that matter.
LEMMA MatterTurns ==
  ASSUME LifeInv, UpInv, session' = session, NEW c \in Clients, c.socket \in Sockets,
         Live(session[c.socket]), NEW m \in Matter(up \cup {Message(c)})
  PROVE  /\ m \in Messages /\ session[m.socket].status # "none" /\ ~m.garbage
         /\ m \in up \/ ~Live(session[m.socket]) \/ m = Message(c)
  <1>. DEFINE M == up \cup {Message(c)}
  <1>1. M \subseteq Messages /\ Message(c).socket = c.socket /\ Message(c).garbage = FALSE
    BY MessageIs DEF LifeInv, TypeInv, TypeOK
  <1>2. m \in Messages
        /\ (\/ m \in M /\ Live(session'[m.socket])
            \/ /\ ~Live(session'[m.socket]) /\ m.ack = 0 /\ ~m.garbage
               /\ \E n \in M : n.socket = m.socket)
    BY <1>1, MatterIs
  <1>3. \A n \in M : session[n.socket].status # "none"
    BY <1>1 DEF UpInv, Live
  <1>. QED  BY <1>1, <1>2, <1>3 DEF UpInv

\* What is said on the way up may be sent.
Sayable(m) ==
  /\ m \in Messages /\ session[m.socket].status # "none" /\ ~m.garbage
  /\ m \in up \/ ~Live(session[m.socket]) \/ (m = Message(client) /\ Connected(client))

LEMMA EndsTurns ==
  ASSUME LifeInv, NEW notice, Ends(client, client', notice),
         client'.version \in {client.version, None},
         UNCHANGED <<lifecycleVars, scenario, receipts>>, down' \subseteq down,
         \A m \in up' : Sayable(m)
  PROVE  QuietTurn
  <1>1. TypeInv /\ None \notin Sockets  BY Constants DEF LifeInv
  <1>2. client'.connecting \in {client.connecting, None} /\ client'.socket = client.socket
    BY DEF Ends
  <1>3. Connected(client') => Connected(client)  BY DEF Ends, Connected, Attached
  <1>4. \A s \in Sockets : ~Gone(s)' => ~Gone(s)
    BY <1>1, <1>2, <1>3 DEF Gone
  <1>5. \A s \in Sockets : Untouched(session[s], session'[s])
    BY DEF lifecycleVars, Untouched
  <1>6. frame' = frame /\ scenario' = scenario /\ receipts' = receipts  BY DEF lifecycleVars
  <1>7. client.call \in {"none", "waiting", "replied", "rejected"}
    BY <1>1 DEF TypeInv, TypeOK, Clients
  <1>. QED  BY <1>4, <1>5, <1>6, <1>7 DEF QuietTurn, Sayable, Ends

LEMMA UpSayable ==
  ASSUME LifeInv, UpInv
  PROVE  \A m \in up : Sayable(m)
  BY DEF LifeInv, TypeInv, TypeOK, UpInv, Sayable

LEMMA BeginTurn ==
  ASSUME LifeInv, DeliveryInv, NEW w \in Worlds, BeginConnect(w), UNCHANGED scenario
  PROVE  QuietTurn
  <1>0. TypeInv /\ SocketInv /\ UpInv  BY DEF LifeInv, DeliveryInv
  <1>1. PICK s \in Sockets :
          /\ ~Connected(client) /\ client.connecting = None /\ link[s] = "none"
          /\ client' = [client EXCEPT !.connecting = s]
          /\ session' = [session EXCEPT ![s].world = w]
          /\ UNCHANGED <<frame, down, up, receipts>>
    BY DEF BeginConnect
  <1>2. client \in Clients /\ s \in Sockets \cup {None} /\ session[s] \in Sessions
    BY <1>0 DEF TypeInv, TypeOK
  <1>3. /\ SameState(client, client') /\ client'.socket = client.socket /\ client'.connecting = s
        /\ client'.disposed = client.disposed /\ client'.disconnected = client.disconnected
        /\ client'.call = client.call
    BY <1>1, <1>2, ConnectingIs
  <1>4. session[s].status = "none"  BY <1>0, <1>1 DEF SocketInv
  <1>. DEFINE q == [session[s] EXCEPT !.world = w]
  <1>5. /\ q.status = session[s].status /\ q.flush = session[s].flush /\ q.owed = session[s].owed
        /\ q.handler = session[s].handler /\ q.outbox = session[s].outbox /\ q.how = session[s].how
    BY <1>2 DEF Sessions
  <1>6. session' = [session EXCEPT ![s] = q]  BY <1>1
  <1>. HIDE DEF q
  <1>7. \A t \in Sockets : session'[t] = IF t = s THEN q ELSE session[t]
    BY <1>0, <1>6 DEF TypeInv, TypeOK
  <1>8. \A t \in Sockets : Untouched(session[t], session'[t])
    BY <1>4, <1>5, <1>7 DEF Untouched
  <1>9. \A t \in Sockets : ~Gone(t)' => ~Gone(t) \/ session[t].status = "none"
    BY <1>1, <1>3, <1>4 DEF Gone, Connected, Attached
  <1>10. \A m \in up' : Sayable(m)  BY <1>0, <1>1, UpSayable
  <1>11. client.call \in {"none", "waiting", "replied", "rejected"} /\ client'.version = client.version
    BY <1>2, <1>3 DEF Clients, SameState
  <1>. QED  BY <1>1, <1>3, <1>8, <1>9, <1>10, <1>11 DEF QuietTurn, Sayable

LEMMA FinishTurn ==
  ASSUME LifeInv, DeliveryInv, FinishConnect, ~client.disposed, UNCHANGED scenario
  PROVE  QuietTurn
  <1>. DEFINE s == client.connecting
  <1>0. TypeInv /\ UpInv  BY DEF LifeInv, DeliveryInv
  <1>1. /\ s # None /\ client' = Attach(client, s) /\ down' = Heard(down)
        /\ UNCHANGED <<lifecycleVars, up, receipts>>
    BY DEF FinishConnect
  <1>2. client \in Clients /\ s \in Sockets /\ None \notin Sockets
    BY <1>0, <1>1, Constants DEF TypeInv, TypeOK, Clients
  <1>3. /\ SameState(client, client') /\ client'.socket = s /\ client'.connecting = None
        /\ client'.call = client.call
    BY <1>1, <1>2, AttachIs
  <1>4. \A t \in Sockets : ~Gone(t)' => ~Gone(t)
    BY <1>2, <1>3 DEF Gone
  <1>5. \A t \in Sockets : Untouched(session[t], session'[t])
    BY <1>1 DEF lifecycleVars, Untouched
  <1>6. frame' = frame /\ receipts' = receipts /\ down' \subseteq down  BY <1>1, HeardIs DEF lifecycleVars
  <1>7. \A m \in up' : Sayable(m)  BY <1>0, <1>1, UpSayable
  <1>8. client.call \in {"none", "waiting", "replied", "rejected"} /\ client'.version = client.version
    BY <1>2, <1>3 DEF Clients, SameState
  <1>. QED  BY <1>3, <1>4, <1>5, <1>6, <1>7, <1>8 DEF QuietTurn, Sayable

LEMMA AbortTurn ==
  ASSUME LifeInv, DeliveryInv, AbortConnect \/ (FinishConnect /\ client.disposed), UNCHANGED scenario
  PROVE  QuietTurn
  <1>0. TypeInv /\ UpInv /\ client \in Clients  BY DEF LifeInv, DeliveryInv, TypeInv, TypeOK
  <1>1. /\ client' = [client EXCEPT !.connecting = None]
        /\ down' = Heard(down) /\ UNCHANGED <<lifecycleVars, up, receipts>>
    BY DEF AbortConnect, FinishConnect
  <1>2. None \in Sockets \cup {None}  OBVIOUS
  <1>3. /\ client' \in Clients /\ SameState(client, client')
        /\ client'.socket = client.socket /\ client'.connecting = None
        /\ client'.disposed = client.disposed /\ client'.disconnected = client.disconnected
        /\ client'.call = client.call /\ client'.notice = client.notice
        /\ client'.faulty = client.faulty /\ Told(client') = Told(client)
    BY <1>0, <1>1, <1>2, ConnectingIs
  <1>4. Ends(client, client', NoNotice)  BY <1>3 DEF Ends, Connected, Attached
  <1>5. down' \subseteq down /\ \A m \in up' : Sayable(m)  BY <1>0, <1>1, UpSayable, HeardIs
  <1>6. client'.version = client.version  BY <1>3 DEF SameState
  <1>. QED  BY <1>1, <1>4, <1>5, <1>6, EndsTurns

LEMMA LeaveTurn ==
  ASSUME LifeInv, DeliveryInv, Leave, UNCHANGED scenario
  PROVE  QuietTurn
  <1>0. TypeInv /\ UpInv /\ client \in Clients  BY DEF LifeInv, DeliveryInv, TypeInv, TypeOK
  <1>1. /\ down' = Heard(down) /\ UNCHANGED <<lifecycleVars, up, receipts>>
        /\ client' = Close(client) \/ client' = Dispose(client)
    BY DEF Leave
  <1>2. Ends(client, client', client.notice) /\ client'.version \in {client.version, None}
    BY <1>0, <1>1, CloseEnds, DisposeEnds DEF Keeps, SameState
  <1>3. down' \subseteq down /\ \A m \in up' : Sayable(m)  BY <1>0, <1>1, UpSayable, HeardIs
  <1>. QED  BY <1>1, <1>2, <1>3, EndsTurns

LEMMA CallTurn ==
  ASSUME LifeInv, DeliveryInv, Invoke \/ BeginCall \/ CallEnds, UNCHANGED scenario
  PROVE  QuietTurn
  <1>0. TypeInv /\ UpInv /\ client \in Clients  BY DEF LifeInv, DeliveryInv, TypeInv, TypeOK
  <1>1. UNCHANGED <<lifecycleVars, netVars>>  BY DEF Invoke, BeginCall, CallEnds
  <1>2. \E notice : Ends(client, client', notice) /\ Keeps(client, client')
    <2>1. CASE Invoke
      <3>. DEFINE call == IF client.disposed \/ client.disconnected THEN "rejected" ELSE "waiting"
      <3>1. client' = [client EXCEPT !.call = call]  BY <2>1 DEF Invoke
      <3>2. call \in {"waiting", "rejected"} /\ (call = "waiting" => client.call = "none" /\ ~client.disposed /\ ~client.disconnected)
        BY <2>1 DEF Invoke
      <3>. HIDE DEF call
      <3>. QED  BY <1>0, <3>1, <3>2, CalledIs
    <2>2. CASE BeginCall  BY <1>0, <2>2, InCallIs DEF BeginCall
    <2>3. CASE CallEnds   BY <1>0, <2>3, EndCallEnds DEF CallEnds
    <2>. QED  BY <2>1, <2>2, <2>3
  <1>3. PICK notice : Ends(client, client', notice) /\ Keeps(client, client')  BY <1>2
  <1>4. down' \subseteq down /\ \A m \in up' : Sayable(m)  BY <1>0, <1>1, UpSayable DEF netVars
  <1>5. client'.version = client.version /\ UNCHANGED <<lifecycleVars, scenario, receipts>>
    BY <1>1, <1>3 DEF Keeps, SameState, netVars
  <1>. QED  BY <1>3, <1>4, <1>5, EndsTurns

LEMMA LossTurn ==
  ASSUME LifeInv, DeliveryInv, PayloadFails \/ AckTimer \/ ClientSeesDown, UNCHANGED scenario
  PROVE  QuietTurn
  <1>0. TypeInv /\ SocketInv /\ UpInv /\ client \in Clients
    BY DEF LifeInv, DeliveryInv, TypeInv, TypeOK
  <1>1. Attached(client) => client.socket \in Sockets  BY <1>0 DEF Attached, Clients
  <1>2. CASE PayloadFails
    <2>1. /\ client' = CloseForProtocolError(client)
          /\ down' = Heard(down) /\ UNCHANGED <<lifecycleVars, up, receipts>>
      BY <1>2 DEF PayloadFails
    <2>2. Ends(client, client', "unreadable") /\ client'.version = client.version
      BY <1>0, <2>1, FaultEnds DEF Keeps, SameState
    <2>3. down' \subseteq down /\ \A m \in up' : Sayable(m)  BY <1>0, <2>1, UpSayable, HeardIs
    <2>. QED  BY <2>1, <2>2, <2>3, EndsTurns
  <1>3. CASE AckTimer /\ link[client.socket] = "up"
    <2>1. /\ up' = Matter(up \cup {Message(client)}) /\ UNCHANGED <<client, down>>
          /\ UNCHANGED <<lifecycleVars, receipts>> /\ Connected(client)
      BY <1>3 DEF AckTimer
    <2>2. client.socket \in Sockets /\ Live(session[client.socket])
      BY <1>0, <1>1, <1>3, <2>1 DEF Connected, SocketInv
    <2>3. session' = session  BY <2>1 DEF lifecycleVars
    <2>4. \A m \in up' : Sayable(m)
      BY <1>0, <2>1, <2>2, <2>3, MatterTurns DEF Sayable
    <2>5. Ends(client, client', NoNotice)  BY <1>0, <2>1, SelfEnds
    <2>. QED  BY <2>1, <2>4, <2>5, EndsTurns
  <1>4. CASE (AckTimer /\ link[client.socket] # "up") \/ ClientSeesDown
    <2>1. /\ client' = Disconnect(client) /\ down' = Heard(down) /\ Attached(client)
          /\ UNCHANGED <<lifecycleVars, up, receipts>>
      BY <1>4 DEF AckTimer, ClientSeesDown, Connected
    <2>2. Ends(client, client', client.notice) /\ client'.version = client.version
      BY <1>0, <2>1, DisconnectEnds DEF Keeps, SameState
    <2>3. down' \subseteq down /\ \A m \in up' : Sayable(m)  BY <1>0, <2>1, UpSayable, HeardIs
    <2>. QED  BY <2>1, <2>2, <2>3, EndsTurns
  <1>. QED  BY <1>2, <1>3, <1>4

LEMMA ReceiveTurn ==
  ASSUME LifeInv, DeliveryInv, NEW m \in down, ClientReceives(m), UNCHANGED scenario
  PROVE  ClientTurn
  <1>. DEFINE s == m.socket
              r == session[s]
              buffered == AfterDiff(AfterReply(client, m), m)
  <1>0. /\ TypeInv /\ SocketInv /\ LinkInv /\ NoticeInv
        /\ NumberInv /\ FrameInv /\ SaidInv /\ UpInv /\ VersionInv
    BY DEF LifeInv, DeliveryInv
  <1>1. /\ client' = Handled(client, m)
        /\ frame' = frame /\ session' = session /\ scenario' = scenario
        /\ receipts' = IF m.final /\ ~Rejects(client, m) THEN receipts \cup {s} ELSE receipts
    BY DEF ClientReceives, lifecycleVars
  <1>2. /\ client \in Clients /\ m \in Frames /\ receipts \subseteq Sockets /\ None \notin Sockets
        /\ s \in Sockets /\ m.to \in Nat /\ m.from \in Int /\ m.final \in BOOLEAN
    BY <1>0, Constants, FrameTypes DEF TypeInv, TypeOK
  <1>3. Connected(client) /\ client.socket = s /\ client.connecting = None
    BY <1>0, <1>2 DEF ClientReceives, Listens, Connected, Attached, LinkInv
  <1>4. /\ SameLink(client, client')
        /\ m.reply => client'.call # "waiting"
        /\ Rejects(client, m) => Ends(client, client', "unreadable") /\ client'.version = client.version
        /\ ~Rejects(client, m) =>
             /\ Ends(client, client', m.close) /\ Takes(client, client', m)
             /\ AckOf(buffered) = AckOf(client')
    BY <1>1, <1>2, <1>3, HandledIs
  <1>5. \A t \in Sockets : ~Gone(t)' => t = s
    BY <1>2, <1>3, <1>4 DEF Gone, SameLink
  <1>6. \A t \in Sockets : Untouched(session[t], session'[t])  BY <1>1 DEF Untouched
  <1>7. receipts \subseteq receipts' /\ receipts' \subseteq Sockets  BY <1>1, <1>2
  <1>8. \A t \in Sockets : \A n : Kept(t, n) => Kept(t, n)'
    BY <1>1, <1>6, <1>7, KeptStays
  <1>9. /\ r.status # "none" /\ r.world \in Worlds
        /\ m.final => (Live(r) => Flushing(r))
        /\ Numbered(r.world, m.to)
        /\ m.final => m.from > 0 /\ (Live(r) => m.to = r.flush.to) /\ (r.owed => m.reply)
        /\ ~m.final => m.to <= frame[r.world] /\ (Flushing(r) => m.to < r.flush.to)
        /\ Live(r) /\ ~Flushing(r) => r.last = frame[r.world]
        /\ Flushing(r) => r.flush.to = r.last
        /\ r.last \in Nat
    BY <1>0, <1>2, Numbers DEF NoticeInv, SocketInv, FrameInv, NumberInv
  <1>10. ~Rejects(client, m) => Kept(s, m.to)'
    <2>1. SUFFICES ASSUME ~Rejects(client, m), Live(r)
                   PROVE  m.to <= r.last /\ (Flushing(r) /\ m.to >= r.flush.to => s \in receipts')
      BY <1>1 DEF Kept
    <2>2. CASE m.final
      BY <1>1, <1>2, <1>9, <2>1, <2>2
    <2>3. CASE ~m.final
      BY <1>2, <1>9, <2>1, <2>3
    <2>. QED  BY <2>2, <2>3
  <1>11. /\ client'.version = client.version \/ (~Rejects(client, m) /\ client'.version = m.to)
    <2>1. CASE Rejects(client, m)  BY <1>4, <2>1
    <2>2. CASE ~Rejects(client, m)
      <3>1. Takes(client, client', m)  BY <1>4, <2>2
      <3>2. m.from = None \/ m.from = 0 \/ (m.from # None /\ m.from > 0)  BY <1>2, FrameTypes
      <3>. QED  BY <2>2, <3>1, <3>2 DEF Takes, SameState
    <2>. QED  BY <2>1, <2>2
  <1>12. AckOf(client) \in Nat  BY <1>2 DEF Clients, AckOf
  <1>13. Kept(s, AckOf(client))
    <2>1. Said(s, AckOf(client))  BY <1>3 DEF Said, Gone
    <2>. QED  BY <1>0, <1>2, <1>12, <2>1 DEF SaidInv
  <1>14. \A n : n = AckOf(client') => Kept(s, n)'
    <2>1. AckOf(client') = AckOf(client) \/ (~Rejects(client, m) /\ AckOf(client') = m.to)
      <3>1. m.to # None  BY <1>2 DEF None
      <3>. QED  BY <1>11, <3>1 DEF AckOf
    <2>2. CASE AckOf(client') = AckOf(client)  BY <1>2, <1>8, <1>13, <2>2
    <2>3. CASE ~Rejects(client, m) /\ AckOf(client') = m.to  BY <1>10, <2>3
    <2>. QED  BY <2>1, <2>2, <2>3
  <1>15. \A t \in Sockets : ~Gone(t)' => Kept(t, AckOf(client))'
    <2>1. Kept(s, AckOf(client))'  BY <1>14 DEF Kept, AckOf
    <2>. QED  BY <1>5, <2>1
  <1>16. VersionInv'
    <2>1. SUFFICES ASSUME client'.version # None
                   PROVE  \E w \in Worlds : Numbered(w, client'.version) /\ (~May("switch") => w = FirstWorld)
      BY <1>1 DEF VersionInv, Numbered, Newest, Past, Bound, May
    <2>2. CASE client'.version = client.version  BY <1>0, <2>1, <2>2 DEF VersionInv
    <2>3. CASE client'.version = m.to
      <3>1. ~May("switch") => r.world = FirstWorld  BY <1>0, <1>2, <1>9 DEF SocketInv
      <3>. QED  BY <1>9, <2>3, <3>1
    <2>. QED  BY <1>11, <2>2, <2>3
  <1>17. /\ client'.call = "none" => client.call = "none"
         /\ client'.call = "waiting" => client.call \in {"waiting", "none"}
    BY <1>4 DEF Ends
  <1>18. ASSUME NEW n \in up'
         PROVE  /\ n \in Messages /\ session[n.socket].status # "none" /\ ~n.garbage
                /\ \/ n \in up
                   \/ ~Live(session[n.socket])
                   \/ Kept(n.socket, n.ack)' /\ (n.request => client'.call # "none")
    <2>1. CASE up' = up
      <3>1. Sayable(n) /\ n \in up  BY <1>0, <2>1, UpSayable
      <3>. QED  BY <3>1 DEF Sayable
    <2>2. CASE up' # up
      <3>1. /\ up' = Matter(up \cup {Message(buffered)})
            /\ ~Rejects(client, m) /\ link[s] = "up"
        BY <2>2 DEF ClientReceives
      <3>2. buffered \in Clients /\ buffered.socket = client.socket /\ (buffered.call = "waiting" => client.call = "waiting")
        <4>1. /\ AfterReply(client, m) \in Clients /\ SameState(client, AfterReply(client, m))
              /\ SameEvents(client, AfterReply(client, m))
              /\ AfterReply(client, m).call = IF m.reply /\ client.call = "waiting" THEN "replied" ELSE client.call
          BY <1>2, ReplyIs
        <4>2. ~Rejects(AfterReply(client, m), m)
          BY <3>1, <4>1 DEF Rejects, Refused, SameState
        <4>3. /\ buffered \in Clients /\ SameEvents(AfterReply(client, m), buffered)
              /\ buffered.call = AfterReply(client, m).call
          BY <1>2, <4>1, <4>2, DiffIs
        <4>. QED  BY <4>1, <4>3 DEF SameEvents, SameLink
      <3>3. AckOf(buffered) = AckOf(client')  BY <1>4, <3>1
      <3>. HIDE DEF buffered
      <3>4. Live(session[s])  BY <1>0, <1>2, <3>1 DEF SocketInv
      <3>5. /\ n \in Messages /\ session[n.socket].status # "none" /\ ~n.garbage
            /\ n \in up \/ ~Live(session[n.socket]) \/ n = Message(buffered)
        BY <1>0, <1>1, <1>2, <1>3, <3>1, <3>2, <3>4, MatterTurns
      <3>6. CASE n = Message(buffered)
        <4>1. n.socket = s /\ n.ack = AckOf(buffered) /\ n.request = (buffered.call = "waiting")
          BY <1>2, <1>3, <3>2, <3>6, MessageIs
        <4>2. Kept(n.socket, n.ack)'
          <5>1. Kept(s, n.ack)'  BY <1>14, <3>3, <4>1
          <5>. QED  BY <1>1, <4>1, <5>1 DEF Kept
        <4>3. n.request => client'.call # "none"  BY <1>17, <3>2, <4>1
        <4>. QED  BY <3>5, <4>2, <4>3
      <3>. QED  BY <3>5, <3>6
    <2>. QED  BY <2>1, <2>2
  <1>19. ASSUME NEW t \in receipts' \ receipts
         PROVE  /\ session[t].status \notin {"none", "open"}
                /\ Live(session[t]) => Flushing(session[t])
                /\ session[t].owed => client'.call # "waiting"
    <2>1. t = s /\ m.final /\ ~Rejects(client, m)  BY <1>1, <1>19
    <2>2. r.status # "open"  BY <1>0, <2>1 DEF NoticeInv
    <2>. QED  BY <1>4, <1>9, <2>1, <2>2
  <1>20. down' \subseteq down
    <2>1. down' = Heard(IF link[m.socket] = "up" THEN down ELSE down \ {m})  BY DEF ClientReceives
    <2>. QED  BY <2>1, HeardIs
  <1>. QED  BY <1>1, <1>6, <1>7, <1>15, <1>16, <1>17, <1>18, <1>19, <1>20 DEF ClientTurn

-----------------------------------------------------------------------------
(* A step of the servers that accepts no connection.                        *)

\* What becomes of a session r: it ends; ...
Finishes(r, q) ==
  /\ Live(r) /\ q.status = "ended" /\ ~Flushing(q) /\ q.world = r.world /\ q.owed = r.owed
  /\ q.handler = "idle" /\ ~q.outbox /\ q.ack = 0
  /\ q.how = "receipt" => Flushing(r) /\ r.ack >= r.flush.to

\* ... it takes in a message, settles a reply or is closed; ...
Closures == {"close", "garbage", "shutdown"}
Answers(s, r, q) ==
  /\ Live(r)
  /\ q.status = r.status \/ (q.status = "closing" /\ \E event \in Closures : May(event))
  /\ SameRest(r, q) /\ SameFlush(r, q) /\ q.last = r.last
  /\ SameAcks(r, q) \/ \E m \in up : m.socket = s /\ Counts(r, q, m.ack)
  /\ \/ SameCall(r, q)
     \/ r.handler # "idle"
     \/ \E m \in up : m.socket = s /\ m.request

\* ... it numbers its receipt frame, or sends it again; ...
Flushes(r, q) ==
  /\ r.status = "closing" /\ ~Flushing(r) /\ q.status = "closing" /\ SameRest(r, q)
  /\ q.ack = r.ack /\ q.last = r.last + 1 /\ q.handler = r.handler /\ ~q.outbox
  /\ Flushing(q) /\ q.flush.to = q.last /\ q.flush.from > 0
  /\ q.owed = r.outbox /\ q.flush.reply = r.outbox

Repeats(r, q) ==
  /\ r.status = "closing" /\ Flushing(r) /\ q.status = "closing" /\ SameRest(r, q)
  /\ SameAcks(r, q) /\ q.handler = r.handler /\ ~q.outbox /\ q.owed = r.owed
  /\ Flushing(q) /\ q.flush.to = r.flush.to /\ q.flush.from = r.flush.from
  /\ r.flush.reply => q.flush.reply

\* ... or it records the frame `to` of its world.
Advances(r, q, to) ==
  /\ r.status = "open" /\ q.status = "open" /\ SameRest(r, q) /\ SameFlush(r, q)
  /\ q.ack = r.ack /\ q.last = to /\ q.needs = r.needs
  /\ q.handler = r.handler /\ ~q.outbox
  /\ \/ q.resync = r.resync /\ ~(r.needs /\ r.resync = None)
     \/ q.resync = to /\ r.needs

Turn(s) ==
  LET r == session[s]  q == session'[s]  w == session[s].world IN
  \/ q = r /\ (Live(r) => frame'[w] = frame[w])
  \/ Finishes(r, q)
  \/ Answers(s, r, q) /\ frame'[w] = frame[w]
  \/ Flushes(r, q) /\ frame'[w] = NextFrame(w)
  \/ Repeats(r, q)
  \/ Advances(r, q, frame'[w]) /\ frame'[w] = NextFrame(w)

\* What a session sends.
Issued(m) ==
  LET r == session[m.socket]  q == session'[m.socket] IN
  IF m.final
  THEN /\ q.status = "closing" /\ Flushing(q)
       /\ m.to = q.flush.to /\ m.from = q.flush.from /\ m.reply = q.flush.reply
  ELSE /\ r.status = "open" /\ q.status = "open" /\ m.to = frame'[q.world]
       /\ \/ m.from = None
          \/ m.from = 0 /\ q.resync = m.to /\ q.needs
          \/ m.from = r.ack /\ ~r.needs

ServerTurn ==
  /\ ServerMove
  /\ \A s \in Sockets : Turn(s)
  /\ \A m \in down' \ down : Issued(m)
  /\ \A m \in up' :
       \/ m \in up
       \/ ~Live(session'[m.socket]) /\ ~m.garbage /\ (\E n \in up : n.socket = m.socket)

\* What the classes have in common.
LEMMA TurnIs ==
  ASSUME LifeInv, NumberInv, ServerMove, NEW s \in Sockets, Turn(s)
  PROVE  LET r == session[s]  q == session'[s]  w == session[s].world IN
         /\ q.world = w /\ (Live(q) => Live(r)) /\ (~Live(r) => q = r)
         /\ r.status # "none" => q.status # "none"
         /\ q.status = "open" => r.status = "open"
         /\ Flushing(r) /\ Live(q) =>
              /\ Flushing(q) /\ q.status = "closing" /\ q.last = r.last /\ q.owed = r.owed
              /\ q.flush.to = r.flush.to /\ q.flush.from = r.flush.from
              /\ r.flush.reply => q.flush.reply
         /\ Flushing(q) /\ ~Flushing(r) => Flushes(r, q) /\ frame'[w] = NextFrame(w)
         /\ q.owed = r.owed \/ (Live(r) /\ ~Flushing(r) /\ q.owed = r.outbox)
         /\ Live(q) =>
              /\ r.last \in Nat /\ q.last \in Nat /\ r.last <= q.last
              /\ q.ack = r.ack \/ \E m \in up : m.socket = s /\ q.ack = m.ack
              /\ ~Flushing(q) => q.last = frame'[w]
         /\ r.handler = "idle" /\ ~r.outbox =>
              \/ q.handler = "idle" /\ ~q.outbox
              \/ Live(r) /\ (\E m \in up : m.socket = s /\ m.request)
         /\ q.how = "receipt" => r.how = "receipt" \/ (Live(r) /\ Flushing(r) /\ r.ack >= r.flush.to)
  <1>. DEFINE r == session[s]
              q == session'[s]
              w == session[s].world
  <1>0. /\ TypeInv /\ SocketInv /\ up \subseteq Messages  BY DEF LifeInv, TypeInv, TypeOK
  <1>1. /\ Serves(r, q) /\ r \in Sessions /\ q \in Sessions
        /\ r.last \in Nat /\ q.last \in Nat /\ r.ack \in Nat /\ q.ack \in Nat
    BY <1>0 DEF ServerMove, TypeInv, TypeOK, Sessions
  <1>2. /\ Flushing(r) => r.status = "closing" /\ r.flush.to = r.last
        /\ Live(r) /\ ~Flushing(r) => r.last = frame[w]
    BY DEF NumberInv
  <1>3. Live(r) => w \in Worlds  BY <1>0 DEF SocketInv, Live
  <1>4. Live(r) => frame[w] \in Nat /\ frame'[w] \in Nat /\ frame[w] <= frame'[w]
    <2>1. SUFFICES ASSUME Live(r)  PROVE frame[w] \in Nat /\ frame'[w] \in Nat /\ frame[w] <= frame'[w]
      OBVIOUS
    <2>2. w \in Worlds  BY <1>3, <2>1
    <2>. HIDE DEF w
    <2>. QED  BY <1>0, <2>2 DEF ServerMove, TypeInv
  <1>. HIDE DEF r, q, w
  <1>5. CASE q = r /\ (Live(r) => frame'[w] = frame[w])
    BY <1>1, <1>2, <1>5 DEF Serves, r, q, w
  <1>6. CASE Finishes(r, q)
    BY <1>1, <1>2, <1>6 DEF Finishes, Live, r, q, w
  <1>7. CASE Answers(s, r, q) /\ frame'[w] = frame[w]
    <2>1. q.ack = r.ack \/ \E m \in up : m.socket = s /\ q.ack = m.ack
      <3>1. CASE SameAcks(r, q)  BY <3>1 DEF SameAcks
      <3>2. CASE \E m \in up : m.socket = s /\ Counts(r, q, m.ack)
        BY <3>2 DEF Counts, Larger
      <3>. QED  BY <1>7, <3>1, <3>2 DEF Answers
    <2>2. q.flush = r.flush /\ q.owed = r.owed /\ Flushing(q) = Flushing(r) /\ q.last = r.last
          /\ q.world = r.world /\ q.how = r.how /\ Live(r) /\ Live(q)
      BY <1>7 DEF Answers, SameRest, SameFlush, Flushing, Live
    <2>3. r.handler = "idle" /\ ~r.outbox =>
              \/ q.handler = "idle" /\ ~q.outbox
              \/ \E m \in up : m.socket = s /\ m.request
      BY <1>7 DEF Answers, SameCall
    <2>4. q.status = "open" => r.status = "open"  BY <1>7 DEF Answers, Live
    <2>. QED  BY <1>1, <1>2, <1>7, <2>1, <2>2, <2>3, <2>4 DEF Answers, Live, r, q, w
  <1>8. CASE Flushes(r, q) /\ frame'[w] = NextFrame(w)
    <2>1. Live(r) /\ Live(q)  BY <1>8 DEF Flushes, Live
    <2>. QED  BY <1>1, <1>2, <1>8, <2>1 DEF Flushes, SameRest, r, q, w
  <1>9. CASE Repeats(r, q)
    <2>1. Live(r) /\ Live(q)  BY <1>9 DEF Repeats, Live
    <2>. QED  BY <1>1, <1>2, <1>9, <2>1 DEF Repeats, SameRest, SameAcks, r, q, w
  <1>10. CASE Advances(r, q, frame'[w])
    <2>1. Live(r) /\ Live(q) /\ ~Flushing(r)  BY <1>2, <1>10 DEF Advances, Live
    <2>2. ~Flushing(q) /\ q.world = r.world /\ q.how = r.how /\ q.owed = r.owed
      BY <1>10, <2>1 DEF Advances, SameRest, SameFlush, Flushing
    <2>. QED  BY <1>1, <1>2, <1>4, <1>10, <2>1, <2>2 DEF Advances, r, q, w
  <1>. QED  BY <1>5, <1>6, <1>7, <1>8, <1>9, <1>10 DEF Turn, r, q, w

\* A number of a world after the step.
Then(w, n) ==
  StartFrame[w] <= n /\ n <= IF frame'[w] < Bound(w) THEN frame'[w] ELSE Past(w)

LEMMA ServerTurns ==
  ASSUME LifeInv, LifeInv', DeliveryInv, ServerTurn
  PROVE  DeliveryInv'
  <1>0. /\ TypeInv /\ SocketInv /\ NoticeInv /\ TypeInv' /\ SocketInv'
        /\ NumberInv /\ FrameInv /\ SaidInv /\ UpInv /\ CallInv /\ ReceiptInv /\ VersionInv
        /\ up \subseteq Messages /\ down \subseteq Frames
    BY DEF LifeInv, DeliveryInv, TypeInv, TypeOK
  <1>1. ServerMove /\ client' = client /\ scenario' = scenario /\ receipts' = receipts
    BY DEF ServerTurn, ServerMove
  <1>2. \A w \in Worlds : /\ frame[w] \in Nat /\ frame'[w] \in Nat /\ frame[w] <= frame'[w]
                          /\ \A n : Numbered(w, n) /\ n \in Nat => Then(w, n)
    <2>1. \A w \in Worlds : frame[w] \in Nat /\ frame'[w] \in Nat /\ frame[w] <= frame'[w]
      BY <1>0, <1>1 DEF ServerMove, TypeInv
    <2>2. ASSUME NEW w \in Worlds, NEW n \in Nat, Numbered(w, n)  PROVE Then(w, n)
      <3>1. frame[w] <= frame'[w]  BY <2>1
      <3>2. Numbered(w, n)' /\ Past(w)' = Past(w) /\ Bound(w)' = Bound(w)
        BY <1>0, <1>1, <2>2, <3>1, NumbersGrow
      <3>. QED  BY <3>2 DEF Numbered, Newest, Then
    <2>. QED  BY <2>1, <2>2
  <1>3. ASSUME NEW s \in Sockets
        PROVE  LET r == session[s]  q == session'[s]  w == session[s].world IN
         /\ q.world = w /\ (Live(q) => Live(r)) /\ (~Live(r) => q = r)
         /\ r.status # "none" => q.status # "none"
         /\ q.status = "open" => r.status = "open"
         /\ Flushing(r) /\ Live(q) =>
              /\ Flushing(q) /\ q.status = "closing" /\ q.last = r.last /\ q.owed = r.owed
              /\ q.flush.to = r.flush.to /\ q.flush.from = r.flush.from
              /\ r.flush.reply => q.flush.reply
         /\ Flushing(q) /\ ~Flushing(r) => Flushes(r, q) /\ frame'[w] = NextFrame(w)
         /\ q.owed = r.owed \/ (Live(r) /\ ~Flushing(r) /\ q.owed = r.outbox)
         /\ Live(q) =>
              /\ r.last \in Nat /\ q.last \in Nat /\ r.last <= q.last
              /\ q.ack = r.ack \/ \E m \in up : m.socket = s /\ q.ack = m.ack
              /\ ~Flushing(q) => q.last = frame'[w]
         /\ r.handler = "idle" /\ ~r.outbox =>
              \/ q.handler = "idle" /\ ~q.outbox
              \/ Live(r) /\ (\E m \in up : m.socket = s /\ m.request)
         /\ q.how = "receipt" => r.how = "receipt" \/ (Live(r) /\ Flushing(r) /\ r.ack >= r.flush.to)
    <2>1. Turn(s)  BY <1>3 DEF ServerTurn
    <2>. QED  BY <1>0, <1>1, <1>3, <2>1, TurnIs
  <1>4. \A s \in Sockets : session[s].status # "none" => session[s].world \in Worlds
    BY <1>0 DEF SocketInv
  <1>5. NumberInv'
    <2>1. SUFFICES ASSUME NEW s \in Sockets
          PROVE  /\ Flushing(session'[s]) =>
                      /\ session'[s].status = "closing" /\ session'[s].flush.to = session'[s].last
                      /\ 0 < session'[s].last /\ Then(session'[s].world, session'[s].last)
                      /\ session'[s].flush.from > 0 /\ (session'[s].owed => session'[s].flush.reply)
                 /\ Live(session'[s]) /\ ~Flushing(session'[s]) => session'[s].last = frame'[session'[s].world]
      BY <1>1 DEF NumberInv, Numbered, Newest, Past, Bound, Then
    <2>. DEFINE r == session[s]
                q == session'[s]
                w == session[s].world
    <2>2. /\ Flushing(r) => /\ r.status = "closing" /\ r.flush.to = r.last /\ 0 < r.last /\ Numbered(w, r.last)
                            /\ r.flush.from > 0 /\ (r.owed => r.flush.reply)
          /\ Live(r) /\ ~Flushing(r) => r.last = frame[w]
      BY <1>0 DEF NumberInv
    <2>3. r.last \in Nat  BY <1>0, Numbers
    <2>4. CASE ~Flushing(q)  BY <1>3, <2>4
    <2>5. CASE Flushing(q) /\ Flushing(r)
      <3>1. w \in Worlds  BY <1>4, <2>2, <2>5
      <3>2. Live(r)  BY <2>2, <2>5 DEF Live
      <3>3. CASE Live(q)
        <4>1. q.last = r.last /\ q.world = w  BY <1>3, <2>5, <3>3
        <4>2. Then(w, r.last)  BY <1>2, <2>2, <2>3, <2>5, <3>1
        <4>3. Then(q.world, q.last)  BY <4>1, <4>2
        <4>. QED  BY <1>3, <2>2, <2>5, <3>3, <4>3
      <3>4. CASE ~Live(q)
        <4>1. Serves(r, q)  BY <1>1 DEF ServerMove
        <4>2. Turn(s)  BY DEF ServerTurn
        <4>3. Finishes(r, q)
          BY <2>2, <2>5, <3>2, <3>4, <4>2 DEF Turn, Answers, Flushes, Repeats, Advances, Live
        <4>. QED  BY <2>5, <4>3 DEF Finishes
      <3>. QED  BY <3>3, <3>4
    <2>6. CASE Flushing(q) /\ ~Flushing(r)
      <3>1. Flushes(r, q) /\ frame'[w] = NextFrame(w) /\ q.world = w  BY <1>3, <2>6
      <3>2. w \in Worlds /\ r.last = frame[w]  BY <1>4, <2>2, <2>6, <3>1 DEF Flushes, Live
      <3>3. q.last = frame[w] + 1  BY <3>1, <3>2 DEF Flushes
      <3>. HIDE DEF w
      <3>4. /\ frame[w] \in Nat /\ Bound(w) \in Nat /\ frame[w] <= Bound(w) /\ Past(w) = Bound(w) + 1
            /\ StartFrame[w] \in Nat /\ StartFrame[w] <= frame[w]
        BY <1>0, <3>2, Numbers
      <3>5. Then(w, frame[w] + 1) /\ 0 < frame[w] + 1
        BY <3>1, <3>4 DEF NextFrame, Then
      <3>7. Then(q.world, q.last)  BY <3>1, <3>3, <3>5
      <3>8. 0 < q.last  BY <3>3, <3>5
      <3>. QED  BY <2>6, <3>1, <3>7, <3>8 DEF Flushes
    <2>. QED  BY <2>4, <2>5, <2>6
  <1>6. FrameInv'
    <2>1. SUFFICES ASSUME NEW m \in down'
          PROVE  LET q == session'[m.socket] IN
                 /\ Then(q.world, m.to)
                 /\ m.final => m.from > 0 /\ (Live(q) => m.to = q.flush.to) /\ (q.owed => m.reply)
                 /\ ~m.final => m.to <= frame'[q.world] /\ (Flushing(q) => m.to < q.flush.to)
      BY <1>1 DEF FrameInv, Numbered, Newest, Past, Bound, Then
    <2>. DEFINE s == m.socket
                r == session[s]
                q == session'[s]
                w == session[s].world
    <2>2. m \in Frames  BY <1>1 DEF ServerMove
    <2>3. s \in Sockets /\ m.to \in Nat /\ m.final \in BOOLEAN /\ m.from \in Int  BY <2>2, FrameTypes
    <2>4. q.world = w /\ r.last \in Nat  BY <1>0, <1>3, <2>3, Numbers
    <2>5. CASE m \in down
      <3>1. /\ r.status # "none" /\ (m.final => (Live(r) => Flushing(r)))
            /\ Numbered(w, m.to)
            /\ m.final => m.from > 0 /\ (Live(r) => m.to = r.flush.to) /\ (r.owed => m.reply)
            /\ ~m.final => m.to <= frame[w] /\ (Flushing(r) => m.to < r.flush.to)
        BY <1>0, <2>5 DEF FrameInv, NoticeInv
      <3>2. w \in Worlds  BY <1>4, <2>3, <3>1
      <3>4. Then(q.world, m.to)  BY <1>2, <2>3, <2>4, <3>1, <3>2
      <3>5. frame[w] \in Nat /\ frame'[w] \in Nat /\ frame[w] <= frame'[w]  BY <1>2, <3>2
      <3>6. /\ (Live(q) => Live(r)) /\ (~Live(r) => q = r)
            /\ Flushing(r) /\ Live(q) => q.flush.to = r.flush.to /\ q.owed = r.owed
            /\ Flushing(q) /\ ~Flushing(r) => Flushes(r, q)
            /\ q.owed = r.owed \/ (Live(r) /\ ~Flushing(r))
        BY <1>3, <2>3
      <3>7. CASE m.final
        <4>1. (Live(q) => m.to = q.flush.to) /\ (q.owed => m.reply)
          BY <3>1, <3>6, <3>7
        <4>. QED  BY <3>1, <3>4, <3>7, <4>1
      <3>8. CASE ~m.final
        <4>1. m.to <= frame'[q.world]
          <5>. HIDE DEF w
          <5>1. m.to <= frame'[w]  BY <2>3, <3>1, <3>5, <3>8
          <5>. QED  BY <2>4, <5>1 DEF w
        <4>2. Flushing(q) => m.to < q.flush.to
          <5>1. CASE ~Flushing(r)
            <6>1. Flushing(q) => q.flush.to = r.last + 1 /\ Live(r)
              BY <3>6, <5>1 DEF Flushes, Live
            <6>2. Live(r) => r.last = frame[w]  BY <1>0, <2>3, <5>1 DEF NumberInv
            <6>. HIDE DEF w, r, q
            <6>. QED  BY <2>3, <2>4, <3>1, <3>5, <3>8, <6>1, <6>2
          <5>2. CASE Flushing(r)
            <6>1. Turn(s)  BY <2>3 DEF ServerTurn
            <6>2. Flushing(q) => q.flush.to = r.flush.to
              BY <5>2, <6>1 DEF Turn, Finishes, Answers, SameFlush, Flushes, Repeats, Advances
            <6>. QED  BY <3>1, <3>8, <5>2, <6>2
          <5>. QED  BY <5>1, <5>2
        <4>. QED  BY <3>4, <3>8, <4>1, <4>2
      <3>. QED  BY <3>7, <3>8
    <2>6. CASE m \notin down
      <3>1. Issued(m)  BY <2>1, <2>6 DEF ServerTurn
      <3>2. CASE m.final
        <4>1. /\ q.status = "closing" /\ Flushing(q)
              /\ m.to = q.flush.to /\ m.from = q.flush.from /\ m.reply = q.flush.reply
          BY <3>1, <3>2 DEF Issued
        <4>2. /\ q.flush.to = q.last /\ Then(q.world, q.last)
              /\ q.flush.from > 0 /\ (q.owed => q.flush.reply)
          BY <1>1, <1>5, <2>3, <4>1 DEF NumberInv, Numbered, Newest, Past, Bound, Then
        <4>3. Then(q.world, m.to)  BY <4>1, <4>2
        <4>. QED  BY <3>2, <4>1, <4>2, <4>3
      <3>3. CASE ~m.final
        <4>1. q.status = "open" /\ m.to = frame'[q.world]  BY <3>1, <3>3 DEF Issued
        <4>2. ~Flushing(q)  BY <1>5, <2>3, <4>1 DEF NumberInv
        <4>3. w \in Worlds  BY <1>0, <2>3, <2>4, <4>1 DEF SocketInv
        <4>4. Then(w, m.to)
          <5>. HIDE DEF w
          <5>1. m.to = frame'[w]  BY <2>4, <4>1 DEF w
          <5>2. /\ frame[w] \in Nat /\ frame[w] <= frame'[w] /\ frame'[w] \in Nat
                /\ Bound(w) \in Nat /\ frame[w] <= Bound(w) /\ Past(w) = Bound(w) + 1
                /\ StartFrame[w] \in Nat /\ StartFrame[w] <= frame[w]
            BY <1>0, <1>2, <4>3, Numbers
          <5>3. frame'[w] = frame[w] \/ (frame[w] < Bound(w) /\ frame'[w] = frame[w] + 1)
            BY <1>1, <4>3 DEF ServerMove
          <5>. QED  BY <5>1, <5>2, <5>3 DEF Then
        <4>5. Then(q.world, m.to)  BY <2>4, <4>4
        <4>6. m.to <= frame'[q.world]  BY <2>3, <4>1
        <4>. QED  BY <3>3, <4>2, <4>5, <4>6
      <3>. QED  BY <3>2, <3>3
    <2>. QED  BY <2>5, <2>6
  <1>7. ASSUME NEW s \in Sockets, NEW n \in Nat, Kept(s, n)  PROVE Kept(s, n)'
    <2>. DEFINE r == session[s]
                q == session'[s]
                w == session[s].world
    <2>1. SUFFICES ASSUME Live(q)
                   PROVE  n > Past(q.world) \/ (n <= q.last /\ (Flushing(q) /\ n >= q.flush.to => s \in receipts))
      BY <1>1 DEF Kept, Past, Bound
    <2>2. /\ Live(r) /\ q.world = w /\ r.last \in Nat /\ q.last \in Nat /\ r.last <= q.last
          /\ Flushing(r) => q.flush.to = r.flush.to
          /\ Flushing(q) /\ ~Flushing(r) => Flushes(r, q)
      BY <1>3, <2>1
    <2>3. n > Past(w) \/ (n <= r.last /\ (Flushing(r) /\ n >= r.flush.to => s \in receipts))
      BY <1>7, <2>2 DEF Kept
    <2>5. Past(q.world) = Past(w)  BY <2>2
    <2>6. Flushing(q) /\ ~Flushing(r) => q.flush.to = r.last + 1  BY <2>2 DEF Flushes
    <2>. HIDE DEF r, q, w
    <2>. QED  BY <2>2, <2>3, <2>5, <2>6
  <1>8. SaidInv'
    <2>1. SUFFICES ASSUME NEW s \in Sockets, NEW n \in Nat, Said(s, n)', Live(session'[s])
                   PROVE  Kept(s, n)'
      BY DEF SaidInv, Kept
    <2>2. Said(s, n)
      <3>1. CASE n = session'[s].ack
        BY <1>3, <2>1, <3>1 DEF Said
      <3>2. CASE \E m \in up' : m.socket = s /\ m.ack = n
        BY <2>1, <3>2 DEF Said, ServerTurn
      <3>3. CASE ~Gone(s)' /\ n = AckOf(client')
        BY <1>1, <3>3 DEF Said, Gone
      <3>. QED  BY <2>1, <3>1, <3>2, <3>3 DEF Said
    <2>. QED  BY <1>0, <1>7, <2>2 DEF SaidInv
  <1>9. UpInv'
    <2>1. SUFFICES ASSUME NEW m \in up'  PROVE session'[m.socket].status # "none" /\ ~m.garbage
      BY DEF UpInv
    <2>2. m.socket \in Sockets  BY <1>1 DEF ServerMove, Messages
    <2>3. session[m.socket].status # "none" /\ ~m.garbage
      BY <1>0 DEF UpInv, ServerTurn
    <2>. QED  BY <1>3, <2>2, <2>3
  <1>10. CallInv'
    <2>1. SUFFICES ASSUME client.call = "none"
          PROVE  /\ \A s \in Sockets : /\ session'[s].handler = "idle" /\ ~session'[s].outbox
                                       /\ ~session'[s].owed
                 /\ \A m \in up' : Live(session'[m.socket]) => ~m.request
      BY <1>1 DEF CallInv
    <2>2. /\ \A s \in Sockets : session[s].handler = "idle" /\ ~session[s].outbox /\ ~session[s].owed
          /\ \A m \in up : Live(session[m.socket]) => ~m.request
      BY <1>0, <2>1 DEF CallInv
    <2>3. ASSUME NEW s \in Sockets
          PROVE  session'[s].handler = "idle" /\ ~session'[s].outbox /\ ~session'[s].owed
      BY <1>3, <2>2
    <2>4. ASSUME NEW m \in up', Live(session'[m.socket])  PROVE ~m.request
      <3>1. m \in up /\ m.socket \in Sockets  BY <1>1, <2>4 DEF ServerTurn, ServerMove, Messages
      <3>. QED  BY <1>3, <2>2, <2>4, <3>1
    <2>. QED  BY <2>3, <2>4
  <1>11. ReceiptInv'
    <2>1. ASSUME NEW s \in receipts
          PROVE  /\ session'[s].status \notin {"none", "open"}
                 /\ Live(session'[s]) => Flushing(session'[s])
                 /\ session'[s].owed => client.call # "waiting"
      <3>1. s \in Sockets  BY <1>0 DEF TypeInv, TypeOK
      <3>2. /\ session[s].status \notin {"none", "open"}
            /\ Live(session[s]) => Flushing(session[s])
            /\ session[s].owed => client.call # "waiting"
        BY <1>0 DEF ReceiptInv
      <3>. QED  BY <1>3, <3>1, <3>2
    <2>2. ASSUME NEW s \in Sockets, session'[s].how = "receipt"  PROVE s \in receipts
      <3>. DEFINE r == session[s]
                  w == session[s].world
      <3>1. CASE r.how = "receipt"  BY <1>0, <3>1 DEF ReceiptInv
      <3>2. CASE Live(r) /\ Flushing(r) /\ r.ack >= r.flush.to
        <4>1. r.ack \in Nat /\ r.last \in Nat /\ r.ack <= r.last  BY <1>0, Numbers
        <4>2. Kept(s, r.ack)  BY <1>0, <4>1 DEF Said, SaidInv
        <4>3. Numbered(w, r.last)  BY <1>0, <3>2 DEF NumberInv
        <4>4. w \in Worlds  BY <1>4, <3>2 DEF Live
        <4>5. Newest(w) \in Nat /\ Newest(w) <= Past(w) /\ Past(w) \in Nat  BY <1>0, <4>4, Numbers
        <4>6. r.ack > Past(w) \/ s \in receipts  BY <3>2, <4>2 DEF Kept
        <4>7. r.last <= Newest(w)  BY <4>3 DEF Numbered
        <4>. HIDE DEF r, w
        <4>. QED  BY <4>1, <4>5, <4>6, <4>7
      <3>. QED  BY <1>3, <2>2, <3>1, <3>2
    <2>. QED  BY <1>1, <2>1, <2>2 DEF ReceiptInv
  <1>12. VersionInv'
    <2>1. SUFFICES ASSUME client.version # None
                   PROVE  \E w \in Worlds : Then(w, client.version) /\ (~May("switch") => w = FirstWorld)
      BY <1>1 DEF VersionInv, May, Then, Numbered, Newest, Past, Bound
    <2>2. PICK w \in Worlds : Numbered(w, client.version) /\ (~May("switch") => w = FirstWorld)
      BY <1>0, <2>1 DEF VersionInv
    <2>3. client.version \in Nat
      BY <1>0, <2>1 DEF TypeInv, TypeOK, Clients
    <2>. QED  BY <1>2, <2>2, <2>3
  <1>. QED  BY <1>5, <1>6, <1>8, <1>9, <1>10, <1>11, <1>12 DEF DeliveryInv

\* No message is added.
FewerUp ==
  \A m \in up' :
    \/ m \in up
    \/ ~Live(session'[m.socket]) /\ ~m.garbage /\ (\E n \in up : n.socket = m.socket)

LEMMA FewerUpIs ==
  ASSUME TypeInv, NEW M, M \subseteq up, up' = up \/ up' = Matter(M)
  PROVE  FewerUp
  <1>1. M \subseteq Messages  BY DEF TypeInv, TypeOK
  <1>2. CASE up' = up  BY <1>2 DEF FewerUp
  <1>3. CASE up' = Matter(M)
    <2>1. \A m \in Matter(M) :
            \/ m \in M /\ Live(session'[m.socket])
            \/ /\ ~Live(session'[m.socket]) /\ m.ack = 0 /\ ~m.garbage
               /\ \E n \in M : n.socket = m.socket
      BY <1>1, MatterIs
    <2>. QED  BY <1>3, <2>1 DEF FewerUp
  <1>. QED  BY <1>2, <1>3

\* A step that numbers no frame and changes only the sessions S.
LEMMA FewTurns ==
  ASSUME ServerMove, UNCHANGED <<frame, down>>, FewerUp, NEW S,
         \A s \in Sockets \ S : session'[s] = session[s],
         \A s \in S : s \in Sockets => Finishes(session[s], session'[s]) \/ Answers(s, session[s], session'[s])
                                        \/ session'[s] = session[s]
  PROVE  ServerTurn
  <1>1. \A s \in Sockets : Turn(s)  BY DEF Turn
  <1>2. \A m \in down' \ down : Issued(m)  OBVIOUS
  <1>. QED  BY <1>1, <1>2 DEF ServerTurn, FewerUp

LEMMA EndedFinishes ==
  ASSUME NEW r, Proper(r), Live(r), NEW how \in Hows \ {"receipt"}
  PROVE  Finishes(r, Ended(r, how))
  <1>. DEFINE q == Ended(r, how)
  <1>1. r \in Sessions /\ r.closes = 0  BY DEF Proper
  <1>2. /\ q.status = "ended" /\ q.world = r.world /\ q.how = how /\ q.owed = r.owed /\ q.ack = 0
        /\ q.handler = "idle" /\ q.outbox = FALSE /\ ~Flushing(q)
    BY <1>1, EndedIs
  <1>. HIDE DEF q
  <1>3. Finishes(r, q)  BY <1>2 DEF Finishes
  <1>. QED  BY <1>3 DEF q

LEMMA ReceiptTurn ==
  ASSUME LifeInv, UpInv, UNCHANGED scenario,
         (\E m \in up : ServerReceives(m)) \/ (\E s \in Sockets : GarbageArrives(s))
  PROVE  ServerTurn
  <1>1. TypeInv /\ up \subseteq Messages /\ session \in [Sockets -> Sessions]
    BY DEF LifeInv, TypeInv, TypeOK
  <1>2. ServerMove  BY ReceiptMoves
  <1>3. ASSUME NEW s \in Sockets, NEW m \in Messages, m.socket = s,
               (m \in up /\ ~m.garbage) \/ (m.garbage /\ May("garbage")),
               session' = [session EXCEPT ![s] = Received(session[s], m)], FewerUp,
               UNCHANGED <<frame, down>>
        PROVE  ServerTurn
    <2>. DEFINE r == session[s]
                q == Received(r, m)
    <2>1. r \in Sessions  BY <1>1
    <2>2. /\ ~Live(r) => q = r
          /\ Live(r) =>
               /\ SameRest(r, q) /\ SameFlush(r, q) /\ q.last = r.last
               /\ q.status = r.status \/ (q.status = "closing" /\ m.garbage /\ SameAcks(r, q))
               /\ SameAcks(r, q) \/ Counts(r, q, m.ack)
               /\ SameCall(r, q) \/ (m.request /\ r.status = "open")
               /\ m.garbage => SameAcks(r, q) /\ SameCall(r, q)
      BY <2>1, ReceivedIs
    <2>. HIDE DEF q
    <2>3. session'[s] = q /\ \A t \in Sockets \ {s} : session'[t] = session[t]
      BY <1>1, <1>3 DEF q
    <2>4. Live(r) => Answers(s, r, q)  BY <1>3, <2>2 DEF Answers, Closures
    <2>. QED  BY <1>2, <1>3, <2>2, <2>3, <2>4, FewTurns
  <1>4. ASSUME NEW m \in up, ServerReceives(m)  PROVE ServerTurn
    <2>1. m \in Messages /\ m.socket \in Sockets  BY <1>1 DEF Messages
    <2>2. session' = [session EXCEPT ![m.socket] = Received(session[m.socket], m)]
      BY <1>4 DEF ServerReceives
    <2>3. UNCHANGED <<frame, down>>  BY <1>4 DEF ServerReceives
    <2>4. FewerUp
      <3>1. up' = Matter(IF link[m.socket] = "up" THEN up ELSE up \ {m})  BY <1>4 DEF ServerReceives
      <3>2. (IF link[m.socket] = "up" THEN up ELSE up \ {m}) \subseteq up  OBVIOUS
      <3>. QED  BY <1>1, <3>1, <3>2, FewerUpIs
    <2>. QED  BY <1>3, <2>1, <2>2, <2>3, <2>4 DEF UpInv
  <1>5. ASSUME NEW s \in Sockets, GarbageArrives(s)  PROVE ServerTurn
    <2>. DEFINE m == [socket |-> s, ack |-> 0, request |-> FALSE, garbage |-> TRUE]
    <2>1. m \in Messages /\ m.garbage /\ m.socket = s /\ May("garbage")
      BY <1>5 DEF Messages, GarbageArrives
    <2>2. session' = [session EXCEPT ![s] = Received(session[s], m)]
      BY <1>5 DEF GarbageArrives
    <2>3. UNCHANGED <<frame, down, up>>  BY <1>5 DEF GarbageArrives
    <2>4. FewerUp  BY <1>1, <2>3, FewerUpIs
    <2>. HIDE DEF m
    <2>. QED  BY <1>3, <2>1, <2>2, <2>3, <2>4
  <1>. QED  BY <1>4, <1>5

LEMMA HandlerTurn ==
  ASSUME LifeInv, UNCHANGED scenario, NEW s \in Sockets, HandlerSettles(s)
  PROVE  ServerTurn
  <1>. DEFINE r == session[s]
              q == Settled(r)
  <1>1. TypeInv /\ session \in [Sockets -> Sessions]  BY DEF LifeInv, TypeInv, TypeOK
  <1>2. ServerMove  BY HandlerMoves
  <1>3. r \in Sessions /\ Live(r) /\ r.handler # "idle" /\ UNCHANGED <<frame, down, up>>
    BY <1>1 DEF HandlerSettles, netVars
  <1>4. session' = [session EXCEPT ![s] = q]
    BY <1>1 DEF HandlerSettles, Settled
  <1>5. q.status = r.status /\ SameRest(r, q) /\ SameFlush(r, q) /\ SameAcks(r, q)
    BY <1>3, SettledIs
  <1>. HIDE DEF q
  <1>6. session'[s] = q /\ \A t \in Sockets \ {s} : session'[t] = session[t]
    BY <1>1, <1>4
  <1>7. Answers(s, r, q)  BY <1>3, <1>5 DEF Answers, SameAcks
  <1>8. FewerUp  BY <1>1, <1>3, FewerUpIs
  <1>. QED  BY <1>2, <1>3, <1>6, <1>7, <1>8, FewTurns

LEMMA ClosingAnswers ==
  ASSUME NEW s, NEW r \in Sessions, Live(r), NEW notice \in Notices \cup {NoNotice},
         \E event \in Closures : May(event)
  PROVE  Answers(s, r, Closing(r, notice))
  <1>. DEFINE q == Closing(r, notice)
  <1>1. /\ q.status = "closing" /\ SameRest(r, q) /\ SameFlush(r, q) /\ SameAcks(r, q) /\ SameCall(r, q)
    BY ClosingIs
  <1>. HIDE DEF q
  <1>2. Answers(s, r, q)  BY <1>1 DEF Answers, SameAcks
  <1>. QED  BY <1>2 DEF q

LEMMA CloseTurn ==
  ASSUME LifeInv, UNCHANGED scenario, NEW s \in Sockets, CloseSession(s)
  PROVE  ServerTurn
  <1>1. TypeInv /\ session \in [Sockets -> Sessions]  BY DEF LifeInv, TypeInv, TypeOK
  <1>2. ServerMove  BY CloseMoves
  <1>3. PICK notice \in {NoNotice, "application"} :
          session' = [session EXCEPT ![s] = Closing(session[s], notice)]
    BY DEF CloseSession
  <1>4. notice \in Notices \cup {NoNotice} /\ Live(session[s]) /\ session[s] \in Sessions
    BY <1>1 DEF Notices, CloseSession
  <1>5. Answers(s, session[s], Closing(session[s], notice))
    <2>1. \E event \in Closures : May(event)  BY DEF CloseSession, Closures
    <2>. QED  BY <1>4, <2>1, ClosingAnswers
  <1>6. /\ session'[s] = Closing(session[s], notice)
        /\ \A t \in Sockets \ {s} : session'[t] = session[t]
    BY <1>1, <1>3
  <1>7. UNCHANGED <<frame, down, up>>  BY DEF CloseSession, netVars
  <1>8. FewerUp  BY <1>1, <1>7, FewerUpIs
  <1>9. Answers(s, session[s], session'[s])  BY <1>5, <1>6
  <1>. QED  BY <1>2, <1>6, <1>7, <1>8, <1>9, FewTurns

LEMMA FailureTurn ==
  ASSUME LifeInv, UNCHANGED scenario, NEW s \in Sockets, LinkFails(s)
  PROVE  ServerTurn
  <1>1. TypeInv  BY DEF LifeInv
  <1>2. ServerMove  BY FailureMoves
  <1>3. UNCHANGED <<frame, down, up, session>>  BY DEF LinkFails, lifecycleVars
  <1>4. FewerUp  BY <1>1, <1>3, FewerUpIs
  <1>. QED  BY <1>2, <1>3, <1>4, FewTurns

LEMMA TearDownTurn ==
  ASSUME LifeInv, ServerMove, NEW ending, NEW how \in Hows \ {"receipt"}, TearDown(ending, how),
         ending \subseteq Sockets, \A s \in ending : Live(session[s]), UNCHANGED <<frame, down>>
  PROVE  ServerTurn
  <1>1. TypeInv  BY DEF LifeInv
  <1>2. \A s \in ending : session'[s] = Ended(session[s], how)  BY DEF TearDown
  <1>3. \A s \in Sockets \ ending : session'[s] = session[s]  BY DEF TearDown
  <1>4. \A s \in ending : Finishes(session[s], session'[s])
    BY <1>1, <1>2, SessionsProper, EndedFinishes
  <1>5. FewerUp  BY <1>1, FewerUpIs DEF TearDown
  <1>. QED  BY <1>3, <1>4, <1>5, FewTurns

LEMMA EndTurn ==
  ASSUME LifeInv, UNCHANGED scenario, NEW s \in Sockets, AppDestroys(s) \/ ServerSeesDown(s)
  PROVE  ServerTurn
  <1>1. ServerMove  BY EndMoves
  <1>2. PICK how \in {"application", "transport"} :
          TearDown({s}, how) /\ Live(session[s]) /\ UNCHANGED <<frame, down>>
    BY DEF AppDestroys, ServerSeesDown
  <1>3. how \in Hows \ {"receipt"}  BY DEF Hows
  <1>. QED  BY <1>1, <1>2, <1>3, TearDownTurn

LEMMA ShutdownTurn ==
  ASSUME LifeInv, UNCHANGED scenario, NEW w \in Worlds,
         Shutdown(w) \/ ShutdownResolves(w) \/ ShutdownDeadline(w)
  PROVE  ServerTurn
  <1>1. TypeInv /\ session \in [Sockets -> Sessions]  BY DEF LifeInv, TypeInv, TypeOK
  <1>2. ServerMove  BY ShutdownMoves
  <1>3. CASE Shutdown(w)
    <2>1. /\ session' = [s \in Sockets |-> IF s \in LiveIn(w) THEN Closing(session[s], "shutting down")
                                           ELSE session[s]]
          /\ UNCHANGED <<frame, down, up>>
      BY <1>3 DEF Shutdown, netVars
    <2>2. "shutting down" \in Notices \cup {NoNotice}  BY DEF Notices
    <2>3. \A s \in LiveIn(w) : s \in Sockets /\ Live(session[s])  BY DEF LiveIn
    <2>4. \A s \in LiveIn(w) : session'[s] = Closing(session[s], "shutting down")  BY <2>1, <2>3
    <2>8. \E event \in Closures : May(event)  BY <1>3 DEF Shutdown, Closures
    <2>5. \A s \in LiveIn(w) : Answers(s, session[s], session'[s])
      BY <1>1, <2>2, <2>3, <2>4, <2>8, ClosingAnswers
    <2>6. \A s \in Sockets \ LiveIn(w) : session'[s] = session[s]  BY <2>1
    <2>7. FewerUp  BY <1>1, <2>1, FewerUpIs
    <2>. QED  BY <1>2, <2>1, <2>5, <2>6, <2>7, FewTurns
  <1>4. CASE ShutdownResolves(w)
    <2>1. UNCHANGED <<frame, down, up, session>>  BY <1>4 DEF ShutdownResolves, netVars
    <2>2. FewerUp  BY <1>1, <2>1, FewerUpIs
    <2>. QED  BY <1>2, <2>1, <2>2, FewTurns
  <1>5. CASE ShutdownDeadline(w)
    <2>1. TearDown(LiveIn(w), "deadline") /\ UNCHANGED <<frame, down>>  BY <1>5 DEF ShutdownDeadline
    <2>2. "deadline" \in Hows \ {"receipt"}  BY DEF Hows
    <2>3. LiveIn(w) \subseteq Sockets /\ \A s \in LiveIn(w) : Live(session[s])  BY DEF LiveIn
    <2>. QED  BY <1>2, <2>1, <2>2, <2>3, TearDownTurn
  <1>. QED  BY <1>3, <1>4, <1>5

LEMMA AfterTurns ==
  ASSUME LifeInv, NEW s \in Sockets, Live(session[s]), NEW to \in Nat, NEW lost, NEW late
  PROVE  LET r == session[s]  q == After(to, lost, late, s) IN
         Finishes(r, q) \/ Flushes(r, q) \/ Repeats(r, q) \/ Advances(r, q, to)
  <1>. DEFINE r == session[s]
              q == After(to, lost, late, s)
  <1>1. TypeInv  BY DEF LifeInv
  <1>2. Proper(r) /\ r \in Sessions /\ r.closes = 0 /\ (Flushing(r) => r.flush.to # None)
        /\ Overdue(late, s) \in BOOLEAN
    BY <1>1, SessionsProper DEF Proper, Overdue
  <1>3. CASE r.status = "closing"
    <2>1. q = Linger(r, Overdue(late, s))  BY <1>3 DEF After
    <2>. HIDE DEF q
    <2>2. \/ \E how \in Hows \ {"none"} :
               /\ q = Ended(r, how)
               /\ how = "receipt" => Flushing(r) /\ r.ack >= r.flush.to
          \/ ~Flushing(r) /\ q = Flushed(r)
          \/ Flushing(r) /\ ~(r.ack >= r.flush.to) /\ q = Again(r, r.flush.reply \/ r.outbox)
      BY <1>2, <1>3, <2>1, LingerIs
    <2>3. ASSUME NEW how \in Hows \ {"none"}, q = Ended(r, how),
                 how = "receipt" => Flushing(r) /\ r.ack >= r.flush.to
          PROVE  Finishes(r, q)
      <3>1. /\ q.status = "ended" /\ q.world = r.world /\ q.how = how /\ q.owed = r.owed /\ q.ack = 0
            /\ q.handler = "idle" /\ q.outbox = FALSE /\ ~Flushing(q)
        BY <1>2, <2>3, EndedIs
      <3>. QED  BY <2>3, <3>1 DEF Finishes
    <2>4. CASE ~Flushing(r) /\ q = Flushed(r)
      <3>1. /\ q.status = r.status /\ SameRest(r, q) /\ q.ack = r.ack /\ q.last = r.last + 1
            /\ q.handler = r.handler /\ q.outbox = FALSE
            /\ Flushing(q) /\ q.flush.to = r.last + 1 /\ q.flush.from > 0
            /\ q.flush.reply = r.outbox /\ q.owed = r.outbox
        BY <1>2, <2>4, FlushedIs
      <3>2. Flushes(r, q)  BY <1>3, <2>4, <3>1 DEF Flushes
      <3>. QED  BY <3>2 DEF q
    <2>5. CASE Flushing(r) /\ q = Again(r, r.flush.reply \/ r.outbox)
      <3>1. (r.flush.reply \/ r.outbox) \in BOOLEAN /\ r.flush.reply \in BOOLEAN /\ r.outbox \in BOOLEAN
        BY <1>2, FlushTypes DEF Sessions
      <3>2. /\ q.status = r.status /\ SameRest(r, q) /\ SameAcks(r, q)
            /\ q.handler = r.handler /\ q.outbox = FALSE /\ q.owed = r.owed
            /\ Flushing(q) /\ q.flush.to = r.flush.to /\ q.flush.from = r.flush.from
            /\ q.flush.reply = (r.flush.reply \/ r.outbox)
        BY <1>2, <2>5, <3>1, AgainIs
      <3>3. Repeats(r, q)  BY <1>3, <2>5, <3>2 DEF Repeats
      <3>. QED  BY <3>3 DEF q
    <2>. QED  BY <2>2, <2>3, <2>4, <2>5 DEF q
  <1>4. CASE r.status = "open"
    <2>1. q = Replicate(r, to, Overdue(lost, s), Overdue(late, s))  BY <1>4 DEF After
    <2>. HIDE DEF q
    <2>2. CASE Overdue(late, s)
      <3>1. q = Ended(r, "grace") /\ "grace" \in Hows \ {"receipt"}
        BY <1>2, <2>1, <2>2, ReplicateIs DEF Hows
      <3>2. Finishes(r, q)  BY <1>2, <3>1, EndedFinishes
      <3>. QED  BY <3>2 DEF q
    <2>3. CASE ~Overdue(late, s)
      <3>. DEFINE resync == Resync(r, to, Overdue(lost, s))
      <3>1. q = Replicated(r, to, resync)  BY <1>2, <2>1, <2>3, ReplicateIs
      <3>2. resync \in Nat \cup {None}  BY <1>2 DEF Sessions, Resync
      <3>3. \/ resync = r.resync /\ ~(r.needs /\ r.resync = None)
            \/ resync = to /\ r.needs
        BY DEF Resync, Starts
      <3>. HIDE DEF resync
      <3>4. r \in Sessions /\ q = Replicated(r, to, resync)  BY <1>2, <3>1
      <3>. HIDE DEF r
      <3>5. LET p == Replicated(r, to, resync) IN
            /\ p \in Sessions /\ p.status = r.status /\ SameRest(r, p) /\ SameFlush(r, p)
            /\ p.ack = r.ack /\ p.last = to /\ p.needs = r.needs /\ p.resync = resync
            /\ p.handler = r.handler /\ p.outbox = FALSE
        BY <3>2, <3>4, ReplicatedIs
      <3>6. /\ q.status = r.status /\ SameRest(r, q) /\ SameFlush(r, q)
            /\ q.ack = r.ack /\ q.last = to /\ q.needs = r.needs /\ q.resync = resync
            /\ q.handler = r.handler /\ q.outbox = FALSE
        BY <3>4, <3>5
      <3>7. Advances(r, q, to)  BY <1>4, <3>3, <3>6 DEF Advances
      <3>. QED  BY <3>7 DEF q, r
    <2>. QED  BY <2>2, <2>3
  <1>. QED  BY <1>3, <1>4 DEF Live

\* How a session's frame relates to it.
LEMMA StateSentIs ==
  ASSUME NEW s \in Sockets, NEW r \in Sessions, NEW to \in Nat, NEW lost, NEW late,
         NEW m \in StateSent(s, r, to, lost, late)
  PROVE  /\ ~Overdue(late, s) /\ m.to = to /\ m.socket = s /\ ~m.final
         /\ \/ m.from = None
            \/ m.from = 0 /\ Starts(r, Overdue(lost, s))
            \/ m.from = r.ack /\ ~r.needs
  <1>. DEFINE sent(from) == [socket |-> s, from |-> from, to |-> to,
                             reply |-> r.outbox, close |-> NoNotice, final |-> FALSE]
  <1>1. ~Overdue(late, s)  BY DEF StateSent, StateFrames
  <1>2. \/ m = sent(None)
        \/ m = sent(0) /\ Starts(r, Overdue(lost, s))
        \/ m = sent(r.ack) /\ ~r.needs
    BY DEF StateSent, StateFrames
  <1>. QED  BY <1>1, <1>2

LEMMA SentIssued ==
  ASSUME LifeInv, NEW s \in Sockets, Live(session[s]), NEW to \in Nat, NEW lost, NEW late,
         session[s].status = "open" => session[s].last <= to,
         session'[s] = After(to, lost, late, s), session'[s].world = session[s].world,
         frame'[session[s].world] = to,
         NEW m \in Sent(to, lost, late, s)
  PROVE  Issued(m)
  <1>. DEFINE r == session[s]
              q == After(to, lost, late, s)
  <1>1. TypeInv  BY DEF LifeInv
  <1>2. Proper(r) /\ r \in Sessions  BY <1>1, SessionsProper
  <1>3. Finishes(r, q) \/ Flushes(r, q) \/ Repeats(r, q) \/ Advances(r, q, to)
    BY AfterTurns
  <1>4. CASE r.status = "closing"
    <2>1. m \in CloseFrames(s, q)  BY <1>4 DEF Sent
    <2>2. Serves(r, q)  BY AfterServes
    <2>. HIDE DEF q
    <2>3. q.status = "closing"  BY <2>1 DEF CloseFrames
    <2>4. Flushing(q)  BY <1>3, <1>4, <2>3 DEF Finishes, Flushes, Repeats, Advances
    <2>5. q \in Sessions /\ q.flush.to # None  BY <2>2, <2>4 DEF Serves
    <2>6. /\ m.socket = s /\ m.final = TRUE
          /\ m.from = q.flush.from /\ m.to = q.flush.to /\ m.reply = q.flush.reply
      BY <2>1, <2>5, CloseFramesAre
    <2>7. session'[m.socket] = q  BY <2>6 DEF q
    <2>. QED  BY <2>3, <2>4, <2>6, <2>7 DEF Issued
  <1>5. CASE r.status = "open"
    <2>1. m \in StateSent(s, r, to, lost, late)  BY <1>5 DEF Sent
    <2>2. /\ ~Overdue(late, s) /\ m.to = to /\ m.socket = s /\ ~m.final
          /\ \/ m.from = None
             \/ m.from = 0 /\ Starts(r, Overdue(lost, s))
             \/ m.from = r.ack /\ ~r.needs
      <3>. HIDE DEF r
      <3>1. \A l, k : \A n \in StateSent(s, r, to, l, k) :
              /\ ~Overdue(k, s) /\ n.to = to /\ n.socket = s /\ ~n.final
              /\ \/ n.from = None
                 \/ n.from = 0 /\ Starts(r, Overdue(l, s))
                 \/ n.from = r.ack /\ ~r.needs
        BY <1>2, StateSentIs
      <3>. QED  BY <2>1, <3>1
    <2>3. q = Replicate(r, to, Overdue(lost, s), FALSE)  BY <1>5, <2>2 DEF After, Replicate
    <2>. DEFINE resync == Resync(r, to, Overdue(lost, s))
    <2>4. q = Replicated(r, to, resync)  BY ZenonT(40), <1>2, <2>3, ReplicateIs
    <2>5. resync \in Nat \cup {None}  BY <1>2 DEF Sessions, Resync
    <2>6. Starts(r, Overdue(lost, s)) => resync = to /\ r.needs  BY DEF Resync, Starts
    <2>. HIDE DEF resync, q
    <2>7. q.status = r.status /\ q.needs = r.needs /\ q.resync = resync
      BY ZenonT(40), <1>2, <2>4, <2>5, ReplicatedIs
    <2>8. session'[m.socket] = q /\ session[m.socket] = r  BY <2>2 DEF q
    <2>9. m.to = frame'[q.world]  BY <2>2, <2>8
    <2>. HIDE DEF r
    <2>. QED  BY <1>5, <2>2, <2>6, <2>7, <2>8, <2>9 DEF Issued
  <1>. QED  BY <1>4, <1>5 DEF Live

LEMMA TickTurn ==
  ASSUME LifeInv, UNCHANGED scenario, NEW w \in Worlds, Tick(w)
  PROVE  ServerTurn
  <1>. DEFINE to == NextFrame(w)
  <1>1. TypeInv /\ SocketInv /\ frame \in [Worlds -> Nat]  BY DEF LifeInv, TypeInv
  <1>2. ServerMove  BY TickMoves
  <1>3. PICK lost, late : TickTo(w, NextFrame(w), lost, late)  BY TickIs
  <1>4. /\ frame' = [frame EXCEPT ![w] = to]
        /\ session' = [s \in Sockets |-> IF s \in LiveIn(w) THEN After(to, lost, late, s) ELSE session[s]]
        /\ up' = Matter(up)
        /\ down' = Heard(down \cup UNION {Sent(to, lost, late, s) : s \in LiveIn(w)})
    BY <1>3 DEF TickTo
  <1>5. to \in Nat /\ frame[w] <= to
    <2>1. frame[w] \in Nat /\ Bound(w) \in Nat  BY <1>1, Constants
    <2>. QED  BY <2>1 DEF NextFrame
  <1>6. frame'[w] = to /\ \A x \in Worlds \ {w} : frame'[x] = frame[x]  BY <1>1, <1>4
  <1>7. to = NextFrame(w)  OBVIOUS
  <1>. HIDE DEF to
  <1>8. \A s \in LiveIn(w) : s \in Sockets /\ Live(session[s]) /\ session[s].world = w  BY DEF LiveIn
  <1>9. \A s \in LiveIn(w) : session'[s] = After(to, lost, late, s)  BY <1>4, <1>8
  <1>10. \A s \in Sockets \ LiveIn(w) : session'[s] = session[s]  BY <1>4
  <1>11. ASSUME NEW s \in Sockets  PROVE Turn(s)
    <2>1. CASE s \in LiveIn(w)
      <3>1. /\ \/ Finishes(session[s], session'[s]) \/ Flushes(session[s], session'[s])
               \/ Repeats(session[s], session'[s]) \/ Advances(session[s], session'[s], to)
        BY <1>5, <1>8, <1>9, <2>1, AfterTurns
      <3>2. frame'[session[s].world] = to /\ NextFrame(session[s].world) = to
        BY <1>6, <1>7, <1>8, <2>1
      <3>. QED  BY <3>1, <3>2 DEF Turn
    <2>2. CASE s \notin LiveIn(w)
      <3>1. session'[s] = session[s]  BY <1>10, <2>2
      <3>2. Live(session[s]) => session[s].world # w /\ session[s].world \in Worlds
        BY <1>1, <2>2 DEF SocketInv, LiveIn, Live
      <3>3. Live(session[s]) => frame'[session[s].world] = frame[session[s].world]
        BY <1>6, <3>2
      <3>. QED  BY <3>1, <3>3 DEF Turn
    <2>. QED  BY <2>1, <2>2
  <1>12. ASSUME NEW m \in down' \ down  PROVE Issued(m)
    <2>1. m \in down \cup UNION {Sent(to, lost, late, s) : s \in LiveIn(w)}  BY <1>4, HeardIs
    <2>2. PICK s \in LiveIn(w) : m \in Sent(to, lost, late, s)  BY <1>12, <2>1
    <2>3. s \in Sockets /\ Live(session[s]) /\ session[s].world = w  BY <1>8
    <2>4. session[s].status = "open" => session[s].last <= to
      <3>1. session[s].status = "open" => session[s].last <= frame[w] /\ session[s].last \in Nat
        BY <1>1, <2>3 DEF TypeInv, TypeOK, Sessions
      <3>2. frame[w] \in Nat  BY <1>1
      <3>. QED  BY <1>5, <3>1, <3>2
    <2>5. session'[s] = After(to, lost, late, s)  BY <1>9
    <2>6. session'[s].world = session[s].world  BY <1>2, <2>3 DEF ServerMove, Serves
    <2>7. frame'[session[s].world] = to  BY <1>6, <2>3
    <2>. QED  BY <1>5, <2>2, <2>3, <2>4, <2>5, <2>6, <2>7, SentIssued
  <1>13. FewerUp  BY <1>1, <1>4, FewerUpIs
  <1>. QED  BY <1>2, <1>11, <1>12, <1>13 DEF ServerTurn, FewerUp

-----------------------------------------------------------------------------
(* A new session.                                                           *)

(***************************************************************************)
(* What the theorems below ask of the worlds: a client that may change     *)
(* worlds takes the version of the one it left along, and acks it to the   *)
(* next, which knows a frame by its number alone.  So the numbers of two   *)
(* such worlds must not meet; of a client that stays, nothing is asked.    *)
(***************************************************************************)
Apart ==
  \A sc \in Scenarios : "switch" \in sc.may =>
    \A w, x \in Worlds : w # x =>
      \/ StartFrame[w] + sc.ticks + 1 < StartFrame[x]
      \/ StartFrame[x] + sc.ticks + 1 < StartFrame[w]

\* A number of another world is older than all that a world counts, or newer.
LEMMA WorldsApart ==
  ASSUME TypeInv, Apart, May("switch"), NEW w \in Worlds, NEW x \in Worlds, w # x,
         NEW n \in Nat, Numbered(x, n)
  PROVE  n < StartFrame[w] \/ n > Past(w)
  <1>1. scenario \in Scenarios /\ "switch" \in scenario.may  BY DEF TypeInv, May
  <1>2. \/ StartFrame[w] + scenario.ticks + 1 < StartFrame[x]
        \/ StartFrame[x] + scenario.ticks + 1 < StartFrame[w]
    BY <1>1 DEF Apart
  <1>3. /\ StartFrame[w] \in Nat /\ StartFrame[x] \in Nat /\ scenario.ticks \in Nat
        /\ Newest(x) \in Nat /\ Newest(x) <= Past(x)
    BY Constants, Numbers
  <1>4. /\ Past(w) = StartFrame[w] + scenario.ticks + 1
        /\ Past(x) = StartFrame[x] + scenario.ticks + 1
        /\ StartFrame[x] <= n /\ n <= Newest(x)
    BY DEF Past, Bound, Numbered
  <1>. QED  BY <1>2, <1>3, <1>4

LEMMA OpensTurn ==
  ASSUME LifeInv, LifeInv', DeliveryInv, Apart, NEW s \in Sockets, TransportOpens(s), UNCHANGED scenario
  PROVE  DeliveryInv'
  <1>. DEFINE w == session[s].world
              q == Accepted(w)
  <1>0. /\ TypeInv /\ SocketInv /\ NoticeInv
        /\ NumberInv /\ FrameInv /\ SaidInv /\ UpInv /\ CallInv /\ ReceiptInv /\ VersionInv
    BY DEF LifeInv, DeliveryInv
  <1>1. /\ link[s] = "opening" /\ session' = [session EXCEPT ![s] = q] /\ frame[w] < Bound(w)
        /\ frame' = frame /\ client' = client
        /\ down' = down /\ up' = up /\ receipts' = receipts /\ scenario' = scenario
    BY DEF TransportOpens
  <1>2. session[s].status = "none" /\ w \in Worlds /\ (~May("switch") => w = FirstWorld)
    BY <1>0, <1>1 DEF SocketInv
  <1>3. /\ q.world = w /\ q.ack = q.last /\ ~Flushing(q)
        /\ q.how = "none" /\ ~q.owed /\ q.handler = "idle" /\ ~q.outbox
        /\ shutdown[w] # "no" => q.status = "ended"
        /\ shutdown[w] = "no" => q.status = "open" /\ q.ack = frame[w]
    BY <1>0, <1>2, AcceptedIs
  <1>. HIDE DEF q
  <1>4. session'[s] = q /\ \A t \in Sockets \ {s} : session'[t] = session[t]
    BY <1>0, <1>1 DEF TypeInv, TypeOK
  <1>5. \A x, n : Numbered(x, n)' = Numbered(x, n) /\ Past(x)' = Past(x)
    BY <1>1 DEF Numbered, Newest, Past, Bound
  <1>6. \A m \in down : m.socket \in Sockets \ {s}
    BY <1>0, <1>2 DEF TypeInv, TypeOK, Frames, NoticeInv
  <1>7. \A m \in up : m.socket \in Sockets \ {s}
    BY <1>0, <1>2 DEF TypeInv, TypeOK, Messages, UpInv
  <1>8. s \notin receipts  BY <1>0, <1>2 DEF ReceiptInv
  <1>9. Live(q) => q.status = "open" /\ q.last = frame[w] /\ q.ack = frame[w]
    BY <1>3 DEF Live
  <1>10. NumberInv'
    <2>1. SUFFICES ASSUME NEW t \in Sockets
          PROVE  /\ Flushing(session'[t]) =>
                      /\ session'[t].status = "closing" /\ session'[t].flush.to = session'[t].last
                      /\ 0 < session'[t].last /\ Numbered(session'[t].world, session'[t].last)
                      /\ session'[t].flush.from > 0 /\ (session'[t].owed => session'[t].flush.reply)
                 /\ Live(session'[t]) /\ ~Flushing(session'[t]) => session'[t].last = frame[session'[t].world]
      BY <1>1 DEF NumberInv, Numbered, Newest, Past, Bound
    <2>2. CASE t = s  BY <1>3, <1>4, <1>9, <2>2
    <2>3. CASE t # s  BY <1>0, <1>4, <2>3 DEF NumberInv
    <2>. QED  BY <2>2, <2>3
  <1>11. FrameInv'
    <2>1. \A m \in down : session'[m.socket] = session[m.socket]  BY <1>4, <1>6
    <2>. QED  BY <1>0, <1>1, <1>5, <2>1 DEF FrameInv
  <1>12. \A t \in Sockets \ {s} : \A n : Kept(t, n)' = Kept(t, n)
    BY <1>1, <1>4, <1>5 DEF Kept
  <1>13. Kept(s, AckOf(client))'
    <2>1. SUFFICES ASSUME Live(q)
                   PROVE  AckOf(client) > Past(w) \/ AckOf(client) <= q.last
      BY <1>1, <1>3, <1>4, <1>5 DEF Kept, Past, Bound
    <2>. HIDE DEF w
    <2>2. /\ q.last = frame[w] /\ frame[w] \in Nat /\ StartFrame[w] \in Nat
          /\ StartFrame[w] <= frame[w] /\ Past(w) \in Nat
      BY <1>0, <1>2, <1>9, <2>1, Numbers
    <2>3. CASE client.version = None
      BY <2>2, <2>3 DEF AckOf
    <2>4. CASE client.version # None
      <3>1. client.version \in Nat /\ AckOf(client) = client.version
        BY <1>0, <2>4 DEF TypeInv, TypeOK, Clients, AckOf
      <3>2. PICK x \in Worlds : Numbered(x, client.version) /\ (~May("switch") => x = FirstWorld)
        BY <1>0, <2>4 DEF VersionInv
      <3>3. CASE x = w
        <4>1. Newest(w) = frame[w]  BY <1>1, <1>2 DEF Newest, w
        <4>. QED  BY <2>2, <3>1, <3>2, <3>3, <4>1 DEF Numbered
      <3>4. CASE x # w
        <4>1. May("switch")  BY <1>2, <3>2, <3>4
        <4>2. client.version < StartFrame[w] \/ client.version > Past(w)
          BY <1>0, <1>2, <3>1, <3>2, <3>4, <4>1, WorldsApart
        <4>. QED  BY <2>2, <3>1, <4>2
      <3>. QED  BY <3>3, <3>4
    <2>. QED  BY <2>3, <2>4
  <1>14. SaidInv'
    <2>1. SUFFICES ASSUME NEW t \in Sockets, NEW n \in Nat, Said(t, n)'  PROVE Kept(t, n)'
      BY DEF SaidInv
    <2>2. CASE t # s
      <3>1. Said(t, n)  BY <1>1, <1>4, <2>1, <2>2 DEF Said, Gone
      <3>. QED  BY <1>0, <1>12, <2>2, <3>1 DEF SaidInv
    <2>3. CASE t = s
      <3>1. n = q.ack \/ n = AckOf(client)  BY <1>1, <1>4, <1>7, <2>1, <2>3 DEF Said
      <3>2. CASE n = q.ack
        <4>1. q.last = frame[w] /\ n = q.last => n <= q.last
          <5>. HIDE DEF w
          <5>1. frame[w] \in Nat  BY <1>0, <1>2, Numbers
          <5>. QED  BY <5>1
        <4>. QED  BY <1>3, <1>4, <1>9, <2>3, <3>2, <4>1 DEF Kept
      <3>3. CASE n = AckOf(client)
        BY <1>1, <1>13, <2>3, <3>3 DEF Kept
      <3>. QED  BY <3>1, <3>2, <3>3
    <2>. QED  BY <2>2, <2>3
  <1>15. UpInv'  BY <1>0, <1>1, <1>4, <1>7 DEF UpInv
  <1>16. CallInv'
    <2>1. SUFFICES ASSUME client.call = "none"
          PROVE  /\ \A t \in Sockets : /\ session'[t].handler = "idle" /\ ~session'[t].outbox
                                       /\ ~session'[t].owed
                 /\ \A m \in up : Live(session'[m.socket]) => ~m.request
      BY <1>1 DEF CallInv
    <2>. QED  BY <1>0, <1>3, <1>4, <1>7, <2>1 DEF CallInv
  <1>17. ReceiptInv'
    <2>1. receipts \subseteq Sockets  BY <1>0 DEF TypeInv, TypeOK
    <2>2. \A t \in Sockets : session'[t].how = "receipt" => t \in receipts
      BY <1>0, <1>3, <1>4 DEF ReceiptInv
    <2>. QED  BY <1>0, <1>1, <1>4, <1>8, <2>1, <2>2 DEF ReceiptInv
  <1>18. VersionInv'  BY <1>0, <1>1, <1>5 DEF VersionInv, May
  <1>. QED  BY <1>10, <1>11, <1>14, <1>15, <1>16, <1>17, <1>18 DEF DeliveryInv

-----------------------------------------------------------------------------

LEMMA DeliveryInit ==
  Init => DeliveryInv
  <1>. SUFFICES ASSUME Init PROVE DeliveryInv  OBVIOUS
  <1>1. LifeInv  BY LifeInit
  <1>2. /\ session = [s \in Sockets |-> NoSession] /\ down = {} /\ up = {} /\ receipts = {}
    BY Zenon DEF Init, LifecycleInit
  <1>3. client.version = None /\ client.socket = None /\ client.connecting = None
    BY DEF Init, ClientInit, NewClient
  <1>. DEFINE n == NoSession
  <1>4. /\ ~Flushing(n) /\ ~Live(n) /\ n.ack = 0 /\ n.last = 0 /\ n.handler = "idle" /\ ~n.outbox
        /\ ~n.owed /\ n.how = "none"
    BY NoSessionIs DEF Live
  <1>. HIDE DEF n
  <1>5. \A s \in Sockets : session[s] = n  BY <1>2 DEF n
  <1>6. NumberInv  BY <1>4, <1>5 DEF NumberInv
  <1>7. FrameInv /\ UpInv  BY <1>2 DEF FrameInv, UpInv
  <1>8. SaidInv  BY <1>4, <1>5 DEF SaidInv, Kept
  <1>9. CallInv  BY <1>2, <1>4, <1>5 DEF CallInv
  <1>10. ReceiptInv  BY <1>2, <1>4, <1>5 DEF ReceiptInv
  <1>11. VersionInv  BY <1>3 DEF VersionInv
  <1>. QED  BY <1>6, <1>7, <1>8, <1>9, <1>10, <1>11 DEF DeliveryInv

LEMMA ServerStepsTurn ==
  ASSUME LifeInv, DeliveryInv, ServerSteps, UNCHANGED scenario
  PROVE  ServerTurn \/ \E s \in Sockets : TransportOpens(s)
  <1>0. UpInv  BY DEF DeliveryInv
  <1>1. CASE \E s \in Sockets : GarbageArrives(s)  BY <1>0, <1>1, ReceiptTurn
  <1>2. CASE \E s \in Sockets : HandlerSettles(s)  BY <1>2, HandlerTurn
  <1>3. CASE \E s \in Sockets : CloseSession(s)  BY <1>3, CloseTurn
  <1>4. CASE \E s \in Sockets : AppDestroys(s) \/ ServerSeesDown(s)  BY <1>4, EndTurn
  <1>5. CASE \E s \in Sockets : LinkFails(s)  BY <1>5, FailureTurn
  <1>6. CASE \E w \in Worlds : Tick(w)  BY <1>6, TickTurn
  <1>7. CASE \E w \in Worlds : Shutdown(w) \/ ShutdownResolves(w) \/ ShutdownDeadline(w)
    BY <1>7, ShutdownTurn
  <1>8. CASE \E m \in up : ServerReceives(m)  BY <1>0, <1>8, ReceiptTurn
  <1>. QED  BY <1>1, <1>2, <1>3, <1>4, <1>5, <1>6, <1>7, <1>8 DEF ServerSteps

LEMMA DeliveryNext ==
  ASSUME Apart, LifeInv, LifeInv', DeliveryInv, [Next]_vars
  PROVE  DeliveryInv'
  <1>1. CASE UNCHANGED vars
    <2>1. /\ frame' = frame /\ session' = session /\ client' = client
          /\ down' = down /\ up' = up /\ receipts' = receipts /\ scenario' = scenario
      BY <1>1 DEF vars, runVars, lifecycleVars, netVars
    <2>. QED
      BY <2>1 DEF DeliveryInv, NumberInv, FrameInv, SaidInv, UpInv, CallInv, ReceiptInv, VersionInv,
                  Said, Kept, Gone, Numbered, Newest, Past, Bound, May
  <1>2. ASSUME ClientSteps, UNCHANGED scenario  PROVE ClientTurn
    <2>1. CASE \E w \in Worlds : BeginConnect(w)  BY <1>2, <2>1, BeginTurn, QuietTurns
    <2>2. CASE FinishConnect /\ ~client.disposed  BY <1>2, <2>2, FinishTurn, QuietTurns
    <2>3. CASE AbortConnect \/ (FinishConnect /\ client.disposed)
      BY <1>2, <2>3, AbortTurn, QuietTurns
    <2>4. CASE Leave  BY <1>2, <2>4, LeaveTurn, QuietTurns
    <2>5. CASE Invoke \/ BeginCall \/ CallEnds  BY <1>2, <2>5, CallTurn, QuietTurns
    <2>6. CASE PayloadFails \/ AckTimer \/ ClientSeesDown  BY <1>2, <2>6, LossTurn, QuietTurns
    <2>7. CASE \E m \in down : ClientReceives(m)  BY <1>2, <2>7, ReceiveTurn
    <2>. QED  BY <1>2, <2>1, <2>2, <2>3, <2>4, <2>5, <2>6, <2>7 DEF ClientSteps
  <1>3. CASE ClientSteps /\ UNCHANGED scenario  BY <1>2, <1>3, ClientTurns
  <1>4. CASE ServerSteps /\ UNCHANGED scenario  BY <1>4, ServerStepsTurn, ServerTurns, OpensTurn
  <1>. QED  BY <1>1, <1>3, <1>4 DEF Next

LEMMA DeliveryInvariant ==
  ASSUME Apart
  PROVE  Spec => [](LifeInv /\ DeliveryInv)
  <1>1. Init => LifeInv /\ DeliveryInv  BY LifeInit, DeliveryInit
  <1>2. LifeInv /\ DeliveryInv /\ [Next]_vars => (LifeInv /\ DeliveryInv)'
    BY LifeNext, DeliveryNext
  <1>. QED  BY <1>1, <1>2, PTL DEF Spec

(***************************************************************************)
(* Whatever the events, when the worlds' numbers are apart: a session that *)
(* ends by a receipt had its receipt frame handled by the client, and with *)
(* it the reply it owed; an ack of an earlier frame, or of an earlier      *)
(* connection, never ends the linger (ServerWorld._lingerOrClose,          *)
(* _receive, ClientWorld._receive).                                        *)
(***************************************************************************)
THEOREM ReceiptsAreTrue ==
  ASSUME Apart
  PROVE  Spec => []ReceiptMeansDelivered
  <1>1. DeliveryInv => ReceiptMeansDelivered
    BY DEF DeliveryInv, ReceiptInv, ReceiptMeansDelivered
  <1>. QED  BY <1>1, DeliveryInvariant, PTL

-----------------------------------------------------------------------------
(* Each connection is rebuilt from a baseline of its own.                   *)

\* A baseline is under way to whoever has none, from the first send on.
ResyncInv ==
  \A s \in Sockets : LET r == session[s] IN
    r.status = "open" =>
      /\ r.resync = None => (r.needs => r.last < Bound(r.world))
      /\ r.resync # None => r.needs /\ r.ack < r.resync /\ r.resync <= r.last
      /\ ~r.needs => r.ack > 0

\* The state the client holds must be replaced, unless it is of its connection.
StateInv ==
  /\ client.base # None => client.applied /\ link[client.base] \notin {"none", "opening"}
  /\ client.connecting # None => client.connecting # client.base
  /\ client.applied /\ ~client.disposed /\ ~(Connected(client) /\ client.base = client.socket) =>
       client.force
  /\ Connected(client) /\ client.base = client.socket => ~client.force

\* Deltas go to a client that has acked a baseline of the connection, and start
\* from what it has.
OpenInv ==
  \A s \in Sockets :
    session[s].status = "open" /\ ~session[s].needs => Gone(s) \/ client.base = s

DeltaInv ==
  \A m \in down : ~m.final /\ m.from > 0 =>
    Gone(m.socket) \/ (client.base = m.socket /\ client.version >= m.from)

\* Until its first baseline a connection hears nothing but old acks, which its
\* baselines are past; from then on no ack is past what the client has.
PaceInv ==
  \A s \in Sockets : LET r == session[s] IN
    r.status = "open" /\ ~Gone(s) =>
      /\ client.base = s =>
           /\ r.ack <= client.version
           /\ \A n \in Nat : Said(s, n) => n <= client.version \/ n > Past(r.world)
      /\ client.base # s =>
           /\ \A n \in Nat : Said(s, n) => n <= r.ack \/ n > Past(r.world)
           /\ \A m \in down : m.socket = s /\ m.from = 0 => m.to > r.ack

\* A client that changes worlds has only ever lost its connections.
SwitchInv ==
  May("switch") =>
    /\ \A s \in Sockets : session[s].status # "closing"
    /\ \A m \in down : ~m.final
    /\ client.version # None => client.applied

RebuiltInv ==
  /\ ResyncInv /\ StateInv /\ OpenInv /\ DeltaInv /\ PaceInv /\ SwitchInv
  /\ EachConnectionRebuilt

(***************************************************************************)
(* What the theorem below asks of the worlds besides Apart: no session of  *)
(* a client that changes worlds is closed by its server.  The receipt      *)
(* frame of such a close gives a version to a client that has had no       *)
(* baseline yet, and the next world's first baseline is compared with it.  *)
(***************************************************************************)
OnlyLost ==
  \A sc \in Scenarios : "switch" \in sc.may => sc.may \cap Closures = {}

-----------------------------------------------------------------------------
(* A step of the client that takes in no frame.                             *)

\* d is c, with the state it had or, once disposed, none; and that state must be
\* replaced unless it is of the connection.
Quiet(c, d) ==
  /\ d.applied = c.applied /\ d.mixed = c.mixed /\ d.skipped = c.skipped /\ d.rejects = c.rejects
  /\ \/ d.version = c.version /\ d.base = c.base
     \/ d.version = None /\ d.base = None /\ d.disposed
  /\ d.connecting \in {c.connecting, None} \/ link[d.connecting] = "none"
  /\ Connected(d) => (Connected(c) /\ d.socket = c.socket) \/ (d.socket = c.connecting)
  /\ c.disposed => d.disposed
  /\ c.force => d.force
  /\ Connected(c) /\ ~Connected(d) /\ c.applied /\ ~d.disposed => d.force
  /\ Connected(d) /\ d.force => c.force

LinkStays == \A s \in Sockets : link[s] \notin {"none", "opening"} => link'[s] \notin {"none", "opening"}

LEMMA QuietSaid ==
  ASSUME LifeInv, QuietTurn, NEW s \in Sockets, NEW n \in Nat, session[s].status = "open",
         Said(s, n)'
  PROVE  Said(s, n) \/ n = 0
  <1>0. TypeInv /\ None \notin Sockets  BY Constants DEF LifeInv
  <1>1. session'[s] = session[s]  BY DEF QuietTurn, Untouched
  <1>2. CASE n = session'[s].ack  BY <1>1, <1>2 DEF Said
  <1>3. CASE \E m \in up' : m.socket = s /\ m.ack = n
    <2>1. PICK m \in up' : m.socket = s /\ m.ack = n  BY <1>3
    <2>2. CASE m \in up  BY <2>1, <2>2 DEF Said
    <2>3. CASE m = Message(client) /\ Connected(client)
      <3>1. client \in Clients /\ client.socket \in Sockets
        BY <1>0, <2>3 DEF Connected, Attached, TypeInv, TypeOK, Clients
      <3>2. m.socket = client.socket /\ m.ack = AckOf(client)  BY <2>3, <3>1, MessageIs
      <3>3. ~Gone(s)  BY <2>1, <2>3, <3>2 DEF Gone
      <3>. QED  BY <2>1, <3>2, <3>3 DEF Said
    <2>4. Live(session[m.socket])  BY <2>1 DEF Live
    <2>. QED  BY <2>2, <2>3, <2>4 DEF QuietTurn
  <1>4. CASE ~Gone(s)' /\ n = AckOf(client')
    <2>1. ~Gone(s)  BY <1>4 DEF QuietTurn
    <2>2. AckOf(client') = AckOf(client) \/ AckOf(client') = 0  BY DEF QuietTurn, AckOf
    <2>. QED  BY <1>4, <2>1, <2>2 DEF Said
  <1>. QED  BY <1>2, <1>3, <1>4 DEF Said

LEMMA QuietKeeps ==
  ASSUME LifeInv, DeliveryInv, RebuiltInv, QuietTurn, Quiet(client, client'), LinkStays
  PROVE  RebuiltInv'
  <1>. DEFINE c == client
              d == client'
  <1>0. /\ TypeInv /\ LinkInv /\ None \notin Sockets
        /\ ResyncInv /\ StateInv /\ OpenInv /\ DeltaInv /\ PaceInv /\ SwitchInv
        /\ EachConnectionRebuilt
    BY Constants DEF LifeInv, RebuiltInv
  <1>1. /\ frame' = frame /\ scenario' = scenario /\ down' \subseteq down
        /\ \A s \in Sockets : /\ session[s].status # "none" => session'[s] = session[s]
                              /\ session'[s].status = session[s].status
                              /\ ~Gone(s)' => ~Gone(s) \/ session[s].status = "none"
    BY DEF QuietTurn, Untouched
  <1>2. \A w : Past(w)' = Past(w) /\ Bound(w)' = Bound(w)  BY <1>1 DEF Past, Bound
  <1>3. /\ c.base \in Sockets \cup {None} /\ c.version \in Nat \cup {None}
        /\ c.connecting \in Sockets \cup {None}
    BY <1>0 DEF TypeInv, TypeOK, Clients
  <1>4. d.connecting # None => d.connecting # c.base
    BY <1>0, <1>3 DEF Quiet, StateInv
  <1>5. StateInv'
    <2>1. d.base # None => d.applied /\ link'[d.base] \notin {"none", "opening"}
      BY <1>0, <1>3 DEF Quiet, StateInv, LinkStays
    <2>2. d.connecting # None => d.connecting # d.base
      BY <1>4 DEF Quiet
    <2>3. d.applied /\ ~d.disposed /\ ~(Connected(d) /\ d.base = d.socket) => d.force
      <3>1. SUFFICES ASSUME d.applied, ~d.disposed, ~(Connected(d) /\ d.base = d.socket)
                     PROVE  d.force
        OBVIOUS
      <3>2. c.applied /\ ~c.disposed /\ d.base = c.base  BY <3>1 DEF Quiet
      <3>3. CASE ~(Connected(c) /\ c.base = c.socket)  BY <1>0, <3>2, <3>3 DEF StateInv, Quiet
      <3>4. CASE Connected(c) /\ c.base = c.socket
        <4>1. ~Connected(d) \/ d.socket = c.socket \/ d.socket = c.connecting  BY DEF Quiet
        <4>2. Connected(d) => d.socket # None  BY DEF Connected, Attached
        <4>3. c.connecting = None  BY <1>0, <3>4 DEF LinkInv
        <4>. QED  BY <3>1, <3>2, <3>4, <4>1, <4>2, <4>3 DEF Quiet
      <3>. QED  BY <3>3, <3>4
    <2>4. Connected(d) /\ d.base = d.socket => ~d.force
      <3>1. SUFFICES ASSUME Connected(d), d.base = d.socket  PROVE ~d.force
        OBVIOUS
      <3>2. ~d.disposed /\ d.socket # None  BY <3>1 DEF Connected, Attached
      <3>3. d.base = c.base  BY <3>2 DEF Quiet
      <3>4. CASE Connected(c) /\ d.socket = c.socket
        BY <1>0, <3>1, <3>3, <3>4 DEF StateInv, Quiet
      <3>5. CASE d.socket = c.connecting
        BY <1>0, <3>1, <3>2, <3>3, <3>5 DEF StateInv
      <3>. QED  BY <3>1, <3>4, <3>5 DEF Quiet
    <2>. QED  BY <2>1, <2>2, <2>3, <2>4 DEF StateInv
  <1>6. ResyncInv'  BY <1>0, <1>1, <1>2 DEF ResyncInv
  \* Of a connection under way the state stays as it is.
  <1>7. ASSUME NEW s \in Sockets, session[s].status # "none", ~Gone(s)'
        PROVE  /\ ~Gone(s)
               /\ \/ d.version = c.version /\ d.base = c.base
                  \/ c.base # s /\ d.base # s /\ d.version = None
    <2>1. ~Gone(s)  BY <1>1, <1>7
    <2>2. CASE d.version = None /\ d.base = None /\ d.disposed
      <3>1. ~Connected(d)  BY <2>2 DEF Connected
      <3>2. d.connecting = s  BY <1>7, <3>1 DEF Gone
      <3>. QED  BY <1>0, <1>4, <2>1, <2>2, <3>2
    <2>. QED  BY <2>1, <2>2 DEF Quiet
  <1>8. OpenInv'
    <2>1. SUFFICES ASSUME NEW s \in Sockets, session'[s].status = "open", ~session'[s].needs, ~Gone(s)'
                   PROVE  d.base = s
      BY DEF OpenInv
    <2>2. session[s].status = "open" /\ ~session[s].needs  BY <1>1, <2>1
    <2>. QED  BY <1>0, <1>7, <2>1, <2>2 DEF OpenInv
  <1>9. DeltaInv'
    <2>1. SUFFICES ASSUME NEW m \in down', ~m.final, m.from > 0, ~Gone(m.socket)'
                   PROVE  d.base = m.socket /\ d.version >= m.from
      BY DEF DeltaInv
    <2>2. m \in down /\ m.socket \in Sockets  BY <1>0, <1>1 DEF TypeInv, TypeOK, Frames
    <2>3. session[m.socket].status # "none"  BY <2>2 DEF LifeInv, NoticeInv
    <2>. QED  BY <1>0, <1>7, <2>1, <2>2, <2>3 DEF DeltaInv
  <1>10. PaceInv'
    <2>1. SUFFICES ASSUME NEW s \in Sockets, session'[s].status = "open", ~Gone(s)'
          PROVE  /\ d.base = s =>
                      /\ session'[s].ack <= d.version
                      /\ \A n \in Nat : Said(s, n)' => n <= d.version \/ n > Past(session'[s].world)
                 /\ d.base # s =>
                      /\ \A n \in Nat : Said(s, n)' => n <= session'[s].ack \/ n > Past(session'[s].world)
                      /\ \A m \in down' : m.socket = s /\ m.from = 0 => m.to > session'[s].ack
      BY <1>2 DEF PaceInv, Past, Bound
    <2>2. session[s].status = "open" /\ session'[s] = session[s]  BY <1>1, <2>1
    <2>3. /\ ~Gone(s)
          /\ \/ d.version = c.version /\ d.base = c.base
             \/ c.base # s /\ d.base # s /\ d.version = None
      BY <1>7, <2>1, <2>2
    <2>4. session[s].ack \in Nat  BY <1>0, Numbers
    <2>5. \A n \in Nat : Said(s, n)' => Said(s, n) \/ n = 0  BY <2>2, QuietSaid
    <2>6. CASE d.base = s
      <3>1. c.base = s /\ d.version = c.version  BY <2>3, <2>6
      <3>2. /\ session[s].ack <= c.version
            /\ \A n \in Nat : Said(s, n) => n <= c.version \/ n > Past(session[s].world)
        BY <1>0, <2>2, <2>3, <3>1 DEF PaceInv
      <3>3. 0 <= c.version  BY <1>3, <2>4, <3>2 DEF None
      <3>. QED  BY <2>2, <2>5, <2>6, <3>1, <3>2, <3>3
    <2>7. CASE d.base # s
      <3>1. c.base # s  BY <2>3, <2>7
      <3>2. /\ \A n \in Nat : Said(s, n) => n <= session[s].ack \/ n > Past(session[s].world)
            /\ \A m \in down : m.socket = s /\ m.from = 0 => m.to > session[s].ack
        BY <1>0, <2>2, <2>3, <3>1 DEF PaceInv
      <3>3. 0 <= session[s].ack  BY <2>4
      <3>. QED  BY <1>1, <2>2, <2>5, <2>7, <3>2, <3>3
    <2>. QED  BY <2>6, <2>7
  <1>11. SwitchInv'
    <2>1. SUFFICES ASSUME May("switch")
          PROVE  /\ \A s \in Sockets : session'[s].status # "closing"
                 /\ \A m \in down' : ~m.final
                 /\ d.version # None => d.applied
      BY <1>1 DEF SwitchInv, May
    <2>. QED  BY <1>0, <1>1, <2>1 DEF SwitchInv, Quiet
  <1>12. EachConnectionRebuilt'
    BY <1>0 DEF EachConnectionRebuilt, StateOfOneConnection, FirstBaselineAdopted, Quiet
  <1>. QED  BY <1>5, <1>6, <1>8, <1>9, <1>10, <1>11, <1>12 DEF RebuiltInv

LEMMA EndsQuiet ==
  ASSUME NEW c, NEW d, NEW notice, Ends(c, d, notice), Keeps(c, d)
  PROVE  Quiet(c, d)
  <1>1. Connected(d) => Connected(c) /\ d.socket = c.socket
    BY DEF Ends, Connected, Attached
  <1>. QED  BY <1>1 DEF Quiet, Ends, Keeps, SameState

LEMMA MovesLink ==
  ASSUME LifeInv, Moves
  PROVE  LinkStays
  <1>1. PICK notice, S : ClientMove(notice, S)  BY DEF Moves
  <1>2. link' = Cut(S)  BY <1>1 DEF ClientMove
  <1>. QED  BY <1>2, CutIs DEF LinkStays

LEMMA BeginQuiet ==
  ASSUME LifeInv, NEW w \in Worlds, BeginConnect(w)
  PROVE  Quiet(client, client') /\ LinkStays
  <1>0. TypeInv  BY DEF LifeInv
  <1>1. PICK s \in Sockets :
          /\ client' = [client EXCEPT !.connecting = s] /\ link[s] = "none"
          /\ link' = [link EXCEPT ![s] = "opening"]
    BY DEF BeginConnect
  <1>2. client \in Clients /\ s \in Sockets \cup {None}
    BY <1>0 DEF TypeInv, TypeOK
  <1>3. /\ SameState(client, client') /\ client'.force = client.force
        /\ client'.socket = client.socket /\ client'.connecting = s
        /\ client'.disposed = client.disposed /\ client'.disconnected = client.disconnected
    BY <1>1, <1>2, ConnectingIs
  <1>4. Connected(client') = Connected(client)  BY <1>3 DEF Connected, Attached
  <1>5. Quiet(client, client')  BY <1>1, <1>3, <1>4 DEF Quiet, SameState
  <1>6. LinkStays
    <2>1. link \in [Sockets -> {"none", "opening", "up", "down"}]  BY <1>0 DEF TypeInv, TypeOK
    <2>2. \A t \in Sockets \ {s} : link'[t] = link[t]  BY <1>1, <2>1
    <2>. QED  BY <1>1, <2>2 DEF LinkStays
  <1>. QED  BY <1>5, <1>6

LEMMA FinishQuiet ==
  ASSUME LifeInv, FinishConnect, ~client.disposed
  PROVE  Quiet(client, client') /\ LinkStays
  <1>. DEFINE s == client.connecting
  <1>0. TypeInv /\ LinkInv  BY DEF LifeInv
  <1>1. s # None /\ client' = Attach(client, s) /\ link' = link
    BY DEF FinishConnect
  <1>2. client \in Clients /\ s \in Sockets
    BY <1>0, <1>1 DEF TypeInv, TypeOK, Clients
  <1>3. /\ SameState(client, client') /\ client'.force = client.force
        /\ client'.socket = s /\ client'.connecting = None /\ client'.disposed = client.disposed
    BY <1>1, <1>2, AttachIs
  <1>4. ~Connected(client)  BY <1>0, <1>1 DEF LinkInv
  <1>5. Quiet(client, client')  BY <1>3, <1>4 DEF Quiet, SameState
  <1>. QED  BY <1>1, <1>5 DEF LinkStays

LEMMA AbortQuiet ==
  ASSUME LifeInv, AbortConnect \/ (FinishConnect /\ client.disposed)
  PROVE  Quiet(client, client')
  <1>0. client \in Clients /\ None \in Sockets \cup {None}  BY DEF LifeInv, TypeInv, TypeOK
  <1>1. client' = [client EXCEPT !.connecting = None]  BY DEF AbortConnect, FinishConnect
  <1>2. /\ SameState(client, client') /\ client'.force = client.force
        /\ client'.socket = client.socket /\ client'.connecting = None
        /\ client'.disposed = client.disposed /\ client'.disconnected = client.disconnected
    BY <1>0, <1>1, ConnectingIs
  <1>3. Connected(client') = Connected(client)  BY <1>2 DEF Connected, Attached
  <1>. QED  BY <1>2, <1>3 DEF Quiet, SameState

LEMMA LeaveQuiet ==
  ASSUME LifeInv, Leave
  PROVE  Quiet(client, client')
  <1>0. client \in Clients  BY DEF LifeInv, TypeInv, TypeOK
  <1>1. CASE client' = Close(client)
    <2>1. Ends(client, client', client.notice) /\ Keeps(client, client')  BY <1>0, <1>1, CloseEnds
    <2>. QED  BY <2>1, EndsQuiet
  <1>2. CASE client' = Dispose(client)
    <2>1. /\ Ends(client, client', client.notice) /\ client'.disposed
          /\ client'.version = None /\ client'.base = None
          /\ client'.applied = client.applied /\ (client.force => client'.force)
          /\ client'.mixed = client.mixed /\ client'.skipped = client.skipped
          /\ client'.rejects = client.rejects
      BY <1>0, <1>2, DisposeEnds
    <2>2. ~Connected(client')  BY <2>1 DEF Connected
    <2>. QED  BY <2>1, <2>2 DEF Quiet, Ends
  <1>. QED  BY <1>1, <1>2 DEF Leave

LEMMA CallQuiet ==
  ASSUME LifeInv, Invoke \/ BeginCall \/ CallEnds
  PROVE  Quiet(client, client')
  <1>0. client \in Clients  BY DEF LifeInv, TypeInv, TypeOK
  <1>1. CASE Invoke
    <2>. DEFINE call == IF client.disposed \/ client.disconnected THEN "rejected" ELSE "waiting"
    <2>1. client' = [client EXCEPT !.call = call]  BY <1>1 DEF Invoke
    <2>2. call \in {"waiting", "rejected"} /\ (call = "waiting" => client.call = "none" /\ ~client.disposed /\ ~client.disconnected)
      BY <1>1 DEF Invoke
    <2>. HIDE DEF call
    <2>3. Ends(client, client', NoNotice) /\ Keeps(client, client')  BY <1>0, <2>1, <2>2, CalledIs
    <2>. QED  BY <2>3, EndsQuiet
  <1>2. CASE BeginCall
    <2>1. client' = [client EXCEPT !.inCall = TRUE]  BY <1>2 DEF BeginCall
    <2>2. Ends(client, client', NoNotice) /\ Keeps(client, client')  BY <1>0, <2>1, InCallIs
    <2>. QED  BY <2>2, EndsQuiet
  <1>3. CASE CallEnds
    <2>1. client' = EndCall(client)  BY <1>3 DEF CallEnds
    <2>2. \E notice : Ends(client, client', notice) /\ Keeps(client, client')
      BY <1>0, <2>1, EndCallEnds
    <2>. QED  BY <2>2, EndsQuiet
  <1>. QED  BY <1>1, <1>2, <1>3

LEMMA LossQuiet ==
  ASSUME LifeInv, PayloadFails \/ AckTimer \/ ClientSeesDown
  PROVE  Quiet(client, client')
  <1>0. client \in Clients  BY DEF LifeInv, TypeInv, TypeOK
  <1>1. CASE PayloadFails
    <2>1. client' = CloseForProtocolError(client)  BY <1>1 DEF PayloadFails
    <2>2. Ends(client, client', "unreadable") /\ Keeps(client, client')  BY <1>0, <2>1, FaultEnds
    <2>. QED  BY <2>2, EndsQuiet
  <1>2. CASE client' = client
    <2>1. Keeps(client, client')  BY <1>2 DEF Keeps, SameState
    <2>2. Ends(client, client', NoNotice)  BY <1>0, <1>2, SelfEnds
    <2>. QED  BY <2>1, <2>2, EndsQuiet
  <1>3. CASE client' = Disconnect(client) /\ Attached(client)
    <2>1. Ends(client, client', client.notice) /\ Keeps(client, client')  BY <1>0, <1>3, DisconnectEnds
    <2>. QED  BY <2>1, EndsQuiet
  <1>. QED  BY <1>1, <1>2, <1>3 DEF AckTimer, ClientSeesDown, Connected

-----------------------------------------------------------------------------
(* The client takes in a frame.                                             *)

\* Before its first baseline a connection has had nothing the client could take
\* for a number of its own.
LEMMA FirstBaseline ==
  ASSUME LifeInv, DeliveryInv, RebuiltInv, NEW m \in down, m.from = 0,
         Connected(client), client.socket = m.socket, client.base # m.socket,
         session[m.socket].status = "open"
  PROVE  ~Skips(client, m)
  <1>. DEFINE s == m.socket
              w == session[s].world
  <1>0. TypeInv /\ SocketInv /\ VersionInv /\ StateInv /\ PaceInv /\ SwitchInv
    BY DEF LifeInv, DeliveryInv, RebuiltInv
  <1>1. s \in Sockets /\ m.to \in Nat  BY <1>0, FrameTypes DEF TypeInv, TypeOK
  <1>2. w \in Worlds /\ (~May("switch") => w = FirstWorld)  BY <1>0, <1>1 DEF SocketInv
  <1>3. client.version \in Nat \cup {None}  BY <1>0 DEF TypeInv, TypeOK, Clients
  <1>4. SUFFICES ASSUME ~client.force, m.to <= client.version  PROVE FALSE
    BY DEF Skips
  <1>5. client.version # None /\ client.version \in Nat  BY <1>1, <1>3, <1>4 DEF None
  <1>6. ~client.applied  BY <1>0, <1>4 DEF StateInv, Connected
  <1>7. ~May("switch")  BY <1>0, <1>5, <1>6 DEF SwitchInv
  <1>8. Said(s, client.version) /\ ~Gone(s)  BY <1>5 DEF Said, AckOf, Gone
  <1>9. /\ client.version <= session[s].ack \/ client.version > Past(w)
        /\ m.to > session[s].ack
    BY <1>0, <1>1, <1>5, <1>8 DEF PaceInv
  <1>10. client.version <= Past(w) /\ Past(w) \in Nat
    <2>1. Numbered(w, client.version)  BY <1>0, <1>2, <1>5, <1>7 DEF VersionInv
    <2>2. client.version <= Newest(w)  BY <2>1 DEF Numbered
    <2>. HIDE DEF w
    <2>3. Newest(w) \in Nat /\ Newest(w) <= Past(w) /\ Past(w) \in Nat  BY <1>0, <1>2, Numbers
    <2>. QED  BY <1>5, <2>2, <2>3
  <1>11. session[s].ack \in Nat  BY <1>0, <1>1, Numbers
  <1>. HIDE DEF w, s
  <1>. QED  BY <1>1, <1>4, <1>5, <1>9, <1>10, <1>11

LEMMA ReceiveKeeps ==
  ASSUME LifeInv, DeliveryInv, RebuiltInv, NEW m \in down, ClientReceives(m), UNCHANGED scenario
  PROVE  RebuiltInv'
  <1>. DEFINE s == m.socket
              r == session[s]
              c == client
              d == client'
  <1>0. /\ TypeInv /\ SocketInv /\ LinkInv /\ NoticeInv
        /\ ResyncInv /\ StateInv /\ OpenInv /\ DeltaInv /\ PaceInv /\ SwitchInv
        /\ EachConnectionRebuilt
    BY DEF LifeInv, RebuiltInv
  <1>1. /\ d = Handled(c, m)
        /\ frame' = frame /\ session' = session /\ scenario' = scenario
    BY DEF ClientReceives, lifecycleVars
  <1>2. /\ c \in Clients /\ m \in Frames /\ None \notin Sockets
        /\ s \in Sockets /\ m.to \in Nat /\ m.from \in Int /\ m.final \in BOOLEAN
        /\ m.from = None \/ m.from = 0 \/ m.from > 0
        /\ m.from = None => ~(m.from > 0) /\ m.from # 0
        /\ m.from = 0 => ~(m.from > 0) /\ m.from # None
        /\ m.from > 0 => m.from # None /\ m.from # 0
    BY <1>0, Constants, FrameTypes DEF TypeInv, TypeOK
  <1>3. Connected(c) /\ c.socket = s /\ c.connecting = None
    BY <1>0, <1>2 DEF ClientReceives, Listens, Connected, Attached, LinkInv
  <1>4. /\ SameLink(c, d)
        /\ Rejects(c, m) =>
             /\ ~Connected(d) /\ d.version = c.version /\ d.base = c.base /\ d.applied = c.applied
             /\ d.mixed = c.mixed /\ d.skipped = c.skipped
             /\ d.rejects = IF m.final THEN "receipt" ELSE "state"
             /\ c.applied \/ c.force => d.force
        /\ ~Rejects(c, m) =>
             /\ Takes(c, d, m)
             /\ Connected(d) <=> m.close = NoNotice
             /\ d.applied /\ m.close # NoNotice => d.force
    BY <1>1, <1>2, <1>3, HandledIs
  <1>5. \A t \in Sockets : ~Gone(t)' => t = s /\ Connected(d)
    BY <1>2, <1>3, <1>4 DEF Gone, SameLink
  <1>6. ~Gone(s)  BY <1>3 DEF Gone
  <1>7. down' \subseteq down
    <2>1. down' = Heard(IF link[m.socket] = "up" THEN down ELSE down \ {m})  BY DEF ClientReceives
    <2>. QED  BY <2>1, HeardIs
  <1>8. Connected(d) => up' = up
    BY <1>4 DEF ClientReceives
  <1>9. c.version \in Nat \cup {None} /\ c.base \in Sockets \cup {None}  BY <1>2 DEF Clients
  \* Only a receipt frame can be refused, and a delta meets the state it is for.
  <1>10. /\ Rejects(c, m) => m.final
         /\ m.from > 0 /\ ~m.final => c.base = s /\ c.applied
         /\ m.final => r.status # "open"
    <2>1. m.from > 0 /\ ~m.final => c.base = s /\ c.version >= m.from
      BY <1>0, <1>6 DEF DeltaInv
    <2>2. Rejects(c, m) => m.from > 0 /\ m.from > c.version  BY DEF Rejects, Refused
    <2>3. ~(m.from > c.version /\ c.version >= m.from)  BY <1>2, <1>9 DEF None
    <2>. QED  BY <1>0, <1>2, <2>1, <2>2, <2>3 DEF NoticeInv, StateInv
  \* How the state may change.
  <1>11. \/ /\ d.version = c.version /\ d.base = c.base /\ d.applied = c.applied
            /\ c.force => d.force
         \/ m.from = 0 /\ ~Skips(c, m) /\ d.version = m.to /\ d.base = s /\ d.applied
         \/ /\ m.from > 0 /\ (c.base = s \/ r.status # "open")
            /\ d.version = IF c.version = None \/ m.to > c.version THEN m.to ELSE c.version
            /\ d.base = c.base /\ d.applied = c.applied
            /\ c.force => d.force
    <2>1. CASE Rejects(c, m)  BY <1>4, <2>1
    <2>2. CASE ~Rejects(c, m)
      <3>1. Takes(c, d, m)  BY <1>4, <2>2
      <3>2. CASE m.from = None  BY <3>1, <3>2 DEF Takes, SameState
      <3>3. CASE m.from = 0 /\ Skips(c, m)  BY <3>1, <3>3 DEF Takes
      <3>4. CASE m.from = 0 /\ ~Skips(c, m)  BY <3>1, <3>4 DEF Takes
      <3>5. CASE m.from > 0  BY <1>2, <1>10, <3>1, <3>5 DEF Takes
      <3>. QED  BY <1>2, <3>2, <3>3, <3>4, <3>5
    <2>. QED  BY <2>1, <2>2
  <1>12. ResyncInv'  BY <1>0, <1>1 DEF ResyncInv, Bound
  <1>13. StateInv'
    <2>1. d.base # None => d.applied /\ link'[d.base] \notin {"none", "opening"}
      <3>1. LinkStays  BY ReceiveMoves, MovesLink
      <3>2. link[s] \in {"up", "down"}  BY <1>0, <1>3 DEF LinkInv, Connected
      <3>3. CASE d.base = s /\ d.applied
        BY <1>2, <3>1, <3>2, <3>3 DEF LinkStays
      <3>4. CASE d.base = c.base /\ d.applied = c.applied
        BY <1>0, <1>9, <3>1, <3>4 DEF StateInv, LinkStays
      <3>. QED  BY <1>11, <3>3, <3>4
    <2>2. d.connecting = None  BY <1>3, <1>4 DEF SameLink
    <2>3. d.applied /\ ~(Connected(d) /\ d.base = s) => d.force
      <3>1. SUFFICES ASSUME d.applied, ~(Connected(d) /\ d.base = s)  PROVE d.force
        OBVIOUS
      <3>2. CASE Rejects(c, m)  BY <1>4, <3>1, <3>2
      <3>3. CASE ~Rejects(c, m) /\ m.close # NoNotice  BY <1>4, <3>1, <3>3
      <3>4. CASE ~Rejects(c, m) /\ m.close = NoNotice
        <4>1. d.base # s  BY <1>4, <3>1, <3>4
        <4>2. d.base = c.base /\ d.applied = c.applied /\ (c.force => d.force)  BY <1>11, <4>1
        <4>. QED  BY <1>0, <1>3, <3>1, <4>1, <4>2 DEF StateInv, Connected
      <3>. QED  BY <3>2, <3>3, <3>4
    <2>4. Connected(d) /\ d.base = s => ~d.force
      <3>1. SUFFICES ASSUME Connected(d), d.base = s, d.force  PROVE FALSE
        OBVIOUS
      <3>2. c.force /\ ~(m.from = 0 /\ ~Skips(c, m))  BY <1>4, <3>1 DEF Takes
      <3>3. c.base = s  BY <1>11, <3>1, <3>2
      <3>. QED  BY <1>0, <1>3, <3>2, <3>3 DEF StateInv
    <2>5. d.socket = s  BY <1>3, <1>4 DEF SameLink
    <2>. QED  BY <2>1, <2>2, <2>3, <2>4, <2>5 DEF StateInv
  <1>14. OpenInv'
    <2>1. SUFFICES ASSUME r.status = "open", ~r.needs  PROVE d.base = s
      BY <1>1, <1>5 DEF OpenInv
    <2>2. c.base = s  BY <1>0, <1>2, <1>6, <2>1 DEF OpenInv
    <2>. QED  BY <1>11, <2>2
  \* The state of the connection only grows.
  <1>15. c.base = s /\ c.version # None => d.base = s /\ d.version \in Nat /\ d.version >= c.version
    <2>1. SUFFICES ASSUME c.base = s, c.version # None
                   PROVE  d.base = s /\ d.version \in Nat /\ d.version >= c.version
      OBVIOUS
    <2>2. c.version \in Nat  BY <1>9, <2>1
    <2>3. CASE m.from = 0 /\ ~Skips(c, m) /\ d.version = m.to /\ d.base = s
      <3>1. ~c.force  BY <1>0, <1>3, <2>1 DEF StateInv
      <3>2. ~(m.to <= c.version)  BY <2>3, <3>1 DEF Skips
      <3>. QED  BY <1>2, <2>2, <2>3, <3>2
    <2>4. CASE d.version = c.version /\ d.base = c.base
      BY <2>1, <2>2, <2>4
    <2>5. CASE d.base = c.base /\ d.version = IF c.version = None \/ m.to > c.version THEN m.to ELSE c.version
      BY <1>2, <2>1, <2>2, <2>5
    <2>. QED  BY <1>11, <2>3, <2>4, <2>5
  <1>16. DeltaInv'
    <2>1. SUFFICES ASSUME NEW n \in down', ~n.final, n.from > 0, ~Gone(n.socket)'
                   PROVE  d.base = n.socket /\ d.version >= n.from
      BY DEF DeltaInv
    <2>2. n \in down /\ n \in Frames  BY <1>0, <1>7 DEF TypeInv, TypeOK
    <2>3. n.socket = s /\ n.from \in Int  BY <1>5, <2>1, <2>2, FrameTypes
    <2>4. c.base = s /\ c.version >= n.from  BY <1>0, <1>6, <2>1, <2>2, <2>3 DEF DeltaInv
    <2>5. c.version # None /\ c.version \in Nat  BY <1>9, <2>1, <2>3, <2>4 DEF None
    <2>6. d.base = s /\ d.version \in Nat /\ d.version >= c.version  BY <1>15, <2>4, <2>5
    <2>. QED  BY <2>3, <2>4, <2>5, <2>6
  <1>17. PaceInv'
    <2>1. SUFFICES ASSUME r.status = "open", Connected(d)
          PROVE  /\ d.base = s =>
                      /\ r.ack <= d.version
                      /\ \A n \in Nat : Said(s, n)' => n <= d.version \/ n > Past(r.world)
                 /\ d.base # s =>
                      /\ \A n \in Nat : Said(s, n)' => n <= r.ack \/ n > Past(r.world)
                      /\ \A n \in down' : n.socket = s /\ n.from = 0 => n.to > r.ack
      BY <1>1, <1>5 DEF PaceInv, Past, Bound
    <2>2. r.ack \in Nat  BY <1>0, <1>2, Numbers
    <2>3. \A n \in Nat : Said(s, n)' => n = AckOf(d) \/ Said(s, n)
      BY <1>1, <1>8, <2>1 DEF Said
    <2>4. CASE c.base = s
      <3>1. /\ r.ack <= c.version
            /\ \A n \in Nat : Said(s, n) => n <= c.version \/ n > Past(r.world)
        BY <1>0, <1>2, <1>6, <2>1, <2>4 DEF PaceInv
      <3>2. c.version # None /\ c.version \in Nat  BY <1>9, <2>2, <3>1 DEF None
      <3>3. d.base = s /\ d.version \in Nat /\ d.version >= c.version  BY <1>15, <2>4, <3>2
      <3>4. AckOf(d) = d.version  BY <3>3 DEF AckOf, None
      <3>5. \A n \in Nat : n <= c.version => n <= d.version  BY <3>2, <3>3
      <3>6. r.ack <= d.version  BY <2>2, <3>1, <3>5
      <3>7. d.version <= d.version  BY <3>3
      <3>. QED  BY <2>3, <3>1, <3>3, <3>4, <3>5, <3>6, <3>7
    <2>5. CASE c.base # s
      <3>1. /\ \A n \in Nat : Said(s, n) => n <= r.ack \/ n > Past(r.world)
            /\ \A n \in down : n.socket = s /\ n.from = 0 => n.to > r.ack
        BY <1>0, <1>2, <1>6, <2>1, <2>5 DEF PaceInv
      <3>2. CASE m.from = 0 /\ d.version = m.to /\ d.base = s
        <4>1. m.to > r.ack  BY <3>1, <3>2
        <4>2. AckOf(d) = m.to  BY <1>2, <3>2 DEF AckOf, None
        <4>3. /\ r.ack <= m.to /\ \A n \in Nat : n <= r.ack => n <= m.to
              /\ m.to <= m.to
          BY <1>2, <2>2, <4>1
        <4>. QED  BY <2>3, <3>1, <3>2, <4>2, <4>3
      <3>3. CASE d.version = c.version /\ d.base = c.base
        <4>1. AckOf(d) = AckOf(c)  BY <3>3 DEF AckOf
        <4>2. \A n \in Nat : n = AckOf(c) => Said(s, n)  BY <1>6 DEF Said
        <4>. QED  BY <1>7, <2>3, <2>5, <3>1, <3>3, <4>1, <4>2
      <3>. QED  BY <1>11, <2>1, <2>5, <3>2, <3>3
    <2>. QED  BY <2>4, <2>5
  <1>18. SwitchInv'
    <2>1. SUFFICES ASSUME May("switch")  PROVE d.version # None => d.applied
      BY <1>0, <1>1, <1>7 DEF SwitchInv, May
    <2>2. ~m.final /\ (c.version # None => c.applied)  BY <1>0, <2>1 DEF SwitchInv
    <2>3. m.from > 0 => c.applied  BY <1>10, <2>2
    <2>. QED  BY <1>11, <2>2, <2>3
  <1>19. EachConnectionRebuilt'
    <2>1. ~c.mixed /\ c.rejects # "state" /\ ~c.skipped
      BY <1>0 DEF EachConnectionRebuilt, StateOfOneConnection, FirstBaselineAdopted
    <2>2. CASE Rejects(c, m)
      <3>1. d.mixed = c.mixed /\ d.skipped = c.skipped /\ d.rejects = "receipt"
        BY <1>4, <1>10, <2>2
      <3>. QED  BY <2>1, <3>1 DEF EachConnectionRebuilt, StateOfOneConnection, FirstBaselineAdopted
    <2>3. CASE ~Rejects(c, m)
      <3>1. Takes(c, d, m)  BY <1>4, <2>3
      <3>2. d.rejects # "state"  BY <2>1, <3>1 DEF Takes
      <3>3. ~d.mixed
        BY <1>2, <1>10, <2>1, <3>1 DEF Takes, SameState
      <3>4. ~d.skipped
        <4>1. CASE m.from = 0 /\ Skips(c, m)
          <5>1. ~(c.base # s /\ r.status = "open")  BY <1>3, <4>1, FirstBaseline
          <5>. QED  BY <2>1, <3>1, <4>1, <5>1 DEF Takes
        <4>2. CASE ~(m.from = 0 /\ Skips(c, m))
          BY <1>2, <2>1, <3>1, <4>2 DEF Takes, SameState
        <4>. QED  BY <4>1, <4>2
      <3>. QED  BY <3>2, <3>3, <3>4 DEF EachConnectionRebuilt, StateOfOneConnection, FirstBaselineAdopted
    <2>. QED  BY <2>2, <2>3
  <1>. QED  BY <1>12, <1>13, <1>14, <1>16, <1>17, <1>18, <1>19 DEF RebuiltInv

-----------------------------------------------------------------------------
(* The servers move.                                                        *)

\* No close of a client that changes worlds.
LEMMA NoClosure ==
  ASSUME TypeInv, OnlyLost, May("switch")
  PROVE  \A event \in Closures : ~May(event)
  BY DEF TypeInv, OnlyLost, May

\* What an open session has counted was said to it, and is one of its frames.
LEMMA AckIs ==
  ASSUME LifeInv, LifeInv', DeliveryInv, ResyncInv, ServerTurn, NEW s \in Sockets,
         session'[s].status = "open"
  PROVE  LET r == session[s]  q == session'[s] IN
         /\ r.status = "open" /\ q.world = r.world /\ r.world \in Worlds
         /\ r.ack \in Nat /\ q.ack \in Nat /\ r.ack <= q.ack
         /\ Said(s, q.ack) /\ q.ack <= Past(r.world)
         /\ q.needs => r.needs
         /\ r.needs /\ ~q.needs => q.ack > r.ack
         /\ q.resync = None => (q.needs => q.last < Bound(q.world))
         /\ q.resync # None => q.needs /\ q.ack < q.resync /\ q.resync <= q.last
         /\ ~q.needs => q.ack > 0
  <1>. DEFINE r == session[s]
              q == session'[s]
              w == session[s].world
  <1>0. /\ TypeInv /\ TypeInv' /\ SocketInv /\ NumberInv /\ SaidInv /\ ServerMove /\ Turn(s)
        /\ up \subseteq Messages
    BY DEF LifeInv, DeliveryInv, ServerTurn, TypeInv, TypeOK
  <1>1. r.status = "open" /\ q.world = w /\ ~Flushing(r)
    BY <1>0, TurnIs DEF NumberInv
  <1>2. w \in Worlds  BY <1>0, <1>1 DEF SocketInv
  <1>3. /\ r.last = frame[w] /\ frame[w] \in Nat /\ Bound(w) \in Nat /\ frame[w] <= Bound(w)
        /\ Past(w) = Bound(w) + 1
    <2>1. r.last = frame[w]  BY <1>0, <1>1 DEF NumberInv, Live
    <2>. HIDE DEF w
    <2>. QED  BY <1>0, <1>2, <2>1, Numbers
  <1>4. /\ r.ack \in Nat /\ q.ack \in Nat /\ r.last \in Nat /\ q.last \in Nat
        /\ r.ack <= r.last /\ r.resync \in Nat \cup {None}
        /\ r.needs \in BOOLEAN /\ q.needs \in BOOLEAN
    BY <1>0, Numbers DEF ServerMove, Sessions
  <1>5. /\ r.resync = None => (r.needs => r.last < Bound(w))
        /\ r.resync # None => r.needs /\ r.ack < r.resync /\ r.resync <= r.last
        /\ ~r.needs => r.ack > 0
    BY <1>1 DEF ResyncInv
  <1>6. Said(s, r.ack)  BY DEF Said
  <1>7. \A m \in up : m.ack \in Nat  BY <1>0 DEF Messages
  <1>. HIDE DEF r, q, w
  <1>8. CASE SameAcks(r, q)
    BY <1>1, <1>2, <1>3, <1>4, <1>5, <1>6, <1>8 DEF SameAcks, r, q, w
  <1>9. CASE \E m \in up : m.socket = s /\ Counts(r, q, m.ack) /\ q.last = r.last
    <2>1. PICK m \in up : m.socket = s /\ Counts(r, q, m.ack) /\ q.last = r.last  BY <1>9
    <2>2. Said(s, m.ack) /\ m.ack \in Nat /\ m.ack <= r.last  BY <1>7, <2>1 DEF Said, Counts
    <2>3. q.ack = Larger(r.ack, m.ack)  BY <2>1 DEF Counts
    <2>4. (q.ack = r.ack \/ q.ack = m.ack) /\ r.ack <= q.ack /\ q.ack <= r.last
      BY <1>4, <2>2, <2>3 DEF Larger
    <2>5. Said(s, q.ack)  BY <1>6, <2>2, <2>4
    <2>6. q.ack <= Past(w)  BY <1>3, <1>4, <2>4
    <2>7. CASE r.resync # None /\ q.ack >= r.resync
      <3>1. q.needs = FALSE /\ q.resync = None  BY <1>1, <2>1, <2>7 DEF Counts, r
      <3>2. r.resync \in Nat /\ r.ack < r.resync  BY <1>4, <1>5, <2>7
      <3>3. q.ack > r.ack /\ q.ack > 0  BY <1>4, <2>7, <3>2
      <3>. QED  BY <1>1, <1>2, <1>4, <2>4, <2>5, <2>6, <3>1, <3>3 DEF r, q, w
    <2>8. CASE ~(r.resync # None /\ q.ack >= r.resync)
      <3>1. q.needs = r.needs /\ q.resync = r.resync  BY <2>1, <2>8 DEF Counts
      <3>2. r.resync # None => q.ack < r.resync  BY <1>4, <2>8
      <3>3. ~r.needs => q.ack > 0  BY <1>4, <1>5, <2>4
      <3>. QED  BY <1>1, <1>2, <1>4, <1>5, <2>1, <2>4, <2>5, <2>6, <3>1, <3>2, <3>3 DEF r, q, w
    <2>. QED  BY <2>7, <2>8
  <1>10. CASE Advances(r, q, frame'[w]) /\ frame'[w] = NextFrame(w)
    <2>1. q.ack = r.ack /\ q.last = NextFrame(w) /\ q.needs = r.needs
      BY <1>10 DEF Advances
    <2>2. q.ack <= Past(w) /\ r.last <= q.last /\ r.ack <= q.last
      BY <1>3, <1>4, <2>1 DEF NextFrame
    <2>3. CASE q.resync = r.resync /\ ~(r.needs /\ r.resync = None)
      <3>1. r.resync # None => r.resync <= q.last
        BY <1>4, <1>5, <2>2
      <3>. QED  BY <1>1, <1>2, <1>4, <1>5, <1>6, <2>1, <2>2, <2>3, <3>1 DEF r, q, w
    <2>4. CASE q.resync = frame'[w] /\ r.needs
      <3>1. q.resync = q.last /\ q.resync \in Nat  BY <1>4, <1>10, <2>1, <2>4
      <3>2. r.ack < q.last
        <4>1. CASE r.resync = None
          <5>1. frame[w] < Bound(w)  BY <1>3, <1>5, <2>4, <4>1
          <5>. QED  BY <1>3, <1>4, <2>1, <5>1 DEF NextFrame
        <4>2. CASE r.resync # None
          <5>1. r.resync \in Nat /\ r.ack < r.resync /\ r.resync <= r.last  BY <1>4, <1>5, <4>2
          <5>. QED  BY <1>4, <2>2, <5>1
        <4>. QED  BY <4>1, <4>2
      <3>3. q.resync # None /\ q.resync <= q.last  BY <3>1 DEF None
      <3>. QED  BY <1>1, <1>2, <1>4, <1>6, <2>1, <2>2, <2>4, <3>1, <3>2, <3>3 DEF r, q, w
    <2>. QED  BY <1>10, <2>3, <2>4 DEF Advances
  <1>11. SameAcks(r, q) \/ (\E m \in up : m.socket = s /\ Counts(r, q, m.ack) /\ q.last = r.last)
         \/ (Advances(r, q, frame'[w]) /\ frame'[w] = NextFrame(w))
    <2>1. r.status = "open" /\ q.status = "open"  BY <1>1 DEF r, q
    <2>2. \/ q = r
          \/ Finishes(r, q) \/ Answers(s, r, q) \/ Flushes(r, q) \/ Repeats(r, q)
          \/ Advances(r, q, frame'[w]) /\ frame'[w] = NextFrame(w)
      BY <1>0 DEF Turn, r, q, w
    <2>3. ~Finishes(r, q) /\ ~Flushes(r, q) /\ ~Repeats(r, q)
      BY <2>1 DEF Finishes, Flushes, Repeats
    <2>4. q = r => SameAcks(r, q)  BY DEF SameAcks
    <2>5. Answers(s, r, q) => SameAcks(r, q) \/ \E m \in up : m.socket = s /\ Counts(r, q, m.ack) /\ q.last = r.last
      BY DEF Answers
    <2>. QED  BY <2>2, <2>3, <2>4, <2>5
  <1>. QED  BY <1>8, <1>9, <1>10, <1>11

LEMMA ServerKeeps ==
  ASSUME OnlyLost, LifeInv, LifeInv', DeliveryInv, DeliveryInv', RebuiltInv, ServerTurn
  PROVE  RebuiltInv'
  <1>0. /\ TypeInv /\ NoticeInv /\ NumberInv /\ None \notin Sockets
        /\ ResyncInv /\ StateInv /\ OpenInv /\ DeltaInv /\ PaceInv /\ SwitchInv
        /\ EachConnectionRebuilt
    BY Constants DEF LifeInv, DeliveryInv, RebuiltInv
  <1>1. /\ ServerMove /\ client' = client /\ scenario' = scenario
        /\ \A s \in Sockets : Turn(s)
        /\ \A m \in down' \ down : Issued(m)
    BY DEF ServerTurn, ServerMove
  <1>2. \A w : Past(w)' = Past(w) /\ Bound(w)' = Bound(w)  BY <1>1 DEF Past, Bound
  <1>3. \A s : Gone(s)' = Gone(s)  BY <1>1 DEF Gone
  <1>4. ASSUME NEW s \in Sockets, session'[s].status = "open"
        PROVE  LET r == session[s]  q == session'[s] IN
         /\ r.status = "open" /\ q.world = r.world /\ r.world \in Worlds
         /\ r.ack \in Nat /\ q.ack \in Nat /\ r.ack <= q.ack
         /\ Said(s, q.ack) /\ q.ack <= Past(r.world)
         /\ q.needs => r.needs
         /\ r.needs /\ ~q.needs => q.ack > r.ack
         /\ q.resync = None => (q.needs => q.last < Bound(q.world))
         /\ q.resync # None => q.needs /\ q.ack < q.resync /\ q.resync <= q.last
         /\ ~q.needs => q.ack > 0
    BY <1>0, <1>4, AckIs
  <1>5. ResyncInv'
    BY <1>2, <1>4 DEF ResyncInv
  <1>6. StateInv'
    <2>1. LinkStays
      <3>1. \A s \in Sockets : LinkServes(s)  BY <1>1 DEF ServerMove
      <3>. QED  BY <3>1 DEF LinkServes, LinkStays
    <2>2. client.base \in Sockets \cup {None}  BY <1>0 DEF TypeInv, TypeOK, Clients
    <2>. QED  BY <1>0, <1>1, <2>1, <2>2 DEF StateInv, LinkStays
  \* The numbers of a session that the client is not done with.
  <1>7. ASSUME NEW s \in Sockets, session'[s].status = "open", ~Gone(s)
        PROVE  /\ client.base = s => session'[s].ack <= client.version
               /\ client.base # s => session'[s].ack = session[s].ack
    <2>1. /\ Said(s, session'[s].ack) /\ session'[s].ack <= Past(session[s].world)
          /\ session'[s].ack \in Nat /\ session[s].ack \in Nat /\ session[s].ack <= session'[s].ack
          /\ session[s].status = "open" /\ session[s].world \in Worlds
      BY <1>4, <1>7
    <2>2. Past(session[s].world) \in Nat  BY <1>0, <2>1, Numbers
    <2>3. ~(session'[s].ack > Past(session[s].world))  BY <2>1, <2>2
    <2>4. client.base = s => session'[s].ack <= client.version
      BY <1>0, <1>7, <2>1, <2>3 DEF PaceInv
    <2>5. client.base # s => session'[s].ack <= session[s].ack
      BY <1>0, <1>7, <2>1, <2>3 DEF PaceInv
    <2>. QED  BY <2>1, <2>4, <2>5
  <1>8. OpenInv'
    <2>1. SUFFICES ASSUME NEW s \in Sockets, session'[s].status = "open", ~session'[s].needs, ~Gone(s)
                   PROVE  client.base = s
      BY <1>1, <1>3 DEF OpenInv
    <2>2. CASE ~session[s].needs  BY <1>0, <1>4, <2>1, <2>2 DEF OpenInv
    <2>3. CASE session[s].needs
      <3>1. session'[s].ack > session[s].ack /\ session[s].ack \in Nat  BY <1>4, <2>1, <2>3
      <3>2. session'[s].ack # session[s].ack  BY <3>1
      <3>. QED  BY <1>7, <2>1, <3>2
    <2>. QED  BY <2>2, <2>3
  <1>9. DeltaInv'
    <2>1. SUFFICES ASSUME NEW m \in down', ~m.final, m.from > 0, ~Gone(m.socket)
                   PROVE  client.base = m.socket /\ client.version >= m.from
      BY <1>1, <1>3 DEF DeltaInv
    <2>2. CASE m \in down  BY <1>0, <2>1, <2>2 DEF DeltaInv
    <2>3. CASE m \notin down
      <3>1. Issued(m) /\ m \in Frames /\ m.socket \in Sockets  BY <1>1, <2>3, FrameTypes DEF ServerMove
      <3>2. /\ session[m.socket].status = "open" /\ m.from = session[m.socket].ack
            /\ ~session[m.socket].needs
        BY <2>1, <3>1, FrameTypes DEF Issued
      <3>3. client.base = m.socket  BY <1>0, <2>1, <3>1, <3>2 DEF OpenInv
      <3>4. session[m.socket].ack <= client.version  BY <1>0, <2>1, <3>1, <3>2, <3>3 DEF PaceInv
      <3>5. client.version \in Int /\ m.from \in Int
        BY <1>0, <3>1, FrameTypes DEF TypeInv, TypeOK, Clients, None
      <3>. QED  BY <3>2, <3>3, <3>4, <3>5
    <2>. QED  BY <2>2, <2>3
  <1>10. PaceInv'
    <2>1. SUFFICES ASSUME NEW s \in Sockets, session'[s].status = "open", ~Gone(s)
          PROVE  /\ client.base = s =>
                      /\ session'[s].ack <= client.version
                      /\ \A n \in Nat : Said(s, n)' => n <= client.version \/ n > Past(session'[s].world)
                 /\ client.base # s =>
                      /\ \A n \in Nat : Said(s, n)' => n <= session'[s].ack \/ n > Past(session'[s].world)
                      /\ \A m \in down' : m.socket = s /\ m.from = 0 => m.to > session'[s].ack
      BY <1>1, <1>2, <1>3 DEF PaceInv
    <2>2. session[s].status = "open" /\ session'[s].world = session[s].world  BY <1>4, <2>1
    <2>3. \A n \in Nat : Said(s, n)' => Said(s, n)
      <3>1. SUFFICES ASSUME NEW n \in Nat, Said(s, n)'  PROVE Said(s, n)  OBVIOUS
      <3>2. CASE n = session'[s].ack  BY <1>4, <2>1, <3>2
      <3>3. CASE \E m \in up' : m.socket = s /\ m.ack = n
        <4>1. Live(session'[s])  BY <2>1 DEF Live
        <4>. QED  BY <3>3, <4>1 DEF Said, ServerTurn
      <3>4. CASE ~Gone(s)' /\ n = AckOf(client')  BY <1>1, <1>3, <3>4 DEF Said
      <3>. QED  BY <3>1, <3>2, <3>3, <3>4 DEF Said
    <2>4. CASE client.base = s
      <3>1. \A n \in Nat : Said(s, n) => n <= client.version \/ n > Past(session[s].world)
        BY <1>0, <2>1, <2>2, <2>4 DEF PaceInv
      <3>. QED  BY <1>7, <2>1, <2>2, <2>3, <2>4, <3>1
    <2>5. CASE client.base # s
      <3>1. /\ \A n \in Nat : Said(s, n) => n <= session[s].ack \/ n > Past(session[s].world)
            /\ \A m \in down : m.socket = s /\ m.from = 0 => m.to > session[s].ack
        BY <1>0, <2>1, <2>2, <2>5 DEF PaceInv
      <3>2. session'[s].ack = session[s].ack  BY <1>7, <2>1, <2>5
      <3>3. ASSUME NEW m \in down', m.socket = s, m.from = 0  PROVE m.to > session'[s].ack
        <4>1. CASE m \in down  BY <3>1, <3>2, <3>3, <4>1
        <4>2. CASE m \notin down
          <5>1. Issued(m) /\ m \in Frames /\ m.to \in Nat  BY <1>1, <4>2, FrameTypes DEF ServerMove
          <5>2. ~session[s].needs => session[s].ack > 0 /\ session[s].ack \in Nat
            BY <1>0, <1>4, <2>1, <2>2 DEF ResyncInv
          <5>3. session'[s].resync = m.to
            BY <2>1, <3>3, <5>1, <5>2 DEF Issued, None
          <5>4. m.to # None  BY <5>1 DEF None
          <5>5. session'[s].ack < m.to /\ session'[s].ack \in Nat  BY <1>4, <2>1, <5>3, <5>4
          <5>. QED  BY <5>1, <5>5
        <4>. QED  BY <4>1, <4>2
      <3>. QED  BY <2>2, <2>3, <2>5, <3>1, <3>2, <3>3
    <2>. QED  BY <2>4, <2>5
  <1>11. SwitchInv'
    <2>1. SUFFICES ASSUME May("switch")
          PROVE  /\ \A s \in Sockets : session'[s].status # "closing"
                 /\ \A m \in down' : ~m.final
                 /\ client.version # None => client.applied
      BY <1>1 DEF SwitchInv, May
    <2>2. \A event \in Closures : ~May(event)  BY <1>0, <2>1, NoClosure
    <2>3. \A s \in Sockets : session'[s].status # "closing"
      <3>1. SUFFICES ASSUME NEW s \in Sockets, session'[s].status = "closing"  PROVE FALSE  OBVIOUS
      <3>2. session[s].status # "closing"  BY <1>0, <2>1 DEF SwitchInv
      <3>3. Turn(s)  BY <1>1
      <3>. QED  BY <2>2, <3>1, <3>2, <3>3 DEF Turn, Finishes, Answers, Flushes, Repeats, Advances
    <2>4. ASSUME NEW m \in down'  PROVE ~m.final
      <3>1. CASE m \in down  BY <1>0, <2>1, <3>1 DEF SwitchInv
      <3>2. CASE m \notin down
        <4>1. Issued(m) /\ m.socket \in Sockets  BY <1>1, <3>2, FrameTypes DEF ServerMove
        <4>. QED  BY <2>3, <4>1 DEF Issued
      <3>. QED  BY <3>1, <3>2
    <2>. QED  BY <1>0, <2>1, <2>3, <2>4 DEF SwitchInv
  <1>12. EachConnectionRebuilt'
    BY <1>0, <1>1 DEF EachConnectionRebuilt, StateOfOneConnection, FirstBaselineAdopted
  <1>. QED  BY <1>5, <1>6, <1>8, <1>9, <1>10, <1>11, <1>12 DEF RebuiltInv

LEMMA OpensKeeps ==
  ASSUME LifeInv, DeliveryInv', RebuiltInv, NEW s \in Sockets, TransportOpens(s), UNCHANGED scenario
  PROVE  RebuiltInv'
  <1>. DEFINE w == session[s].world
              q == Accepted(w)
  <1>0. /\ TypeInv /\ SocketInv /\ NoticeInv /\ None \notin Sockets
        /\ ResyncInv /\ StateInv /\ OpenInv /\ DeltaInv /\ PaceInv /\ SwitchInv
        /\ EachConnectionRebuilt
    BY Constants DEF LifeInv, RebuiltInv
  <1>1. /\ link[s] = "opening" /\ session' = [session EXCEPT ![s] = q] /\ frame[w] < Bound(w)
        /\ link' = [link EXCEPT ![s] = IF Live(q) THEN "up" ELSE "down"]
        /\ frame' = frame /\ client' = client
        /\ down' = down /\ up' = up /\ scenario' = scenario
    BY DEF TransportOpens
  <1>2. session[s].status = "none" /\ w \in Worlds /\ client.connecting = s
    BY <1>0, <1>1 DEF SocketInv
  <1>3. /\ q.world = w /\ q.ack = q.last /\ q.needs /\ q.resync = None /\ ~Flushing(q)
        /\ q.status = "open" \/ q.status = "ended"
        /\ q.status = "open" => q.last = frame[w]
    <2>1. /\ q.world = w /\ q.ack = q.last /\ ~Flushing(q) /\ q.needs = TRUE /\ q.resync = None
          /\ shutdown[w] # "no" => q.status = "ended"
          /\ shutdown[w] = "no" => q.status = "open" /\ q.ack = frame[w]
      BY <1>0, <1>2, AcceptedIs
    <2>. HIDE DEF q, w
    <2>. QED  BY <2>1
  <1>. HIDE DEF q
  <1>4. session'[s] = q /\ \A t \in Sockets \ {s} : session'[t] = session[t]
    BY <1>0, <1>1 DEF TypeInv, TypeOK
  <1>5. \A x : Past(x)' = Past(x) /\ Bound(x)' = Bound(x)  BY <1>1 DEF Past, Bound
  <1>6. \A m \in down : m.socket \in Sockets \ {s}
    BY <1>0, <1>2 DEF TypeInv, TypeOK, Frames, NoticeInv
  <1>7. \A t : Gone(t)' = Gone(t)  BY <1>1 DEF Gone
  <1>8. client.base # s  BY <1>0, <1>2 DEF StateInv
  <1>9. ResyncInv'
    <2>1. SUFFICES ASSUME NEW t \in Sockets, session'[t].status = "open"
          PROVE  /\ session'[t].resync = None =>
                      (session'[t].needs => session'[t].last < Bound(session'[t].world))
                 /\ session'[t].resync # None =>
                      /\ session'[t].needs /\ session'[t].ack < session'[t].resync
                      /\ session'[t].resync <= session'[t].last
                 /\ ~session'[t].needs => session'[t].ack > 0
      BY <1>5 DEF ResyncInv
    <2>2. CASE t = s  BY <1>1, <1>3, <1>4, <2>1, <2>2
    <2>3. CASE t # s  BY <1>0, <1>4, <2>1, <2>3 DEF ResyncInv
    <2>. QED  BY <2>2, <2>3
  <1>10. StateInv'
    <2>1. link \in [Sockets -> {"none", "opening", "up", "down"}]  BY <1>0 DEF TypeInv, TypeOK
    <2>2. \A t \in Sockets \ {s} : link'[t] = link[t]  BY <1>1, <2>1
    <2>3. client.base \in Sockets \cup {None}  BY <1>0 DEF TypeInv, TypeOK, Clients
    <2>. QED  BY <1>0, <1>1, <1>8, <2>2, <2>3 DEF StateInv
  <1>11. OpenInv'
    <2>1. SUFFICES ASSUME NEW t \in Sockets, session'[t].status = "open", ~session'[t].needs
                   PROVE  Gone(t) \/ client.base = t
      BY <1>1, <1>7 DEF OpenInv
    <2>2. t # s  BY <1>3, <1>4, <2>1
    <2>. QED  BY <1>0, <1>4, <2>1, <2>2 DEF OpenInv
  <1>12. DeltaInv'  BY <1>0, <1>1, <1>7 DEF DeltaInv
  <1>13. PaceInv'
    <2>1. SUFFICES ASSUME NEW t \in Sockets, session'[t].status = "open", ~Gone(t)
          PROVE  /\ client.base = t =>
                      /\ session'[t].ack <= client.version
                      /\ \A n \in Nat : Said(t, n)' => n <= client.version \/ n > Past(session'[t].world)
                 /\ client.base # t =>
                      /\ \A n \in Nat : Said(t, n)' => n <= session'[t].ack \/ n > Past(session'[t].world)
                      /\ \A m \in down : m.socket = t /\ m.from = 0 => m.to > session'[t].ack
      BY <1>1, <1>5, <1>7 DEF PaceInv
    <2>2. CASE t # s
      <3>1. session'[t] = session[t]  BY <1>4, <2>2
      <3>2. \A n \in Nat : Said(t, n)' => Said(t, n)  BY <1>1, <1>7, <3>1 DEF Said
      <3>. QED  BY <1>0, <2>1, <3>1, <3>2 DEF PaceInv
    <2>3. CASE t = s
      <3>1. \A n \in Nat : Said(s, n)' => Kept(s, n)'  BY DEF DeliveryInv, SaidInv
      <3>2. Live(q)  BY <1>4, <2>1, <2>3 DEF Live
      <3>3. \A n \in Nat : Kept(s, n)' => n > Past(w) \/ n <= q.last
        BY <1>3, <1>4, <1>5, <3>2 DEF Kept
      <3>. QED  BY <1>3, <1>4, <1>6, <1>8, <2>3, <3>1, <3>3
    <2>. QED  BY <2>2, <2>3
  <1>14. SwitchInv'
    <2>1. May("switch")' = May("switch")  BY <1>1 DEF May
    <2>2. q.status # "closing"  BY <1>3
    <2>3. (\A t \in Sockets : session[t].status # "closing") =>
            \A t \in Sockets : session'[t].status # "closing"
      BY <1>4, <2>2
    <2>. QED  BY <1>0, <1>1, <2>1, <2>3 DEF SwitchInv
  <1>15. EachConnectionRebuilt'
    BY <1>0, <1>1 DEF EachConnectionRebuilt, StateOfOneConnection, FirstBaselineAdopted
  <1>. QED  BY <1>9, <1>10, <1>11, <1>12, <1>13, <1>14, <1>15 DEF RebuiltInv

-----------------------------------------------------------------------------

LEMMA RebuiltInit ==
  Init => RebuiltInv
  <1>. SUFFICES ASSUME Init PROVE RebuiltInv  OBVIOUS
  <1>1. session = [s \in Sockets |-> NoSession] /\ down = {}
    BY Zenon DEF Init, LifecycleInit
  <1>2. /\ client.version = None /\ client.socket = None /\ client.connecting = None
        /\ client.base = None /\ ~client.applied /\ ~client.force
        /\ ~client.mixed /\ ~client.skipped /\ client.rejects = "none"
    BY DEF Init, ClientInit, NewClient
  <1>. DEFINE n == NoSession
  <1>3. n.status = "none"  BY NoSessionIs
  <1>. HIDE DEF n
  <1>4. \A s \in Sockets : session[s] = n  BY <1>1 DEF n
  <1>5. ResyncInv /\ OpenInv /\ PaceInv  BY <1>3, <1>4 DEF ResyncInv, OpenInv, PaceInv
  <1>6. StateInv  BY <1>2 DEF StateInv
  <1>7. DeltaInv  BY <1>1 DEF DeltaInv
  <1>8. SwitchInv  BY <1>1, <1>2, <1>3, <1>4 DEF SwitchInv
  <1>9. EachConnectionRebuilt
    BY <1>2 DEF EachConnectionRebuilt, StateOfOneConnection, FirstBaselineAdopted
  <1>. QED  BY <1>5, <1>6, <1>7, <1>8, <1>9 DEF RebuiltInv

LEMMA RebuiltNext ==
  ASSUME OnlyLost, LifeInv, LifeInv', DeliveryInv, DeliveryInv', RebuiltInv, [Next]_vars
  PROVE  RebuiltInv'
  <1>1. CASE UNCHANGED vars
    <2>1. /\ frame' = frame /\ session' = session /\ client' = client /\ link' = link
          /\ down' = down /\ up' = up /\ scenario' = scenario
      BY <1>1 DEF vars, runVars, lifecycleVars, netVars
    <2>. QED
      BY <2>1 DEF RebuiltInv, ResyncInv, StateInv, OpenInv, DeltaInv, PaceInv, SwitchInv, Said,
                  Gone, Past, Bound, May,
                  EachConnectionRebuilt, StateOfOneConnection, FirstBaselineAdopted
  <1>2. CASE ClientSteps /\ UNCHANGED scenario
    <2>1. ASSUME NEW w \in Worlds, BeginConnect(w)  PROVE RebuiltInv'
      BY <1>2, <2>1, BeginTurn, BeginQuiet, QuietKeeps
    <2>2. CASE FinishConnect /\ ~client.disposed
      BY <1>2, <2>2, FinishTurn, FinishQuiet, QuietKeeps
    <2>3. CASE AbortConnect \/ (FinishConnect /\ client.disposed)
      BY <1>2, <2>3, AbortTurn, AbortQuiet, AbortMoves, MovesLink, QuietKeeps
    <2>4. CASE Leave
      BY <1>2, <2>4, LeaveTurn, LeaveQuiet, LeaveMoves, MovesLink, QuietKeeps
    <2>5. CASE Invoke \/ BeginCall \/ CallEnds
      BY <1>2, <2>5, CallTurn, CallQuiet, CallMoves, MovesLink, QuietKeeps
    <2>6. CASE PayloadFails \/ AckTimer \/ ClientSeesDown
      BY <1>2, <2>6, LossTurn, LossQuiet, LossMoves, MovesLink, QuietKeeps
    <2>7. CASE \E m \in down : ClientReceives(m)  BY <1>2, <2>7, ReceiveKeeps
    <2>. QED  BY <1>2, <2>1, <2>2, <2>3, <2>4, <2>5, <2>6, <2>7 DEF ClientSteps
  <1>3. CASE ServerSteps /\ UNCHANGED scenario
    <2>1. ServerTurn \/ \E s \in Sockets : TransportOpens(s)  BY <1>3, ServerStepsTurn
    <2>2. CASE ServerTurn  BY <2>2, ServerKeeps
    <2>3. CASE \E s \in Sockets : TransportOpens(s)  BY <1>3, <2>3, OpensKeeps
    <2>. QED  BY <2>1, <2>2, <2>3
  <1>. QED  BY <1>1, <1>2, <1>3 DEF Next

(***************************************************************************)
(* Whatever the events, when the worlds' numbers are apart and a client    *)
(* that changes worlds only ever loses its connections: a client that      *)
(* reconnects adopts the first baseline of the new connection, whatever    *)
(* its frame number, before any delta; none is refused, and none is merged *)
(* into what an earlier connection left (ClientWorld._pushDiff,            *)
(* _handleDisconnect, ServerWorld._acknowledge).                           *)
(***************************************************************************)
THEOREM ConnectionsRebuilt ==
  ASSUME Apart, OnlyLost
  PROVE  Spec => []EachConnectionRebuilt
  <1>1. Init => RebuiltInv  BY RebuiltInit
  <1>2. /\ LifeInv /\ DeliveryInv /\ (LifeInv /\ DeliveryInv)'
        /\ RebuiltInv /\ [Next]_vars
        => RebuiltInv'
    BY RebuiltNext
  <1>3. RebuiltInv => EachConnectionRebuilt  BY DEF RebuiltInv
  <1>. QED  BY <1>1, <1>2, <1>3, DeliveryInvariant, PTL DEF Spec
=============================================================================

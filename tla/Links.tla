-------------------------------- MODULE Links --------------------------------
(***************************************************************************)
(* The topology of the MCP bridge (vecs-mcp/src/links, bridge/router.ts):  *)
(* every process has a Router; a Link of one process connects to the       *)
(* listener of another, shakes hands, and from then on one end exposes its *)
(* table of targets (whole-table advertisements) and the other end mounts  *)
(* it as a Peer in its router, to which it forwards requests by path.      *)
(*                                                                         *)
(* `plan` is the set of links the processes are configured with; a link    *)
(* object is <<l, 0>> at the connecting process and <<l, k>> at the        *)
(* listening process for the k-th socket of l.                             *)
(***************************************************************************)
EXTENDS Naturals, Sequences, FiniteSets, SequencesExt, FiniteSetsExt, Functions

CONSTANTS
    Nodes,      \* the processes; a node stands for its nodeId
    Names,      \* the names nodes may have, the first segments of paths
    Worlds,     \* names of worlds
    Plans,      \* the configurations to choose from
    Requests,   \* the requests agents issue
    None

VARIABLES
    plan,       \* the configuration: links ([id, from, to, role: "join"|"mount", token:
                \* BOOLEAN]), the nodes' names and worlds, the nodes agents use, and the
                \* bounds: sockets per link, breaks, registrations, links closed
    link,       \* the Link objects
    wire,       \* the sockets: frames in flight and the state of both ends
    opened,     \* sockets link l has opened
    worlds,     \* Router.worlds, per node
    dest,       \* Router.destinations without the node's own: name -> link object
    notify,     \* Router._pendingChange
    wait,       \* who awaits the dispatch of a request at a node
    request,    \* what the agent that issued a request knows of it
    budget      \* what is left of the bounds

vars == <<plan, link, wire, opened, worlds, dest, notify, wait, request, budget>>

Ids     == UNION {{d.id : d \in p.links} : p \in Plans}
Links   == {d.id : d \in plan.links}
Desc(l) == CHOOSE d \in plan.links : d.id = l
Attempts == Max({p.sockets : p \in Plans})
Objects == Ids \X (0..Attempts)
Sockets == Ids \X (1..Attempts)
Sides   == {"connector", "listener"}

Connector(o) == o[2] = 0
Side(o)   == IF Connector(o) THEN "connector" ELSE "listener"
Across(s) == CHOOSE x \in Sides : x # s
Node(o)   == IF Connector(o) THEN Desc(o[1]).from ELSE Desc(o[1]).to
Far(o)    == IF Connector(o) THEN Desc(o[1]).to ELSE Desc(o[1]).from
Sock(o)   == <<o[1], link[o].conn>>
Mine      == {o \in Objects : o[1] \in Links}

NoLink == [state |-> "none", conn |-> 0, remote |-> None, exposes |-> FALSE,
           heard |-> FALSE, peer |-> FALSE, entries |-> {}, pending |-> {}]
NoWire == [to |-> [s \in Sides |-> <<>>], end |-> [s \in Sides |-> "none"],
           broken |-> FALSE]

------------------------------------------------------------------------------
\* Tables.

Entry(path, via) == [path |-> path, via |-> via]

\* Router.table: the node's worlds and what its peers advertised.
Table(n) ==
    {Entry(<<plan.name[n], w>>, <<n>>) : w \in worlds[n]}
    \cup UNION {link[dest[n][m]].entries : m \in {x \in Names : dest[n][x] # None}}

\* Link._advertise: prefix the exposing node's name, add it to via.
Exposed(n) ==
    {Entry(IF Head(e.path) = plan.name[n] THEN e.path ELSE <<plan.name[n]>> \o e.path,
           IF n \in Range(e.via) THEN e.via ELSE Append(e.via, n)) : e \in Table(n)}

\* Link._advertised drops what came through this node.
Imported(n, entries) == {e \in entries : n \notin Range(e.via)}

\* ... and refuses a table its sender cannot have.
Advertisable(o, entries) ==
    /\ \A e \in entries : Head(e.path) = link[o].remote.name /\ link[o].remote.node \in Range(e.via)
    /\ \A e, f \in entries : e.path = f.path => e = f

Paths(n) == {e.path : e \in Table(n)}

------------------------------------------------------------------------------
\* Sockets.

\* A frame reaches the other end only through a socket open on both sides.
Send(w, c, side, frame) ==
    IF /\ w[c].end[side] = "open"
       /\ w[c].end[Across(side)] \in {"opening", "open"}
       /\ ~w[c].broken
    THEN [w EXCEPT ![c].to[Across(side)] = Append(@, frame)]
    ELSE w

\* socket.close(): this side hears nothing any more and waits for the event.
Shut(w, c, side) ==
    IF c[2] > 0 /\ w[c].end[side] \in {"opening", "open"}
    THEN [w EXCEPT ![c].end[side] = "shut", ![c].to[side] = <<>>]
    ELSE w

Take(w, c, side) == [w EXCEPT ![c].to[side] = Tail(@)]

------------------------------------------------------------------------------
\* Requests.  wait[n][r] says who awaits r at node n (the agent, or the
\* link object and socket that asked) and on whom (a local world or a link object).

Agent  == <<0, 1>>      \* no link has the id 0
Local  == <<0, 0>>
NoWait == [by |-> None, conn |-> 0, on |-> None]

\* Link._answer, after the await: only to the socket that asked.
Respond(w, ln, k, r, ok) ==
    IF k.by \in Objects /\ ln[k.by].conn = k.conn /\ ln[k.by].state = "linked"
    THEN Send(w, <<k.by[1], k.conn>>, Side(k.by), [type |-> "response", id |-> r, ok |-> ok])
    ELSE w

\* The dispatches rs of node n settle: the wires, waits and agents after it.
SettledWire(w, ln, n, rs, ok) ==
    FoldSet(LAMBDA r, acc : Respond(acc, ln, wait[n][r], r, ok), w, rs)
SettledWait(n, rs) == [wait EXCEPT ![n] = [r \in Requests |-> IF r \in rs THEN NoWait ELSE @[r]]]
SettledRequest(n, rs, ok) ==
    [r \in Requests |-> IF r \in rs /\ wait[n][r].by = Agent
                        THEN [request[r] EXCEPT !.state = IF ok THEN "answered" ELSE "failed"]
                        ELSE request[r]]

\* Router.dispatch and Peer.dispatch: whom a target leads to.
Route(n, target) ==
    LET first == Head(target) IN
    IF first = plan.name[n]
    THEN IF Len(target) = 2 /\ target[2] \in worlds[n] THEN Local ELSE None
    ELSE IF first \in Names /\ dest[n][first] # None
            /\ \E e \in link[dest[n][first]].entries : e.path = target
         THEN dest[n][first] ELSE None

\* Link._answer: strip this node's name when the next segment is a destination.
Stripped(n, target) ==
    IF /\ Head(target) = plan.name[n]
       /\ target[2] \in Names \ {plan.name[n]}
       /\ dest[n][target[2]] # None
    THEN Tail(target) ELSE target

\* A dispatch at n for `by` over socket number `conn`, given the wires w and
\* the requests q: an unknown target fails at once, a local one is awaited, a
\* peer's is forwarded (Link._forward).
Dispatch(w, q, n, r, target, by, conn) ==
    LET to == Route(n, target)
        k  == [by |-> by, conn |-> conn, on |-> to] IN
    IF to = None
    THEN /\ wire' = Respond(w, link, k, r, FALSE)
         /\ request' = IF by = Agent THEN [q EXCEPT ![r].state = "failed"] ELSE q
         /\ UNCHANGED <<link, wait>>
    ELSE /\ wait' = [wait EXCEPT ![n][r] = k]
         /\ request' = IF to = Local THEN [q EXCEPT ![r].ran = <<n, target[2]>>] ELSE q
         /\ IF to = Local
            THEN wire' = w /\ UNCHANGED link
            ELSE /\ link' = [link EXCEPT ![to].pending = @ \cup {r}]
                 /\ wire' = Send(w, Sock(to), Side(to),
                                 [type |-> "request", id |-> r, target |-> target])

------------------------------------------------------------------------------
\* Link.

\* Router.changed, given who listens after this step.
Changed(ln, n) ==
    IF \E o \in Mine : Node(o) = n /\ ln[o].heard THEN [notify EXCEPT ![n] = TRUE] ELSE notify

\* A bug: a lost link leaves its requests to their timers.
Abandoned_None(o) == {}

\* The forwarded requests that a lost link fails.
Abandoned(o) == link[o].pending

\* Link._detach and the state `state`: the peer leaves the router, whatever
\* was forwarded fails.
Drop(w, o, state) ==
    LET n  == Node(o)
        me == link[o]
        own == me.peer /\ dest[n][me.remote.name] = o
        ln == [link EXCEPT ![o] = [NoLink EXCEPT !.state = state]] IN
    /\ link' = ln
    /\ dest' = IF own THEN [dest EXCEPT ![n][me.remote.name] = None] ELSE dest
    /\ notify' = IF own THEN Changed(ln, n) ELSE notify
    /\ wire' = SettledWire(w, ln, n, Abandoned(o), FALSE)
    /\ wait' = SettledWait(n, Abandoned(o))
    /\ request' = SettledRequest(n, Abandoned(o), FALSE)

\* Link._disconnected
Disconnected(w, o) ==
    Drop(w, o, IF link[o].state = "closed" \/ ~Connector(o) THEN "closed" ELSE "backoff")

\* The retry timer fires: Link._connect.
Connect(l) ==
    LET o == <<l, 0>> IN
    /\ link[o].state = "backoff"
    /\ opened[l] < plan.sockets
    /\ opened' = [opened EXCEPT ![l] = @ + 1]
    /\ link' = [link EXCEPT ![o].state = "connecting", ![o].conn = opened[l] + 1]
    /\ wire' = [wire EXCEPT ![<<l, opened[l] + 1>>].end["connector"] = "opening"]
    /\ UNCHANGED <<plan, worlds, dest, notify, wait, request, budget>>

\* listenLinks: the upgrade, a new Link of the listening process, _attach.
Upgrade(c) ==
    /\ wire[c].end["connector"] = "opening"
    /\ wire[c].end["listener"] = "none"
    /\ wire' = [wire EXCEPT ![c].end["listener"] = "open"]
    /\ link' = [link EXCEPT ![c] = [NoLink EXCEPT !.state = "handshake", !.conn = c[2]]]
    /\ UNCHANGED <<plan, opened, worlds, dest, notify, wait, request, budget>>

\* The connecting socket opens: _attach, and the connector says hello.
Open(l) ==
    LET o == <<l, 0>>
        c == Sock(o) IN
    /\ link[o].state = "connecting"
    /\ wire[c].end["listener"] # "none"
    /\ link' = [link EXCEPT ![o].state = "handshake"]
    /\ wire' = Send([wire EXCEPT ![c].end["connector"] = "open"], c, "connector",
                    [type |-> "hello", role |-> Desc(l).role, name |-> plan.name[Node(o)],
                     node |-> Node(o), token |-> Desc(l).token])
    /\ UNCHANGED <<plan, opened, worlds, dest, notify, wait, request, budget>>

\* The frame the link object o receives next on its socket.
Frames(o) == IF link[o].conn > 0 /\ wire[Sock(o)].end[Side(o)] = "open"
             THEN wire[Sock(o)].to[Side(o)] ELSE <<>>
Hears(o, type) == Frames(o) # <<>> /\ Head(Frames(o)).type = type

\* A bug: only the node's own name is refused.
Taken_Mounted(n, name, exposes) == name = plan.name[n]

\* A name that the node bears or already mounts is refused; an exposing link
\* reserves none.
Taken(n, name, exposes) == name = plan.name[n] \/ (~exposes /\ dest[n][name] # None)

\* Link._accept once hello or welcome is well formed: refuse a name that is
\* taken, else become linked, mount or expose.
Accept(o, frame, exposes) ==
    LET n == Node(o)
        c == Sock(o)
        s == Side(o)
        w == Take(wire, c, s)
        welcomed == IF Connector(o) THEN w
                    ELSE Send(w, c, s, [type |-> "welcome", name |-> plan.name[n], node |-> n]) IN
    IF Taken(n, frame.name, exposes)
    THEN /\ wire' = Shut(IF Connector(o) THEN w ELSE Send(w, c, s, [type |-> "reject"]), c, s)
         /\ link' = [link EXCEPT ![o].exposes = exposes]
         /\ UNCHANGED dest
    ELSE /\ link' = [link EXCEPT ![o].state = "linked", ![o].exposes = exposes,
                                 ![o].remote = [name |-> frame.name, node |-> frame.node],
                                 ![o].peer = ~exposes, ![o].heard = exposes]
         /\ dest' = IF exposes THEN dest ELSE [dest EXCEPT ![n][frame.name] = o]
         /\ wire' = IF exposes
                    THEN Send(welcomed, c, s, [type |-> "advertise", entries |-> Exposed(n),
                                               name |-> plan.name[n], node |-> n])
                    ELSE welcomed

ReceiveHello(o) ==
    /\ Hears(o, "hello")
    /\ link[o].state = "handshake"
    /\ LET f == Head(Frames(o)) IN
       IF f.token
       THEN Accept(o, f, f.role = "mount")
       ELSE /\ wire' = Shut(Send(Take(wire, Sock(o), Side(o)), Sock(o), Side(o),
                                 [type |-> "reject"]), Sock(o), Side(o))
            /\ UNCHANGED <<link, dest>>
    /\ UNCHANGED <<plan, opened, worlds, notify, wait, request, budget>>

ReceiveWelcome(o) ==
    /\ Hears(o, "welcome")
    /\ link[o].state = "handshake"
    /\ Accept(o, Head(Frames(o)), Desc(o[1]).role = "join")
    /\ UNCHANGED <<plan, opened, worlds, notify, wait, request, budget>>

ReceiveReject(o) ==
    /\ Hears(o, "reject")
    /\ link[o].state = "handshake"
    /\ wire' = Shut(wire, Sock(o), Side(o))
    /\ UNCHANGED <<plan, link, opened, worlds, dest, notify, wait, request, budget>>

\* Link._advertised
ReceiveAdvertise(o) ==
    /\ Hears(o, "advertise")
    /\ link[o].state = "linked" /\ ~link[o].exposes
    /\ LET f == Head(Frames(o))
           entries == Imported(Node(o), f.entries)
           mine == f.name = link[o].remote.name /\ f.node = link[o].remote.node IN
       IF ~mine \/ ~Advertisable(o, entries)
       THEN wire' = Shut(wire, Sock(o), Side(o)) /\ UNCHANGED <<link, notify>>
       ELSE /\ wire' = Take(wire, Sock(o), Side(o))
            /\ link' = [link EXCEPT ![o].entries = entries]
            /\ notify' = IF entries = link[o].entries THEN notify ELSE Changed(link, Node(o))
    /\ UNCHANGED <<plan, opened, worlds, dest, wait, request, budget>>

\* Link._answer, up to the await
ReceiveRequest(o) ==
    /\ Hears(o, "request")
    /\ link[o].state = "linked" /\ link[o].exposes
    /\ LET f == Head(Frames(o)) IN
       Dispatch(Take(wire, Sock(o), Side(o)), request, Node(o), f.id, Stripped(Node(o), f.target),
                o, link[o].conn)
    /\ UNCHANGED <<plan, opened, worlds, dest, notify, budget>>

\* A response settles the request it names, if that is still awaited.
ReceiveResponse(o) ==
    /\ Hears(o, "response")
    /\ link[o].state = "linked" /\ ~link[o].exposes
    /\ LET f  == Head(Frames(o))
           rs == {f.id} \cap link[o].pending
           w  == Take(wire, Sock(o), Side(o)) IN
       /\ link' = [link EXCEPT ![o].pending = @ \ rs]
       /\ wire' = SettledWire(w, link, Node(o), rs, f.ok)
       /\ wait' = SettledWait(Node(o), rs)
       /\ request' = SettledRequest(Node(o), rs, f.ok)
    /\ UNCHANGED <<plan, opened, worlds, dest, notify, budget>>

\* The timer of one forwarded request fires.
Timeout(o, r) ==
    /\ r \in link[o].pending
    /\ link' = [link EXCEPT ![o].pending = @ \ {r}]
    /\ wire' = SettledWire(wire, link, Node(o), {r}, FALSE)
    /\ wait' = SettledWait(Node(o), {r})
    /\ request' = SettledRequest(Node(o), {r}, FALSE)
    /\ UNCHANGED <<plan, opened, worlds, dest, notify, budget>>

\* The handshake takes too long.
HandshakeTimeout(o) ==
    /\ link[o].state = "handshake"
    /\ wire[Sock(o)].end[Side(o)] = "open"
    /\ wire' = Shut(wire, Sock(o), Side(o))
    /\ UNCHANGED <<plan, link, opened, worlds, dest, notify, wait, request, budget>>

\* The close event of a socket reaches one side; what was in flight may be lost.
\* A connector hears only its current socket, a listener's Link has one.
Closed(c, side) ==
    LET o == IF side = "connector" THEN <<c[1], 0>> ELSE c IN
    /\ wire[c].end[side] \in {"opening", "open", "shut"}
    /\ \/ wire[c].end[side] = "shut"
       \/ wire[c].end[Across(side)] \in {"shut", "gone"} /\ ~wire[c].broken
    /\ LET w == [wire EXCEPT ![c].end[side] = "gone", ![c].to[side] = <<>>] IN
       IF side = "connector" /\ link[o].conn # c[2]
       THEN wire' = w /\ UNCHANGED <<link, dest, notify, wait, request>>
       ELSE Disconnected(w, o)
    /\ UNCHANGED <<plan, opened, worlds, budget>>

\* A socket cannot be opened.
Refused(l) ==
    LET o == <<l, 0>> IN
    /\ link[o].state = "connecting"
    /\ wire[Sock(o)].end["listener"] = "none"
    /\ budget.breaks > 0
    /\ budget' = [budget EXCEPT !.breaks = @ - 1]
    /\ Disconnected([wire EXCEPT ![Sock(o)].end["connector"] = "gone"], o)
    /\ UNCHANGED <<plan, opened, worlds>>

\* Link._checkLiveness: nothing was heard for too long.
Silent(o) ==
    /\ link[o].conn > 0
    /\ wire[Sock(o)].broken
    /\ link[o].state \in {"handshake", "linked"}
    /\ Disconnected(Shut(wire, Sock(o), Side(o)), o)
    /\ UNCHANGED <<plan, opened, worlds, budget>>

\* Link.close
Close(o) ==
    /\ link[o].state \notin {"none", "closed"}
    /\ budget.closes > 0
    /\ budget' = [budget EXCEPT !.closes = @ - 1]
    /\ Drop(IF link[o].conn > 0 THEN Shut(wire, Sock(o), Side(o)) ELSE wire, o, "closed")
    /\ UNCHANGED <<plan, opened, worlds>>

\* The network drops a socket: no event at either end.
Break(c) ==
    /\ budget.breaks > 0
    /\ budget' = [budget EXCEPT !.breaks = @ - 1]
    /\ wire[c].end["listener"] = "open" /\ wire[c].end["connector"] = "open" /\ ~wire[c].broken
    /\ wire' = [wire EXCEPT ![c].broken = TRUE, ![c].to = [s \in Sides |-> <<>>]]
    /\ UNCHANGED <<plan, link, opened, worlds, dest, notify, wait, request>>

------------------------------------------------------------------------------
\* Router.

\* Router.register and Router.unregister
Register(n, w) ==
    /\ budget.changes > 0
    /\ budget' = [budget EXCEPT !.changes = @ - 1]
    /\ worlds' = [worlds EXCEPT ![n] = IF w \in @ THEN @ \ {w} ELSE @ \cup {w}]
    /\ notify' = Changed(link, n)
    /\ UNCHANGED <<plan, link, wire, opened, dest, wait, request>>

\* The setImmediate of Router.changed: every subscriber advertises one table.
Notify(n) ==
    /\ notify[n]
    /\ notify' = [notify EXCEPT ![n] = FALSE]
    /\ LET heard == {o \in Mine : Node(o) = n /\ link[o].heard}
           table == [type |-> "advertise", entries |-> Exposed(n), name |-> plan.name[n], node |-> n] IN
       wire' = FoldSet(LAMBDA o, w : Send(w, Sock(o), Side(o), table), wire, heard)
    /\ UNCHANGED <<plan, link, opened, worlds, dest, wait, request, budget>>

\* An agent dispatches a request at n; the target may be omitted when there is one.
Issue(n, r, target) ==
    /\ request[r].state = "idle" /\ n \in plan.asks
    /\ LET named == IF target # <<>> THEN target
                    ELSE IF Cardinality(Paths(n)) = 1 THEN CHOOSE p \in Paths(n) : TRUE
                    ELSE <<None>> IN
       Dispatch(wire, [request EXCEPT ![r] = [state |-> "asked", at |-> n, target |-> named,
                                              ran |-> None]], n, r, named, Agent, 0)
    /\ UNCHANGED <<plan, opened, worlds, dest, notify, budget>>

\* A local world (or a client behind it) answers, or fails to.
LocalDone(n, r, ok) ==
    /\ wait[n][r].on = Local
    /\ wire' = SettledWire(wire, link, n, {r}, ok)
    /\ wait' = SettledWait(n, {r})
    /\ request' = SettledRequest(n, {r}, ok)
    /\ UNCHANGED <<plan, link, opened, worlds, dest, notify, budget>>

------------------------------------------------------------------------------
Init ==
    /\ plan \in Plans
    /\ link = [o \in Objects |-> IF Connector(o) /\ o \in Mine
                                 THEN [NoLink EXCEPT !.state = "connecting", !.conn = 1]
                                 ELSE NoLink]
    /\ wire = [c \in Sockets |-> IF c[2] = 1 /\ c \in Mine
                                 THEN [NoWire EXCEPT !.end["connector"] = "opening"]
                                 ELSE NoWire]
    /\ opened = [l \in Ids |-> 1]
    /\ worlds = plan.worlds
    /\ dest = [n \in Nodes |-> [m \in Names |-> None]]
    /\ notify = [n \in Nodes |-> FALSE]
    /\ wait = [n \in Nodes |-> [r \in Requests |-> NoWait]]
    /\ request = [r \in Requests |-> [state |-> "idle", at |-> None, target |-> None, ran |-> None]]
    /\ budget = plan.budget

\* What an agent may name: a path in some table, or nothing.
Targets == {<<>>} \cup UNION {Paths(m) : m \in Nodes}

SocketStep ==
    \/ \E l \in Links : Connect(l) \/ Open(l) \/ Refused(l)
    \/ \E c \in Mine \cap Sockets : Upgrade(c) \/ Break(c) \/ \E s \in Sides : Closed(c, s)

LinkStep == \E o \in Mine :
    \/ ReceiveHello(o) \/ ReceiveWelcome(o) \/ ReceiveReject(o)
    \/ ReceiveAdvertise(o) \/ ReceiveRequest(o) \/ ReceiveResponse(o)
    \/ \E r \in Requests : Timeout(o, r)
    \/ HandshakeTimeout(o) \/ Silent(o) \/ Close(o)

RouterStep == \E n \in Nodes :
    \/ Notify(n)
    \/ \E w \in Worlds : Register(n, w)
    \/ \E r \in Requests : \/ \E t \in Targets : Issue(n, r, t)
                           \/ \E ok \in BOOLEAN : LocalDone(n, r, ok)

Next == SocketStep \/ LinkStep \/ RouterStep

Spec == Init /\ [][Next]_vars

------------------------------------------------------------------------------
\* The router's destinations are exactly the peers of its linked, mounting
\* links: no destination outlives its socket, no link keeps a peer, a
\* subscription, a table or a forwarded request after it lost its socket.
PeersAreLive ==
    /\ \A n \in Nodes, m \in Names : dest[n][m] # None =>
           LET me == link[dest[n][m]] IN
           me.state = "linked" /\ me.peer /\ me.remote.name = m /\ Node(dest[n][m]) = n
    /\ \A o \in Mine :
           /\ link[o].peer => dest[Node(o)][link[o].remote.name] = o
           /\ link[o].state = "linked" => link[o].conn > 0 /\ (link[o].peer \/ link[o].heard)
           /\ link[o].state # "linked" =>
                  ~link[o].peer /\ ~link[o].heard /\ link[o].entries = {} /\ link[o].pending = {}

\* Every dispatch that is awaited is awaited on something that will settle it
\* (a local command, or a forwarded request with its timer), every forwarded
\* request has somebody waiting, and an agent's request is settled or awaited.
NoRequestIsForgotten ==
    /\ \A n \in Nodes, r \in Requests : wait[n][r].by # None =>
           \/ wait[n][r].on = Local
           \/ r \in link[wait[n][r].on].pending /\ Node(wait[n][r].on) = n
    /\ \A o \in Mine : \A r \in link[o].pending : wait[Node(o)][r].on = o
    /\ \A r \in Requests : request[r].state = "asked" =>
           wait[request[r].at][r].by = Agent

\* A request is only ever run by the world its target names, at a node that
\* bears the name before it, and only such a run is answered with a result.
RequestsReachTheirTarget ==
    \A r \in Requests :
        /\ request[r].ran # None =>
               LET t == request[r].target IN
               t[Len(t)] = request[r].ran[2] /\ t[Len(t) - 1] = plan.name[request[r].ran[1]]
        /\ request[r].state = "answered" => request[r].ran # None

\* Nothing is under way: no frame, no half-open or closing socket, no notice.
Quiet ==
    /\ \A n \in Nodes : ~notify[n]
    /\ \A c \in Mine \cap Sockets :
           /\ \A s \in Sides : wire[c].to[s] = <<>>
           /\ \/ \A s \in Sides : wire[c].end[s] = "open" /\ ~wire[c].broken
              \/ \A s \in Sides : wire[c].end[s] \in {"none", "gone"}
    /\ \A o \in Mine : link[o].state \notin {"connecting", "handshake"}

\* Where a target leads from node n, hop by hop, when nothing changes meanwhile.
Leads[n \in Nodes, t \in Seq(Names \cup Worlds)] ==
    LET to == Route(n, t) IN
    IF to \in {Local, None} THEN to = Local
    ELSE Leads[Far(to), Stripped(Far(to), t)]

\* Once nothing is under way, a mounting link holds exactly what the node it
\* mounts exposes now, both ends agree that they are linked, no table came in a
\* circle, and every path in a table leads to a registered world.
TopologySettles == Quiet =>
    /\ \A o \in Mine : link[o].state = "linked" =>
           LET far == IF Connector(o) THEN Sock(o) ELSE <<o[1], 0>> IN
           /\ link[far].state = "linked" /\ link[far].conn = link[o].conn
           /\ link[far].exposes # link[o].exposes
           /\ link[o].peer => link[o].entries = Imported(Node(o), Exposed(Far(o)))
    /\ \A n \in Nodes : \A e \in Table(n) : IsInjective(e.via) /\ Leads[n, e.path]

\* Destinations, peers and tables are true to the links that hold them.
TopologyIsTrue == PeersAreLive /\ TopologySettles

\* No request is forgotten, and none is run by another world than it names.
RequestsSettle == NoRequestIsForgotten /\ RequestsReachTheirTarget
==============================================================================

---------------------------- MODULE BridgeSessions ----------------------------
(***************************************************************************)
(* The MCP sessions of one process (vecs-mcp/src/server.ts) and the        *)
(* watches they own (bridge/watch.ts), on a local world and on a client    *)
(* tunneled through it (tunnel/index.ts, client.ts), whose commands run    *)
(* elsewhere and answer later or not at all.                               *)
(***************************************************************************)
EXTENDS Naturals, Sequences, FiniteSets, SequencesExt, FiniteSetsExt

CONSTANTS
    Sessions,       \* owners: the sessions that may ever be opened
    Calls,          \* the tool calls that may ever be under way
    SessionCap,     \* 16
    WatchCap,       \* 32 per owner and world
    Capacity,       \* maxEvents of every watch
    MaxWatches,     \* bound: watches ever created
    Scenes,         \* bound: the sessions and calls that come, the commands to the
                    \* client that are given up on, the watches that are created
                    \* and the events each of them sees
    None

WatchIds == 1..MaxWatches

ASSUME BridgeAssumption ==
    /\ None \notin Sessions /\ IsFiniteSet(Calls)
    /\ SessionCap \in Nat \ {0} /\ WatchCap \in Nat \ {0} /\ Capacity \in Nat \ {0}
    /\ MaxWatches \in Nat
    /\ Scenes \subseteq [sessions : SUBSET Sessions, calls : SUBSET Calls, losses : Nat,
                        watches : 0..MaxWatches, events : [WatchIds -> Nat]]

VARIABLES
    registered,     \* the local world is registered (with it the tunnel)
    session,        \* VecsMcpServer._sessions and what each Session holds
    idleOrder,      \* the open sessions by Session.idleOrder: the longest untouched first
    call,           \* tool calls being handled
    watch,          \* WatchSet._watches and _expired of both worlds
    unwatching,     \* vecs_unwatch commands on their way to the client
    orphans,        \* history: watches whose owner was never told of, or not untold
    late,           \* commands that dispatchClient gave up on and the client may yet run
    losses,
    scene           \* one of Scenes, fixed

sessionVars ==
    <<registered, session, idleOrder, call, watch, unwatching, orphans, late, losses, scene>>

Targets == {"local", "client"}

NoSession == [state |-> "none", active |-> 0, timer |-> FALSE,
              watches |-> {}, notice |-> [w \in WatchIds |-> "off"],
              told |-> [w \in WatchIds |-> 0]]
NoCall  == [phase |-> "free", by |-> None, tool |-> None, target |-> None, watch |-> 0]
NoWatch == [state |-> "none", owner |-> None, target |-> None,
            events |-> [i \in 0..(Capacity - 1) |-> 0], start |-> 0, size |-> 0,
            latest |-> 0, dropped |-> 0]

Open(s)   == session[s].state = "open"
Live(w)   == watch[w].state = "live"
Known     == {s \in Sessions : session[s].state \in {"opening", "open"}}
Owned(s, t) == {w \in WatchIds : Live(w) /\ watch[w].owner = s /\ watch[w].target = t}

------------------------------------------------------------------------------
\* WatchSet.

\* _append: the ring overwrites its oldest event when it is full.
Appended(x) ==
    LET seq == x.latest + 1 IN
    IF x.size = Capacity
    THEN [x EXCEPT !.latest = seq, !.events[x.start] = seq,
                   !.start = (x.start + 1) % Capacity, !.dropped = @ + 1]
    ELSE [x EXCEPT !.latest = seq, !.events[(x.start + x.size) % Capacity] = seq, !.size = @ + 1]

\* read: oldest first, after a cursor, at most `limit` of them.
Read(x, since, limit) ==
    LET seq(i) == x.events[(x.start + i - 1) % Capacity]
        upto[i \in 0..x.size] ==
            IF i = 0 THEN <<>>
            ELSE IF Len(upto[i - 1]) < limit /\ seq(i) > since THEN Append(upto[i - 1], seq(i))
            ELSE upto[i - 1]
    IN  upto[x.size]

\* A bug: the receipts of a closed session stay.
Closed_Live(ws, s, t) ==
    [w \in WatchIds |-> IF ws[w].state = "live" /\ ws[w].owner = s /\ ws[w].target = t
                        THEN [NoWatch EXCEPT !.state = "gone"] ELSE ws[w]]

\* close: the live watches and the receipts of one owner in one world.
Closed(ws, s, t) ==
    [w \in WatchIds |-> IF ws[w].owner = s /\ ws[w].target = t THEN [NoWatch EXCEPT !.state = "gone"]
                        ELSE ws[w]]

Gone(ws, w) == [ws EXCEPT ![w] = [NoWatch EXCEPT !.state = "gone"]]

\* remove: only the owner's live watch.
Removed(ws, s, w) == IF ws[w].state = "live" /\ ws[w].owner = s THEN Gone(ws, w) ELSE ws

------------------------------------------------------------------------------
\* Sessions.

\* _touch: the session becomes the last to have been idle, with a fresh timer.
Places(S)  == {i \in DOMAIN idleOrder : idleOrder[i] \in S}
Without(s) == IF Places({s}) = {} THEN idleOrder ELSE RemoveAt(idleOrder, Min(Places({s})))
Touch(s)   == Append(Without(s), s)

\* _disposeSession, but for the session itself: its local watches and receipts
\* go at once, and the client is told to drop the others.
Release(s) ==
    LET remote == {w \in session[s].watches : watch[w].target # "local" \/ ~registered} IN
    /\ watch' = IF registered THEN Closed(watch, s, "local") ELSE watch
    /\ unwatching' = IF registered THEN unwatching \cup (remote \X {s}) ELSE unwatching
    /\ orphans' = IF registered THEN orphans ELSE orphans \cup remote

Disposed(s) == [NoSession EXCEPT !.state = "closed", !.active = session[s].active]

\* The sessions without a command under way; the one idle for the longest.
Idle == {s \in Known : session[s].active = 0}
LongestIdle == idleOrder[Min(Places(Idle))]

\* POST without a session id (initialize): reserve a place at once, evicting
\* the longest idle session when there is none.
Initialize(s, c) ==
    /\ session[s].state = "none"
    /\ call[c].phase = "free"
    /\ call' = [call EXCEPT ![c] = [NoCall EXCEPT !.phase = "opening", !.by = s]]
    /\ LET fresh == [NoSession EXCEPT !.state = "opening", !.active = 1] IN
       IF Cardinality(Known) < SessionCap
       THEN /\ session' = [session EXCEPT ![s] = fresh]
            /\ UNCHANGED <<idleOrder, watch, unwatching, orphans>>
       ELSE /\ Idle # {}
            /\ idleOrder' = Without(LongestIdle)
            /\ session' = [session EXCEPT ![s] = fresh, ![LongestIdle] = Disposed(LongestIdle)]
            /\ Release(LongestIdle)
    /\ UNCHANGED <<registered, late, losses>>

\* The initialize request is answered with a session id, or fails.
Initialized(c) ==
    /\ call[c].phase = "opening"
    /\ session' = [session EXCEPT ![call[c].by].state = "open"]
    /\ call' = [call EXCEPT ![c].phase = "ran"]
    /\ UNCHANGED <<registered, idleOrder, watch, unwatching, orphans, late, losses>>

InitializeFails(c) ==
    /\ call[c].phase = "opening"
    /\ session' = [session EXCEPT ![call[c].by] = [NoSession EXCEPT !.state = "closed"]]
    /\ call' = [call EXCEPT ![c] = NoCall]
    /\ UNCHANGED <<registered, idleOrder, watch, unwatching, orphans, late, losses>>

\* A tool call of a known session: active, no idle timer meanwhile.
Arrive(c, s, tool, target, w) ==
    /\ call[c].phase = "free"
    /\ Open(s)
    /\ session' = [session EXCEPT ![s] = [session[s] EXCEPT !.active = @ + 1, !.timer = FALSE]]
    /\ call' = [call EXCEPT ![c] = [phase |-> "arrived", by |-> s, tool |-> tool,
                                    target |-> target, watch |-> w]]
    /\ UNCHANGED <<registered, idleOrder, watch, unwatching, orphans, late, losses>>

\* A GET opens a notification stream: the idle timer restarts, nothing is active.
Stream(s) ==
    /\ Open(s)
    /\ idleOrder' = Touch(s)
    /\ session' = [session EXCEPT ![s].timer = TRUE]
    /\ UNCHANGED <<registered, call, watch, unwatching, orphans, late, losses>>

\* WatchSet.create for owner s in the world of `target`.
Free == {w \in 1..scene.watches : watch[w].state = "none"}
Created(s, target) == [watch EXCEPT ![Min(Free)] =
    [NoWatch EXCEPT !.state = "live", !.owner = s, !.target = target]]
MayCreate(s, target) == Free # {} /\ Cardinality(Owned(s, target)) < WatchCap

\* What the continuation of a vecs_watch call does with watch w of session s:
\* a session closed meanwhile has it removed again, else it is remembered.
Kept(ss, s, w) == IF ss[s].state = "open" THEN [ss EXCEPT ![s].watches = @ \cup {w}] ELSE ss

\* The handler of a tool runs: local commands at once, the client's are sent.
Run(c) ==
    LET k == call[c]
        s == k.by IN
    /\ k.phase = "arrived"
    /\ IF ~registered \/ (k.tool = "watch" /\ k.target = "local" /\ ~MayCreate(s, "local"))
       THEN /\ call' = [call EXCEPT ![c].phase = "ran"]          \* an error result
            /\ UNCHANGED <<session, watch>>
       ELSE IF k.target = "client"
       THEN call' = [call EXCEPT ![c].phase = "sent"] /\ UNCHANGED <<session, watch>>
       ELSE /\ call' = [call EXCEPT ![c].phase = "ran"]
            /\ CASE k.tool = "watch" ->
                       /\ session' = Kept(session, s, Min(Free))
                       /\ watch' = IF Open(s) THEN Created(s, "local")
                                   ELSE Gone(watch, Min(Free))
                 [] k.tool = "unwatch" ->
                       /\ watch' = Removed(watch, s, k.watch)
                       /\ session' =
                            IF watch[k.watch].state = "live" /\ watch[k.watch].owner = s
                            THEN [session EXCEPT ![s] =
                                    [session[s] EXCEPT !.watches = @ \ {k.watch},
                                                       !.notice[k.watch] = "off"]]
                            ELSE session
                 [] k.tool = "events" ->
                       /\ watch' = IF watch[k.watch].state = "expired" /\ watch[k.watch].owner = s
                                   THEN Gone(watch, k.watch) ELSE watch
                       /\ UNCHANGED session
    /\ UNCHANGED <<registered, idleOrder, unwatching, orphans, late, losses>>

\* The client runs a forwarded command; its result is then on its way.  An
\* error, and the events of a read, change nothing where they arrive.
ClientRuns(c) ==
    LET k == call[c]
        s == k.by
        mine(state) == watch[k.watch].state = state /\ watch[k.watch].owner = s
        go(phase, w) == call' = [call EXCEPT ![c] = [k EXCEPT !.phase = phase, !.watch = w]] IN
    /\ k.phase = "sent"
    /\ \/ /\ k.tool = "watch" /\ MayCreate(s, "client")
          /\ watch' = Created(s, "client")
          /\ go("answering", Min(Free))
       \/ /\ k.tool = "unwatch" /\ mine("live")
          /\ watch' = Removed(watch, s, k.watch)
          /\ go("answering", k.watch)
       \/ /\ k.tool = "events" /\ mine("expired")
          /\ watch' = Gone(watch, k.watch)
          /\ go("ran", k.watch)
       \/ /\ IF k.tool = "watch" THEN ~MayCreate(s, "client")
             ELSE ~mine(IF k.tool = "events" THEN "expired" ELSE "live")
          /\ go("ran", k.watch)
          /\ UNCHANGED watch
    /\ UNCHANGED <<registered, session, idleOrder, unwatching, orphans, late, losses>>

\* The client's answer arrives at the tool handler.
Answer(c) ==
    LET k == call[c]
        s == k.by IN
    /\ k.phase = "answering"
    /\ call' = [call EXCEPT ![c].phase = "ran"]
    /\ IF k.tool = "watch"
       THEN /\ session' = Kept(session, s, k.watch)
            /\ IF Open(s) THEN UNCHANGED <<unwatching, orphans>>
               ELSE IF registered
               THEN unwatching' = unwatching \cup {<<k.watch, s>>} /\ UNCHANGED orphans
               ELSE orphans' = orphans \cup {k.watch} /\ UNCHANGED unwatching
       ELSE /\ session' = IF k.tool = "unwatch"
                          THEN [session EXCEPT ![s].watches = @ \ {k.watch}] ELSE session
            /\ UNCHANGED <<unwatching, orphans>>
    /\ UNCHANGED <<registered, idleOrder, watch, late, losses>>

\* A command under way to the client; its id tells it from others of its kind.
Command(id, tool, s, w) == [id |-> id, tool |-> tool, by |-> s, watch |-> w]

\* dispatchClient's 10 s pass: the handler sees an error, whether the client has
\* run the command, will run it later, or never.
Expire(c) ==
    LET k == call[c] IN
    /\ k.phase \in {"sent", "answering"}
    /\ losses > 0 /\ losses' = losses - 1
    /\ call' = [call EXCEPT ![c].phase = "ran"]
    /\ orphans' = IF k.phase = "answering" /\ k.tool = "watch" THEN orphans \cup {k.watch}
                  ELSE orphans
    /\ late' = IF k.phase = "sent" THEN late \cup {Command(losses, k.tool, k.by, k.watch)} ELSE late
    /\ UNCHANGED <<registered, session, idleOrder, watch, unwatching>>

\* The HTTP response is written: the finally of _handle.
Respond(c) ==
    LET s == call[c].by
        left == session[s].active - 1
        idle == left = 0 /\ Open(s) IN
    /\ call[c].phase = "ran"
    /\ call' = [call EXCEPT ![c] = NoCall]
    /\ idleOrder' = IF idle THEN Touch(s) ELSE idleOrder
    /\ session' = [session EXCEPT ![s] = [session[s] EXCEPT !.active = left, !.timer = idle \/ @]]
    /\ UNCHANGED <<registered, watch, unwatching, orphans, late, losses>>

\* _closeSession, by the idle timer or a DELETE, whatever is under way.
CloseSession(s) ==
    /\ Open(s)
    /\ session' = [session EXCEPT ![s] = Disposed(s)]
    /\ idleOrder' = Without(s)
    /\ Release(s)
    /\ UNCHANGED <<registered, call, late, losses>>

\* The idle timer of _touch: nothing happens to a session with a command under way.
IdleTimeout(s) ==
    /\ Open(s) /\ session[s].timer
    /\ IF session[s].active = 0
       THEN CloseSession(s)
       ELSE /\ session' = [session EXCEPT ![s].timer = FALSE]
            /\ UNCHANGED <<registered, idleOrder, call, watch, unwatching, orphans, late, losses>>

\* The client drops a watch its owner's session no longer wants.
ClientUnwatches(w, s) ==
    /\ <<w, s>> \in unwatching
    /\ unwatching' = unwatching \ {<<w, s>>}
    /\ watch' = Removed(watch, s, w)
    /\ orphans' = IF watch[w].state = "expired" THEN orphans \cup {w} ELSE orphans
    /\ UNCHANGED <<registered, session, idleOrder, call, late, losses>>

LoseUnwatch(w, s) ==
    /\ <<w, s>> \in unwatching
    /\ losses > 0 /\ losses' = losses - 1
    /\ unwatching' = unwatching \ {<<w, s>>}
    /\ orphans' = orphans \cup {w}
    /\ late' = late \cup {Command(losses, "unwatch", s, w)}
    /\ UNCHANGED <<registered, session, idleOrder, call, watch>>

\* The client runs a command of session s that was given up on: nobody is told
\* of the watch it creates, or that the one it names is gone.
RunsLate(s, m) ==
    LET receipt == watch[m.watch].state = "expired" /\ watch[m.watch].owner = s IN
    /\ m \in late /\ m.by = s
    /\ late' = late \ {m}
    /\ \/ /\ m.tool = "watch" /\ MayCreate(s, "client")
          /\ watch' = Created(s, "client")
          /\ orphans' = orphans \cup {Min(Free)}
       \/ /\ m.tool = "unwatch"
          /\ watch' = Removed(watch, s, m.watch)
          /\ UNCHANGED orphans
       \/ /\ m.tool = "events" /\ receipt
          /\ watch' = Gone(watch, m.watch)
          /\ UNCHANGED orphans
       \/ /\ IF m.tool = "watch" THEN ~MayCreate(s, "client")
             ELSE m.tool = "events" /\ ~receipt
          /\ UNCHANGED <<watch, orphans>>
    /\ UNCHANGED <<registered, session, idleOrder, call, unwatching, losses>>

------------------------------------------------------------------------------
\* Events, notices, expiry, registration.

\* An entity enters, exits or is set: the listeners arm one notice each.
Event(w) ==
    /\ Live(w) /\ watch[w].target = "local"       \* a client's rings work alike
    /\ watch[w].latest < scene.events[w]
    /\ watch' = [watch EXCEPT ![w] = Appended(@)]
    /\ session' = [s \in Sessions |->
                     IF session[s].notice[w] = "on"
                     THEN [session[s] EXCEPT !.notice[w] = "due"] ELSE session[s]]
    /\ UNCHANGED <<registered, idleOrder, call, unwatching, orphans, late, losses>>

\* resources/subscribe of an own local watch; a due notice stays due.
Subscribe(s, w) ==
    /\ Open(s) /\ registered
    /\ Live(w) /\ watch[w].owner = s /\ watch[w].target = "local"
    /\ session[s].notice[w] = "off"
    /\ session' = [session EXCEPT ![s] =
                     [session[s] EXCEPT !.notice[w] = "on", !.told[w] = watch[w].latest]]
    /\ UNCHANGED <<registered, idleOrder, call, watch, unwatching, orphans, late, losses>>

Unsubscribe(s, w) ==
    /\ Open(s) /\ session[s].notice[w] # "off"
    /\ session' = [session EXCEPT ![s].notice[w] = "off"]
    /\ UNCHANGED <<registered, idleOrder, call, watch, unwatching, orphans, late, losses>>

\* The 100 ms timer: notify the owner of a watch that is still its own.
Notice(s, w) ==
    /\ session[s].notice[w] = "due"
    /\ session' = [session EXCEPT ![s] =
                     [session[s] EXCEPT
                        !.notice[w] = IF Live(w) /\ watch[w].owner = s THEN "on" ELSE "off",
                        !.told[w] = watch[w].latest]]
    /\ UNCHANGED <<registered, idleOrder, call, watch, unwatching, orphans, late, losses>>

\* 30 minutes without a read: the watch goes, a receipt stays.
WatchIdle(w) ==
    /\ Live(w)
    /\ watch' = [watch EXCEPT ![w] = [NoWatch EXCEPT !.state = "expired",
                                          !.owner = watch[w].owner, !.target = watch[w].target]]
    /\ UNCHANGED <<registered, session, idleOrder, call, unwatching, orphans, late, losses>>

\* unregisterWorld: forget the world's watches and subscriptions, tell the client
\* of those it holds, then drop the routes.
Unregister ==
    /\ registered
    /\ registered' = FALSE
    /\ LET held(s) == {w \in session[s].watches : watch[w].target = "client"} IN
       unwatching' = unwatching \cup UNION {held(s) \X {s} : s \in Known}
    /\ session' = [s \in Sessions |-> [session[s] EXCEPT !.watches = {},
                                                         !.notice = [w \in WatchIds |-> "off"]]]
    /\ watch' = [w \in WatchIds |-> IF watch[w].target = "local"
                                    THEN [NoWatch EXCEPT !.state = "gone"] ELSE watch[w]]
    /\ UNCHANGED <<idleOrder, call, orphans, late, losses>>

Register ==
    /\ ~registered
    /\ registered' = TRUE
    /\ UNCHANGED <<session, idleOrder, call, watch, unwatching, orphans, late, losses>>

------------------------------------------------------------------------------
Init ==
    /\ scene \in Scenes
    /\ registered = TRUE
    /\ session = [s \in Sessions |-> NoSession]
    /\ idleOrder = <<>>
    /\ call = [c \in Calls |-> NoCall]
    /\ watch = [w \in WatchIds |-> NoWatch]
    /\ unwatching = {}
    /\ orphans = {}
    /\ late = {}
    /\ losses = scene.losses

\* An agent names a watch it was told of.
NewCall == \E c \in scene.calls, s \in scene.sessions :
    \/ Initialize(s, c)
    \/ \E t \in Targets : Arrive(c, s, "watch", t, 0)
    \/ \E w \in WatchIds, tool \in {"unwatch", "events"} :
          watch[w].owner = s /\ Arrive(c, s, tool, watch[w].target, w)

CallStep == \E c \in Calls :
    \/ Initialized(c) \/ InitializeFails(c)
    \/ Run(c) \/ ClientRuns(c) \/ Answer(c) \/ Expire(c) \/ Respond(c)

SessionStep == \E s \in Sessions :
    \/ Stream(s) \/ IdleTimeout(s) \/ CloseSession(s)
    \/ \E w \in WatchIds : \/ Subscribe(s, w) \/ Unsubscribe(s, w) \/ Notice(s, w)
                           \/ ClientUnwatches(w, s) \/ LoseUnwatch(w, s)
    \/ \E m \in late : RunsLate(s, m)

WorldStep ==
    \/ \E w \in WatchIds : Event(w) \/ WatchIdle(w)
    \/ Unregister \/ Register

Next == (NewCall \/ CallStep \/ SessionStep \/ WorldStep) /\ UNCHANGED scene

Spec == Init /\ [][Next]_sessionVars

------------------------------------------------------------------------------
\* No watch outlives its session: a local watch or receipt has an open owner; one
\* at the client is remembered by its open session, or its creation or removal
\* is still on the way, unless an answer or a removal was lost, the route was
\* dropped, or the watch had expired unread.
WatchesAreOwned ==
    \A w \in WatchIds : watch[w].state \in {"live", "expired"} =>
        LET s == watch[w].owner IN
        IF watch[w].target = "local" THEN Open(s) /\ registered
        ELSE \/ Open(s) /\ w \in session[s].watches
             \/ <<w, s>> \in unwatching
             \/ \E c \in Calls : call[c].phase = "answering" /\ call[c].watch = w
             \/ w \in orphans

\* The caps hold, the active count is the number of calls under way, and an idle
\* session always has the timer that will end it.
SessionsAreBounded ==
    /\ Cardinality(Known) <= SessionCap
    /\ \A s \in Sessions :
           /\ session[s].active = Cardinality({c \in Calls : call[c].by = s})
           /\ Open(s) /\ session[s].active = 0 => session[s].timer
           /\ \A t \in Targets : Cardinality(Owned(s, t)) <= WatchCap

\* A read returns every event after the cursor that was not dropped, oldest
\* first and up to the limit; what was dropped is counted.
RingsAreHonest ==
    \A w \in WatchIds : Live(w) =>
        LET x == watch[w] IN
        /\ x.dropped + x.size = x.latest /\ x.size <= Capacity
        /\ \A since \in 0..x.latest, limit \in 0..Capacity :
               LET first == 1 + Max({since, x.dropped})
                   last  == Min({x.latest, first + limit - 1}) IN
               Read(x, since, limit) = [i \in 1..(last - first + 1) |-> first + i - 1]

\* No event of a subscribed watch goes unannounced: the last notice was of the
\* latest event, or another is due.
NoNoticeIsLost ==
    \A s \in Sessions, w \in WatchIds :
        session[s].notice[w] = "on" /\ Live(w) => session[s].told[w] = watch[w].latest

\* Sessions and watches together: what is owned, what is bounded, what a read
\* returns and what is announced.
SessionsAreAccounted ==
    WatchesAreOwned /\ SessionsAreBounded /\ RingsAreHonest /\ NoNoticeIsLost
==============================================================================

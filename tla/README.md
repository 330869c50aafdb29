# vecs in TLA+

Formal models of vworlds/vecs, an entity-component-system framework with server-to-client
replication, in TLA+: modules translated from the TypeScript source, TLC configurations that check
them on small instances, and theorems that TLAPS proves for every value of the constants.

Two parts of the system carry most of it. The replication protocol (`lib/vecs-server`,
`lib/vecs-client`, `lib/vecs-protocol`) depends on interleavings nobody can enumerate by hand: its
transport loses, reorders and duplicates datagrams, and its two sides keep separate ideas of what the
client holds. The reactive core of the ECS (`lib/vecs`) is one synchronous call tree in which hooks
and callbacks of the application change the world while an earlier change is still being told.

1. [Inventory](#1-inventory)
2. [Modules](#2-modules)
3. [Runs](#3-runs)
4. [Proofs](#4-proofs)
5. [What the models found](#5-what-the-models-found)
6. [What is not modelled, and what is left](#6-what-is-not-modelled-and-what-is-left)

## 1. Inventory

| Component | Source | State | Operations | Modules |
| --- | --- | --- | --- | --- |
| Server session | `vecs-server/src/server_world.ts`, `history.ts`, `sent_frames.ts` | frame counter, a window of `historyFrames` diffs, the newest ack, the baseline in flight, the ring of the last sends, the loss probe, the fallback | `send` (one tick: record, decide between baseline, delta, keepalive and silence), `_receive` (ack, gap report, input, RPC) | `Session`, `AckProtocol`, `Replication` |
| Diffs | `history.ts`, `vecs-client/src/diff_buffer.ts` | snapshots, removals and entity resets of a span of frames | `History.pull`, `merge`, `dropAppliedResets` | `StateDiffs` |
| Client diff buffer | `vecs-client/src/diff_buffer.ts` | a bucket of `MAX_LENGTH` slots and its base, the version (the ack), held optimistic diffs, the gap flag, the version rendered | `push`, `_hold`, `_releaseHeld`, `pull`, `takeGap`, `reset` | `DiffBuffer`, `DiffStream` |
| Client world | `vecs-client/src/client_world.ts` | replicated entities, the attached socket, the ack timer, server requests waiting for `apply` | `connect`, `_receive`, `apply`, `send`, `close`, `attachSocket`, `dispose` | `DiffBuffer`, `Replication`, `ClientLifecycle`, `Connections` |
| Server lifecycle | `vecs-server/src/server_world.ts` | sessions, their `closing` and `closed`, the close frame and its deadline, the grace period, the shutdown promise | `acceptSession`, `closeSession`, `_lingerOrClose`, `_endSession`, `shutdown` | `ServerLifecycle`, `Connections` |
| RPC channel | `vecs-protocol/src/rpc.ts` | pending calls, replies queued and cached, running handlers, the peer's watermark, the epoch | `invoke`, `process`, `getOutgoing`, `setPeerSettledBelow`, `timeoutTick`, `abortPending` | `SessionRPC`, `RpcConnections` |
| Wire codec and messages | `vecs-wire/src`, `vecs-protocol/src/messages.ts`, `cid.ts`, `relationship_snapshot.ts` | the buffer being written, codecs compiled per class | writers and readers of every type, registration and first use of classes | `WireCodec`, `WireTypes` |
| Views and trackers | `vecs-server/src/view.ts` | the DSL of a session's view, the tracker it shares, entered and exited entities | view change, reconcile | as a difference of views in `StateDiffs` |
| Id pools | `vecs/src/util/id_pool.ts`, `world.pools.ts` | bitmap, cached free id, counter, word hint, ring of the reuse wait | `alloc`, `reserve`, `free`, `progress` | `IdPool`, `EidReuse` |
| Entities and relationships | `vecs/src/entity`, `world/`, `modules/relationships.ts` | components, edges, reverse index, depths, deletion scopes, the command queue | `add`, `remove`, `destroy`, edge changes, `defer`, `flush` | `Entities`, `EntityWorld`, `TermGraph` |
| Queries and terms | `vecs/src/dsl.ts`, `vecs/src/terms`, `vecs/src/query` | cached terms, their members and consumers; per query its members, order, buckets and watches | `simplify`, `getTerm`, `subscribe`, `_sync`, `build`, `_enter`, `_exit` | `QueryDSL`, `QueryTerms`, `Terms`, `TermGraph`, `QueryResults` |
| Systems and pipeline | `vecs/src/system.ts`, `world.pipeline.ts`, `timer.ts`, `entity.queries.ts` | per system its inbox and status, dirty bits, clocks | `progress`, `modified`, system callbacks, enable, disable, destroy | `Systems`, `Pipeline` |
| Snapshots and transfers | `vecs/src/snapshot`, `world/world.transfers.ts` | captured subtrees | `snapshotSubtree`, `restoreSubtree`, `moveSubtree` | `Transfers` |
| MCP bridge | `vecs-mcp/src` | links, routers, peers, tables, forwarded requests; sessions, watches, logs | connect, advertise, forward, watch, expire | `Links`, `BridgeSessions` |
| Physics | `vecs-physics/src` | the Box2D world, handles and reverse maps, inboxes, the reaper's queues, buffers of an update | the phases of an update, event publication, poses, impulses | `PhysicsEngine`, `Physics` |
| Dead reckoning | `vecs-phaser-server/src/dead_reckoned.ts`, `vecs-phaser-client/src/modules/dead_reckoned.ts` | baselines and lanes; the client's tracks and corrections | prime, guard, sync, hand-off, extrapolate, blend | `DeadReckoning`, `MotionTracks` |
| RTT estimator, render clock, Phaser, apps | `vecs-server/src/rtt.ts`, `vecs-client`, `vecs-phaser*`, `apps` | | | not modelled (section 6) |

How they interact. The server's systems change components; hooks mark them dirty; `send` runs once
per tick, asks each session's `View` what entered, left and changed, pushes the frame's diff on the
session's `History`, and sends a span of that history, or the whole view, in an unreliable datagram
together with RPC traffic. The client pushes the diff into its `DiffBuffer`, acks the newest frame it
holds every 33 ms, and renders from the buffer at its own pace. The ack moves the start of the
server's next delta, ends the handshake of a baseline and disarms the loss probe. Nothing else is
shared: one session knows nothing of another except through the ECS world. A client outlives its
connections: its buffer's version, its RPC channel and its entities meet the next session, possibly
of another server whose frame counter is lower.

Within an ECS world everything is one synchronous call tree. A change of an entity runs hooks of the
application, moves the entity into and out of terms, and each term tells its consumers, parent terms
and queries, whose callbacks are application code again, free to change the world before the first
change has reached everyone. Deferred mode (systems, queued commands, `world.defer`) turns such
changes into commands that a later drain runs one after the other. Physics, dead reckoning and
replication are systems of such a world, ordered by phases.

What is hard about it, and what makes each part correct:

- A delta is only usable by a client that holds its start, and the server learns what the client
  holds from acks that are late, lost or out of order. With `redundancyFrames` it starts deltas past
  the ack on purpose and has to notice when that guess was wrong. Correct means: no frame is ever
  rejected, the server never believes the client holds more than it does, every loss is watched, and
  the client renders exactly the server's view at the frame it says it renders.
- The history evicts frames in the very push in which the decision about them is made, and a
  baseline's frame does not record component removals, so no delta may span it.
- Entity ids are reused, so a repeated or merged reset must not destroy the successor, and no history
  may hold both the removal of one entity and the arrival of the next with its id.
- Calls are retransmitted until answered, yet handlers must run once, over connections that come and
  go and over ids that repeat.
- A session that closes must be torn down once, after its client has seen the notice and the last
  replies or a deadline has passed; the application must be told the reason of that connection.
- Hooks and callbacks of the ECS re-enter the code that calls them, at points where a term, a query and
  the entity disagree for a moment. Once nothing is in progress each term and query must hold exactly
  the entities that satisfy it, and each query must have been told of each entry and exit once.
- A destroy cascades along relationships while handlers change them.
- A system that runs rarely must hear of every change of what it watches, of none it made itself, and
  of nothing while it is disabled.
- Box2D calls on freed ids are undefined; slots are reused while handles and events of the old object
  are still around.

`PROJECT.json` lists each hazard at its source line, with the properties that cover it.

## 2. Modules

```
Session ------+--- AckProtocol ------------------------ AckProtocol_proofs
              |         ^                                     ^ (instance)
              |         | refines                             |
              +--- Replication --- Replication_proofs --------+
              |        ^                      \
              |        |                       MCReplication
StateDiffs - DiffBuffer - DiffStream

DeadReckoning --- MotionTracks --+
                   AckProtocol --+--- MCAckProtocol

SessionRPC --- RpcConnections --- RpcConnections_proofs
                        \
WireCodec --- WireTypes -+--- MCWire

ServerLifecycle --- ClientLifecycle --- Connections --- Connections_proofs

IdPool --- EidReuse --- EidReuse_proofs

Entities --- EntityWorld --+
              Transfers ---+--- MCEntities

QueryDSL --- QueryTerms --+
Terms --- TermGraph ------+--- MCQueries

Systems --- Pipeline --+------------ Pipeline_proofs
        QueryResults --+--- MCPipeline

Links ----------+
BridgeSessions -+--- MCBridge
        \
         BridgeSessions_proofs

PhysicsEngine --- Physics --- MCPhysics
```

Conventions. A method of the code is an operator of its name, a handler or step of the scheduling an
action. A class whose methods are called several times within one step is a record and its methods
operators from records to records, so that one action can run several of them in a row (`DiffBuffer`,
`SessionRPC`, `ClientLifecycle`, `IdPool`, `Systems`, `PhysicsEngine`). An exception is a value or a field
of the record. Time is a free choice wherever the code consults a running timer: this admits every
schedule of timeouts, including ones a real clock would never produce, so a safety property that holds
here holds for every timeout. History (ghost) variables are named as such where they are declared. Two
independent models may share a run: the variable `half` is fixed at the start and says which of them
moves. Bounds of the model are constants or fields marked as bounds, and stand in the guards.

### Session, AckProtocol

`Session` is one `ServerClientSession` at the level of frame numbers: the fields of the session, of its
`History` as far as it is numbers (`lastFrame`, the frames in the window that have content, the newest
evicted content) and of `SentFrames`. One tick of `_prepareAndSend` for the session is exactly one of
five actions, chosen by the code's own conditions: `SendBaseline`, `SkipEmptyBaseline`,
`AwaitBaseline`, `SendDelta`, `SendNothing`. `ReceiveAck` is `_receive`: `_acknowledge`, then
`_onGapReported` of the same message.

| TLA+ | code |
| --- | --- |
| `NeedsBaseline`, `StartsBaseline` | `_startsBaseline`, including `canPullAfterPush` of the push about to happen |
| `DeltaBase` | `_deltaBase`, `_optimisticBase` |
| `InFallback`, `AckOverdue`, `Healthy`, `FallbackAfter` | `_inFallback`, `_ackOverdue`, `_isHealthy` and what it assigns |
| `KeepAliveDue` | `_keepAliveDue`, with the gate of `keepAliveWhile` |
| `NoteContentSent`, `NoteEmptySent` | `_noteContentSent`, `_noteDiffSent` |
| `evictedContentFrame` | `History.evictedContentFrame`, `-Infinity` as `None` |

`AckProtocol` joins it to a channel and an abstract client, whose version moves to the end of any frame
it was sent. `net` and `acks` are sets from which nothing is taken: a message that is not delivered is
lost, one delivered again is a duplicate, any order is possible. It is the abstract specification of the
handshake, which `Replication` implements. Acks that can no longer matter (`StillMatter`: no gap
report and not past `ackFrame`) are forgotten; `Acknowledge` ignores them whenever they arrive.

### StateDiffs, DiffBuffer, DiffStream, Replication

The data. A component's value is the number of the frame that wrote it (the protocol never looks at
values; absence is 0), a reset is the frame of the removal, and a diff is a record of the four things a
`StateDiff` holds. `StateDiffs` has the fold of `History.pull` (`FoldFrame`, `HistoryPull`), the client's
`merge` (`MergeDiffs`) and what applying a diff does to the client's entities (`ApplyDiff`).
`DiffBuffer` is `push`, `_accept`, `_hold`, `_releaseHeld`, `takeGap` and `pull`, each an operator on a
buffer record; a `throw` sets `failed`, and the client that catches it closes. Its last part joins them
into the client's `_pushDiff`, `apply` and the frame an ack names. The render clock is abstracted to the
number of slots a pull consumes, any from none to all.

`DiffStream` is a client against every stream an honest server could produce: a history of views is
chosen at the start, and any span of it, and any of its baselines, may arrive at any time and any
number of times. It knows nothing of sessions, so it covers servers that choose bases differently, as
long as the marker `optimistic` is honest.

`Replication` is `Session` with the data, the channel and the client. `Record` is what the systems of a
tick did to the view, and `viewAt` (a history variable) remembers the view of every frame, so that
`RenderedIsServerView` can say what the client should show. `RefinesAckProtocol` maps the diffs in flight
to their headers and the buffer's version to the abstract client's. `MCReplication` looks at two
servers, chosen once and for all: `Optimistic` with redundancy, and `Plain` with keepalives and replies
instead. `Background` says that the view also shows an entity that never changes, `BareEntities` that
an entity may stay in it without any networked component.

### SessionRPC, RpcConnections

`SessionRPC` is the channel class. Parameters, results and error codes are left out; a reply is its call
id and, as a ghost, the number of the connection its request arrived on, which is what tells one peer's
call 0 from the next peer's.

| TLA+ | code |
| --- | --- |
| `Invoke`, `TimeoutTick`, `ProcessResponse` | `invoke`, `timeoutTick`, `_processResponse` |
| `IsNew`, `ProcessCopy`, `RejectUnknown`, `StartHandler` | the branches of `_processRequest` |
| `HandlerSettles` | its `.then`: the epoch check, then `_queueResponse` |
| `Outgoing`, `TakeOutgoing` | `getOutgoing` |
| `SetPeerSettledBelow`, `AbortPending` | `setPeerSettledBelow`, `abortPending` |

`RpcConnections` joins the client's one channel with the channels of the sessions it is connected to in
turn. A batch is the loop of `process()`: one action per message, least call id first and requests before
replies (the order in which `getOutgoing` builds a frame). Nothing else of that side happens in between,
except what the handler just started does before its first `await`: a side in `Closers` may then end the
connection. The client's requests wait in `inbox` for `apply`. Whether a request has a handler is the
environment's choice. A frame of an earlier connection is dropped by both sides (client_world.ts:643,
server_world.ts:1389), so `Connect` empties the channel. A session ends abruptly here; its linger is
`ServerLifecycle`'s subject. `Loads` says how many calls each side may issue.

### WireCodec, WireTypes

What calls and frames travel as. A writer puts a sequence of chunks into the caller's buffer; one that
does not fit leaves what did (a varint) or nothing (a fixed width) behind and throws. `WireCodec` has the
writers and readers of every scalar, of tagged values, snapshots, diffs, RPC messages and both frames.
Bytes and varint groups are those of the code; the widths of u16, u32, u64 and of the safe integers are
scaled to 10, 16, 24 and 20 bits, and numbers are counted in quarters, which keeps every boundary and
every comparison between widths. `WireTypes` is the registration of decorated, reflected, tagged and
derived classes and the compilation of their codecs on first use, in two processes that use the same
classes in different orders. The half `wire` of `MCWire` runs beside the calls.

### ServerLifecycle, ClientLifecycle, Connections

`ServerLifecycle` is the life of the sessions of two server worlds: accepted, replicated to, closed
gracefully (the flush with its notice, the linger, the receipt) or torn down at once, and the shutdown
that drives all of them out. A frame is its numbers, the reply and the notice it carries.
`ClientLifecycle` is `connectDgram` and its races with abort and dispose, one attached socket after
another, the ack timer, the pending call, the disconnect events and the reason they report; of the buffer
only `version` is kept, with the world its state is of. `Connections` joins them over links that may lose,
delay, repeat and reorder frames and may fail, each end learning of it on its own. `scenario` says which
events a behaviour may contain. Deadlines are chosen in `Tick`; that a baseline is presumed lost is a
free choice; attaching over a live socket is not produced; a world without sessions is not
ticked; the frame counter saturates at its bound.

### IdPool, EidReuse

`IdPool` is `id_pool.ts` field by field: the bitmap of words, the cached free id, the counter and the word
hint in front of it, and the ring of buckets in which freed ids wait, still reserved. `EidReuse` is a world
around it, and for a server the history of removals its sessions are served from; `wait` is what
`entityReuseWaitFrames` comes to. Entities are created, requested by id and destroyed at any point of a
frame.

### Entities, EntityWorld, Transfers

`Entities` holds the operations on entities with relationships: setting and removing edges with the
traits `Exclusive`, `Traversable` (depths), `OwnedTarget` and the cleanup policies, the reverse index, the
components that are entities themselves, and what a destroy cascades to. `calls` is what is still to run,
innermost first; an operation that calls another puts it before its own remainder, and a handler is a
point where user code may call again (`MaxHooks` times). `EntityWorld` is the application and the
deferred mode with its queue, its drain and the reads of queued edges. Throwing handlers, `With`,
`Requires` and `OneOf`, the eviction of exclusive components, relationship entities that are destroyed and
edges to oneself are left out; consecutive handler points with nothing in between are one;
`Restrained` keeps exit callbacks from re-adding the relationship and handlers from attaching keys.

`Transfers` are `snapshotSubtree`, `restoreSubtree` and `moveSubtree` between two worlds: what is
captured under a policy, an allowlist and external targets, and a restore step by step, where every hook
may throw or, once per task, change either world. A deep copy is a verdict on each value (`Opaque` cannot
be copied).

### QueryDSL, QueryTerms, Terms, TermGraph

`QueryDSL` has expressions, their meaning (`Eval`), `simplifyQueryDSL` as the cache key, and the analysis
of diamonds that decides which subtrees become one predicate. `QueryTerms` is the term cache for every
kind of expression: composite, negated, exact, predicate and relationship terms, refreshes, and the life
of a term from its first query to its last; nothing re-enters there. Test functions read one component.

`Terms` and `TermGraph` are the `all`, `any` and `not` terms under re-entrant callbacks. The call stack is
the variable `stack`, whose first element is the innermost call: a hook or callback of the application, a
delivery to the consumers of a term (`emit`), a backfill, a destruction, a deferred scope, a flush, the
drain. While application code is on top it may call the world (`UserStep`) or return (`UserReturns`);
`WorldStep` is everything else, each action what happens up to the next point where another callee takes
over.

| TLA+ | code |
| --- | --- |
| `TermAdd`, `TermDelete`, `Sync`, `Matches` | `_add`, `_delete`, `_sync` and `_matches` of the terms |
| `StageAdded`, `ComponentAdded`, `ComponentRemoved`, `Subscribe` | `ComponentTerm`: members before their hooks, and who saw them |
| `BuildTerms`, `AddTerm` | `getTerm`, `_setChildren`, `_initializeFromWorld` |
| `AttachComponent`, `AddHookReturns` | `_set`, `_storeRaw` up to and after the add hooks |
| `DetachComponent`, `CallRemoveHook` | `_remove`, `_detachSlot` |
| `Build`, `Backfill`, `QueryEnters`, `QueryExits`, `ExitReturns` | `Query._build`, `_backfill`, `_enter`, `_exit` |
| `Deferred`, `EndDefer`, `Flush`, `Drain` | `deferred`, `endDefer`, `flush`, `_processCommandQueue` |
| `balance` (ghost) | the enter callbacks minus the exit callbacks a query was given |

`_emit` visits a JavaScript `Set`, which includes consumers that subscribe while it is iterated: `Deliver`
goes by index over `consumers`, whose end may move. What the application is like is chosen at the start
from `Applications` (MCQueries: hooks that remove, hooks that add, deferred mode only); section 5 says
what goes wrong for others.

### Systems, Pipeline, QueryResults

`Systems` routes a change of a component to the inboxes of the systems that watch it, and has the world's
tick sources, `timer.ts`. `Pipeline` are the frames: each system drains its inbox at its cadence, and what its
callbacks ask for is applied before the next one; callbacks and the application change components,
create, disable and destroy systems and stop clocks, and run callbacks may throw. `silence` of the code,
the mark that a system does not hear of its own writes, is `Ignores`. The commands of a turn are flushed
together; only living entities are changed and only components they have are marked modified.
Recursion is by recursive functions (`ApplyAll`, `Backfilled`, `PipelineOf`, and `EvalTick` along a chain of tick
sources), so that the modules can be proved about. Intervals are stopped and started, rates are not.
What a system hears when it is built depends on itself and on the entities only, so `BuildPending` builds each
pending system for itself.
`QueryResults` is what a standalone query makes of its membership: a sorted list, buckets, watches, and
callbacks with the data they ask for; `adrift` (ghost) marks members whose order the code does not keep
(section 5).

### Links, BridgeSessions

`Links` is the topology of the MCP bridge: routers, links that connect, shake hands, break, reconnect
and close, whole-table advertisements, peers that are mounted, and requests forwarded by path until they
are answered, time out or lose their way. Heartbeats are the choice that a link breaks.

`BridgeSessions` are the MCP sessions of one process with the watches they own, on a local world and on a client
tunnelled through it. A command that `dispatchClient` gave up on after its 10 s may still be on its way (`late`): the
client runs each in a macrotask of its own, so it may do so after the caller has its error, or never.

| TLA+ | code |
| --- | --- |
| `Initialize`, `Initialized`, `InitializeFails` | a POST without a session id: the place is reserved, the longest idle session evicted |
| `Arrive`, `Run`, `Respond` | `_handle` up to the handler of a tool, that handler, the `finally` |
| `ClientRuns`, `Answer`, `Expire` | `dispatchClient`: the command, its result, the 10 s |
| `Command`, `RunsLate` | the envelope of a command given up on, and the handler of `installBridge` that runs it later |
| `Touch`, `Places`, `LongestIdle` | `_touch`, the insertion order of the sessions, the eviction |
| `Release`, `Disposed` | `_disposeSession` |
| `Appended`, `Read` | `_append` and `read` of a watch's ring |
| `orphans` (history) | watches whose owner was never told of, or that were never told their owner is gone |

### PhysicsEngine, Physics

`PhysicsEngine` begins with Box2D as vecs-physics uses it (slots with generations, the cascade of a body's
destruction, contacts and their events; a call that names a freed id sets `stale`), and has what the
handlers of vecs-physics do to it and to the tables beside it. `Physics` are the entities, the
inboxes of the physics systems, and the phases of an update, with three windows for user code: before
preStep, between preStep and cleanup, and between step and postStep. `Liberties` names what user code is
allowed beyond the disciplined cases (section 5).

### DeadReckoning, MotionTracks

One entity on a line. `DeadReckoning` is the server: a tagged body ships a baseline that clients
extrapolate, an untagged one its pose; user code has four places in a frame. `MotionTracks` is a client that
applies the frames on time or late, draws the entity on the path of its newest baseline or at its
streamed pose, and blends what it drew before into what it draws now. `MCAckProtocol` joins the two with
`AckProtocol` as halves of one run, with five stories of a body.

## 3. Runs

Each run asks one question of one part, except that an independent smaller model may share the run of a
larger one. What a property says in full is in the comment before its definition.

| Run | Modules | Instance | Properties |
| --- | --- | --- | --- |
| `ack_protocol` | `AckProtocol`, `MotionTracks` | history of 3 frames, redundancy 2, keepalives every 2 frames with a gate, frames 3 to 6; five stories of a body over 4 frames | `TypeOK`, `NoProtocolError`, `NoDeltaSpansBaseline`, `AckIsHeld`, `UnackedContentIsWatched`; `PosesStayTrue`, `CorrectionsFade` |
| `diff_stream` | `DiffStream` | one entity, one component, a bucket of 3, 2 held diffs, five frames, a baseline at each of them | `StreamFollowed`, `NeverGoesBack` |
| `replication` | `Replication` | history 2, a bucket of 2, 1 held diff, five frames; two servers: redundancy 1 with a view that is never empty, and keepalives and replies with a view that may become empty | `ClientFollows`, `RefinesAckProtocol` |
| `rpc_calls` | `RpcConnections`, `WireTypes` | two calls of the client, or of its sessions, or one of each, two connections, two frames in flight each way, server handlers that may end the session; every scalar and frame at the edges of its widths, two buffer sizes, two processes | `HandlerRunsOnce`, `RepliesAreWanted`, `NoPendingCallIsStale`; `CodecHolds` |
| `rpc_settles` | `RpcConnections` | two calls, one connection, one frame in flight each way | `CallsSettle` |
| `queries` | `QueryTerms`, `TermGraph` | expressions over 3 components; pairs of 20 queries over 2 entities; three kinds of application with 6, 5 and 5 calls | `KeysAreSound`, `MembersAgree` |
| `connections` | `Connections` | two worlds whose frame counters are far apart, two sockets, scenarios with at most two ticks before the notice | `ReceiptMeansDelivered`, `ResourcesAccounted`, `LossIsToldTruly`, `EachConnectionRebuilt`, `ConnectionsSettle` |
| `eid_reuse` | `EidReuse` | ids 1 to 4 in words of 2, a history of 2 frames | `PoolInv`, `RemovalLeftHistory` |
| `entities` | `EntityWorld`, `Transfers` | three entities, a key, three relationships, one handler that calls back; a subtree of four, 3 calls, one throw or change per task | `GraphAgrees`, `CascadeComplete`, `PendingReadsHold`; `TransfersHold` |
| `systems` | `Pipeline`, `QueryResults` | 2 entities, 2 components, 4 systems, 3 tick sources, a backlog of 8; five standalone queries | `HeardAgrees`, `NoWriteIsLost`, `NoEcho`, `ClocksAgree`; `ResultsHold`, `ExitsSeeWhatWas` |
| `bridge` | `Links`, `BridgeSessions` | seven plans of at most three processes; four scenes: 3 sessions with 2 calls and a watch, and with 1 call of which the command is given up on; 2 sessions with 2 calls of which one command is, and with 1 call, 2 watches, 3 events and a command given up on; 2 sessions and 1 watch each at most, rings of 2 | `TopologyIsTrue`, `RequestsSettle`, `SessionsAreAccounted` |
| `physics` | `Physics` | seven scenes of two or three entities, 2 updates | `EngineMirrorsWorld`, `EventsReachOwners` |

What they show, part by part.

*Replication.* A client of this server never rejects a frame, whatever the channel did
(`NoProtocolError`, `NeverClosed`). The server never believes the client holds more than it does
(`AckIsHeld`); no delta starts before a baseline and ends behind it (`NoDeltaSpansBaseline`); while the
newest content sent is unacked the loss probe is armed, on content that is itself unacked
(`UnackedContentIsWatched`). `ClientFollows` joins: after any delivery and any `apply` every entity has
exactly the components it had in the server's view at the frame the buffer says is rendered
(`RenderedIsServerView`), and no entity of the client outlives the reset of its id (`NoStaleEntity`);
`StreamFollowed` is the same of a client against any honest stream.
`NeverGoesBack`: an entity is only destroyed by a reset that is not older than itself, and the client moves
back only to rebuild from a baseline.

*RPC.* A handler starts at most once per call and connection. Every reply that is queued, cached or
travelling answers a call of this peer and not an earlier one's of the same id, and nothing is kept below
the watermark (`RepliesAreWanted`). No side's idea of the other's watermark passes a call that still
waits: a call it passed would be ignored until its timeout. `CodecHolds`: what was written is read back,
a buffer that was too small is an error and not a wrong value, and both processes agree on what a class
looks like. Settling is under Fairness.

*Queries.* `KeysAreSound`: a simplified expression selects the same entities, is its own simplification unless a
component is named twice, and does not depend on the order of operands that sort apart. `MembersAgree`: whenever nothing is in progress each term holds exactly the entities that
satisfy its expression, each query was told of exactly those, at no time has it been given a second enter
or an exit without an enter, and an entity is staged only while the add hook of that very attachment runs.

*Connections.* A closing session ends by a receipt only if its client has handled the notice and the
replies it was owed (`ReceiptMeansDelivered`). No socket is left open for nobody, and a world that shuts down
has closing sessions only, and none at the end (`ResourcesAccounted`). A lost connection is reported once, with
the reason of that connection, and its pending call is settled (`LossIsToldTruly`). Each connection is rebuilt
from a baseline of its own, adopted whatever its frame number and merged with nothing of an earlier one
(`EachConnectionRebuilt`).

*Ids.* Bitmap, cached id, counter, hint and ring agree, and an id handed out is free (`PoolInv`); an id is
shown again only when the frame that removed its last entity has left every history (`RemovalLeftHistory`).

*Entities.* Whenever no operation is in progress the reverse index mirrors the edges, nothing living refers
to anything dead, and depths are distances to the root (`GraphAgrees`); a destroy reaches what its relationships
declare, in one deletion scope, and nothing else (`CascadeComplete`); the reads of queued edges agree with
each other and with what the drain makes of them (`PendingReadsHold`). `TransfersHold`: a transfer is whole or
has not been, and no edge leads out of its world.

*Systems.* What a system hears is a history of its members, of them only, and only while it is enabled
(`HeardAgrees`); it hears of every write by a caller it listens to (`NoWriteIsLost`) and of no update made by one
it ignores (`NoEcho`); a source hands out all the time that passed since it last ticked, and an interval does not
drift (`ClocksAgree`). `ResultsHold`: sorted, cascading and bucketed results are
those of the data at every reading, and every update that is watched was told. `ExitsSeeWhatWas`: an exit callback
is handed the data the entity had.

*Bridge.* Destinations, peers and tables of the routers are true to the links that hold them, at every moment
as far as they must and entirely once nothing is under way (`TopologyIsTrue`); no request is forgotten, and none is
run by another world than it names (`RequestsSettle`); sessions and watches stay within their caps, no watch
outlives its session, and its log and notices account for every event (`SessionsAreAccounted`).

*Physics.* No call names a Box2D object that is gone, and when the world is about to step its bodies, shapes and
joints are one for one those of the components, with their flags and reverse maps (`EngineMirrorsWorld`); an
entity is told of a contact or a visit only when a shape of its own had it in this very step, and of every one
that began; poses and impulses go to their own bodies (`EventsReachOwners`). *Dead reckoning.* What is shipped
and what a client that has caught up draws stand for the pose of the body (`PosesStayTrue`); a correction is drawn
where the old path led and fades out (`CorrectionsFade`).

### Bounds

Each is a constant of the `.cfg`, or a definition of the MC module, and stands in the guards.

- Frames. With a history of 2 or 3 frames five ticks are enough for content to be recorded, evicted
  unacked, rebuilt by a baseline and superseded by another, and for the ring of the sends to wrap.
  `MaxChanges` of `MCReplication` bounds the frames in which the view changes: three let an entity enter,
  change and leave, or leave and return under the same id. `MaxLength` is the code's 3 in `diff_stream` and 2 in
  `replication`, `MaxHeldDiffs` 1 or 2 instead of the code's 8, so that compaction and the full held set
  happen within the frames there are. One entity and one component suffice for the merge because no
  operation relates two entities, or two components of one entity, except the reset, which relates an
  entity to its components. The theorems of section 4 need none of these bounds.
- Calls. Two calls are needed for a watermark to pass one call while another waits, and two connections
  for an id to return. Later sessions issue one call less than the first. A sender loses any of the
  earlier frames to make room for another, and two in flight are enough for reordering.
- Applications. An add, what its hook does, what a callback does to another entity and the same again on
  the way back are four calls, and building a query in between is one more; two entities and two components
  are enough for an event to overtake another and for a composite to have a stale child.
- Connections. Two sockets are one reconnect, after which everything an earlier connection left behind
  has met the next one. Which sequences of events can occur in one behaviour is cut into scenarios because
  their product is out of reach.
- Ids. With words of two ids the pool of four has full, empty and mixed words on both sides of the
  hint; a wait of two frames wraps the ring within three.
- Entities. Three are a parent, a child and a grandchild, or two owners of one target. One handler that
  calls back reaches every point between two steps of an operation; the second call finds the state the
  first one left.
- Systems. Two systems on each side of a change, with different cadences and one that disables or destroys
  another, and three sources of which one ticks from another.
- Bridge and physics. Plans and scenes name the situation they are for; each plan lets its links break and
  reconnect once, each scene of physics has two updates, since everything that is deferred is done in the next
  one. Two scenes have enough sessions to evict one, while a call of another is answered or a command of its own
  is late; in one, two calls cross with a command given up on; in the last a second watch meets the cap of one, and three
  events overwrite one of a ring of two. `SessionsAccounted` needs
  none of these bounds.

`CHECK_DEADLOCK FALSE` is set where the bounds on frames, calls, connections or updates end every
run; `eid_reuse` and `systems` are checked for deadlock.

### Fairness

The replication runs check safety only and state none: recovery needs bounded losses and the timers.

`rpc_settles` assumes strong fairness of `ClientSends` (the ack timer) and of `ServerSends` (the tick), which go
on as long as their side is up, a running batch only delaying them; weak fairness of the server's batch,
a synchronous loop; strong fairness of each handler's settling, which is the application's promise and
not the code's; and per call strong fairness of delivering a frame with its request, one with its
reply, and one with a watermark above it: the channel may lose any frame, but not all of those sent over and
over. Neither connection has to last: `EveryCallSettles` asks only that the call settles or the session ends,
and `RepliesAreForgotten` that the cached reply goes once the client's watermark gets through.

`connections` assumes weak fairness of the tick that ends a linger or a wait (the application's loop goes on; the
deadline it consults passes) and of the end of a shutdown, of each end noticing that its link is down (the transport's promise), of the end of a call
and of the ack timer; and strong fairness of the arrival of baselines and acks of a link that stays up.
`ConnectionsSettle` is then: a session that began to close ends, and a client that stays connected
gets its baseline acknowledged.

`ack_protocol`'s `CorrectionsFade` is an action property, and needs none.

## 4. Proofs

TLAPS checks the theorems below for every value of the constants that the named assumptions allow. An
invariant was checked with TLC, on the instance of a run, before it was proved. The proofs have one step per
action of `Next`.

| Module | Theorem | What it states |
| --- | --- | --- |
| `AckProtocol_proofs` | `TypeCorrect` | `[]TypeOK` |
| | `FramesAreAcceptable` | `[]NoProtocolError` |
| | `BaselineAckIsProof` | `[]BaselineInFlightIsNewest` |
| | `DeltasStopAtBaselines` | `[]NoDeltaSpansBaseline` |
| | `AcksAreTruthful` | `[]AckIsHeld` |
| | `LossesAreWatched` | `[]UnackedContentIsWatched` |
| `Replication_proofs` | `PushIsSound` | `push` of a message that is true keeps a true buffer true, and raises no error |
| | `PullIsSound` | the fold of `History.pull` over any span of a true window is a true diff of that span |
| | `ApplyPullIsSound` | applying what a true buffer hands out turns one view into the later one |
| | `StreamIsFollowed` | `[]StreamFollowed` |
| | `StreamNeverGoesBack` | `NeverGoesBack`, an action property |
| | `ImplementsProtocol` | `Replication` implements `AckProtocol`'s `Spec` |
| | `ClientIsTrue` | `[]ClientFollows` |
| `MCReplication` | `BothClientsAreTrue` | `[]ClientFollows` of the run's two servers |
| | `OptimisticServerConforms` | the run's `RefinesAckProtocol` |
| `RpcConnections_proofs` | `TypeCorrect`, `ChannelsCorrect` | types, and what a channel's tables have to do with each other |
| | `PendingCallsNeverStale` | `[]NoPendingCallIsStale` |
| | `SettledCallsForgotten` | `[]NothingKeptForSettled` |
| | `SessionRunsOnce`, `HandlersRunOnce` | `[]HandlerRunsOnce` |
| | `RepliesStayWanted` | `[]RepliesAreWanted` |
| `EidReuse_proofs` | `PoolAlwaysAgrees` | `[]PoolInv` |
| | `NoHistoryShowsBoth` | `[]RemovalLeftHistory` |
| `Connections_proofs` | `SocketsAndSessions` | `[]ResourcesAccounted` |
| | `LossesTold` | `[]LossIsToldTruly` |
| | `ReceiptsAreTrue` | `[]ReceiptMeansDelivered` |
| | `ConnectionsRebuilt` | `[]EachConnectionRebuilt` |
| `BridgeSessions_proofs` | `SessionsAccounted` | `[]SessionsAreAccounted` |
| `Pipeline_proofs` | `SystemsInductive` | `[](IInv /\ SaidOK)`, the inductive invariant below |
| | `SystemsHearTheirMembers` | `[]HeardAgrees` |
| | `WritesAreNotLost` | `[]NoWriteIsLost` |
| | `NoUpdateEchoes` | `[]NoEcho` |
| | `ClocksAreRight` | `[]ClocksAgree` |

### AckProtocol

Assumed are `SessionAssumption` (at least two frames of history, and less redundancy than history: what
the constructor of `ServerWorld` enforces) and `MaxFrameAssumption`. None of the properties is inductive.
`HandshakeInv` strengthens the first five: it orders the frame numbers (`Ordered`: nothing in the session, the
ring, the channel or the client is ahead of `lastFrame`), says that each ack in flight names a frame the client
holds (`AcksAreHeld`), that the flags `needsBaseline`, `resyncFrame` and `baselineAcked` are in one of the
states the handshake allows (`Handshake`), and that once a session holds a baseline everything older in flight
ends at or before it (`BaselinesSettle`). The step that needs all of it is the ack of a baseline: it is proof
that the client holds the baseline only because no other frame in flight ends that high.

`ProbeInv` strengthens the last: the history's window is exact (`Window`: content frames are the ones the
history still has), the entries of the ring are ordered and the newest of them is the newest content sent
(`Ring`), and an armed probe is on a frame that was sent (`ProbeIsSent`). Without `Window` the eviction could
skip over content the ring still names.

### DiffBuffer, DiffStream, Replication, MCReplication

The data of the protocol, all in `Replication_proofs`. A diff is true of a history of views if it covers every entity (`CoversAt`): what it
says of an entity, applied to the entity as it was at the start of the span, gives the entity as it was
at the end. A buffer is true (`BufferInv`) if each of its slots is (`Chain`, `BucketInv`), the slots follow each
other, and everything held back is true from where it starts. `PushIsSound` goes through the cases of `push`:
a baseline, a frame that is older than the buffer, one that overlaps its end, one that is too far ahead and is
held, and what a filled gap releases, including the compaction of the last slot. `History.pull` and the
release of held diffs are recursive functions; since induction principles are out of reach, their lemmas
take the least frame at which the claim would fail and show that it does not, which needs the well-ordering of
the naturals only.

Its first part ends with a client alone, `DiffStream`: `StreamInv` says that the buffer is true of the
history and not ahead of it, that the world is the view of the frame it renders, and that no entity of the world is
older than the last reset of its eid (`NoneStale`). That the recorded histories are histories of views at all is a
claim about a recursive function (`HistoriesAreHistories`), again by the least counterexample. The action
property needs `Apply` alone: `ApplyPullIsSound` says that what it hands out goes forward, and that an
entity changes its birth only if a frame in between reset its eid (`ApplyKeepsFresh`).

Then comes the refinement: every step of `Replication` is a step of `AckProtocol`, or
a stutter, under the mapping of the diffs to their headers and of the buffer's version to the abstract
client's. So its steps inherit `HandshakeInv` and `ProbeInv`. `ClientIsTrue` then adds `DataInv`: the window of the
history tells the truth about the frames after the newest baseline (`WindowInv`), each message in flight is a
whole view or covers everything since its start (`ChannelInv`), and the buffer is true and the client's
world is the view of the frame it renders (`RenderInv`). The step where they meet is a delta: its start is a frame
the client holds (`AckProtocol`), so the diff, which is true from that frame on (`PullIsSound`), keeps the
buffer true (`PushIsSound`). The theorem covers any number of entities and components, every history, any
redundancy and bucket length, and any way to lose, repeat and reorder.

It assumes `Background \/ ~BareEntities`: that the view is never empty, or that an entity leaves it with
its last networked component. Without this `ClientFollows` is false (section 5, the withheld baseline).
`MCReplication` instantiates the theorems for the two servers of its run.

### RpcConnections

The invariants are those of two parties that share only message contents. `Watermarks` ties what a side
believes of the other's oldest waiting call to the calls that really wait: nothing in flight, in an inbox or
in a batch claims more. `ServerInv` says which calls of the present connection a session has seen, in which order,
and that it has started none it has not seen (`OrderInv`, `ServerIsCurrent`, `ServerStartsSeen`); `ClientInv` is
its counterpart for the client, whose channel outlives connections, so that a started handler is recorded with its
connection (`ClientIsCurrent`, `BatchIsCurrent`, `ClientStartsSeen`). `HandlersRunOnce` and `RepliesStayWanted`
assume that `"client"` is not in `Closers`: a client handler that closes its client in the middle of a batch
breaks both (section 5).

### EidReuse

For every size of pool and word, and every history. `PoolIndInv` ties the counter, hint and cached id to the bitmap
(`FrontOK`), the buckets of the ring to the ids that are used by nobody and still reserved (`RingOK`,
`ReservedIsUsed`, `BucketsApart`) and both to the living entities (`WorldOK`). `HistoryInv` adds that an id whose
removal a history still shows is in one of the buckets that come up later than that history reaches.

### Connections

The first two theorems assume nothing beyond the shape of the constants: any worlds, connections and events, in any
order. `LifeInv`
ties the four places that know of a connection: the link, the session, the client and the frames under way. A
link is being opened for the client that waits for it and for nobody else, and is up only while its session lives
(`SocketInv`, `LinkInv`); a close notice under way is the one its session flushed and keeps (`NoticeInv`); and what
was reported is of a connection that is over and of a session that gave that reason (`LossInv`), so that nothing is
reported again for the connection that follows. The effect of each operation on a session or a client is a lemma
of its own (`ClosingIs`, `EndedIs`, `DisconnectEnds`, ...). A step of the client that opens no connection is a
`ClientMove`, one of the servers a `ServerMove`; that these two preserve the invariant is proved once
(`ClientMoves`, `ServerMoves`), and each action is shown to be one of them or, where it opens a connection, has a
step of its own.

A server knows a frame by its number alone, so the other two theorems have hypotheses about clients that change worlds
(scenarios with `"switch"`); of a client that stays with one world they ask nothing. `Apart`: the numbers two such
worlds hand out do not meet. Otherwise the ack of a frame of the first world may pass for the receipt, or for the ack
of the baseline, of the second (section 5). `OnlyLost`, for `ConnectionsRebuilt`: no session of such a client is
closed by its server, since a receipt frame may give a version to a client without a baseline, and the first baseline
of the next world is then compared with that version (section 5). The constants of the run satisfy both: its worlds
start at 9 and 1 and number at most two frames, and its scenario with a change of worlds has no close.

`ReceiptsAreTrue` goes through `DeliveryInv`. At its centre is `SaidInv`: whatever a session may still count as an
ack (what it has counted, what is under way, and what a client that is not done with it would say, also before its
first frame) is a number it ignores, or one it sent, and if it reaches the receipt frame of a closing session then the
client has handled that frame. That needs the numbers of the frames in order (`NumberInv`), receipt frames newer than
all others of their session and carrying the reply that is owed (`FrameInv`), the version of the client to come from
a world it was connected to (`VersionInv`), and a reply that was owed to have been taken (`CallInv`, `ReceiptInv`).

`ConnectionsRebuilt` adds `RebuiltInv`: when a session waits for the ack of its baseline and what it has heard until
then (`ResyncInv`); that a client whose state is not of its connection will adopt the next baseline whatever its
number (`StateInv`); that deltas go only to a client that has adopted the baseline of their connection, and start from
a frame it has (`OpenInv`, `DeltaInv`). The step all of it is for is the ack that ends the wait for a baseline: until
the client has a baseline of this connection, every ack the session can count is no newer than the one it counted
first, and its baselines are newer (`PaceInv`).

### BridgeSessions

`SessionsAccounted` holds for any number of sessions, calls and watches, for every cap, for rings of every size and any
number of commands given up on, run later or never; `BridgeAssumption` is the shape of the constants, with the calls a finite set, so that those of
a session can be counted. Of the four parts of the property only `NoNoticeIsLost` is close to being inductive.

`Counted` strengthens the bounds on sessions. The active count of a session is the number of its calls (`CallsOf`); a
session that is being opened has one call, which opens it; an open session that is idle has its timer and stands in
`idleOrder`. So the session that makes room for a new one is an idle one (`LongestIdleIsIdle`): what it leaves behind
has no call that could still start something for it, and the cap stays. `AnswersAgree` says that an answer under way
names a watch of the session that asked or one that is gone, and `NoticesFit` that a session is told only of watches there are or were.
`RingsTrue` is what a ring holds: the newest events in their order, at the places counted from its start
(`AppendKeepsRing`, whose arithmetic of places is `PlacesAround`). That `Read`, a recursive function, then returns
every event behind the cursor that was not dropped is `ReadIsHonest`: the least length at which it would not does
not exist.

A watch may do few things in a step: nothing, go, leave a receipt, take an event, or be created below the cap of its
owner (`WatchesMove`). `StepMovesWatches` shows this once of every action, and types, rings and caps of the
watches follow from it alone. What is left of a step is `Kept_IInv`, a lemma for each action. Who answers for a watch
is `Accounted`; `AccountMoves` is what a step has to show of the sessions, answers and removals for it to be
kept.

### Pipeline

The first three theorems hold for any finite sets of entities and components, any systems, whatever they require, watch, ignore
and call back, any order of the pipeline, any tick sources, and applications that make any of the calls there are,
between frames and in callbacks, and throw where they like. `SystemsAssumption` asks that a system requires something (one
that matches nothing has no members, one that matches everything is not modelled), and that a component it hears of on
entry or removal is one it has an update callback for, which is how the code fills both lists; `PipelineAssumption` is
the shape of the order and of the calls.

`SystemsInductive` has the invariant. `Typed` and `Scoped` say what belongs to the system whose turn it is: a queue, a
place in its inbox, the entities whose stale entry was kept from it, and that everything in the queue is credited to it.
`Histories` is the first half: for a system that was never disabled, what its callbacks were told so far, continued
with the events of its inbox from the place it has reached, alternates and ends at its members (`Follows`). It is
not enough to say this of an empty inbox, as `HeardAgrees` does, because a callback in the middle of an inbox
changes entities, and the system hears of them behind what it has not drained yet. `Debts` is the second half. A
component that is dirty has a notification that is still to be applied (`DirtyIsComing`), and an update a system is owed
is in its inbox at a place not yet reached, or waits in the queue with no removal and no destruction before it, while
the entity is a member and has the component (`StillToHear`).

The heart is what one change does to the world (`Apply`, by kind: `ApplyHeeds`, `DirtyStaysComing` and the lemmas
around them) and then what a whole queue does (`ApplyAll`, a recursive function, again by the least prefix at which the
claim would fail). A flush first builds what is pending, then applies: a system that is built hears of its members
of that moment (`Backfilled`), so its history starts there. The steps of a frame are each a lemma over these.

`ClocksAreRight` is about the same steps and needs nothing of the above. Its invariant, `ClockInv`, is a balance:
the time since a rate last ticked is what its upstream has handed it and what its upstream, not having ticked, has still
to hand on (`Residue`); for an interval it is what the interval gathered. The balance holds because a
frame evaluates each source once, and its upstream before it, whoever asks first (`Sound`, `EvaluatedIs`): without the
mark a source would take the same frame twice. `EvalTick` and `Top` are recursive along the chain, of whatever length;
that they have a value, and that what fails for no source before its upstream fails for none, is by the length of the
chain, which `TimersAssumption` bounds: a source is built from its upstream, which is never replaced
(`timer.ts:130-132`), so chains end, and registering a source registers its upstream (`timer.ts:188-191`). That an
interval does not drift is arithmetic of remainders (`RemainderOfSum`, `RemainderOfDifference`). The
calls of the model stop and start intervals only: a rate always runs.

### What is only model-checked

Liveness (`CallsSettle`, `ConnectionsSettle`) and what speaks of `ENABLED` are out of the prover's reach, and so are
the modules with `RECURSIVE` operators: the wire, the query DSL and its terms, the entities' relationships and
transfers, dead reckoning. What a standalone query returns (`ResultsHold`, `ExitsSeeWhatWas`) is checked on the run
`systems` only. Of the bridge the topology (`TopologyIsTrue`, `RequestsSettle`), and physics, could be proved about and
are not: they are checked on the instances of section 3 only.

## 5. What the models found

The properties hold on the instances above. What follows are places where the code does something that the
models were kept away from, by a constant or a guard that names the case; each was met while modelling, and
says where the code and its documentation or comments part. None is a run.

**Replication**

- A withheld baseline (server_world.ts:1110). A first baseline that is empty is not sent, because "until the
  client has acked a baseline it holds nothing". But `baselineAcked` is also false while a first baseline is
  delivered and its ack is late. If that baseline is presumed lost in a frame in which an entity that
  stays in the view loses its last networked component, the rebuilt baseline is empty and skipped;
  `resyncFrame` still names the first baseline, its late ack completes the handshake, and the deltas that
  follow never carry the removal. The client keeps the component until the entity leaves its view.
  `BareEntities = FALSE` or `Background = TRUE` excludes it.

**RPC**

- A handler that closes its client (client_world.ts:854). `_pull` hands the whole inbox to `process()`, whose loop goes
  on after a handler has closed the client. `_handleDisconnect` empties `_rpcInbox`, so that queued requests "never
  run on a later" connection, but this batch has left it already. The requests behind the closing one run on a
  channel that has forgotten the peer, and their replies wait for the next peer, whose call of the same id they
  would answer. `Closers` has no `"client"` for this reason.

**Connections**

- A reconnected client acks its old world's version until the first baseline arrives. `_acknowledge` takes any ack
  between `resyncFrame` and `lastFrame` as the baseline's (server_world.ts:1464, against the comment at 1447-1450),
  so deltas may be merged into the old state when the baseline was lost. The worlds of the run count frames far
  apart.
- `_lingerOrClose` (server_world.ts:1582) sends a delta from `max(ackFrame, 1)` that is not marked optimistic before
  a baseline is acked; a reconnected client refuses it as a protocol error (against 1573-1576).
- `_handleDisconnect` forces the next baseline only if one was applied (client_world.ts:1068). The receipt frame of
  a session closed before its baseline arrived starts the empty buffer at its number; if the next world counts lower,
  its first baseline is skipped as stale (765) and its acks are ignored until the counter passes that number, against
  the comments at 761-764 and 1065-1067. The scenario in which the client changes worlds has no server-side close.
- A late reply that joins the flush frame is lost when the ack of the frame's first copy ends the linger; a reply
  sent once and lost before `closeSession` is not owed any more.

**Ids.** `_lowest` is not always the lowest free id. A `progress()` that throws before its Send phase advances the ring
without a frame. With a destroy between frames the removal leaves the history only in the very push that shows the
successor, which is just enough.

**Terms and queries.** The documents let hooks and callbacks change the world, also the entity they were called
for, and promise one enter and one exit. `Applications` lists the disciplined ones; beyond them:

- An add hook that changes another component of its entity makes composite terms look at the entity while it is
  staged (component_term.ts:180). What they conclude is not recorded in `_stagedSeen`, so a removal within the same
  hook is not told to them: `any(A, B)` keeps an entity that has neither.
- `_emit` goes on with its event after a callback undid it (term.ts:354): later consumers get the exit first and the
  enter last.
- `_exit` forgets the entity after its callback, and with it what the callback added (query.ts:737). A query built in
  the middle of a delivery is backfilled and then visited by that delivery (world.deferred.ts:152). While an add hook
  runs the composite terms do not agree with the staged membership, which a comment says they do
  (world.queries.ts:46).
- `{target: [R, R]}` and `{parent: ChildOf}` beside it share a child, and `_fanOut` tells it from the other by
  `child === this._children[0]` (target_term.ts:85-91): stale members.
- `{any: [{only: [A]}, B]}` on an entity with A and B: the removal of B tells an exit and then an enter (against
  term.ts:337-344 and build.ts:22-33).
- `any: [A, A]` simplifies to an `any` of one operand, which simplifies again (dsl.ts:523-546, against 430-441). Keys
  depend on the order of operands whose sort keys tie, and duplicates are kept (about dsl.ts:626). Diamonds through
  `target` are not collapsed. `world.getTerm` without a subscription leaves a term without consumers.

**Query results**

- Orders of `cascade` and `orderBy` are only refreshed through `_notifyModified` (`OrderedSet`), so a re-parented entity
  keeps its place (against docs/relationships.md, about 516, and docs/systems.md, about 452); the default pipeline is
  such a query. `adrift` marks these members. `orderBy` over `{target: [R, C]}` watches R only (inject.ts:365).
- The `targets` injection of an exit callback may read storage that was cleared (against docs/systems.md:376-391).

**Entities.** The queue [destroy K, attach x K] leaves x with a component whose entity is destroyed: `_set` asks only
whether x itself is (against the comment at lifecycle.ts:195-202).

**Transfers**

- A custom relationship with the trait `Exclusive` takes the branch of `_addTarget` for an existing edge with
  `previous = null`, and target-remove handlers are called with null. `TransfersAssumption` excludes it. One whose targets
  are all external lands without edges.
- `_materialize` and `_storeRaw` do not ask whether the entity is destroyed: if an add hook destroys what is being
  restored, later components are stored in it (restore.ts:60). `Spared` excludes it.
- A throw of a remove hook while `moveSubtree` destroys its source escapes as it is (world.transfers.ts:195-199); a
  throw while a failed restore is undone leaves what it had not got to. `_materialize` fires no `onSet`, although its
  comment says "exactly as for set".

**Systems**

- `modified(C)` on an entity without C leaves its dirty bit set (entity.components.ts:72-83, 541).
- An event callback that throws leaves the inbox half drained. A `_processCommandQueue` that throws resets
  `_commandHead` without clearing the queue, whose commands run again.
- An `onSet` hook that calls `modified` for its own component, after a deferred `set`, goes on forever.

**MCP bridge**

- A world named like a peer cannot be reached through a remote, whose answer strips the path to the peer's. A client
  whose id is that of a peer's world is refused as a duplicate target, and its link stays closed.
- A session that closes after a remote watch expired leaves the receipt in the remote's `_expired`; a `vecs_watch` answer
  that is lost or late leaks the watch until it idles out; one that arrives after `unregisterWorld` is remembered with a
  route that was dropped.
- `server.close()` during an initialize puts the closed session back into `_sessions`, where it occupies a slot of the
  cap.

**Physics.** `Liberties` are the cases below, each refused by default:

- A shape that is re-parented late, while its old body dies in the same window, is destroyed with the old body; its
  handle is stale and `b2DestroyShape` is called on it (against shapes/lifecycle.ts:112-117, engine.ts:125-130).
- An entity that leaves and returns within one inbox window gets two bodies; a modified Box that is swapped for a
  Circle leaves a ghost shape (against ARCHITECTURE.md, about 560, and engine.ts:166-174).
- A recreate in place frees a slot in the middle of a pass, and an end event that comes later is told to the slot's new
  owner (engine.ts:125-130).
- An impulse after the drain, on a destroyed body whose slot was used again, passes the guard (impulses.ts:80, 102).
- A re-parent marks only the new parent's mass dirty; a teleport of a moving body after PoseSyncIn is overwritten; the
  removal of a Sensor marker is not handled.

**Dead reckoning.** An entity that is tagged with Body without a physics Position, created in a late phase, ships the
default Motion (`primeBaselines` skips it, dead_reckoned.ts:562-570, against about 172-180). A body removed and
added again after pose-in can delay a written pose by more than the one tick that is documented.

**Wire**

- A class that inherits a wired or tagged base and declares nothing decodes as its base once the base's codec is compiled
  (decorators.ts:196-226, decoder.ts:175-229, against tests/decorators.test.ts:436), and so does a subclass of a
  relationship without fields. With standard decorators a subclass that is decoded before it was ever constructed is not
  probed; a field registered after the compilation never reaches the codec.
- `write_any` of an integer beyond i64 throws, one beyond 2^53 arrives as a bigint, and -0 loses its sign.
- `ClientWorld.send` takes the gap report before it encodes, so a throw loses the report (client_world.ts:551-556).

## 6. What is not modelled, and what is left

- The RTT estimator (`rtt.ts`), the render clock and interpolation (`DiffBuffer.pull`'s slot count is a free
  choice): floating point whose value only decides when, not what.
- The tracker cache and the change of a view's DSL (`view.ts`): a view is the difference of two sets here.
- Reflection and schemas beyond what the wire needs, injection, modules and their disposal in `lib/vecs`;
  the collections of `vecs/src/util` are sets and sequences here. Two facts found while reading them: a
  `once` listener runs twice under a re-entrant emit (events.ts:119-131), and `Bitset` assumes that a word is
  never a hole (`hasBitset`, `addBit` and `deleteBit` beyond the length, `compact`).
- MCP tools, which are reads of the world rendered as JSON; the heartbeat's arithmetic; the client table of
  the tunnel and the close of a whole server.
- Physics queries, kinematics, forces and tuning, which are calls into Box2D without state of their own.
- Phaser assets and rendering, the demo applications, benchmarks.

Of the hazards two have no property: a gap report that arrives after the recovery it asked for
(server_world.ts:1483) starts a fallback that has to end again, a liveness question that needs bounded
loss; and a view whose DSL changes twice within a frame (view.ts:103).

Seven hazards are covered but for the case that goes wrong, which section 5 describes and a constant or guard keeps out
of the run: an empty first baseline that is retried while its ack is late (server_world.ts:1057), a callback that changes
the entity it was called for (term.ts:354), acks across worlds whose frame numbers are close (server_world.ts:1464), a
late re-parent with a dying body (shapes/lifecycle.ts:138), a slot freed in the middle of a pass (publish.ts:202), targets
read from cleared storage (inject.ts:837), and a class that inherits a wired base and declares nothing
(decorators.ts:226). Their notes under "hazards" say so.

Still without a proof, though in reach of one: the topology of the bridge and physics, whose modules are free of
`RECURSIVE`. Those of `EntityWorld`, and what standalone queries return, stay with TLC.

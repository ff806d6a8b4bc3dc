# A TLA+ verification project for rsocket-ts

rsocket-ts is an RSocket client, server and browser package in TypeScript. This
directory holds TLA+ modules of the parts of it that are hard to test, TLC
configurations that check them on small instances, and TLAPS proofs of what can
be shown for every instance. `PROJECT.json` ties each definition to the source
lines it models, each property to a plausible bug that breaks it, and lists the
hazards of the code, each with the properties that cover it or a note on why
none does.

    tlc -workers 2 -config ReplayBuffer.cfg ReplayBuffer      # model-check a run
    tlapm ReplayBufferProofs.tla                              # check the proofs

Everything runs on one thread: JavaScript runs a handler to its end. What
interleaves are events (a frame, a timer, a transport closing), continuations
after an `await`, and callbacks a handler makes on the way, which may call back
into the object that is calling them. A module's actions are cut there and
nowhere else.

## 1. Inventory

Sources are under `rsocket-*/src`. *Keeps* is the state that matters, *Hard* is
what a unit test hardly reaches, *Correct* is what the component promises.

| Component | Keeps | Operations and partners | Hard | Correct |
|---|---|---|---|---|
| Replay buffer (`core/resume`) | serialized frames, their end offsets, live head, byte count, live position | `record`, `acknowledge`, `replayFrom`, `canReplayFrom`, `clear`; used by both sessions | compaction shifts three arrays; frames recorded from inside a replay write; a write that throws; position search off by one | what is retained tiles the positions since the last acknowledged one; counter = contents; a replay pass writes every frame of its snapshot once |
| Client session (`client/client/session.ts`) | `closed`/`suspended`/`terminated`, positions, replay buffer, pending outgoing and incoming frames, pending handshake, stream map, id allocator, lease | `sendFrame`, `resume`, `abandonResume`, frame dispatch, KEEPALIVE timers; drives streams, is driven by binding and coordinator | loss at any write, also in the middle of replaying or flushing; actions between RESUME_OK and the continuation that replays; cancellation of queued requests | frames are dispatched exactly once and in order across transports; every request settles |
| Server session (`server/session`) | the same positions and buffer, current binding, expiry timer, streams | dispatch, `send`, `resume`, `rejectResumeReason`, expiry; used by the acceptor | half-open transports, answers while suspended, a KEEPALIVE echo that fails | a lost transport suspends and nothing else; refuses only what it cannot resume |
| Acceptance and Resume registry (`server/server`, `server/resume`) | token to session map, connections not yet set up | first frame, SETUP, RESUME, shutdown | a late RESUME of an abandoned attempt; token reuse; a failing accept callback | one session per token; a refused connection leaves sessions alone |
| Transport binding and signals (`core/transport`) | disposed/closed flags, queue of reentrant signals | `start`, `write`, `dispose`; signals frame, error, close | a signal raised inside the handler of another one | signals in order, none after dispose |
| Resume coordinator (`client/resume`) | retained session, token, deadline, expiry timer | `retain`, `open`, `abandon`, `reset`, `dispose`; used by the facade | retained session replaced or expired while `resume` is awaited | at most one live session per token; no abandoned session is returned |
| Client facade and reconnect (`client/rsocket`, `client/reconnect`) | connect token, abort controller, reconnect and stability timers, attempts, ready promise | `connect`, `disconnect`, wake-ups, close events | superseded attempts that finish late; a disconnect during each await | one attempt at a time; a disconnect is final; waiting requests settle |
| Client streams (`client/stream`) | demand, credit given to the peer, flags of both halves | `request`, `cancel`, PAYLOAD, ERROR, REQUEST_N, deferred sources | callbacks that re-enter; demand above 2^31-1; loss in a callback | credit is neither lost nor made; cancellation is final; demand is served |
| Server streams (`server/stream`) | demand, demand pending upstream, publisher, placeholder while the controller runs | REQUEST_N, CANCEL, publisher signals | frames while the controller is on the stack; nested requests | the publisher is asked for what the peer has credit for |
| Channel halves (`client/channel`, `server/stream/channel*`) | look-ahead item, demand waiter, input credits, queue, half-close flags | drain loop with awaits, input grants, half-close | abort at each await; both halves end in any order | no item beyond credit; one terminal signal per direction |
| Asynchronous queue and pull adapters (`core/async`) | values, waiters, terminal flag, read indices | `push`, `next`, `return`, `complete`, `error` | lazy compaction; terminal signals against waiters | FIFO, no waiter is forgotten |
| Fragmentation and reassembly (`core/fragmentation`, `core/reassembly`) | partial payloads per stream, discarded ones | split, append, complete, ignore | cancel or loss in the middle; COMPLETE together with FOLLOWS | reassembly undoes fragmentation; nothing leaks |
| Inactivity timer (`core/timers`) | time of the last activity, timer | `touch`, `start`, `stop` | clock set back; a late timer | expires iff idle for the lifetime |
| WebTransport (`core/webtransport`) | reorder buffer, next ordinal, bytes held | lanes, datagrams, ordered receiver | any arrival order, duplicates, the buffer's limit, an `emit` that throws | released once and in order |
| TCP and WebSocket (`core/tcp`, `core/websocket`, `server/tcp`) | partial frame, close state | framing, native events | frames cut anywhere; events after close | frames out = frames in |
| Lease (`client` session, `server/session/requests.ts`) | allowance and expiry | grant, consume, roll back | expiry against a queued request | no request beyond the allowance |
| Frames (`frames/frame`) | none | construct, serialize, deserialize | optional parts, lengths computed before they are written | what is read is what was written |
| MIME types, routing, controllers, metadata, logging | none, or tables filled once | look up, format | formats | stateless; left to unit tests |

Data flow: application -> facade -> (coordinator) -> client session -> binding ->
transport -> binding -> server session -> interaction dispatcher -> streams ->
controllers, and back. Both sessions own one replay buffer each. Callbacks
(subscribers, publishers, controllers, transports) are the only way back up.

## 2. Modules

Three layers. The bottom one moves octets and frames (`FrameCodec`,
`Fragmentation`, `FrameStream`, `WebTransportLanes`), the middle one keeps a
session alive across transports (`ReplayBuffer`, `ResumableSession`,
`ClientReconnect`), the top one moves items and credit (`StreamDemand`,
`ChannelExchange`, `AsyncQueue`, `PullIterable`). Each layer uses what the one
below promises: `LossyFifo` and `FramesArriveInOrder` under
`ResumableSession`, `RetainedLog` inside it, `ReliableDelivery` under the
streams.

| Module | Source | State and steps |
|---|---|---|
| `RetainedLog`, `ReplayBuffer`, `PositionSearch` | `core/resume` | the class field by field; a replay pass is split at each call of its owner |
| `ReliableDelivery`, `ResumableSession` | both sessions, `server.ts`, `timers.ts` | two sessions, an acceptor, a succession of connections |
| `StreamDemand` | `client/stream`, `server/stream/output.ts` | demand of one request-stream through an outage |
| `ChannelExchange` | `client/channel/outbound.ts`, `server/stream/channel*.ts` | the input direction of a request-channel, await by await |
| `ClientReconnect` | `client/rsocket/socket.ts`, `client/resume/coordinator.ts`, `client/reconnect`, `browser/reconnect` | the facade's methods as frames on a call stack |
| `LossyFifo`, `WebTransportLanes` | `core/webtransport` | both ends of a WebTransport session, lanes and ordinals |
| `Fragmentation` | `core/fragmentation`, `core/reassembly` | operators: the emission loop and the gathering of parts |
| `FragmentExchange` | the same | one frame from the loop to the reassembly |
| `FrameStream` | `core/tcp`, `core/websocket`, `core/transport/signals.ts`, `frames/.../LengthPrefixedFrameDecoder.ts` | frames cut out of TCP chunks or WebSocket messages |
| `FramedTransport`, `MCFramedTransport` | `server/session`, `client/session` with the two above | several streams through fragmentation, transport and dispatch |
| `FrameCodec` | `frames/frame` | operators: construct, serialize, deserialize |
| `AsyncQueue`, `PullIterable` | `core/async` | the queue; one iterator over any publisher |

### RetainedLog, ReplayBuffer, PositionSearch

`ReplayBuffer.tla` is the class field by field: `entries` (end offsets), `bytes`,
`head`, `retainedBytes`, `originPosition`, `endPosition`, `acknowledgedPosition`;
`currentPosition` is the position its owner passes to every call. `Record`, `Acknowledge`,
`ReplayFrom`, `Emit`/`EmitThrows` and `Clear` are its methods. `replayFrom` calls
its owner for each frame, so it is split there: `pass` is the loop under way,
and `Record` may happen inside it. A frame is the position it starts at and its
size; a released slot is `Undefined`. `positionIndex` is used through its
specification here and modelled turn by turn in `PositionSearch.tla`.

`RetainedLog.tla` is the promise: a log of frames that is a contiguous suffix of
what was recorded; replay hands out a snapshot of it from a frame boundary.
`ReplayBuffer` implements it under the mapping at its end
(`ImplementsRetainedLog`).

### ReliableDelivery, ResumableSession

`ReliableDelivery.tla` is what Resume is for: in each direction a queue that is
sent to and received from, in order, nothing lost, nothing twice.

`ResumableSession.tla` composes the client session, the server session with its
acceptor, and a succession of connections, each a pair of FIFO queues that may
break at any time (`Break`; the frames in flight are lost, and each side notices
on its own or at its next write). The client's three flags are one variable
`state`; the table is at the head of the module. `cRetained`/`sRetained` are the
replay buffers, whose inner workings are the business of `ReplayBuffer`. Every write may be
delivered, lost, fail, or find the transport closed (`SendWritten`,
`SendThrows`, `SendNotOpen`); a resume handshake may be abandoned anywhere,
refused, fail after m frames of the replay or the flush (`ResumeWriteFails`,
`AcceptResumeThrows`), and RESUME frames of abandoned attempts still arrive.
`cLog`, `sGot`, `sLog`, `cGot`, `withdrawn` are history for the properties.

### StreamDemand

One request-stream end to end. Client: the subscription with its `requested`
and `wireRequested`, the queue of a suspended session with its merging and
superseding (`Queued` = `queueFrame`). Server: placeholder, demand-controlled
output and publisher. Handlers that call out are split at the call
(`delivering`, `requesting`), because the callback may request, cancel or lose
the transport before they go on. The two links are reliable FIFOs: this is
`ReliableDelivery`, which `ResumableSession` shows to be what Resume provides.

### ChannelExchange

`RequestChannelOutbound.run` opens its source in the caller's code and then
awaits in seven places; `at` says where it stands, and every other action may
happen there. A channel is registered with the session only when it sends its
request (`StartRequest`), so the end of the session aborts an open one
(`SessionEnds`) and leaves one that is starting to find out by itself
(`WritableRejected`, `StartFails`). Each place where the loop can throw is an action:
`OpenThrows`, `SourceThrows`, `WritableRejected`, `StartFails`, `ItemFails`, and
`SendEndsSession` for a frame that overflows the replay buffer. `aborted` is the
abort flag; `iterator` says whether the source is not opened yet, open, returned,
or exhausted, and `returns` counts the calls of `return()`. A source that ended is not
returned once the loop has noted its end (`iteratorClosed`), even when the frame
that reports the end then throws; an empty source that ends just before the channel is
cancelled is. The flush after a Resume may fail after k frames (`FinishResume`). The response direction is kept only as far as its end decides the
fate of the stream (`responseTerminated`, `outboundTerminated`). The
responder's `ChannelInput` keeps `queued`, `downstreamDemand` and
`remoteCredits`; its delivery loop is split at each call of the controller's
subscriber (`draining`).

### ClientReconnect

Nearly every method of the facade calls the application in its middle: a
lifecycle listener, a consumer whose stream fails, somebody who waits. A method
is therefore a sequence of frames on `stack`; `User` is application code, from
which `Connect` and `Disconnect` may come again, and the frame below it is what
the method does afterwards. Timers, transports and settled promises come when
the stack is empty. An attempt is a record (its stage, its session, whether it
was aborted) numbered by its connect token; the three reconnect policies and both
Resume outcomes are initial and free choices. `retained`, `late`, `holders` are
the coordinator's.

### LossyFifo, WebTransportLanes

Every frame gets the next ordinal of its direction and goes to a lane (`Route`):
control, reliable, the interaction's own bidirectional stream, or a datagram.
A lane is FIFO, lanes deliver in any order, a submitted datagram may never
arrive and is followed by a notice of its loss (`Markers`). `Accept` and `Drain`
are the ordered receiver, whose `drain` loop is split at each emission because
the frame it hands over may close the session. `interactions`, `laneStream`,
`finished` are the maps that assign lanes to interactions and release them.
`LossyFifo` is the promise in each direction (`GlobalOrder`).

### Fragmentation, FragmentExchange, FrameStream, FramedTransport

`Fragmentation` has the two pure halves: a cursor with `Feasible`, `Fragment`,
`Advance`, and `AppendParts` with the two ways to rebuild a frame.
`FragmentExchange` joins them for one frame. `FrameStream` is the receiving side of
a TCP or WebSocket connection: the length-prefix decoder with its retained
bytes, the dispatcher that queues what is raised inside a consumer call, the promise
queue behind a Blob. A TCP byte is (frame, index), so that a decoder that reads a
length at the wrong place reads nonsense. `FramedTransport` puts a client on one
end, whose activity listener may send between two fragments, and the server's
dispatch with its request and payload fragments on the other.

### FrameCodec

What the constructors of each frame type accept (`Construct`), `Serialize` and
`Deserialize`, octet by octet: prefix, header, fixed fields, metadata length,
metadata, data. A number of k octets keeps its value in the first of its k
cells; the order of its digits is the byte library's.

### AsyncQueue, PullIterable

`AsyncQueue` has the two arrays with their read index and the compaction, and
`Push`, `Complete`, `Error`, `Read`, `Return`. `PullIterable` extends it with one
iterator of `createPullAsyncIterable`: `next()`, `return()`, the abort listener
and a publisher that may call back from inside `subscribe`, `request` and
`cancel` (`setup`, `requesting`, `afterCancel`). Its steps are steps of the
queue.

### Fault definitions

A definition introduced by the comment `Fault:` is a version of the next
definition with a plausible bug. It is not part of any specification: it is
what the mutants of `PROJECT.json` substitute to show that a property notices.

## 3. Runs

| Run | Checks | Bounds | States |
|---|---|---|---|
| `replay_buffer` | storage, positions, byte count, boundaries, replay passes, refinement of RetainedLog | 6 bytes, frames of 1 or 2, compaction at 2 released entries (256 in the code), positions up to 8 | 3,215 |
| `position_search` | result and termination | arrays up to 5 entries, offsets up to 7, every head | 4,928 |
| `resumable_session` | types, retained state matches the gap, reported positions, no refusal over positions, withdrawn requests and their CANCELs stay unsent, refinement of ReliableDelivery, every request settles | 2 requests, 3 connections, client capacity 3, server capacity 1 or 2 | 322,770 |
| `stream_demand` | credit, demand, cancellation, queue bound; liveness of demand and cancellation | frame limit 3, safe integer 5, demands 1, 4 and infinite, 3 calls, 4 items, 1 loss | 392,456 |
| `channel_exchange` | credit, prefetch, final ends, release of the source, both ends let go | frame limit 3, safe integer 8, demands 1, 4 and infinite, 2 calls, 3 items, 2 losses | 360,428 |
| `client_reconnect` | no session is lost, disconnect is final, nobody waits for nothing | 4 attempts, 4 calls of the application, 3 policies | 701,345 |
| `webtransport_lanes` | lanes, order (refinement of LossyFifo), release, every frame settles | 1 interaction with the session's frames, 4 writes against 2 (3 against 3 when resumed), reorder limit 2, 2 lanes per end, best effort or not | 554,748 |
| `framed_transport` | frames and payloads arrive whole and in order | frames of 13 bytes, 2 requests, 2 channel items, 2 frames in flight, 1 nested event, TCP and WebSocket | 943,790 |
| `stream_ids_after_cancel` | finding 1 | 2 requests, 2 connections, capacities 4 and 2 | violated |
| `refused_while_half_open` | finding 2 | the same | violated |
| `echo_ends_session` | finding 3 | 1 request, 2 connections, capacities 2 and 1 | violated |
| `webtransport_resumed_lanes` | finding 4 | as `webtransport_lanes`, 2 writes of either end when resumed | violated |

Why the bounds are enough.

- *Buffer and search.* The buffer fills, overflows, compacts several times and
  starts passes at each head position; the real threshold of 256 only delays
  the same step. Five entries give the search every shape of its interval; the
  proof covers the rest.
- *Session.* Three connections give an outage inside the recovery from an
  outage, with a stale RESUME left over; two requests give one to withdraw and
  one to follow. A server capacity of one frame makes its buffer overflow, of
  two does not; three client frames hold a request, a CANCEL and another request.
- *Demand.* A demand of 4 exceeds one frame's limit of 3, two of them exceed the
  safe integer 5, and the half-window threshold is crossed in both directions.
- *Channel.* Three items are one before, one within and one beyond the first
  credit window; a loss falls on every await, and the second one on the flush that
follows the first.
- *Reconnect.* Four attempts are enough for one that is superseded while it
  resumes, its successor, and one from a callback of either; four calls, for a
  disconnect inside a connect inside a disconnect.
- *WebTransport.* Four writes of the requester put a datagram, its
  notice and frames of two lanes behind one gap of the limit's length, and one
  beyond it; two lanes per end let both ends open one for the same interaction.
- *Framing.* A length of 13 leaves a channel request no room for data beside an
  empty metadata section, and splits an item inside its metadata. TCP chunks end
  inside a prefix, right after it, or with a packet (`Cuts`); two frames in
  flight share a chunk.

`MaxConnections`, `MaxLosses`: the last transport does not fail, which is what
"eventually" needs. The other bounds (`MaxRequests`, `MaxCalls`, `Items`,
`MaxPosition`, `MaxAttempts`, the `...Writes`, `MaxInFlight`, `MaxNested`) stop
the environment, hence `CHECK_DEADLOCK FALSE`: a conversation really ends.

### Fairness

- `resumable_session`: each runtime keeps running (`ClientRuns`, `ServerRuns`: it
  delivers what has arrived, continues after an await, notices a broken
  transport, tries to resume; weak fairness of the whole, not of its parts), a
  controller answers, and a client that stays without a transport gives the
  session up in the end (its retention deadline, free to fire at any time).
- `stream_demand`, `channel_exchange`: events and continuations run; a
  subscriber's `onNext`, a publisher with outstanding demand and a source that
  is asked return or answer.
- `webtransport_lanes`: as long as an end can get on with its writers or with
  what has arrived on streams, one of the ends does (weak fairness of the whole,
  not of each end). Reading a datagram is *not* assumed.
- `position_search`: the loop goes on.

Nothing assumes that a transport works, except the last one, nor that the
application requests, cancels or completes early. Frames to the responder are
only promised while the session is active.

## 4. Findings

1. **A request cancelled while queued leaves a hole in the stream ids.**
   `queueFrame` (client `session.ts:921`) drops the queued request and its
   CANCEL, but the id stays allocated; the server demands consecutive ids
   (`interactions.ts:376`) and ends the session at the next request.
2. **A half-open session is refused.** The server's README says a RESUME is
   rejected when the state is gone; `rejectResumeReason` (server
   `session.ts:325`) also rejects when the server has not noticed the loss yet.
3. **A failed KEEPALIVE echo ends a session that could be resumed.**
   `sendSerialized` suspends and then rethrows (server `session.ts:655-656`) into
   a handler that treats it as a protocol error (`:523-525`); the client guards against it
   (`session.ts:647`).
4. **A resumed interaction may keep its WebTransport lane.** After a Resume both
   ends may open a lane for the same interaction. A first record that arrives
   on one of them after the interaction has ended on the other makes
   `validateInboundLane` (`connection.ts:634`) enter it again, and nothing
   releases it before the session closes (the comments at `:833` and `:859`
   promise that).

Noted while modelling, without a run: `failOutbound` (client
`stream/session.ts:657-662`) swallows the exception of an ERROR frame that is
longer than `maxFrameLength`, and the responder is then not told of the failure.
And `terminateSession` (client `session.ts:1364-1371`) fails the registered streams
only, which a channel joins with its request (`:714`): one that still reads its
first item when the session ends keeps its source open, and its subscriber hears
of the end only when the source answers.

## 5. Proofs

Every statement below is for all values of the constants, under no assumption
but the named `ASSUME` of the module.

**Replay buffer** (`ReplayBufferProofs`, from `ReplayBufferAssumption`). None of
the invariants is inductive alone: a compaction is right only if the head, the
offsets and the origin agree, a release only if the byte count is tied to the
offsets, and a pass only if its end stays inside what is retained. `IInv` is the
conjunction of the type invariant, the layout of the storage (`StorageInv`:
sizes against offsets, slots before the head released), the position of the last
entry's end (`EndIsCurrent`), what is left after termination
(`ReleasedWhenOver`), the first available position, and the pass's bounds.
`Inductive` proves `Spec => []IInv`, one step per action with one step per
conjunct below it; the corollaries give the invariants the run checks.
`ReplayStartsAtBoundaries`: `replayFrom` accepts the starts of the retained
frames and the current position, and nothing else. `ImplementsTheLog`: every step
of the buffer is a step or a stutter of `RetainedLog`. A position that is
acknowledged or replayed from is the boundary before the k-th retained frame for
some k, and what is left behind it is the log without its first k frames; a pass
under way is the rest of the snapshot taken when it began.

**Resumable session** (`ResumableSessionProofs`, from
`SessionAssumption`), for any number of requests and transports
and any capacities. The invariants of the run talk about the two ends; what
makes them true is on the connections. `IInv` is the types, `RequestInv` and
`AnswerInv` (a frame is logged once, a withdrawn request and its CANCEL are
neither logged nor queued, a stream is answered once) and `NetworkInv`:

- `PositionInv`: a position is the length of a log; what is dispatched is a prefix
  of what the other side has logged, what is retained a suffix of it, and no
  gap lies between the two.
- `LinkInv`: which connection the responder is bound to, and what is left of the
  connections before and after the requester's.
- `UpInv`, `DownInv`: the frames that can still be read by the other side
  continue what it has dispatched, without a gap and without repetition, and on a
  connection that works they are all there is. A RESUME, however late it is read,
  names a received position the requester has reached and a first position the
  responder has; from the positions of a RESUME and of a RESUME_OK the rest can still
  be repeated.
- `KeepaliveInv`: a KEEPALIVE names no position its sender has not reached, and
  there is one on a connection at a time.

None of them survives alone: a release is safe only because the position in a
KEEPALIVE is truthful, the position is truthful only because frames arrive once and
in order, and these do so after a resume only because of what was not released.
`NoGapOpens`, `ReportsAreTruthful`, `ResumeIsNotRefusedOverPositions` and
`WithdrawnStaysUnsent` are the invariants of the run: a received
position in a KEEPALIVE, RESUME or RESUME_OK is one its sender has reached, the
first available position in a RESUME is one the responder has reached, neither passes what
was written, and no frame of a withdrawn request, CANCEL included, is
ever written. `DeliversReliably` is the
refinement: every step of the two sessions is a step or a stutter of
`ReliableDelivery`. The model has one KEEPALIVE in flight per connection, and the
proof relies on it.

**Stream demand** (`StreamDemandProofs`, from `DemandAssumption`), for any
frame limit, demands, number of calls, losses and items. The invariant says
which frames can be under way: the initial request only first and before the
responder has seen it (`RequestInv`), a CANCEL only last (`CancelInv`), one frame
or a request with its merged demand while the session is suspended
(`QueueInv`). Credit is then a sum that each step moves from one place to another
(`CreditInv`), and the publisher owes exactly what it was asked for
(`PublisherInv`). The sum over a queue of frames is a recursive function; what
appending, removing and merging a frame do to it is proved by induction on
the length, through the least counterexample (`Least`, `SetInduction`, the lemmas
`Total...`). The five invariants of the run follow, and `ItemsAreDemanded`: no
item is handed to a subscriber that has not asked for it.

**WebTransport lanes** (`WebTransportLanesProofs`, from `LanesAssumption`), for
any set of interactions, any number of frames and lanes, and any reorder limit, with
any interleaving of the lanes and any loss of datagrams; the frames are those of
`Frames`, with its two FNF requests. The lanes are unordered, so the invariant
says nothing of their order. It says of each record on its way, on a
lane, in a datagram or held behind a gap, which frame it stands for and that its
lane may carry that frame (`TransitInv`). A record that is next in
order is then accepted whatever lane it comes from (`OwnsInOrder`); the two cases
where acceptance depends on the receiver's memory need more: the last fragment
of a FNF request (`FragmentInv`: what the receiver remembers is what the
frames delivered so far leave under way) and the lane of an interaction
(`LaneInv`: both ends agree which stream a lane belongs to).
`CorrectPeersAreAccepted` and `MappedLanesTakeFrames` follow, and
`OrderIsRestored`: a session implements `LossyFifo` in each direction.

Release needs the life of an interaction. On the transport it was begun on,
the requester begins it, once (`RequestInv`), it has one lane (`OneLaneInv`), and an
end has an entry for it as long as the frames that end has seen have not ended
it (`KeptInv`). `FinishedLanesAreReleased` follows. None of the three holds for
a resumed interaction; finding 4 is what comes of that.

**Channel** (`ChannelExchangeProofs`, from `ChannelAssumption`), for any frame
limit and safe integer, any demands, losses and items. Two facts carry the proof.
The first is what the loop's place, its abort flag and its source say of each other
(`LoopInv`): a loop that goes on has a stream and, once opened, an open source; an
aborted one has no stream and no open source, which was returned, exhausted or not
yet opened; and a loop that has ended its half is `done`. `SessionInv` adds that a
session that is over has no open stream, though perhaps a starting one. So
`WhoSends`: whoever adds a frame is a loop that has not ended, for a stream that is
not given up, or a cancellation; hence `ChannelEndIsFinal`, and `ChannelSource` for the iterator. The second: the responder's
`remoteCredits` is the sum of what the requester holds, what is granted to it and
what it has sent (`CreditInv`); a sum again, over both queues, so the lemmas of
the stream's proof return. Giving up may lose frames and with them credit
(`GiveUpLaw`), hence an inequality that always holds beside the equation of
`CreditIsConserved` that holds while both directions are open.
`ChannelNeverOverrun` needs the inequality, `ChannelPrefetch` the law of grants
(`GrantLaw`: who grants has an empty queue and a subscriber that waits).

**Facade and reconnect** (`ClientReconnectProofs`, from `ReconnectAssumption`), for
any number of attempts and of calls, however deep listeners call back. The three
properties hold between two turns of the event loop; inside a method they do not,
and what is missing is what the frames on the stack have still to do. So
`IInv` has two halves. One says of each frame what it needs to be resumed
(`FrameOK`: the session of a `terminate` has begun and is not the client, unless
the frame stands alone; the attempt of a `fresh` is still to be opened; who is
to `release` has closed the facade, or a later call has opened it again). The other says of
each promise who makes it good: a live session that nobody owns has a `terminate`
frame (`OwnerInv`), what a closed facade still holds has a `release` frame
(`CloseInv`), and for those who wait there is an attempt, a timer, or a frame
that leads to one or brings the news (`Coming`). `AttemptInv` adds that an attempt which has not ended
is the current one or has been aborted, and `Apart` that no two frames carry the same
attempt on. Every method then keeps the invariant by one argument on the stack
(`Onward`: what lies below a method is untouched) and one on what it changes.
With an empty stack nothing is left to be done (`AtRest`), hence `NoSessionIsLost`,
`DisconnectEnds` and `NobodyWaitsInVain`. It also shows that whenever `handleWake`
may open a connection a reconnect timer is set: a wake signal only ever makes an
attempt earlier.

**Position search** (`AlgorithmProofs`), for arrays of any length. The loop
invariant says that the end offset wanted, if it is in the array, lies inside the
interval still searched; `SearchFinds` derives the result, `SearchTerminates`
that each turn shrinks the interval.

**Fragments** (`FramedTransportProofs`, from `MaxFrameLengthAssumption`), for
frames with any contents. `FragmentsAlwaysFit`: no fragment exceeds
`maxFrameLength`. `RefusedWholeAlways`: a frame that cannot be cut is refused
before its first fragment is written. `RebuiltExactlyAlways`: what is rebuilt is
what was sent. The invariant ties the parts gathered to the prefixes the cursor
has passed: metadata is exhausted before data is touched, and the flags of the
last fragment are those of the frame.

**Framed transport** (`FramedTransportProofs`, from `MaxFrameLengthAssumption` and
`TransportAssumption`, which says that requests have one of the four types and
payloads a length), for any number of requests, any frames and payload sizes, any chunk
boundaries (the lemma on `OnData(to)` takes any `to`, not just the `Cuts` of the
run) and any number of events nested in the consumer. The octets on the connection
are a concatenation and their positions a sum, two recursive functions: what the model
needs of them is again proved through the least counterexample (`Least`,
`RunningSums`, `StreamCarriesAll`). `Run` says that bytes are the piece of the stream that
begins at a position, `QueueRun` that queued chunks are consecutive pieces. The
invariant of the decoder (`DecodingInv`) is that what it retains, the rest of its chunk
and the chunks queued behind it are together the stream from the end of the last frame
delivered to the last byte raised; so it reads a length only where a prefix begins
(`PushDecodes`), which is never out of range because everything written is a
`SizedFrame` (`FragmentLength`, `SendingInv`). For WebSocket the frames delivered,
those in the dispatcher and those in the promise queue are consecutive frames
(`MessagesInv`). `FramesArriveInOrderAlways` follows.

**Payloads** (`FramedTransportProofs`, from the same assumptions), for any mix of
request types, items of any shape, any `maxFrameLength` and any interleaving of the
streams. `RebuiltExactlyAlways` speaks of one frame on an empty channel; here the
fragments of several streams share the wire, one emission loop may start inside
another, a request may be refused after it was given an id, and either side may give a stream up
between two fragments. A *place* in a stream is an item and a pair of offsets in
it. The client's place is where its loop stands (`ClientPlace`), the server's what it
has given and the parts it keeps (`ServerPlace`, `Kept`: the parts are a prefix
that a cursor of the next item has passed). `TrailInv` is the heart: the frames of
the stream that are on the wire and not yet delivered lead, link by link, from
the server's place to the client's, and frames of other streams are no link. It is
claimed only of a stream the server still follows (`Followed`: not `ended`, and its CANCEL
not handled yet). What it leans on:

- `StackInv`: at most one loop per stream sends data; only the request opened last
  may still be refused, and then it gives its id back (`SentId`).
- `OrderInv`: the requests on the wire have consecutive ids, from the one the server
  expects to the one the client sends next, so none is a duplicate or skips one.
- `WireInv`: CANCEL and ERROR are on the wire only for a stream its requester has closed.
- `ServerHas`: what is given is a prefix of what was issued; a request under
  reassembly is not registered yet; item parts are kept only for a
  registered channel whose requester has not completed. The last is why half-closing
  and unregistering must drop the parts.

The frame delivered next is then the first link of its stream (`Takes`), and one lemma per
handler shows that taking it moves the server's place by one link. Credits do not
occur: an item beyond the demand ends its stream, and an ended stream promises
nothing. `PayloadsArriveWholeAlways` follows; with nothing on the way the trail has no
link, the two places are equal, and everything was given.

**Frame codec** (`AlgorithmProofs`, no assumption beyond those in the
statements). `RoundTrip`: `Deserialize` of what `Serialize` writes is the same
frame, for each type and each combination of optional parts. `AnnouncedLengthIsExact`: the
length checked against the limit and announced on TCP, computed before anything
is written, is the number of octets written. There is one lemma per layout of a
frame's fixed fields.

**Queue and pull adapter** (`AlgorithmProofs`).
`QueueInv` places each read in one of three ranges (given a value, given the
end, waiting) and each value before or after the last one given;
`ReadsAreServedInOrder` and `NoValueNoWakeupIsLost` follow, through every
compaction. `QueueIsCompact` bounds the dead slots. `PullInv` adds the balance
of demand: reads waiting = demand given to the publisher + demand it has still
to be given. It yields `NeverBuffers`, `DemandAlwaysExact` and `EndAlwaysReleases`;
`CancelledAtMostOnce` is an action property of the same invariant, and
`ReadsOfIterators` carries the queue's laws over to a consumer's reads.

`FragmentExchange`, `FrameCodec`, `AsyncQueue` and `PullIterable` have no run of
their own, because what matters of them is proved outright, for unbounded
sequences that TLC cannot enumerate. Their properties were written down before
the proofs and hold on small instances as well.

Only model-checked: the violations of section 4, and all liveness,
`EveryFrameSettles` among it (fairness and ENABLED are out of the prover's reach).
Every invariant and every step property of the runs is proved.

## 6. Limits

- `ResumableSession`: request-response only; frames count one unit; transports
  deliver asynchronously; one KEEPALIVE in flight per connection; an unresumable
  session, lease, fragments and graceful close are absent. A stale RESUME that is
  accepted late leaves the server on a dead connection and the client's next
  RESUME refused; the model contains that, and it counts as the session ending.
- `StreamDemand`: one stream; the responder's end of a session is told apart
  from a slow responder only when the requester learns of it. COMPLETE on a
  NEXT is never sent by this server, so the subscription's `completing` flag is
  left out, as is the deferred front end. A synchronous transport is covered on
  the server (frames while a request is under way), not on the client.
- `ChannelExchange`: of the response direction only the end; the run's demands
  stay below the safe integer (saturation is `StreamDemand`'s run; the proofs cover both).
  A CANCEL or ERROR that overflows the replay buffer is an end of the session
  (`SessionEnds`) beside the cancellation, not inside it.
- `ClientReconnect`: safety only. Delays, the attempt counter and its stability
  timer, and the contents of lifecycle events are left out; sessions are their
  states; a listener's exceptions, which the facade contains, are a return.
- `WebTransportLanes`: interactions are begun by REQUEST_CHANNEL; REQUEST_RESPONSE
  and REQUEST_STREAM, whose lanes are released with the response alone
  (`connection.ts:850-852`), are not written, nor are LEASE, ERROR and EXT on stream 0,
  which take the control lane as KEEPALIVE does. A record is an ordinal with a frame; the reorder limit
  counts records, not bytes; media datagrams and version negotiation are left
  out. Datagrams may be lost and overtaken, but are not duplicated.
- `FrameStream`, `FramedTransport`: chunk ends as in `Cuts`; listeners nest one
  deep; `socket.destroy()` does not throw; ERROR frames are empty; a cancellation
  comes from inside the consumer only; client steps wait for the
  server's turn to end (they only lengthen the wire, and so commute with it);
  the channel's input is drained on arrival (`ChannelExchange` has the detail); discarded
  fragments of duplicate requests are left out, and so are two answers no correct
  client gets: `protocolError` for an id out of order (`interactions.ts:376-381`) and
  for a PAYLOAD with neither NEXT nor COMPLETE (`:339-345`). Some branches
  only a malformed peer reaches are there because the code has them, and no run
  fires them.
- `FrameCodec`: the getters of single flags, names (sequences of octets) and the
  caching of the wire form of a decoded frame.
- `AsyncQueue`, `PullIterable`: which error is carried; a publisher that throws
  from `cancel()` is one that returns; a late `onSubscribe` is cancelled and
  leaves no trace; demand saturates at `MaxDemand`.

### Not modelled

- The inactivity timer: `ResumableSession` lets a session expire or a transport
  be given up at any time, which contains whatever the timer does. Whether it fires
  in time is a matter of clocks.
- Lease: a local countdown of requests and time; the modelled sessions negotiate none.
- SETUP failures, graceful close, server shutdown and the accept callback of the
  server; several tokens at the registry.
- The deferred source of a stream asked for before the connection is ready, and the push sink
  of a channel.
- MIME types, routing, controllers, metadata, logging: tables, decorators and
  formatting without protocol state.

## 7. What could come next

1. The SETUP handshake and the registry with several tokens, composed with
   `ClientReconnect` in place of its free outcomes.
2. Lease and the inactivity timer, with a clock that steps.

--------------------------- MODULE WebTransportLanes ---------------------------
(***************************************************************************)
(* One RSocket connection mapped onto a WebTransport session, both ends of *)
(* it (rsocket-core-ts/src/webtransport): ReactiveWebTransportConnection,  *)
(* its write lanes, the record framing and the ordered receiver.           *)
(*                                                                         *)
(* Every frame written takes the next ordinal of its direction and goes to *)
(* a lane: the control stream, the reliable unidirectional stream, the     *)
(* bidirectional stream of its interaction, or a datagram.  A lane is      *)
(* FIFO, lanes deliver in any order, datagrams may never arrive; the       *)
(* receiver puts the records back in the order of their ordinals.          *)
(*                                                                         *)
(* Bytes are left out: a record is an ordinal with a frame, so the         *)
(* decoder's splitting of chunks disappears in a lane being a sequence,    *)
(* and the reorder limit counts records.  The prefix of a lane that waits  *)
(* for its writer, is being written or is on the way is one sequence, for  *)
(* only the datagram lane acts when a packet has been submitted.           *)
(***************************************************************************)
EXTENDS Integers, Sequences, FiniteSets

CONSTANTS
  Streams,            \* interaction stream identifiers in use
  ReorderLimit,       \* records held behind a gap
  RequesterWrites,    \* bound: frames the requester writes
  ResponderWrites,    \* bound: frames the responder writes
  ResumedWrites,      \* bound: frames either writes when interactions were resumed
  MaxLanes            \* bound: interaction lanes one end opens

ASSUME LanesAssumption ==
  /\ Streams \subseteq Nat \ {0, 3, 5}
  /\ {ReorderLimit, RequesterWrites, ResponderWrites, ResumedWrites, MaxLanes} \subseteq Nat

Endpoints == {"requester", "responder"}
Peer(e) == IF e = "requester" THEN "responder" ELSE "requester"
VARIABLES
  resumed,      \* the interactions were begun on an earlier transport
  unreliable,   \* the session negotiated best-effort FNF
  phase,        \* connecting, opening, ready, closed or failed (a peer rejected)
  subscribed,   \* the frame Flux has its subscriber
  control,      \* controlLane is known
  nextOut,      \* nextOutboundOrdinal
  opened,       \* interaction lanes this end created
  interactions, \* interactionLanes
  laneStream,   \* InboundInteraction.streamId, by lane
  finished,     \* interaction lanes this end has finished writing
  outFnf, inFnf,\* streams of fragmented FNF requests under way
  datagrams,    \* packets in the datagram lane, not submitted
  wire,         \* wire[e][lane]: records written by e, not read by its peer
  air,          \* air[e]: datagrams submitted by e
  nextIn,       \* nextOrdinal of the ordered receiver
  pending,      \* records held behind a gap, by ordinal
  draining,     \* the ordered receiver is inside drain()
  written, delivered  \* histories: frames passed to write and to the subscriber

mode == <<resumed, unreliable>>
lifecycle == <<mode, phase, subscribed>>
mapping == <<opened, interactions, laneStream, finished>>
ordering == <<nextIn, pending, draining>>
Bound(e) == IF resumed THEN ResumedWrites
            ELSE IF e = "requester" THEN RequesterWrites ELSE ResponderWrites

vars == <<lifecycle, control, nextOut, mapping, outFnf, inFnf, datagrams,
          wire, air, ordering, written, delivered>>

-------------------------------------------------------------------------------
(***************************************************************************)
(* Frames and lanes.                                                       *)
(***************************************************************************)
Frame(type, stream, follows, complete) ==
  [type |-> type, stream |-> stream, follows |-> follows, complete |-> complete]

Lane(kind, opener, k) == [kind |-> kind, opener |-> opener, k |-> k]
Control == Lane("control", "requester", 0)
Reliable(e) == Lane("reliable", e, 0)
Datagram(e) == Lane("datagram", e, 0)
Lanes == {Control} \cup {Reliable(e) : e \in Endpoints}
         \cup {Lane("interaction", e, k) : e \in Endpoints,
                k \in 1..MaxLanes}

\* encodeWebTransportSkipRecord: the place of a datagram that may be lost.
Skip(f) == IF f.type = "REQUEST_FNF" /\ ~f.follows
           THEN [f EXCEPT !.type = "SKIPPED"] ELSE f

IsControlFrame(f) ==
  f.stream = 0 /\ f.type \in {"SETUP", "RESUME", "RESUME_OK", "KEEPALIVE"}

IsInteractionFrame(f) ==
  /\ f.stream # 0
  /\ f.type \in {"REQUEST_STREAM", "REQUEST_CHANNEL", "REQUEST_N", "CANCEL", "PAYLOAD", "ERROR"}

InitialInteractionType(f) ==
  IF f.type \in {"REQUEST_STREAM", "REQUEST_CHANNEL"} THEN f.type ELSE "unknown"

NoInteraction == [lane |-> Control, type |-> "none", local |-> FALSE, remote |-> FALSE]
Interaction(lane, f) ==
  [lane |-> lane, type |-> InitialInteractionType(f), local |-> FALSE, remote |-> FALSE]

\* Map.set: the entry of a key is added or replaced.
MapSet(map, key, value) ==
  [k \in {key} \cup DOMAIN map |-> IF k = key THEN value ELSE map[k]]

IsOpen(e) == phase[e] = "ready"
IsClosing(e) == phase[e] \in {"closed", "failed"}
Receiving(e) == IsOpen(e) /\ subscribed[e]

-------------------------------------------------------------------------------
(***************************************************************************)
(* Interaction lifecycle: the lane of a stream is forgotten, and the end's *)
(* writing side of it finished, when the interaction is over.              *)
(***************************************************************************)
EndsItsHalf(f) == f.complete /\ f.type \in {"PAYLOAD", "REQUEST_CHANNEL"}

Typed(state, f) ==
  [state EXCEPT !.type = IF @ = "unknown" THEN InitialInteractionType(f) ELSE @]

WithHalf(state, local) ==
  [state EXCEPT !.local = @ \/ local, !.remote = @ \/ ~local]

\* Fault: an interaction ended by CANCEL or ERROR is kept.
TrackedKept(state, f, local) ==
  LET typed == Typed(state, f)
      done == WithHalf(typed, local)
  IN IF state = NoInteraction THEN NoInteraction
     ELSE IF ~EndsItsHalf(f) THEN typed
     ELSE IF typed.type # "REQUEST_CHANNEL" \/ (done.local /\ done.remote)
          THEN NoInteraction
     ELSE done

\* trackInteractionLifecycle: what becomes of an entry when f passes.
Tracked(state, f, local) ==
  LET typed == Typed(state, f)
      done == WithHalf(typed, local)
  IN IF state = NoInteraction \/ f.type \in {"CANCEL", "ERROR"} THEN NoInteraction
     ELSE IF ~EndsItsHalf(f) THEN typed
     ELSE IF typed.type # "REQUEST_CHANNEL" \/ (done.local /\ done.remote)
          THEN NoInteraction
     ELSE done

\* Fault: the writer is finished when the half of the peer has ended.
ReleasedOnRemoteHalf(before, after) ==
  IF before # NoInteraction /\ (after = NoInteraction \/ after.remote) THEN {before.lane} ELSE {}

\* releaseInteraction
Released(before, after) ==
  IF before # NoInteraction /\ after = NoInteraction THEN {before.lane} ELSE {}

\* signalFailure and close both release everything the connection holds.
Release(e, how) ==
  /\ phase' = [phase EXCEPT ![e] = how]
  /\ pending' = [pending EXCEPT ![e] = <<>>]
  /\ interactions' = [interactions EXCEPT ![e] = [s \in Streams |-> NoInteraction]]
  /\ datagrams' = [datagrams EXCEPT ![e] = <<>>]
  /\ outFnf' = [outFnf EXCEPT ![e] = {}]
  /\ inFnf' = [inFnf EXCEPT ![e] = {}]
  /\ control' = [control EXCEPT ![e] = FALSE]
  /\ draining' = [draining EXCEPT ![e] = FALSE]

-------------------------------------------------------------------------------
(***************************************************************************)
(* Establishing the session.  Resume and best-effort FNF exclude each      *)
(* other (rsocket-client-ts/src/rsocket/transport.ts, 46).                 *)
(***************************************************************************)
Init ==
  /\ resumed \in BOOLEAN /\ unreliable \in BOOLEAN
  /\ ~(resumed /\ unreliable)
  /\ phase = [e \in Endpoints |-> "connecting"]
  /\ subscribed = [e \in Endpoints |-> FALSE]
  /\ control = [e \in Endpoints |-> FALSE]
  /\ nextOut = [e \in Endpoints |-> 0]
  /\ opened = [e \in Endpoints |-> 0]
  /\ interactions = [e \in Endpoints |-> [s \in Streams |-> NoInteraction]]
  /\ laneStream = [e \in Endpoints |-> <<>>]
  /\ finished = [e \in Endpoints |-> {}]
  /\ outFnf = [e \in Endpoints |-> {}]
  /\ inFnf = [e \in Endpoints |-> {}]
  /\ datagrams = [e \in Endpoints |-> <<>>]
  /\ wire = [e \in Endpoints |-> [lane \in Lanes |-> <<>>]]
  /\ air = [e \in Endpoints |-> {}]
  /\ nextIn = [e \in Endpoints |-> 0]
  /\ pending = [e \in Endpoints |-> <<>>]
  /\ draining = [e \in Endpoints |-> FALSE]
  /\ written = [e \in Endpoints |-> <<>>]
  /\ delivered = [e \in Endpoints |-> <<>>]

traffic == <<nextOut, mapping, outFnf, inFnf, datagrams, wire, air,
             ordering, written, delivered>>

\* initialize, after waitForReady: the requester goes on to its control stream.
SessionReady(e) ==
  /\ phase[e] = "connecting"
  /\ phase' = [phase EXCEPT ![e] = IF e = "requester" THEN "opening" ELSE "ready"]
  /\ UNCHANGED <<mode, subscribed, control, traffic>>

ControlStreamCreated ==
  /\ phase["requester"] = "opening"
  /\ phase' = [phase EXCEPT !["requester"] = "ready"]
  /\ control' = [control EXCEPT !["requester"] = TRUE]
  /\ UNCHANGED <<mode, subscribed, traffic>>

\* frameFlux: the one subscriber; records are read from then on.
Subscribe(e) ==
  /\ ~subscribed[e]
  /\ subscribed' = [subscribed EXCEPT ![e] = TRUE]
  /\ UNCHANGED <<mode, phase, control, traffic>>

\* consumeAcceptedBidirectional reads the preface of the control stream.
AcceptControl ==
  /\ Receiving("responder") /\ ~control["responder"]
  /\ control["requester"]
  /\ control' = [control EXCEPT !["responder"] = TRUE]
  /\ UNCHANGED <<lifecycle, traffic>>

\* close; or signalFailure for what the model does not tell apart: a handshake
\* that fails, times out or is aborted, a read or a write that fails, a session
\* the peer has closed.
Close(e) ==
  /\ ~IsClosing(e)
  /\ Release(e, "closed")
  /\ UNCHANGED <<mode, subscribed, nextOut, opened, laneStream, finished,
                 wire, air, nextIn, written, delivered>>

-------------------------------------------------------------------------------
(***************************************************************************)
(* What the protocol above may write: the rules of one interaction.        *)
(***************************************************************************)
SeqHas(frames, s, types) ==
  \E i \in DOMAIN frames : frames[i].stream = s /\ frames[i].type \in types

Ended(frames, s) == \E i \in DOMAIN frames : frames[i].stream = s /\ EndsItsHalf(frames[i])

Begun(e, s) ==
  resumed \/ SeqHas(written[e] \o delivered[e], s, {"REQUEST_CHANNEL"})

\* The interaction is over as this end sees it.
Over(e, s) ==
  \/ SeqHas(written[e] \o delivered[e], s, {"CANCEL", "ERROR"})
  \/ Ended(written[e], s) /\ Ended(delivered[e], s)

\* The handshake comes first: SETUP and whatever follows it, or RESUME, then
\* RESUME_OK, then what either side has to repeat.
Handshake(e) ==
  IF e = "requester" THEN IF resumed THEN "RESUME" ELSE "SETUP"
  ELSE IF resumed THEN "RESUME_OK" ELSE "none"

Established(e) ==
  /\ Handshake(e) = "none" \/ written[e] # <<>>
  /\ e = "responder" \/ resumed => delivered[e] # <<>>

MayWrite(e, f) ==
  \/ /\ f.type = Handshake(e) /\ written[e] = <<>>
     /\ e = "responder" => delivered[e] # <<>>
  \/ /\ Established(e) /\ f.type \in {"KEEPALIVE", "METADATA_PUSH"}
     /\ ~SeqHas(written[e], 0, {f.type})
     /\ e = "requester" \/ SeqHas(delivered[e], 0, {f.type})
  \/ /\ Established(e) /\ e = "requester"
     /\ \/ f.type = "REQUEST_FNF" /\ ~SeqHas(written[e], f.stream, {"REQUEST_FNF"})
        \/ f.type = "PAYLOAD" /\ f.stream \in outFnf[e]
        \/ f.type = "REQUEST_CHANNEL" /\ ~Begun(e, f.stream)
  \/ /\ Established(e) /\ f.stream \in Streams
     /\ \/ f.type = "PAYLOAD" /\ ~Ended(written[e], f.stream)
        \/ f.type = "REQUEST_N" /\ ~Ended(delivered[e], f.stream)
        \/ f.type = "CANCEL" /\ e = "requester"
        \/ f.type = "ERROR" /\ e = "responder"
     /\ Begun(e, f.stream) /\ ~Over(e, f.stream)

\* The frames of the two ends: FNF 3 is whole, FNF 5 is fragmented, and
\* REQUEST_N stands for every frame that ends nothing.  An interaction is begun
\* by REQUEST_CHANNEL only, whose release rule waits for both halves;
\* REQUEST_RESPONSE and REQUEST_STREAM, which are over with the response alone,
\* are not written, nor are LEASE, ERROR on stream 0 and EXT.
Frames ==
  {Frame(t, 0, FALSE, FALSE) : t \in {"SETUP", "RESUME", "RESUME_OK", "KEEPALIVE", "METADATA_PUSH"}}
  \cup {Frame("REQUEST_FNF", 3, FALSE, FALSE), Frame("REQUEST_FNF", 5, TRUE, FALSE),
        Frame("PAYLOAD", 5, FALSE, FALSE)}
  \cup {Frame(t, s, FALSE, FALSE) :
          t \in {"REQUEST_CHANNEL", "REQUEST_N", "CANCEL", "ERROR"}, s \in Streams}
  \cup {Frame(t, s, FALSE, TRUE) : t \in {"REQUEST_CHANNEL", "PAYLOAD"}, s \in Streams}

-------------------------------------------------------------------------------
(***************************************************************************)
(* Writing.                                                                *)
(***************************************************************************)
Record(ordinal, f) == [ordinal |-> ordinal, frame |-> f]

\* RSocketWebTransportWriteLane.enqueue
Enqueued(e, lane, records) == [wire EXCEPT ![e][lane] = @ \o records]

TakeOrdinal(e) == nextOut' = [nextOut EXCEPT ![e] = @ + 1]

WriteReliable(e, f) ==
  /\ wire' = Enqueued(e, Reliable(e), <<Record(nextOut[e], f)>>)
  /\ outFnf' = [outFnf EXCEPT ![e] =
                  IF f.stream = 0 THEN @ ELSE IF f.follows THEN @ \cup {f.stream} ELSE @ \ {f.stream}]
  /\ TakeOrdinal(e)
  /\ UNCHANGED <<mapping, datagrams>>

\* Fault: the fallback for a packet that does not fit takes an ordinal again.
WriteDatagramTwice(e, f) ==
  \/ /\ datagrams' = [datagrams EXCEPT ![e] = Append(@, Record(nextOut[e], f))]
     /\ TakeOrdinal(e)
     /\ UNCHANGED <<mapping, outFnf, wire>>
  \/ /\ wire' = Enqueued(e, Reliable(e), <<Record(nextOut[e] + 1, f)>>)
     /\ nextOut' = [nextOut EXCEPT ![e] = @ + 2]
     /\ UNCHANGED <<mapping, outFnf, datagrams>>

\* writeFireAndForget: a datagram at an ordinal already reserved, or, when the
\* packet is too large, a reliable record at the same ordinal.
WriteDatagram(e, f) ==
  /\ TakeOrdinal(e)
  /\ \/ /\ datagrams' = [datagrams EXCEPT ![e] = Append(@, Record(nextOut[e], f))]
        /\ UNCHANGED wire
     \/ /\ wire' = Enqueued(e, Reliable(e), <<Record(nextOut[e], f)>>)
        /\ UNCHANGED datagrams
  /\ UNCHANGED <<mapping, outFnf>>

WriteControl(e, f) ==
  /\ wire' = Enqueued(e, Control, <<Record(nextOut[e], f)>>)
  /\ TakeOrdinal(e)
  /\ UNCHANGED <<mapping, outFnf, datagrams>>

\* writeInteraction, createInteractionLane
WriteInteraction(e, f) ==
  LET s == f.stream
      new == interactions[e][s] = NoInteraction
      lane == IF new THEN Lane("interaction", e, opened[e] + 1) ELSE interactions[e][s].lane
      before == IF new THEN Interaction(lane, f) ELSE interactions[e][s]
      after == Tracked(before, f, TRUE)
  IN /\ new => opened[e] < MaxLanes
     /\ opened' = [opened EXCEPT ![e] = IF new THEN @ + 1 ELSE @]
     /\ laneStream' = [laneStream EXCEPT ![e] = MapSet(@, lane, s)]
     /\ interactions' = [interactions EXCEPT ![e][s] = after]
     /\ finished' = [finished EXCEPT ![e] = @ \cup Released(before, after)]
     /\ wire' = Enqueued(e, lane, <<Record(nextOut[e], f)>>)
     /\ TakeOrdinal(e)
     /\ UNCHANGED <<outFnf, datagrams>>

\* Fault: the first fragment of a FNF request goes by datagram as well.
RouteFragmentByDatagram(e, f) ==
  IF f.type = "REQUEST_FNF"
  THEN IF unreliable THEN WriteDatagram(e, f) ELSE WriteReliable(e, f)
  ELSE IF f.type = "METADATA_PUSH" \/ f.stream \in outFnf[e] THEN WriteReliable(e, f)
  ELSE IF IsControlFrame(f) THEN WriteControl(e, f)
  ELSE WriteInteraction(e, f)

\* write: routes one frame.
Route(e, f) ==
  IF f.type = "REQUEST_FNF"
  THEN IF f.follows \/ ~unreliable THEN WriteReliable(e, f) ELSE WriteDatagram(e, f)
  ELSE IF f.type = "METADATA_PUSH" THEN WriteReliable(e, f)
  ELSE IF f.type = "PAYLOAD" /\ f.stream \in outFnf[e] THEN WriteReliable(e, f)
  ELSE IF IsControlFrame(f) THEN WriteControl(e, f)
  ELSE WriteInteraction(e, f)

WriteFrame(e) ==
  /\ IsOpen(e) /\ Len(written[e]) < Bound(e)
  /\ \E f \in Frames :
       /\ MayWrite(e, f)
       /\ Route(e, f)
       /\ written' = [written EXCEPT ![e] = Append(@, f)]
  /\ UNCHANGED <<lifecycle, control, inFnf, air, ordering, delivered>>

\* writeSkipMarker, for packets that have been submitted or discarded.
Markers(packets) ==
  [i \in DOMAIN packets |-> Record(packets[i].ordinal, Skip(packets[i].frame))]

datagramLane == <<datagrams, wire, air>>
aside == <<lifecycle, control, nextOut, mapping, outFnf, inFnf, ordering,
           written, delivered>>

\* drain of the datagram lane: one packet submitted, then its callback.
SubmitDatagram(e) ==
  /\ IsOpen(e) /\ datagrams[e] # <<>>
  /\ datagrams' = [datagrams EXCEPT ![e] = Tail(@)]
  /\ air' = [air EXCEPT ![e] = @ \cup {Head(datagrams[e])}]
  /\ wire' = Enqueued(e, Control, Markers(<<Head(datagrams[e])>>))
  /\ UNCHANGED aside

\* Fault: packets discarded by a failure leave no marker.
DatagramLaneFailsSilently(e) ==
  /\ IsOpen(e) /\ datagrams[e] # <<>>
  /\ datagrams' = [datagrams EXCEPT ![e] = <<>>]
  /\ UNCHANGED <<wire, air, aside>>

\* fail, finishCallbacks: every packet is discarded and has its callback run;
\* the next packet opens the lane again, the failure stays unreported.
DatagramLaneFails(e) ==
  /\ IsOpen(e) /\ datagrams[e] # <<>>
  /\ datagrams' = [datagrams EXCEPT ![e] = <<>>]
  /\ wire' = Enqueued(e, Control, Markers(datagrams[e]))
  /\ UNCHANGED <<air, aside>>

-------------------------------------------------------------------------------
(***************************************************************************)
(* Receiving.                                                              *)
(***************************************************************************)
\* validateInboundLane: the lane owns the scope of the frame.
Owns(e, lane, f) ==
  CASE lane.kind = "datagram" -> f.type = "REQUEST_FNF" /\ f.stream # 0 /\ ~f.follows
    [] lane.kind = "control" ->
         IsControlFrame(f) \/ (f.type = "SKIPPED" /\ unreliable)
    [] lane.kind = "reliable" ->
         \/ f.type = "METADATA_PUSH" /\ f.stream = 0
         \/ f.type = "REQUEST_FNF" /\ f.stream # 0
         \/ f.type = "PAYLOAD" /\ f.stream \in inFnf[e]
    [] lane.kind = "interaction" ->
         /\ IsInteractionFrame(f)
         /\ lane \in DOMAIN laneStream[e] => laneStream[e][lane] = f.stream

\* validateInboundLane: the first record of a lane the peer opened makes it
\* the lane of its stream, unless the stream has one.
Adopted(e, lane, f) ==
  IF interactions[e][f.stream] = NoInteraction
  THEN Interaction(lane, f) ELSE interactions[e][f.stream]

\* emitOrderedRecord: a frame for the subscriber, or a failed connection.
Emit(e, lane, f) ==
  IF ~Owns(e, lane, f) THEN Release(e, "failed") /\ UNCHANGED <<laneStream, finished, delivered>>
  ELSE /\ delivered' = [delivered EXCEPT ![e] = Append(@, f)]
       /\ inFnf' = [inFnf EXCEPT ![e] =
            IF lane.kind # "reliable" \/ f.stream = 0 THEN @
            ELSE IF f.follows THEN @ \cup {f.stream} ELSE @ \ {f.stream}]
       /\ IF lane.kind # "interaction" THEN UNCHANGED <<interactions, laneStream, finished>>
          ELSE LET s == f.stream
                   first == lane \notin DOMAIN laneStream[e]
                   before == IF first THEN Adopted(e, lane, f) ELSE interactions[e][s]
                   spare == IF first /\ before.lane # lane THEN {lane} ELSE {}
                   after == Tracked(before, f, FALSE)
               IN /\ laneStream' = [laneStream EXCEPT ![e] = MapSet(@, lane, s)]
                  /\ interactions' = [interactions EXCEPT ![e][s] = after]
                  /\ finished' = [finished EXCEPT ![e] = @ \cup spare \cup Released(before, after)]
       /\ UNCHANGED <<phase, datagrams, outFnf, control>>

unread == <<mode, subscribed, nextOut, opened, written>>

\* Fault: a gap is skipped instead of waited for.
AcceptAcrossGap(e, lane, r) ==
  IF r.ordinal < nextIn[e]
  THEN UNCHANGED <<phase, control, interactions, laneStream, finished, datagrams,
                   outFnf, inFnf, ordering, delivered>>
  ELSE /\ nextIn' = [nextIn EXCEPT ![e] = r.ordinal + 1]
       /\ Emit(e, lane, r.frame)
       /\ Owns(e, lane, r.frame) => UNCHANGED <<pending, draining>>

\* accept of RSocketWebTransportOrderedReceiver, called by acceptRecord.
Accept(e, lane, r) ==
  IF r.ordinal < nextIn[e] \/ r.ordinal \in DOMAIN pending[e]
  THEN UNCHANGED <<phase, control, interactions, laneStream, finished, datagrams,
                   outFnf, inFnf, ordering, delivered>>
  ELSE IF r.ordinal = nextIn[e]
  THEN /\ nextIn' = [nextIn EXCEPT ![e] = @ + 1]
       /\ Emit(e, lane, r.frame)
       /\ Owns(e, lane, r.frame) =>
            /\ draining' = [draining EXCEPT ![e] = r.ordinal + 1 \in DOMAIN pending[e]]
            /\ UNCHANGED pending
  ELSE /\ UNCHANGED nextIn
       /\ IF Cardinality(DOMAIN pending[e]) = ReorderLimit
          THEN Release(e, "failed") /\ UNCHANGED <<laneStream, finished, delivered>>
          ELSE /\ pending' = [pending EXCEPT ![e] = MapSet(@, r.ordinal, [lane |-> lane, frame |-> r.frame])]
               /\ UNCHANGED <<phase, control, interactions, laneStream, finished, datagrams,
                              outFnf, inFnf, draining, delivered>>

\* consumeReliable: the next record of one stream.
ReadLane(e, lane) ==
  /\ Receiving(e) /\ ~draining[e]
  /\ wire[Peer(e)][lane] # <<>>
  /\ wire' = [wire EXCEPT ![Peer(e)][lane] = Tail(@)]
  /\ Accept(e, lane, Head(wire[Peer(e)][lane]))
  /\ UNCHANGED <<unread, air>>

\* handleDatagram
ReadDatagram(e) ==
  /\ Receiving(e) /\ ~draining[e]
  /\ \E p \in air[Peer(e)] :
       /\ air' = [air EXCEPT ![Peer(e)] = @ \ {p}]
       /\ Accept(e, Datagram(Peer(e)), p)
  /\ UNCHANGED <<unread, wire>>

\* drain: one record of the run that a closed gap set free.
Drain(e) ==
  /\ draining[e]
  /\ nextIn' = [nextIn EXCEPT ![e] = @ + 1]
  /\ LET r == pending[e][nextIn[e]]
         rest == [o \in DOMAIN pending[e] \ {nextIn[e]} |-> pending[e][o]]
     IN /\ Emit(e, r.lane, r.frame)
        /\ Owns(e, r.lane, r.frame) =>
             /\ pending' = [pending EXCEPT ![e] = rest]
             /\ draining' = [draining EXCEPT ![e] = nextIn[e] + 1 \in DOMAIN rest]
  /\ UNCHANGED <<unread, wire, air>>

-------------------------------------------------------------------------------
\* What the platform does at one end without being asked: it establishes the
\* session, runs the writers and hands over what has arrived on a stream.
Progress(e) ==
  \/ SessionReady(e) \/ Subscribe(e)
  \/ e = "requester" /\ ControlStreamCreated
  \/ e = "responder" /\ AcceptControl
  \/ SubmitDatagram(e) \/ DatagramLaneFails(e)
  \/ \E lane \in Lanes : ReadLane(e, lane)
  \/ Drain(e)

Next ==
  \E e \in Endpoints :
    Progress(e) \/ Close(e) \/ WriteFrame(e) \/ ReadDatagram(e)

Spec == Init /\ [][Next]_vars

\* Every datagram may be lost, so reading one is not assumed; nor is it that
\* both ends are equally fast.
Fairness == WF_vars(\E e \in Endpoints : Progress(e))

LiveSpec == Spec /\ Fairness

-------------------------------------------------------------------------------
(***************************************************************************)
(* Properties.                                                             *)
(***************************************************************************)
\* Types, and that only later ordinals wait behind a gap.
TypeOK ==
  /\ resumed \in BOOLEAN /\ unreliable \in BOOLEAN
  /\ phase \in [Endpoints -> {"connecting", "opening", "ready", "closed", "failed"}]
  /\ subscribed \in [Endpoints -> BOOLEAN] /\ control \in [Endpoints -> BOOLEAN]
  /\ \A e \in Endpoints :
       /\ nextOut[e] \in 0..Bound(e) /\ nextIn[e] \in 0..Bound(Peer(e))
       /\ opened[e] \in 0..Bound(e)
       /\ DOMAIN pending[e] \subseteq nextIn[e] + (IF draining[e] THEN 0 ELSE 1)..Bound(Peer(e))
       /\ finished[e] \subseteq DOMAIN laneStream[e]
       /\ \A lane \in DOMAIN laneStream[e] : laneStream[e][lane] \in Streams
       /\ draining[e] => nextIn[e] \in DOMAIN pending[e]

\* In each direction the subscriber sees exactly the frames written, in order
\* (a best-effort FNF or the notice of its loss), although streams and
\* datagrams deliver in any order.
Forward == INSTANCE LossyFifo WITH
  sent <- written["requester"], got <- delivered["responder"], Notice <- Skip
Backward == INSTANCE LossyFifo WITH
  sent <- written["responder"], got <- delivered["requester"], Notice <- Skip
GlobalOrder == Forward!Spec /\ Backward!Spec

\* A peer that follows the protocol is never taken for a faulty one: whatever
\* was written is accepted on the lane it was routed to.
FramesArriveOnTheirLane ==
  \A e \in Endpoints : IsOpen(e) =>
    /\ nextIn[e] \in DOMAIN pending[e] =>
         Owns(e, pending[e][nextIn[e]].lane, pending[e][nextIn[e]].frame)
    /\ \A r \in air[Peer(e)] : r.ordinal = nextIn[e] => Owns(e, Datagram(Peer(e)), r.frame)
    /\ \A lane \in Lanes : \A i \in DOMAIN wire[Peer(e)][lane] :
         wire[Peer(e)][lane][i].ordinal = nextIn[e] => Owns(e, lane, wire[Peer(e)][lane][i].frame)

\* No interaction is written to a lane whose writer was told to finish.
MappedLaneIsWritable ==
  \A e \in Endpoints : \A s \in Streams :
    interactions[e][s] # NoInteraction => interactions[e][s].lane \notin finished[e]

\* When an interaction is over at both ends and all that was written has
\* arrived, no end keeps a lane for it: entries are gone and every
\* bidirectional stream opened for it is finished in both directions.
Releases(s) ==
  (\A e \in Endpoints : IsOpen(e) /\ Over(e, s) /\ Len(delivered[e]) = Len(written[Peer(e)]))
  => \A e \in Endpoints :
       /\ interactions[e][s] = NoInteraction
       /\ \A lane \in DOMAIN laneStream[e] : laneStream[e][lane] = s => lane \in finished[e]

\* So it is for interactions that live on one transport.
LanesAreReleased == ~resumed => \A s \in Streams : Releases(s)

\* And for those that were resumed on another one, whose lanes both ends may
\* open: the comment of trackInteractionLifecycle makes no exception.
ResumedLanesAreReleased == \A s \in Streams : Releases(s)

\* Every frame written is delivered or noticed as lost, unless an end is gone:
\* no lost or discarded datagram stalls the frames behind it for good.
EveryFrameSettles ==
  []<>(\/ \A e \in Endpoints : Len(delivered[e]) = Len(written[Peer(e)])
       \/ \E e \in Endpoints : IsClosing(e))
=============================================================================

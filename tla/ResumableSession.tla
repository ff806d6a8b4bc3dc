--------------------------- MODULE ResumableSession ---------------------------
(***************************************************************************)
(* One resumable RSocket session over a succession of transports: the      *)
(* requester (RSocketClient, rsocket-client-ts/src/client/session.ts), the *)
(* responder (RSocketServerSession with its ServerInteractionDispatcher,   *)
(* rsocket-server-ts/src/session) and the ordered, breakable connections   *)
(* between them.  Interactions are request-response, which is enough to    *)
(* exercise every kind of frame the Resume machinery tells apart: an       *)
(* initial request, a CANCEL, an answer and a KEEPALIVE.                   *)
(*                                                                         *)
(* Positional frames count one unit each; ReplayBuffer.tla is about bytes. *)
(* The flags closed, suspended and terminated of the client are one state: *)
(*   active      F F F   frames flow                                       *)
(*   lost        T T F   no transport, waiting for a Resume attempt        *)
(*   handshake   F T F   RESUME sent, resumeHandshake pending              *)
(*   replaying   F T F   RESUME_OK seen, the await has not continued yet   *)
(*   terminated  T F T                                                     *)
(***************************************************************************)
EXTENDS Integers, Sequences

CONSTANTS
  MaxRequests,      \* bound: requests the application starts
  MaxConnections,   \* bound: physical connections opened; the last never fails
  ClientCapacity,   \* replay capacity of the requester, in frames
  ServerCapacities  \* and those of the responder that are considered

ASSUME SessionAssumption ==
  /\ MaxRequests \in Nat \ {0}
  /\ MaxConnections \in Nat \ {0}
  /\ ClientCapacity \in Nat \ {0}
  /\ ServerCapacities \subseteq Nat \ {0}

Connections == 1..MaxConnections
StreamIds == {2 * n - 1 : n \in 1..MaxRequests}

VARIABLES
  \* requester
  state, connection, clientPosition, cServerPosition, cRetained,
  pendingFrames, pendingIncomingFrames, resumeOk, nextStreamId, streams,
  \* responder
  sState, binding, sClientPosition, serverPosition, sRetained,
  sNextStreamId, sStreams,
  sCapacity,        \* its replay capacity, fixed when it is configured
  \* physical connections: their health and the frames in flight
  link, up, down,
  \* history: frames positioned and dispatched, in order, by each side, and
  \* requests withdrawn before they were sent
  cLog, sGot, sLog, cGot, withdrawn

network == <<link, up, down>>
queues == <<pendingFrames, pendingIncomingFrames, resumeOk>>
interactions == <<nextStreamId, streams, withdrawn>>
clientSent == <<clientPosition, cRetained, cLog>>
clientGot == <<cServerPosition, cGot>>
client == <<state, connection, queues, interactions, clientSent, clientGot>>
serverSent == <<serverPosition, sRetained, sLog>>
serverGot == <<sClientPosition, sGot>>
server == <<sState, binding, sNextStreamId, sCapacity, sStreams, serverSent, serverGot>>
vars == <<client, server, network>>

-------------------------------------------------------------------------------
(***************************************************************************)
(* Frames.                                                                 *)
(***************************************************************************)
Request(id) == [type |-> "REQUEST", stream |-> id]
Cancel(id) == [type |-> "CANCEL", stream |-> id]
Response(id) == [type |-> "PAYLOAD", stream |-> id]
Keepalive(respond, position) == [type |-> "KEEPALIVE", respond |-> respond, position |-> position]
Setup == [type |-> "SETUP"]
Resume(received, first) == [type |-> "RESUME", received |-> received, first |-> first]
ResumeOk(position) == [type |-> "RESUME_OK", position |-> position]
Rejected == [type |-> "REJECTED_RESUME"]
ConnectionError == [type |-> "ERROR"]

NoPosition == -1

\* The tail of a retained sequence ending at `current` that starts at `position`.
RetainedFrom(retained, current, position) ==
  SubSeq(retained, Len(retained) - (current - position) + 1, Len(retained))

\* acknowledge: positions that do not advance are ignored.
Acknowledged(retained, current, position) ==
  IF position <= current - Len(retained) THEN retained
  ELSE RetainedFrom(retained, current, position)

(***************************************************************************)
(* A write reaches the peer while the connection is healthy.  On a broken  *)
(* one it is accepted and lost until this side has noticed.                *)
(***************************************************************************)
Delivered(queue, k, frames) ==
  IF link[k] = "open" THEN [queue EXCEPT ![k] = @ \o frames] ELSE queue

Broken(k) == [link EXCEPT ![k] = "broken"]

\* Transports fail while there is another one left to resume on.
MayFail(k) == k < MaxConnections

-------------------------------------------------------------------------------
(***************************************************************************)
(* Requester.                                                              *)
(***************************************************************************)
\* Fault: a CANCEL is queued behind the request it withdraws.
QueuedWithoutSuperseding(frames, frame) == Append(frames, frame)

\* The queued frames of the other streams, in order.
OtherStreams(frames, stream) ==
  LET kept[i \in 0..Len(frames)] ==
        IF i = 0 THEN <<>>
        ELSE IF frames[i].stream = stream THEN kept[i - 1]
        ELSE Append(kept[i - 1], frames[i])
  IN kept[Len(frames)]

\* queueFrame: a CANCEL supersedes what is queued for its stream, and itself
\* when the initial request is among it.
Queued(frames, frame) ==
  LET others == OtherStreams(frames, frame.stream)
      unsent == \E i \in DOMAIN frames : frames[i] = Request(frame.stream)
  IN IF frame.type # "CANCEL" THEN Append(frames, frame)
     ELSE IF unsent THEN others
     ELSE Append(others, frame)

\* The binding of a connection is disposed: what it still carries to this
\* side is dropped, and the other side will see it close.
Unbind(queue, queue2, k) ==
  /\ queue2 = [queue EXCEPT ![k] = <<>>]
  /\ link' = Broken(k)

\* loseTransport and failResumeAttempt: the session waits for a Resume.
LoseTransport ==
  /\ state' = "lost"
  /\ resumeOk' = NoPosition
  /\ pendingIncomingFrames' = <<>>
  /\ Unbind(down, down', connection)

\* terminateSession: streams fail and every retained frame is released.
TerminateClient ==
  /\ state' = "terminated"
  /\ resumeOk' = NoPosition
  /\ pendingFrames' = <<>> /\ pendingIncomingFrames' = <<>>
  /\ streams' = {} /\ cRetained' = <<>>
  /\ Unbind(down, down', connection)

\* replayBuffer.record and the assignment of the returned position.
RecordClient(frames) ==
  /\ cRetained' = cRetained \o frames
  /\ clientPosition' = clientPosition + Len(frames)
  /\ cLog' = cLog \o frames

\* sendFrame while suspended.
SendWhileSuspended(frame) ==
  /\ state \in {"lost", "handshake", "replaying"}
  /\ pendingFrames' = Queued(pendingFrames, frame)
  /\ UNCHANGED <<state, resumeOk, pendingIncomingFrames, clientSent, network>>

\* sendSerializedFrame: the frame is recorded, then written.
SendWritten(frame) ==
  /\ state = "active" /\ Len(cRetained) < ClientCapacity
  /\ RecordClient(<<frame>>)
  /\ up' = Delivered(up, connection, <<frame>>)
  /\ UNCHANGED <<state, queues, link, down>>

\* The write throws: the recorded frame is left to the replay.
SendThrows(frame) ==
  /\ state = "active" /\ Len(cRetained) < ClientCapacity
  /\ link[connection] = "broken"
  /\ RecordClient(<<frame>>)
  /\ LoseTransport
  /\ UNCHANGED <<pendingFrames, up>>

\* The transport is found closed before the write: the frame is queued.
SendNotOpen(frame) ==
  /\ state = "active"
  /\ link[connection] = "broken"
  /\ LoseTransport
  /\ pendingFrames' = Queued(pendingFrames, frame)
  /\ UNCHANGED <<clientSent, up>>

Send(frame) ==
  \/ SendWhileSuspended(frame) \/ SendWritten(frame)
  \/ SendThrows(frame) \/ SendNotOpen(frame)

\* requestResponse: assertCanStartRequest refuses while the client is closed.
StartRequest ==
  /\ state \in {"active", "handshake", "replaying"}
  /\ nextStreamId \in StreamIds
  /\ nextStreamId' = nextStreamId + 2
  /\ streams' = streams \cup {nextStreamId}
  /\ Send(Request(nextStreamId))
  /\ UNCHANGED <<connection, withdrawn, clientGot, server>>

\* onCancel of the Mono, or its timeout: the stream is forgotten at once.
CancelRequest(id) ==
  /\ id \in streams
  /\ streams' = streams \ {id}
  /\ withdrawn' = IF \E i \in DOMAIN pendingFrames : pendingFrames[i] = Request(id)
                  THEN withdrawn \cup {id} ELSE withdrawn
  /\ Send(Cancel(id))
  /\ UNCHANGED <<connection, nextStreamId, clientGot, server>>

\* record throws when the replay buffer is full: the session is over.
ClientBufferOverflows ==
  /\ state = "active" /\ Len(cRetained) = ClientCapacity
  /\ nextStreamId \in StreamIds \/ streams # {}
  /\ TerminateClient
  /\ UNCHANGED <<connection, nextStreamId, withdrawn, clientPosition, cLog, clientGot,
                 server, up>>

(***************************************************************************)
(* The heartbeat carries the server position received so far.  Bound of    *)
(* the model: one KEEPALIVE in flight per connection.                      *)
(***************************************************************************)
NoKeepalive(queue) == \A i \in DOMAIN queue : queue[i].type # "KEEPALIVE"

SendKeepalive ==
  /\ state = "active"
  /\ NoKeepalive(up[connection]) /\ NoKeepalive(down[connection])
  /\ link[connection] = "open"
  /\ up' = Delivered(up, connection, <<Keepalive(TRUE, cServerPosition)>>)
  /\ UNCHANGED <<client, server, link, down>>

\* The close or error event of the transport, a heartbeat whose write throws,
\* the lifetime timer or the Resume timeout.
ClientLosesTransport ==
  /\ state \in {"active", "handshake", "replaying"}
  /\ link[connection] = "broken" \/ (MayFail(connection) /\ state # "replaying")
  /\ LoseTransport
  /\ UNCHANGED <<connection, pendingFrames, interactions, clientSent, clientGot,
                 server, up>>

\* Fault: RESUME names the current position as the first available one.
OpenResumeWithWrongPosition ==
  /\ state = "lost" /\ connection < MaxConnections
  /\ connection' = connection + 1
  /\ state' = "handshake"
  /\ link' = [link EXCEPT ![connection'] = "open"]
  /\ up' = [up EXCEPT ![connection'] = <<Resume(cServerPosition, clientPosition)>>]
  /\ UNCHANGED <<queues, interactions, clientSent, clientGot, server, down>>

\* Fault: RESUME swaps the two positions.
OpenResumeSwapped ==
  /\ state = "lost" /\ connection < MaxConnections
  /\ connection' = connection + 1
  /\ state' = "handshake"
  /\ link' = [link EXCEPT ![connection'] = "open"]
  /\ up' = [up EXCEPT ![connection'] =
             <<Resume(clientPosition - Len(cRetained), cServerPosition)>>]
  /\ UNCHANGED <<queues, interactions, clientSent, clientGot, server, down>>

\* RSocketClient.resume up to its await: beginResume and the RESUME frame.
OpenResume ==
  /\ state = "lost" /\ connection < MaxConnections
  /\ connection' = connection + 1
  /\ state' = "handshake"
  /\ link' = [link EXCEPT ![connection'] = "open"]
  /\ up' = [up EXCEPT ![connection'] =
             <<Resume(cServerPosition, clientPosition - Len(cRetained))>>]
  /\ UNCHANGED <<queues, interactions, clientSent, clientGot, server, down>>

\* The owner gives up: the retention time is over or the RESUME was refused.
AbandonResume ==
  /\ state = "lost"
  /\ TerminateClient
  /\ UNCHANGED <<connection, nextStreamId, withdrawn, clientPosition, cLog, clientGot,
                 server, up>>

\* Frames arriving on the client's current connection; older ones are unbound.
HasIncoming == down[connection] # <<>>
Incoming == Head(down[connection])
ConsumeIncoming ==
  /\ HasIncoming
  /\ down' = [down EXCEPT ![connection] = Tail(@)]

\* handleIncomingBytes with a pending handshake: RESUME_OK resolves the wait,
\* the continuation of `await responsePromise` runs later.
ReceiveResumeOk ==
  /\ state = "handshake" /\ ConsumeIncoming
  /\ Incoming.type = "RESUME_OK"
  /\ state' = "replaying"
  /\ resumeOk' = Incoming.position
  /\ UNCHANGED <<connection, pendingFrames, pendingIncomingFrames, interactions,
                 clientSent, clientGot, server, link, up>>

\* Anything else fails this physical attempt.
ReceiveRejection ==
  /\ state = "handshake" /\ HasIncoming
  /\ Incoming.type # "RESUME_OK"
  /\ LoseTransport
  /\ UNCHANGED <<connection, pendingFrames, interactions, clientSent, clientGot, server, up>>

\* Frames that follow RESUME_OK wait for the replay to finish.
BufferIncoming ==
  /\ state = "replaying" /\ ConsumeIncoming
  /\ pendingIncomingFrames' = Append(pendingIncomingFrames, Incoming)
  /\ UNCHANGED <<state, connection, pendingFrames, resumeOk, interactions,
                 clientSent, clientGot, server, link, up>>

\* handleIncomingBytes and handlePayloadFrame for answers: each advances the
\* server position, also when its stream has been cancelled meanwhile.
DispatchAnswers(frames) ==
  /\ cServerPosition' = cServerPosition + Len(frames)
  /\ cGot' = cGot \o frames
  /\ streams' = streams \ {frames[i].stream : i \in DOMAIN frames}

ReceiveAnswer ==
  /\ state = "active" /\ ConsumeIncoming
  /\ Incoming.type = "PAYLOAD"
  /\ DispatchAnswers(<<Incoming>>)
  /\ UNCHANGED <<state, connection, queues, nextStreamId, withdrawn, clientSent,
                 server, link, up>>

ReceiveKeepalive ==
  /\ state = "active" /\ ConsumeIncoming
  /\ Incoming.type = "KEEPALIVE"
  /\ cRetained' = Acknowledged(cRetained, clientPosition, Incoming.position)
  /\ UNCHANGED <<state, connection, queues, interactions, clientPosition, cLog, clientGot,
                 server, link, up>>

\* handleErrorFrame on stream 0.
ReceiveConnectionError ==
  /\ state = "active" /\ HasIncoming
  /\ Incoming.type = "ERROR"
  /\ TerminateClient
  /\ UNCHANGED <<connection, nextStreamId, withdrawn, clientPosition, cLog, clientGot,
                 server, up>>

(***************************************************************************)
(* resumeWith, in one synchronous step after the await: replay what the    *)
(* responder has not received, flush what was queued meanwhile, dispatch   *)
(* what arrived meanwhile.                                                 *)
(***************************************************************************)
ToReplay == RetainedFrom(cRetained, clientPosition, resumeOk)

\* Fault: replayed frames are counted a second time.
FinishResumeCountingTwice ==
  /\ state = "replaying"
  /\ Len(ToReplay) + Len(pendingFrames) <= ClientCapacity
  /\ state' = "active" /\ resumeOk' = NoPosition
  /\ cRetained' = ToReplay \o pendingFrames
  /\ clientPosition' = clientPosition + Len(cRetained')
  /\ cLog' = cLog \o pendingFrames
  /\ up' = Delivered(up, connection, ToReplay \o pendingFrames)
  /\ DispatchAnswers(pendingIncomingFrames)
  /\ pendingFrames' = <<>> /\ pendingIncomingFrames' = <<>>
  /\ UNCHANGED <<connection, nextStreamId, withdrawn, server, link, down>>

FinishResume ==
  /\ state = "replaying"
  /\ Len(ToReplay) + Len(pendingFrames) <= ClientCapacity
  /\ state' = "active" /\ resumeOk' = NoPosition
  /\ cRetained' = ToReplay \o pendingFrames
  /\ clientPosition' = clientPosition + Len(pendingFrames)
  /\ cLog' = cLog \o pendingFrames
  /\ up' = Delivered(up, connection, ToReplay \o pendingFrames)
  /\ DispatchAnswers(pendingIncomingFrames)
  /\ pendingFrames' = <<>> /\ pendingIncomingFrames' = <<>>
  /\ UNCHANGED <<connection, nextStreamId, withdrawn, server, link, down>>

\* The transport fails under the writes after n queued frames were recorded: the
\* first m frames got through, the others stay queued, and what arrived meanwhile
\* is forgotten undispatched.
ResumeWriteFails(n, m) ==
  /\ state = "replaying"
  /\ link[connection] = "broken" \/ MayFail(connection)
  /\ Len(ToReplay) + n <= ClientCapacity
  /\ LET recorded == SubSeq(pendingFrames, 1, n)
     IN /\ cRetained' = ToReplay \o recorded
        /\ clientPosition' = clientPosition + n
        /\ cLog' = cLog \o recorded
        /\ m <= Len(ToReplay) + n
        /\ up' = Delivered(up, connection, SubSeq(ToReplay \o recorded, 1, m))
  /\ pendingFrames' = SubSeq(pendingFrames, n + 1, Len(pendingFrames))
  /\ LoseTransport
  /\ UNCHANGED <<connection, interactions, clientGot, server>>

\* flushPendingFrames finds the replay buffer full after the frames that fit.
ResumeOverflows ==
  /\ state = "replaying"
  /\ Len(ToReplay) + Len(pendingFrames) > ClientCapacity
  /\ LET fits == SubSeq(pendingFrames, 1, ClientCapacity - Len(ToReplay))
     IN /\ clientPosition' = clientPosition + Len(fits)
        /\ cLog' = cLog \o fits
        /\ up' = Delivered(up, connection, ToReplay \o fits)
  /\ TerminateClient
  /\ UNCHANGED <<connection, nextStreamId, withdrawn, clientGot, server>>

-------------------------------------------------------------------------------
(***************************************************************************)
(* Responder.                                                              *)
(***************************************************************************)
\* transportLost: the session is retained for the Resume TTL.
TransportLost ==
  /\ sState' = "suspended"
  /\ binding' = 0
  /\ Unbind(up, up', binding)

\* terminateSession: streams, retained frames and the token are released.
TerminateServer ==
  /\ sState' = "terminated"
  /\ binding' = 0
  /\ sStreams' = {} /\ sRetained' = <<>>
  /\ IF binding = 0 THEN UNCHANGED <<up, link>> ELSE Unbind(up, up', binding)

\* Frames on the bound connection; every other connection is unbound.
HasSIncoming == sState = "active" /\ up[binding] # <<>>
SIncoming == Head(up[binding])
ConsumeSIncoming ==
  /\ HasSIncoming
  /\ up' = [up EXCEPT ![binding] = Tail(@)]

\* recordClientPosition, before the frame is dispatched.
DispatchRequesterFrame(frame) ==
  /\ sClientPosition' = sClientPosition + 1
  /\ sGot' = Append(sGot, frame)

\* handleInitialRequest with the expected stream identifier.
ServerAcceptsRequest ==
  /\ ConsumeSIncoming
  /\ SIncoming.type = "REQUEST" /\ SIncoming.stream = sNextStreamId
  /\ DispatchRequesterFrame(SIncoming)
  /\ sNextStreamId' = sNextStreamId + 2
  /\ sStreams' = sStreams \cup {SIncoming.stream}
  /\ UNCHANGED <<sState, binding, sCapacity, serverSent, client, link, down>>

\* validateNewStreamId throws: CONNECTION_ERROR and the end of the session.
ServerRefusesStreamId ==
  /\ HasSIncoming
  /\ SIncoming.type = "REQUEST" /\ SIncoming.stream # sNextStreamId
  /\ DispatchRequesterFrame(SIncoming)
  /\ down' = Delivered(down, binding, <<ConnectionError>>)
  /\ TerminateServer
  /\ UNCHANGED <<sNextStreamId, sCapacity, serverPosition, sLog, client>>

\* handleCancel; a CANCEL of a finished stream only advances the position.
ServerCancels ==
  /\ ConsumeSIncoming
  /\ SIncoming.type = "CANCEL"
  /\ DispatchRequesterFrame(SIncoming)
  /\ sStreams' = sStreams \ {SIncoming.stream}
  /\ UNCHANGED <<sState, binding, sNextStreamId, sCapacity, serverSent, client, link, down>>

\* KEEPALIVE acknowledges what the requester has received and is echoed.
ServerKeepalive ==
  /\ ConsumeSIncoming
  /\ SIncoming.type = "KEEPALIVE"
  /\ sRetained' = Acknowledged(sRetained, serverPosition, SIncoming.position)
  /\ down' = Delivered(down, binding, <<Keepalive(FALSE, sClientPosition)>>)
  /\ UNCHANGED <<sState, binding, sNextStreamId, sCapacity, sStreams, serverPosition, sLog, serverGot,
                 client, link>>

\* The echo cannot be written: sendSerialized suspends the session and rethrows,
\* and the catch of handleIncomingBytes ends it as a protocol error.
ServerKeepaliveThrows ==
  /\ HasSIncoming
  /\ SIncoming.type = "KEEPALIVE"
  /\ link[binding] = "broken"
  /\ TerminateServer
  /\ UNCHANGED <<sNextStreamId, sCapacity, serverPosition, sLog, serverGot, client, down>>

\* replay.record for an answer, at any time while the session exists.
RecordAnswer(id) ==
  /\ id \in sStreams /\ Len(sRetained) < sCapacity
  /\ sStreams' = sStreams \ {id}
  /\ sRetained' = Append(sRetained, Response(id))
  /\ serverPosition' = serverPosition + 1
  /\ sLog' = Append(sLog, Response(id))
  /\ UNCHANGED <<sNextStreamId, sCapacity, serverGot, client>>

\* Fault: an answer produced while suspended is dropped.
ServerAnswersUnretained(id) ==
  /\ id \in sStreams
  /\ IF sState = "active"
     THEN RecordAnswer(id) /\ down' = Delivered(down, binding, <<Response(id)>>)
     ELSE /\ sStreams' = sStreams \ {id}
          /\ UNCHANGED <<sNextStreamId, sCapacity, serverSent, serverGot, client, down>>
  /\ UNCHANGED <<sState, binding, link, up>>

\* sendSerialized: written when active, only retained while suspended.
ServerAnswers(id) ==
  /\ RecordAnswer(id)
  /\ down' = IF sState = "active" THEN Delivered(down, binding, <<Response(id)>>) ELSE down
  /\ UNCHANGED <<sState, binding, link, up>>

\* The write throws: the answer is left to the replay.
ServerAnswerThrows(id) ==
  /\ RecordAnswer(id)
  /\ sState = "active" /\ link[binding] = "broken"
  /\ TransportLost
  /\ UNCHANGED down

\* record throws when the replay buffer is full.
ServerBufferOverflows ==
  /\ sStreams # {} /\ Len(sRetained) = sCapacity
  /\ TerminateServer
  /\ UNCHANGED <<sNextStreamId, sCapacity, serverPosition, sLog, serverGot, client, down>>

\* The close event of the bound transport, or its lifetime timer.
ServerLosesTransport ==
  /\ sState = "active"
  /\ link[binding] = "broken" \/ MayFail(binding)
  /\ TransportLost
  /\ UNCHANGED <<sNextStreamId, sCapacity, sStreams, serverSent, serverGot, client, down>>

\* The Resume TTL of a suspended session expires.
ServerExpires ==
  /\ sState = "suspended"
  /\ TerminateServer
  /\ UNCHANGED <<sNextStreamId, sCapacity, serverPosition, sLog, serverGot, client, down>>

-------------------------------------------------------------------------------
(***************************************************************************)
(* Accepting a connection: its first frame is SETUP or RESUME.             *)
(***************************************************************************)
FirstFrame(k, type) ==
  /\ link[k] # "unused" /\ up[k] # <<>> /\ Head(up[k]).type = type
  /\ up' = [up EXCEPT ![k] = Tail(@)]

AcceptSetup(k) ==
  /\ FirstFrame(k, "SETUP")
  /\ sState = "listening"
  /\ sState' = "active" /\ binding' = k
  /\ UNCHANGED <<sNextStreamId, sCapacity, sStreams, serverSent, serverGot, client, link, down>>

\* rejectResumeReason, and the unknown token of acceptResume.
RefusalReasons(frame) ==
  IF sState \in {"listening", "terminated"} THEN {"unknown token"}
  ELSE IF sState # "suspended" THEN {"not suspended"}
  ELSE {r \in {"client position", "server position"} :
         \/ r = "client position" /\ frame.first > sClientPosition
         \/ r = "server position" /\
              frame.received \notin (serverPosition - Len(sRetained))..serverPosition}

\* REJECTED_RESUME; the connection is closed, a live session is not touched.
RefuseResume(k) ==
  /\ FirstFrame(k, "RESUME")
  /\ RefusalReasons(Head(up[k])) # {}
  /\ down' = Delivered(down, k, <<Rejected>>)
  /\ link' = Broken(k)
  /\ UNCHANGED <<sState, binding, sNextStreamId, sCapacity, sStreams, serverSent, serverGot, client>>

\* Fault: every retained answer is replayed, also those the requester reported.
AcceptResumeReplayingAll(k) ==
  /\ FirstFrame(k, "RESUME")
  /\ RefusalReasons(Head(up[k])) = {}
  /\ sState' = "active" /\ binding' = k
  /\ down' = Delivered(down, k, <<ResumeOk(sClientPosition)>> \o sRetained)
  /\ UNCHANGED <<sNextStreamId, sCapacity, sStreams, serverSent, serverGot, client, link>>

\* Fault: replayed answers are no longer retained.
AcceptResumeReleasing(k) ==
  LET frame == Head(up[k])
  IN /\ FirstFrame(k, "RESUME")
     /\ RefusalReasons(frame) = {}
     /\ sState' = "active" /\ binding' = k
     /\ sRetained' = <<>>
     /\ down' = Delivered(down, k, <<ResumeOk(sClientPosition)>> \o
                   RetainedFrom(sRetained, serverPosition, frame.received))
     /\ UNCHANGED <<sNextStreamId, sCapacity, sStreams, serverPosition, sLog, serverGot,
                    client, link>>

\* resume, in one synchronous step: RESUME_OK, then the retained answers.
AcceptResume(k) ==
  LET frame == Head(up[k])
      replayed == RetainedFrom(sRetained, serverPosition, frame.received)
  IN /\ FirstFrame(k, "RESUME")
     /\ RefusalReasons(frame) = {}
     /\ sState' = "active" /\ binding' = k
     /\ sRetained' = replayed
     /\ down' = Delivered(down, k, <<ResumeOk(sClientPosition)>> \o replayed)
     /\ UNCHANGED <<sNextStreamId, sCapacity, sStreams, serverPosition, sLog, serverGot,
                    client, link>>

\* The m-th write of resume is the last to get through: the session stays
\* suspended, and has dropped the frames that were acknowledged once it replays.
AcceptResumeThrows(k, m) ==
  LET frame == Head(up[k])
      replayed == RetainedFrom(sRetained, serverPosition, frame.received)
      writes == <<ResumeOk(sClientPosition)>> \o replayed
  IN /\ link[k] = "broken" \/ MayFail(k)
     /\ up[k] # <<>> /\ Head(up[k]).type = "RESUME"
     /\ RefusalReasons(frame) = {}
     /\ m <= Len(writes)
     /\ down' = Delivered(down, k, SubSeq(writes, 1, m))
     /\ sRetained' \in {sRetained} \cup {r \in {replayed} : m > 0}
     /\ Unbind(up, up', k)
     /\ UNCHANGED <<sState, binding, sNextStreamId, sCapacity, sStreams, serverPosition, sLog, serverGot,
                    client>>

-------------------------------------------------------------------------------
\* A connection fails; what it carries may still arrive.
Break(k) ==
  /\ link[k] = "open" /\ MayFail(k)
  /\ link' = Broken(k)
  /\ UNCHANGED <<client, server, up, down>>

Init ==
  /\ state = "active" /\ connection = 1
  /\ clientPosition = 0 /\ cServerPosition = 0 /\ cRetained = <<>>
  /\ pendingFrames = <<>> /\ pendingIncomingFrames = <<>> /\ resumeOk = NoPosition
  /\ nextStreamId = 1 /\ streams = {}
  /\ sState = "listening" /\ binding = 0
  /\ sClientPosition = 0 /\ serverPosition = 0 /\ sRetained = <<>>
  /\ sNextStreamId = 1 /\ sStreams = {} /\ sCapacity \in ServerCapacities
  /\ link = [k \in Connections |-> IF k = 1 THEN "open" ELSE "unused"]
  /\ up = [k \in Connections |-> IF k = 1 THEN <<Setup>> ELSE <<>>]
  /\ down = [k \in Connections |-> <<>>]
  /\ cLog = <<>> /\ sGot = <<>> /\ sLog = <<>> /\ cGot = <<>>
  /\ withdrawn = {}

ClientReceive ==
  \/ ReceiveResumeOk \/ ReceiveRejection \/ BufferIncoming
  \/ ReceiveAnswer \/ ReceiveKeepalive \/ ReceiveConnectionError

ContinueResume ==
  \/ FinishResume \/ ResumeOverflows
  \/ \E n \in 0..Len(pendingFrames), m \in 0..ClientCapacity : ResumeWriteFails(n, m)

ClientStep ==
  \/ StartRequest \/ \E id \in streams : CancelRequest(id)
  \/ ClientBufferOverflows \/ SendKeepalive \/ ClientLosesTransport
  \/ OpenResume \/ AbandonResume \/ ClientReceive \/ ContinueResume

ServerReceive ==
  \/ ServerAcceptsRequest \/ ServerRefusesStreamId \/ ServerCancels
  \/ ServerKeepalive \/ ServerKeepaliveThrows

Accept ==
  \E k \in Connections :
    \/ AcceptSetup(k) \/ RefuseResume(k) \/ AcceptResume(k)
    \/ \E m \in 0..(sCapacity + 1) : AcceptResumeThrows(k, m)

ServerAnswer == \E id \in sStreams : ServerAnswers(id) \/ ServerAnswerThrows(id)

ServerStep ==
  \/ ServerReceive \/ Accept \/ ServerAnswer
  \/ ServerBufferOverflows \/ ServerLosesTransport \/ ServerExpires

Next == ClientStep \/ ServerStep \/ \E k \in Connections : Break(k)

Spec == Init /\ [][Next]_vars

(***************************************************************************)
(* Each runtime delivers events and runs continuations and timers, in any  *)
(* order, and a controller answers; nobody has to start requests, cancel   *)
(* them or break transports.  A client that cannot resume gives up in the  *)
(* end.                                                                    *)
(***************************************************************************)
ClientRuns ==
  \/ ClientReceive \/ ContinueResume \/ OpenResume
  \/ link[connection] = "broken" /\ ClientLosesTransport

ServerRuns ==
  \/ ServerReceive \/ Accept
  \/ sState = "active" /\ link[binding] = "broken" /\ ServerLosesTransport

Fairness ==
  /\ WF_vars(ClientRuns) /\ WF_vars(AbandonResume)
  /\ WF_vars(ServerRuns) /\ WF_vars(ServerAnswer \/ ServerBufferOverflows)

FairSpec == Spec /\ Fairness

-------------------------------------------------------------------------------
(***************************************************************************)
(* Properties.                                                             *)
(***************************************************************************)
PositionalFrames == {Request(id) : id \in StreamIds} \cup {Cancel(id) : id \in StreamIds}
Answers == {Response(id) : id \in StreamIds}
Positions == 0..(2 * MaxRequests)

TypeOK ==
  /\ state \in {"active", "lost", "handshake", "replaying", "terminated"}
  /\ connection \in Connections
  /\ clientPosition \in Positions /\ cServerPosition \in Positions
  /\ cRetained \in Seq(PositionalFrames) /\ pendingFrames \in Seq(PositionalFrames)
  /\ pendingIncomingFrames \in Seq(Answers)
  /\ resumeOk \in Positions \cup {NoPosition}
  /\ nextStreamId \in 1..(2 * MaxRequests + 1)
  /\ streams \subseteq StreamIds /\ withdrawn \subseteq StreamIds
  /\ sState \in {"listening", "active", "suspended", "terminated"}
  /\ binding \in 0..MaxConnections
  /\ sClientPosition \in Positions /\ serverPosition \in Positions
  /\ sRetained \in Seq(Answers)
  /\ sNextStreamId \in 1..(2 * MaxRequests + 1)
  /\ sStreams \subseteq StreamIds /\ sCapacity \in ServerCapacities
  /\ link \in [Connections -> {"unused", "open", "broken"}]

\* While both sides keep the session, each still holds every frame the other
\* has not received: whichever transport fails next, no gap can open.
RetainedCoversTheGap ==
  (state # "terminated" /\ sState \in {"active", "suspended"}) =>
    /\ sClientPosition \in (clientPosition - Len(cRetained))..clientPosition
    /\ cServerPosition \in (serverPosition - Len(sRetained))..serverPosition

\* A peer never reports more than it has: RESUME and KEEPALIVE no answer the
\* requester has not handled, RESUME_OK and KEEPALIVE no frame the responder has
\* not dispatched, and RESUME drops no frame the responder still lacks.  So no
\* honest acknowledgement releases a frame the other side needs again.
ReportedPositionsAreTruthful ==
  /\ resumeOk <= sClientPosition /\ sClientPosition <= clientPosition
  /\ cServerPosition <= serverPosition
  /\ \A k \in Connections :
       /\ \A i \in DOMAIN up[k] :
            /\ up[k][i].type = "KEEPALIVE" => up[k][i].position <= cServerPosition
            /\ up[k][i].type = "RESUME" =>
                 up[k][i].received <= cServerPosition /\ up[k][i].first <= sClientPosition
       /\ \A i \in DOMAIN down[k] :
            down[k][i].type \in {"KEEPALIVE", "RESUME_OK"} =>
              down[k][i].position <= sClientPosition

\* A RESUME is never refused over positions: the retained state of both sides
\* always matches, whatever was lost, abandoned half-way or acknowledged late.
ResumeOffered == state = "handshake" /\ up[connection] # <<>>

NeverRefusedOverPositions ==
  ResumeOffered /\ sState = "suspended" => RefusalReasons(Head(up[connection])) = {}

\* A request cancelled before it was written stays unwritten, and so does its
\* CANCEL: the responder never hears of the stream.
WithdrawnIsNeverSent ==
  \A id \in withdrawn : \A i \in DOMAIN cLog : cLog[i].stream # id

\* Every request is answered, cancelled or failed, although transports fail,
\* RESUMEs are refused and answers are produced while nobody is connected.
EveryRequestSettles ==
  \A id \in StreamIds : id \in streams ~> id \notin streams

\* Exactly once, in order, in both directions, over every transport.
Delivery == INSTANCE ReliableDelivery WITH
              requested <- cLog, handled <- sGot, answered <- sLog, received <- cGot

ImplementsReliableDelivery == Delivery!Spec

\* Implied positions count exactly the frames sent and the frames dispatched.
PositionsCountFrames ==
  /\ clientPosition = Len(cLog) /\ sClientPosition = Len(sGot)
  /\ serverPosition = Len(sLog) /\ cServerPosition = Len(cGot)

\* The requester's identifiers are those the responder expects, so no sequence
\* of legal calls makes the responder end the session.
StreamIdsAreSequential ==
  HasSIncoming /\ SIncoming.type = "REQUEST"
    => SIncoming.stream = sNextStreamId

\* A lost transport suspends a resumable session: only a request out of order or
\* a full replay buffer ends one that is active.
TransportLossOnlySuspends ==
  [][sState = "active" /\ sState' = "terminated"
       => ServerRefusesStreamId \/ ServerBufferOverflows]_vars

\* A refusal reaches the requester only when the responder has no state left.
RefusedOnlyWhenStateIsGone ==
  state = "handshake" /\ HasIncoming /\ Incoming = Rejected
    => sState \notin {"active", "suspended"}
=============================================================================

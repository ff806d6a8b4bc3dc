---------------------------- MODULE FramedTransport ----------------------------
(***************************************************************************)
(* Logical frames of a requester on their way to the controllers of a      *)
(* responder: fragmented when they exceed maxFrameLength (Fragmentation),  *)
(* cut out of TCP chunks or WebSocket messages (FrameStream), and glued    *)
(* together again by the server session.  The client's activity listener   *)
(* runs after every written fragment and may itself send: its frames then  *)
(* come between two fragments.                                             *)
(***************************************************************************)
EXTENDS FrameStream

CONSTANTS
  RequestKinds(_),      \* for each stream id: the pairs of type and shape its request may have,
                        \* a shape being <<metadata length or -1 for none, data length>>
  ItemShapes,           \* the shapes of the items of a channel
  MaxRequests,          \* bound: requests
  MaxItems,             \* bound: channel items of one stream
  MaxInFlight           \* bound: frames written and not yet handled

VARIABLES
  sending,              \* emission loops on the stack, innermost last
  nextId,               \* client: id of the next request
  requester,            \* client: "unused", "open" or "closed" stream
  outboundDone,         \* client: streams whose request direction has ended
  issued,               \* client: logical requests and items passed to sendFrame, in order
  expectedId,           \* server: nextStreamId
  registered,           \* server: "none", "single" or "channel" in the stream map
  requestParts,         \* server: requestFragments
  payloadParts,         \* server: payloadFragments
  credits,              \* server: remoteCredits of a channel's input
  grants,               \* server: all credit granted by REQUEST_N, seen by the client at some time
  requesterComplete,    \* server: channels half-closed by the client
  responderComplete,    \* server: channels half-closed by the controller
  given,                \* server: logical requests and items given to controllers, in order
  ended                 \* server: streams it refused or terminated itself

clientVars == <<sending, nextId, requester, outboundDone, issued>>
serverVars == <<expectedId, registered, requestParts, payloadParts, credits, grants,
                requesterComplete, responderComplete, given, ended>>
vars == <<clientVars, serverVars, streamVars>>

Streams == {2 * n - 1 : n \in 1..MaxRequests}

Shapes == (Nat \cup {-1}) \X Nat

\* What a requester may send: a request of one of the four types, with or without metadata.
ASSUME TransportAssumption ==
  /\ MaxRequests \in Nat
  /\ \A s \in Streams : RequestKinds(s) \subseteq Requests \X Shapes
  /\ ItemShapes \subseteq Shapes

Init ==
  /\ StreamInit
  /\ sending = <<>> /\ nextId = 1
  /\ requester = [s \in Streams |-> "unused"]
  /\ outboundDone = {}
  /\ issued = [s \in Streams |-> <<>>]
  /\ expectedId = 1
  /\ registered = [s \in Streams |-> "none"]
  /\ requestParts = [s \in Streams |-> None]
  /\ payloadParts = [s \in Streams |-> None]
  /\ credits = [s \in Streams |-> 0]
  /\ grants = [s \in Streams |-> 0]
  /\ requesterComplete = {} /\ responderComplete = {}
  /\ given = [s \in Streams |-> <<>>]
  /\ ended = {}

----------------------------------------------------------------------------
(* The client's frames.                                                    *)

\* Distinct bytes, so that no two parts of two frames are alike.
Part(s, n, part, length) == [i \in 1..length |-> <<s, n, part, i>>]

Logical(type, s, n, next, complete, shape) ==
  [type |-> type, stream |-> s, follows |-> FALSE, next |-> next, complete |-> complete,
   hasMetadata |-> shape[1] >= 0,
   metadata |-> Part(s, n, "metadata", Larger(0, shape[1])),
   data |-> Part(s, n, "data", shape[2])]

Bodiless == <<-1, 0>>

Idle == sending = <<>>
\* Inside the activity listener of a written fragment.  Bound: one nested call deep.
Listening == Len(sending) = 1 /\ ~sending[1].first

StartSending(f) == sending' = Append(sending, Cursor(f))

\* A request takes its id before its first byte is written.
Request(type, shape) ==
  LET s == nextId
      f == Logical(type, s, 0, FALSE, FALSE, shape)
  IN  /\ Idle \/ Listening
      /\ s \in Streams
      /\ nextId' = s + 2
      /\ requester' = [requester EXCEPT ![s] = "open"]
      /\ issued' = [issued EXCEPT ![s] = <<f>>]
      /\ StartSending(f)
      /\ UNCHANGED <<outboundDone, serverVars, streamVars>>

OpenChannel(s) == requester[s] = "open" /\ issued[s][1].type = "request_channel"

\* The outbound loop of a channel sends from its own microtask, on credit.
SendItem(s, shape) ==
  /\ Idle /\ OpenChannel(s) /\ s \notin outboundDone
  /\ Len(issued[s]) <= MaxItems
  /\ Len(issued[s]) - 1 < grants[s]
  /\ LET f == Logical("payload", s, Len(issued[s]), TRUE, FALSE, shape)
     IN  issued' = [issued EXCEPT ![s] = Append(@, f)] /\ StartSending(f)
  /\ UNCHANGED <<nextId, requester, outboundDone, serverVars, streamVars>>

SendComplete(s) ==
  /\ Idle /\ OpenChannel(s) /\ s \notin outboundDone
  /\ LET f == Logical("payload", s, Len(issued[s]), FALSE, TRUE, Bodiless)
     IN  issued' = [issued EXCEPT ![s] = Append(@, f)] /\ StartSending(f)
  /\ outboundDone' = outboundDone \cup {s}
  /\ UNCHANGED <<nextId, requester, serverVars, streamVars>>

\* A request-response registers its cancellation only after its request was sent.
SendCancel(s) ==
  /\ Idle \/ (Listening /\ ~(sending[1].frame.stream = s /\ sending[1].frame.type = "request_response"))
  /\ requester[s] = "open" /\ issued[s][1].type # "request_fnf"
  /\ requester' = [requester EXCEPT ![s] = "closed"]
  /\ StartSending(Logical("cancel", s, 0, FALSE, FALSE, Bodiless))
  /\ UNCHANGED <<nextId, outboundDone, issued, serverVars, streamVars>>

\* The channel's publisher fails: ERROR instead of further items.
FailOutbound(s) ==
  /\ Idle /\ OpenChannel(s) /\ s \notin outboundDone
  /\ requester' = [requester EXCEPT ![s] = "closed"]
  /\ StartSending(Logical("error", s, 0, FALSE, FALSE, Bodiless))
  /\ UNCHANGED <<nextId, outboundDone, issued, serverVars, streamVars>>

\* One round of the emission loop; the loop ends with its last fragment.
Continue(c) ==
  IF Exhausted(c) THEN sending' = Front(sending)
  ELSE sending' = [sending EXCEPT ![Len(sending)] = c]

EmitFragment ==
  /\ sending # <<>> /\ Feasible(Last(sending))
  /\ Len(wire) - Len(delivered) < MaxInFlight
  /\ Write(Fragment(Last(sending)))
  /\ Continue(Advance(Last(sending)))
  /\ UNCHANGED <<nextId, requester, outboundDone, issued, serverVars>>

\* RSocketFrameSizeError: an unsent request gives its id back.  An item never comes here: the
\* request of its channel needed as much room.
EmitThrows ==
  /\ sending # <<>> /\ ~Feasible(Last(sending))
  /\ sending' = Front(sending)
  /\ LET f == Last(sending).frame
         s == f.stream
     IN  /\ f.type \in Requests
         /\ requester' = [requester EXCEPT ![s] = "unused"]
         /\ issued' = [issued EXCEPT ![s] = <<>>]
         /\ nextId' = IF nextId = s + 2 THEN s ELSE nextId
  /\ UNCHANGED <<outboundDone, serverVars, streamVars>>

\* The responder's COMPLETE, response or ERROR reaches the client at some later time.
ResponderHasEnded(s) ==
  /\ Idle /\ requester[s] = "open"
  /\ s \in ended
  /\ requester' = [requester EXCEPT ![s] = "closed"]
  /\ UNCHANGED <<sending, nextId, outboundDone, issued, serverVars, streamVars>>

----------------------------------------------------------------------------
(* The server session's handling of one frame.                             *)

HasStream(s) == registered[s] # "none" \/ requestParts[s] # None \/ payloadParts[s] # None

\* Fault: the partial payload of an ended stream is kept.
UnregisterKeepingParts(s) ==
  /\ registered' = [registered EXCEPT ![s] = "none"]
  /\ requestParts' = [requestParts EXCEPT ![s] = None]
  /\ UNCHANGED payloadParts

Unregister(s) ==
  /\ registered' = [registered EXCEPT ![s] = "none"]
  /\ requestParts' = [requestParts EXCEPT ![s] = None]
  /\ payloadParts' = [payloadParts EXCEPT ![s] = None]

Ignore == UNCHANGED serverVars

\* A complete request finds its controller, or none (ERROR[REJECTED] and unregister).
Dispatch(f, partsAfter) ==
  LET s == f.stream IN
  /\ \/ /\ given' = [given EXCEPT ![s] = <<f>>]
        /\ requestParts' = partsAfter
        /\ registered' = [registered EXCEPT ![s] = CASE f.type = "request_fnf" -> "none"
                                                     [] f.type = "request_channel" -> "channel"
                                                     [] OTHER -> "single"]
        /\ credits' = [credits EXCEPT ![s] = IF f.type = "request_channel" THEN 1 ELSE 0]
        /\ grants' = [grants EXCEPT ![s] = IF f.type = "request_channel" THEN 1 ELSE 0]
        /\ UNCHANGED <<payloadParts, ended>>
     \/ /\ ended' = ended \cup {s}
        /\ requestParts' = [partsAfter EXCEPT ![s] = None]
        /\ payloadParts' = [payloadParts EXCEPT ![s] = None]
        /\ UNCHANGED <<given, registered, credits, grants>>
  /\ UNCHANGED <<requesterComplete, responderComplete>>

InitialRequest(f) ==
  LET s == f.stream IN
  /\ expectedId' = s + 2
  /\ \/ /\ ended' = ended \cup {s}          \* acquireRequest: no lease, ERROR[REJECTED]
        /\ Unregister(s)
        /\ UNCHANGED <<credits, grants, given, requesterComplete, responderComplete>>
     \/ /\ f.follows
        /\ requestParts' = [requestParts EXCEPT ![s] = AppendParts(NoParts(f), f)]
        /\ UNCHANGED <<registered, payloadParts, credits, grants, given, ended,
                       requesterComplete, responderComplete>>
     \/ ~f.follows /\ Dispatch(f, requestParts)

\* Terminated by ERROR, by the controller or by a protocol violation: the stream is forgotten.
Terminated(s) ==
  /\ Unregister(s)
  /\ credits' = [credits EXCEPT ![s] = 0]

RequestContinuation(f) ==
  LET s == f.stream
      parts == AppendParts(requestParts[s], f)
  IN  /\ UNCHANGED expectedId
      /\ IF ~Appendable(requestParts[s], f)
         THEN /\ Terminated(s) /\ ended' = ended \cup {s}
              /\ UNCHANGED <<grants, given, requesterComplete, responderComplete>>
         ELSE IF MoreFollows(f)
         THEN /\ requestParts' = [requestParts EXCEPT ![s] = parts]
              /\ UNCHANGED <<registered, payloadParts, credits, grants, given, ended,
                             requesterComplete, responderComplete>>
         ELSE Dispatch(RebuildRequest(parts, f), [requestParts EXCEPT ![s] = None])

\* ChannelInput.next and complete, and the channel's completeIfDone.
GiveItem(s, f, partsAfter) ==
  LET done == f.complete /\ s \in responderComplete IN
  /\ given' = [given EXCEPT ![s] = Append(@, f)]
  /\ credits' = [credits EXCEPT ![s] = IF f.next THEN @ - 1 ELSE @]
  /\ requesterComplete' = IF f.complete THEN requesterComplete \cup {s} ELSE requesterComplete
  /\ registered' = IF done THEN [registered EXCEPT ![s] = "none"] ELSE registered
  /\ payloadParts' = partsAfter
  /\ ended' = IF done THEN ended \cup {s} ELSE ended
  /\ UNCHANGED <<requestParts, grants, responderComplete, expectedId>>

ViolatesDemand(s) ==
  /\ Terminated(s) /\ ended' = ended \cup {s}
  /\ UNCHANGED <<expectedId, grants, given, requesterComplete, responderComplete>>

StreamPayload(f) ==
  LET s == f.stream
      continuation == payloadParts[s] # None
      before == IF continuation THEN payloadParts[s] ELSE NoParts(f)
      parts == AppendParts(before, f)
      forgotten == [payloadParts EXCEPT ![s] = None]
  IN  IF registered[s] # "channel" \/ s \in requesterComplete
      THEN payloadParts' = forgotten /\ UNCHANGED <<expectedId, registered, requestParts, credits, grants,
                                                    given, ended, requesterComplete, responderComplete>>
      ELSE IF ~continuation /\ (f.next \/ MoreFollows(f)) /\ credits[s] = 0 THEN ViolatesDemand(s)
      ELSE IF ~continuation /\ ~f.follows THEN GiveItem(s, f, payloadParts)
      ELSE IF ~Appendable(before, f) THEN ViolatesDemand(s)
      ELSE IF MoreFollows(f)
      THEN payloadParts' = [payloadParts EXCEPT ![s] = parts]
           /\ UNCHANGED <<expectedId, registered, requestParts, credits, grants, given, ended,
                          requesterComplete, responderComplete>>
      ELSE GiveItem(s, RebuildPayload(parts, f), forgotten)

HandleCancel(s) ==
  /\ Terminated(s)
  /\ UNCHANGED <<expectedId, grants, given, ended, requesterComplete, responderComplete>>

\* handleIncomingBytes and dispatch: a duplicate request and a frame of an unknown stream are ignored.
\* Two branches cannot be reached by what this client sends and are left out: an id out of order
\* (validateNewStreamId ends the session) and a PAYLOAD with neither NEXT nor COMPLETE.
Handle(f) ==
  LET s == f.stream IN
  IF (f.type \in Requests) = HasStream(s) THEN Ignore
  ELSE CASE f.type \in Requests -> IF s = expectedId THEN InitialRequest(f) ELSE Ignore
         [] f.type = "payload" -> IF requestParts[s] # None THEN RequestContinuation(f) ELSE StreamPayload(f)
         [] OTHER -> HandleCancel(s)

\* Every frame the transport delivers is handled before the next one.
ReceiveFrames ==
  /\ Receive
  /\ IF Len(delivered') > Len(delivered) THEN Handle(Last(delivered')) ELSE Ignore
  /\ UNCHANGED clientVars

----------------------------------------------------------------------------
(* The controllers.                                                        *)

\* Outside the handling of a frame.  Client steps wait for it too: they only lengthen the wire,
\* and so commute with the steps of one turn of the server.
Quiescent == phase = "idle"

Grant(s) ==
  /\ Quiescent /\ registered[s] = "channel" /\ s \notin requesterComplete
  /\ grants[s] < MaxItems /\ grants[s] < Len(given[s])
  /\ grants' = [grants EXCEPT ![s] = @ + 1]
  /\ credits' = [credits EXCEPT ![s] = @ + 1]
  /\ UNCHANGED <<expectedId, registered, requestParts, payloadParts, requesterComplete,
                 responderComplete, given, ended, clientVars, streamVars>>

\* The response of a single-response stream; the response direction of a channel.
Respond(s) ==
  /\ Quiescent /\ registered[s] # "none"
  /\ IF registered[s] = "single" \/ s \in requesterComplete
     THEN Unregister(s) /\ ended' = ended \cup {s} /\ UNCHANGED responderComplete
     ELSE /\ s \notin responderComplete
          /\ responderComplete' = responderComplete \cup {s}
          /\ UNCHANGED <<registered, requestParts, payloadParts, ended>>
  /\ UNCHANGED <<expectedId, credits, grants, requesterComplete, given, clientVars, streamVars>>

\* A publisher fails, or the controller abandons a channel's input.
ControllerFails(s) ==
  /\ Quiescent /\ registered[s] # "none"
  /\ Terminated(s) /\ ended' = ended \cup {s}
  /\ UNCHANGED <<expectedId, grants, requesterComplete, responderComplete, given, clientVars, streamVars>>

\* Once the byte stream is over neither side has a connection to use.
Connected == status = "open"

ClientStep ==
  \/ \E kind \in RequestKinds(nextId) : Request(kind[1], kind[2])
  \/ \E s \in Streams :
       \/ \E shape \in ItemShapes : SendItem(s, shape)
       \/ SendComplete(s)
       \/ SendCancel(s)
       \/ FailOutbound(s)
       \/ ResponderHasEnded(s)
  \/ EmitFragment
  \/ EmitThrows

ControllerStep == \E s \in Streams : Grant(s) \/ Respond(s) \/ ControllerFails(s)

Next ==
  \/ Connected /\ Quiescent /\ ClientStep
  \/ Connected /\ ControllerStep
  \/ ReceiveFrames

Spec == Init /\ [][Next]_vars

----------------------------------------------------------------------------
\* Nothing on the way: every frame sent was written, arrived and was handled.
Settled == Idle /\ status = "open" /\ phase = "idle" /\ Len(delivered) = Len(wire)

\* A controller is given exactly the requests and items the client sent on that stream, with
\* their own bytes and flags and in their order, however they were fragmented and whatever came
\* between the fragments; fragments are retained only for a payload under way on a live stream,
\* as a prefix of it; and once nothing is on the way, everything sent was given unless one of
\* the sides gave the stream up.
PayloadsArriveWhole ==
  \A s \in Streams :
    /\ IsPrefix(given[s], issued[s])
    /\ payloadParts[s] # None => registered[s] = "channel" /\ s \notin requesterComplete
    /\ \A parts \in {requestParts[s], payloadParts[s]} \ {None} :
         /\ Len(given[s]) < Len(issued[s])
         /\ LET f == issued[s][Len(given[s]) + 1]
            IN  /\ IsPrefix(parts.metadata, f.metadata) /\ IsPrefix(parts.data, f.data)
                /\ Len(parts.metadata) + Len(parts.data) < Len(f.metadata) + Len(f.data)
    /\ (Settled /\ requester[s] # "closed" /\ s \notin ended) =>
         given[s] = issued[s] /\ requestParts[s] = None /\ payloadParts[s] = None
=============================================================================

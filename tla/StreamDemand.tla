----------------------------- MODULE StreamDemand -----------------------------
(***************************************************************************)
(* Backpressure of one request-stream interaction, end to end: the         *)
(* application's demand, RSocketStreamSubscription                         *)
(* (rsocket-client-ts/src/stream/session.ts), the queueing of its frames   *)
(* while the session is suspended (client/session.ts), and the responder's *)
(* PendingResponderStream, RequestStreamResponder and                      *)
(* DemandControlledOutput (rsocket-server-ts/src/stream), which asks the   *)
(* controller's publisher for items.                                       *)
(*                                                                         *)
(* `up` and `down` are the frames positioned by one side and not yet       *)
(* dispatched by the other.  They survive the loss of a transport, in      *)
(* order: that is what ResumableSession shows of Resume                    *)
(* (ReliableDelivery).  The flags of the subscription are one variable:    *)
(*   idle       started F                                                  *)
(*   open       started T, requestStarted T                                *)
(*   cancelled  cancelled T, by the subscriber                             *)
(*   failed     cancelled T, by fail(): the subscriber got onError         *)
(*   complete   responseTerminated T                                       *)
(* Callbacks run synchronously inside a handler, but their effects (another *)
(* request or cancel, frames of a synchronous transport) come in between,  *)
(* so a handler that calls out is split there: `delivering` is TRUE inside *)
(* onNext, `requesting` inside the publisher's request.  The flag          *)
(* `completing` is left out: this responder never puts COMPLETE on a NEXT. *)
(***************************************************************************)
EXTENDS Integers, Sequences, SequencesExt

CONSTANTS
  MaxRequestN,   \* MAX_REQUEST_N, the largest credit one frame carries
  MaxSafe,       \* Number.MAX_SAFE_INTEGER
  Demands,       \* arguments the application passes to request()
  MaxCalls,      \* bound: calls of request()
  MaxLosses,     \* bound: transports lost
  Items          \* items the publisher has

\* Number.POSITIVE_INFINITY, out of reach of every finite sum.
Unbounded == 2 * MaxSafe + 1

ASSUME DemandAssumption ==
  /\ MaxRequestN \in Nat \ {0} /\ MaxSafe \in Nat /\ MaxRequestN <= MaxSafe
  /\ Demands \subseteq 1..MaxSafe \cup {Unbounded}
  /\ MaxCalls \in Nat /\ MaxLosses \in Nat /\ Items \in Nat

VARIABLES
  \* requester
  session, losses, calls, status, delivering, requested, wireRequested,
  pendingFrames,
  \* responder
  stage, reserved, demand, pendingUpstreamDemand, requesting,
  \* the controller's publisher: what it was asked for and has not emitted
  owed, emitted,
  \* frames under way
  up, down

transport == <<session, losses, up, pendingFrames>>
subscription == <<calls, status, delivering, requested, wireRequested>>
upstream == <<pendingUpstreamDemand, requesting, owed>>
responder == <<stage, reserved, demand, upstream, emitted>>
vars == <<transport, subscription, responder, down>>

RequestStream(n) == [type |-> "REQUEST_STREAM", n |-> n]
RequestN(n) == [type |-> "REQUEST_N", n |-> n]
Cancelling == [type |-> "CANCEL", n |-> 0]

Smaller(a, b) == IF a < b THEN a ELSE b

\* Fault: the sum is not saturated.
PlainSum(current, added) ==
  IF Unbounded \in {current, added} THEN Unbounded ELSE current + added

AddReactiveDemand(current, added) ==
  IF Unbounded \in {current, added} THEN Unbounded
  ELSE IF added >= MaxSafe - current THEN MaxSafe
  ELSE current + added

-------------------------------------------------------------------------------
(***************************************************************************)
(* Sending, from the requester's session.                                  *)
(***************************************************************************)
\* Fault: every REQUEST_N is queued on its own.
QueuedUnmerged(frames, frame) ==
  IF frame.type = "CANCEL"
  THEN IF \E i \in DOMAIN frames : frames[i].type = "REQUEST_STREAM"
       THEN <<>> ELSE <<frame>>
  ELSE Append(frames, frame)

\* Fault: a CANCEL is taken for answered by anything it supersedes.
QueuedWithoutCancel(frames, frame) ==
  IF frame.type = "CANCEL" THEN IF frames # <<>> THEN <<>> ELSE <<frame>>
  ELSE Append(frames, frame)

\* Fault: a REQUEST_N replaces the one that is queued.
QueuedLatestOnly(frames, frame) ==
  IF /\ frames # <<>> /\ frame.type = "REQUEST_N" /\ Last(frames).type = "REQUEST_N"
  THEN Append(Front(frames), frame)
  ELSE QueuedUnmerged(frames, frame)

\* queueFrame: a CANCEL supersedes what is queued, and itself when the
\* initial request is among it; demand is added to the demand queued last.
Queued(frames, frame) ==
  IF frame.type = "CANCEL"
  THEN IF \E i \in DOMAIN frames : frames[i].type = "REQUEST_STREAM"
       THEN <<>> ELSE <<frame>>
  ELSE IF frames = <<>> \/ frame.type # "REQUEST_N" THEN Append(frames, frame)
  ELSE IF Last(frames).type = "CANCEL" THEN frames
  ELSE IF Last(frames).type # "REQUEST_N" THEN Append(frames, frame)
  ELSE LET sum == Last(frames).n + frame.n
           merged == Append(Front(frames), RequestN(Smaller(MaxRequestN, sum)))
       IN IF sum <= MaxRequestN THEN merged
          ELSE Append(merged, RequestN(sum - MaxRequestN))

LoseTransport ==
  /\ losses < MaxLosses
  /\ losses' = losses + 1
  /\ session' = "lost"

\* sendFrame and sendSerializedFrame: queued while suspended, written while
\* active; a write that fails leaves a positional frame to be replayed, and
\* a transport found closed leaves it queued.
Send(frame) ==
  \/ /\ session \in {"lost", "handshake"}
     /\ pendingFrames' = Queued(pendingFrames, frame)
     /\ UNCHANGED <<session, losses, up>>
  \/ /\ session = "active"
     /\ up' = Append(up, frame)
     /\ UNCHANGED pendingFrames
     /\ LoseTransport \/ UNCHANGED <<session, losses>>
  \/ /\ session = "active"
     /\ LoseTransport
     /\ pendingFrames' = Queued(pendingFrames, frame)
     /\ UNCHANGED up

TransportLost ==
  /\ session \in {"active", "handshake"}
  /\ LoseTransport
  /\ UNCHANGED <<subscription, responder, pendingFrames, up, down>>

BeginResume ==
  /\ session = "lost"
  /\ session' = "handshake"
  /\ UNCHANGED <<losses, subscription, responder, pendingFrames, up, down>>

\* flushPendingFrames: all of them, or the first k before the transport is
\* lost again, and the others stay queued.
FinishResume ==
  /\ session = "handshake"
  /\ \/ /\ session' = "active"
        /\ up' = up \o pendingFrames
        /\ pendingFrames' = <<>>
        /\ UNCHANGED losses
     \/ /\ LoseTransport
        /\ \E k \in 0..Len(pendingFrames) :
             /\ up' = up \o SubSeq(pendingFrames, 1, k)
             /\ pendingFrames' = SubSeq(pendingFrames, k + 1, Len(pendingFrames))
  /\ UNCHANGED <<subscription, responder, down>>

\* terminateSession: for good, whatever the reason.  The stream fails.  When
\* the responder gives up first, what it does not do is not told apart from
\* its being slow, until the requester learns of it here.
TerminateSession ==
  /\ session' = "over"
  /\ status' = IF status = "open" THEN "failed" ELSE status
  /\ pendingFrames' = <<>>
  /\ down' = <<>>
  /\ UNCHANGED <<losses, up>>

SessionEnds ==
  /\ session # "over"
  /\ TerminateSession
  /\ UNCHANGED <<calls, delivering, requested, wireRequested, responder>>

-------------------------------------------------------------------------------
(***************************************************************************)
(* The subscription.                                                       *)
(***************************************************************************)
\* grantAvailableDemand: fills the window to what is wanted.
Grant(wanted) ==
  LET grant == Smaller(wanted, MaxRequestN) - wireRequested
  IN IF grant <= 0 THEN UNCHANGED <<wireRequested, transport>>
     ELSE /\ wireRequested' = wireRequested + grant
          /\ Send(RequestN(grant))

\* request: more demand on a stream that is open.
Request(n) ==
  /\ status = "open" /\ calls < MaxCalls
  /\ calls' = calls + 1
  /\ requested' = AddReactiveDemand(requested, n)
  /\ Grant(requested')
  /\ UNCHANGED <<status, delivering, responder, down>>

\* request: the first demand sends the initial frame.  The session queues
\* it during a Resume handshake and refuses it without a transport.
Start(n) ==
  /\ status = "idle" /\ calls < MaxCalls
  /\ session \in {"active", "handshake"}
  /\ calls' = calls + 1
  /\ requested' = AddReactiveDemand(requested, n)
  /\ wireRequested' = Smaller(requested', MaxRequestN)
  /\ status' = "open"
  /\ Send(RequestStream(wireRequested'))
  /\ UNCHANGED <<delivering, responder, down>>

\* request: refused, or the payload cannot be encoded.
StartThrows(n) ==
  /\ status = "idle" /\ calls < MaxCalls
  /\ calls' = calls + 1
  /\ status' = "failed"
  /\ requested' = AddReactiveDemand(requested, n)
  /\ wireRequested' = Smaller(requested', MaxRequestN)
  /\ UNCHANGED <<delivering, transport, responder, down>>

\* The stream ends on this side as `outcome`: CANCEL goes out when the
\* request did.
CancelAs(outcome) ==
  /\ status' = outcome
  /\ IF status = "open" THEN Send(Cancelling) ELSE UNCHANGED transport

Cancel ==
  /\ status \in {"idle", "open"}
  /\ CancelAs("cancelled")
  /\ UNCHANGED <<calls, delivering, requested, wireRequested, responder, down>>

\* request with an argument normalizeReactiveDemand rejects: failAndCancel.
RequestInvalid ==
  /\ status \in {"idle", "open"}
  /\ CancelAs("failed")
  /\ UNCHANGED <<calls, delivering, requested, wireRequested, responder, down>>

\* Incoming frames are dispatched one at a time, never inside a callback.
Incoming(type) ==
  /\ session = "active" /\ ~delivering
  /\ down # <<>> /\ Head(down) = type

\* handlePayload up to the call of onNext; without credit it is a protocol
\* error, which ends the session.
ReceiveNext ==
  /\ Incoming("NEXT") /\ status = "open"
  /\ IF requested <= 0 \/ wireRequested <= 0
     THEN TerminateSession /\ UNCHANGED <<delivering, requested, wireRequested>>
     ELSE /\ requested' = IF requested = Unbounded THEN requested ELSE requested - 1
          /\ wireRequested' = wireRequested - 1
          /\ delivering' = TRUE
          /\ down' = Tail(down)
          /\ UNCHANGED <<status, transport>>
  /\ UNCHANGED <<calls, responder>>

\* Fault: nothing is granted when an item has been consumed.
NextReturnsUnreplenished ==
  /\ delivering
  /\ delivering' = FALSE
  /\ UNCHANGED <<wireRequested, transport>>
  /\ UNCHANGED <<calls, status, requested, responder, down>>

\* Fault: the stream is not looked at again after the callback.
NextReturnsRegardless ==
  /\ delivering
  /\ delivering' = FALSE
  /\ IF session # "over" /\ wireRequested <= MaxRequestN \div 2
     THEN Grant(requested) ELSE UNCHANGED <<wireRequested, transport>>
  /\ UNCHANGED <<calls, status, requested, responder, down>>

\* onNext returned: replenishDemand, unless the callback ended the stream.
NextReturns ==
  /\ delivering
  /\ delivering' = FALSE
  /\ IF status = "open" /\ wireRequested <= MaxRequestN \div 2
     THEN Grant(requested) ELSE UNCHANGED <<wireRequested, transport>>
  /\ UNCHANGED <<calls, status, requested, responder, down>>

\* onNext threw: cancel, then onError.
NextThrows ==
  /\ delivering
  /\ delivering' = FALSE
  /\ IF status = "open" THEN CancelAs("cancelled") ELSE UNCHANGED <<status, transport>>
  /\ UNCHANGED <<calls, requested, wireRequested, responder, down>>

\* completeResponse, handleError, and frames of a stream that is no more.
ReceiveTerminal ==
  /\ \/ Incoming("COMPLETE") /\ status' = IF status = "open" THEN "complete" ELSE status
     \/ Incoming("ERROR") /\ status' = IF status = "open" THEN "failed" ELSE status
     \/ Incoming("NEXT") /\ status # "open" /\ UNCHANGED status
  /\ down' = Tail(down)
  /\ UNCHANGED <<calls, delivering, requested, wireRequested, transport, responder>>

-------------------------------------------------------------------------------
(***************************************************************************)
(* The responder.                                                          *)
(***************************************************************************)
NextUp(type) == up # <<>> /\ Head(up).type = type /\ up' = Tail(up)

requesterSide == <<session, losses, pendingFrames, subscription>>

\* dispatchInitialRequest up to the controller's call, which finds the
\* stream reserved; or there is no controller for the route, or no lease.
ReceiveRequest ==
  /\ NextUp("REQUEST_STREAM")
  /\ \/ stage' = "reserved" /\ demand' = Head(up).n /\ UNCHANGED down
     \/ stage' = "ended" /\ down' = Append(down, "ERROR") /\ UNCHANGED demand
  /\ UNCHANGED <<reserved, upstream, emitted, requesterSide>>

\* Fault: credits that came during the controller's call are not taken over.
ControllerReturnsForgetting ==
  /\ stage \in {"reserved", "withdrawn"}
  /\ stage' = IF stage = "reserved" THEN "installed" ELSE "ended"
  /\ reserved' = 0
  /\ UNCHANGED <<demand, upstream, emitted, requesterSide, up, down>>

\* The controller returned its publisher: subscribed to unless the stream
\* was cancelled meanwhile.
ControllerReturns ==
  /\ stage \in {"reserved", "withdrawn"}
  /\ stage' = IF stage = "reserved" THEN "installed" ELSE "ended"
  /\ demand' = IF stage = "reserved" THEN AddReactiveDemand(demand, reserved) ELSE demand
  /\ reserved' = 0
  /\ UNCHANGED <<upstream, emitted, requesterSide, up, down>>

\* The controller threw: streamError, even when the stream was cancelled.
ControllerThrows ==
  /\ stage \in {"reserved", "withdrawn"}
  /\ stage' = "ended"
  /\ reserved' = 0
  /\ down' = IF session = "over" THEN down ELSE Append(down, "ERROR")
  /\ UNCHANGED <<demand, upstream, emitted, requesterSide, up>>

\* Fault: demand that comes inside a request replaces what is pending.
RequestUpstreamLatest(n) ==
  IF requesting
  THEN pendingUpstreamDemand' = n /\ UNCHANGED <<requesting, owed>>
  ELSE /\ requesting' = TRUE
       /\ owed' = owed + n
       /\ UNCHANGED pendingUpstreamDemand

\* requestUpstream: reentrant demand waits for the request under way.
RequestUpstream(n) ==
  IF requesting
  THEN /\ pendingUpstreamDemand' = AddReactiveDemand(pendingUpstreamDemand, n)
       /\ UNCHANGED <<requesting, owed>>
  ELSE /\ requesting' = TRUE
       /\ owed' = owed + AddReactiveDemand(pendingUpstreamDemand, n)
       /\ pendingUpstreamDemand' = 0

\* subscription.request returned: the loop goes round, or ends.
RequestReturns ==
  /\ requesting
  /\ pendingUpstreamDemand' = 0
  /\ IF stage = "running" /\ pendingUpstreamDemand > 0
     THEN owed' = owed + pendingUpstreamDemand /\ UNCHANGED requesting
     ELSE requesting' = FALSE /\ UNCHANGED owed
  /\ UNCHANGED <<stage, reserved, demand, emitted, requesterSide, up, down>>

\* onSubscribe: the demand accumulated so far goes upstream.
OnSubscribe ==
  /\ stage = "installed"
  /\ stage' = "running"
  /\ IF demand > 0 THEN RequestUpstream(demand) ELSE UNCHANGED upstream
  /\ UNCHANGED <<reserved, demand, emitted, requesterSide, up, down>>

\* PendingResponderStream: credits wait for the controller to return.
Reserve(n) ==
  /\ stage = "reserved"
  /\ reserved' = AddReactiveDemand(reserved, n)
  /\ UNCHANGED <<demand, upstream>>

\* DemandControlledOutput.request: upstream gets it once there is one.
OutputRequest(n) ==
  /\ stage \in {"installed", "running"}
  /\ demand' = AddReactiveDemand(demand, n)
  /\ IF stage = "running" THEN RequestUpstream(n) ELSE UNCHANGED upstream
  /\ UNCHANGED reserved

\* A stream that has ended is not looked up.
NobodyHears ==
  /\ stage \notin {"reserved", "installed", "running"}
  /\ UNCHANGED <<reserved, demand, upstream>>

\* REQUEST_N goes to whatever holds the stream.
ReceiveRequestN ==
  /\ NextUp("REQUEST_N")
  /\ Reserve(Head(up).n) \/ OutputRequest(Head(up).n) \/ NobodyHears
  /\ UNCHANGED <<stage, emitted, requesterSide, down>>

\* terminate: the publisher is cancelled, nothing is sent.
Terminated == CASE stage = "reserved" -> "withdrawn"
                [] stage \in {"installed", "running"} -> "ended"
                [] OTHER -> stage

ReceiveCancel ==
  /\ NextUp("CANCEL")
  /\ stage' = Terminated
  /\ pendingUpstreamDemand' = 0
  /\ UNCHANGED <<reserved, demand, requesting, owed, emitted, requesterSide, down>>

ResponderSessionEnds ==
  /\ session = "over"
  /\ stage \in {"reserved", "installed", "running"}
  /\ stage' = Terminated
  /\ pendingUpstreamDemand' = 0
  /\ UNCHANGED <<reserved, demand, requesting, owed, emitted, requesterSide, up, down>>

\* The output ends with a terminal frame.
Ends(frame) ==
  /\ stage' = "ended"
  /\ pendingUpstreamDemand' = 0
  /\ down' = Append(down, frame)
  /\ UNCHANGED <<reserved, requesting, requesterSide, up>>

\* Fault: emissions are not checked against the demand.
PublisherEmitsUnchecked ==
  /\ stage = "running" /\ emitted < Items
  /\ emitted' = emitted + 1
  /\ demand' = demand - 1 /\ owed' = owed - 1
  /\ down' = Append(down, "NEXT")
  /\ UNCHANGED <<stage, reserved, pendingUpstreamDemand, requesting, requesterSide, up>>

\* onNext: an item that was asked for is written.  One that nobody asked
\* for, from a publisher that breaks its contract, fails the stream.
PublisherEmits ==
  /\ stage = "running" /\ emitted < Items
  /\ owed > 0 \/ demand <= 0
  /\ emitted' = emitted + 1
  /\ IF demand <= 0
     THEN Ends("ERROR") /\ UNCHANGED <<demand, owed>>
     ELSE /\ demand' = demand - 1 /\ owed' = owed - 1
          /\ down' = Append(down, "NEXT")
          /\ UNCHANGED <<stage, reserved, pendingUpstreamDemand, requesting, requesterSide, up>>

PublisherCompletes ==
  /\ stage = "running"
  /\ Ends("COMPLETE")
  /\ UNCHANGED <<demand, owed, emitted>>

\* onError, a signal before onSubscribe, an item that cannot be encoded, a
\* subscribe or a request that throws.
OutputFails ==
  /\ stage \in {"installed", "running"}
  /\ Ends("ERROR")
  /\ UNCHANGED <<demand, owed, emitted>>

-------------------------------------------------------------------------------
Init ==
  /\ session = "active" /\ losses = 0 /\ calls = 0
  /\ status = "idle" /\ delivering = FALSE
  /\ requested = 0 /\ wireRequested = 0 /\ pendingFrames = <<>>
  /\ stage = "none" /\ reserved = 0 /\ demand = 0
  /\ pendingUpstreamDemand = 0 /\ requesting = FALSE
  /\ owed = 0 /\ emitted = 0
  /\ up = <<>> /\ down = <<>>

ReceiveUp == ReceiveRequest \/ ReceiveRequestN \/ ReceiveCancel

Next ==
  \/ TransportLost \/ BeginResume \/ FinishResume \/ SessionEnds
  \/ \E n \in Demands : Request(n) \/ Start(n) \/ StartThrows(n)
  \/ Cancel \/ RequestInvalid
  \/ ReceiveNext \/ NextReturns \/ NextThrows \/ ReceiveTerminal
  \/ ReceiveUp \/ ControllerReturns \/ ControllerThrows
  \/ OnSubscribe \/ RequestReturns
  \/ PublisherEmits \/ PublisherCompletes \/ OutputFails
  \/ ResponderSessionEnds

Spec == Init /\ [][Next]_vars

(***************************************************************************)
(* Fairness: the runtime dispatches what has arrived on a transport that   *)
(* works, callbacks and controllers return, a Resume attempt follows a     *)
(* loss, and a publisher emits what it was asked for and completes after   *)
(* its last item.                                                          *)
(***************************************************************************)
Fairness ==
  /\ WF_vars(BeginResume) /\ WF_vars(FinishResume)
  /\ WF_vars(ReceiveNext) /\ WF_vars(NextReturns) /\ WF_vars(ReceiveTerminal)
  /\ WF_vars(session = "active" /\ ReceiveUp)
  /\ WF_vars(ControllerReturns) /\ WF_vars(OnSubscribe) /\ WF_vars(RequestReturns)
  /\ WF_vars(PublisherEmits /\ owed > 0)
  /\ WF_vars(PublisherCompletes /\ emitted = Items)

LiveSpec == Spec /\ Fairness

-------------------------------------------------------------------------------
\* Types, and demand within what the number type and one frame can carry.
TypeOK ==
  /\ session \in {"active", "lost", "handshake", "over"}
  /\ losses \in 0..MaxLosses /\ calls \in 0..MaxCalls
  /\ status \in {"idle", "open", "cancelled", "failed", "complete"}
  /\ delivering \in BOOLEAN /\ requesting \in BOOLEAN
  /\ requested \in 0..MaxSafe \cup {Unbounded}
  /\ wireRequested \in 0..MaxRequestN
  /\ \A i \in DOMAIN up : up[i].n \in 0..MaxRequestN
  /\ \A i \in DOMAIN pendingFrames : pendingFrames[i].n \in 0..MaxRequestN
  /\ \A i \in DOMAIN down : down[i] \in {"NEXT", "COMPLETE", "ERROR"}
  /\ stage \in {"none", "reserved", "withdrawn", "installed", "running", "ended"}
  /\ {reserved, demand, pendingUpstreamDemand, owed} \subseteq 0..MaxSafe
  /\ emitted \in 0..Items

outgoing == up \o pendingFrames
Total(numbers) ==
  LET sum[i \in 0..Len(numbers)] == IF i = 0 THEN 0 ELSE sum[i - 1] + numbers[i]
  IN sum[Len(numbers)]
Credits(frames) == Total([i \in DOMAIN frames |-> frames[i].n])
Nexts == Total([i \in DOMAIN down |-> IF down[i] = "NEXT" THEN 1 ELSE 0])

\* Credit is neither lost nor made: what the subscription believes it has
\* granted is exactly what is queued, under way to the responder, held by
\* it, or coming back as items, across outages and merged REQUEST_N frames;
\* and it is never more than the application asked for, so that no item ends
\* the session for being undemanded (reportUndemandedPayload).
\* (wireRequested, stream/session.ts 429 and 706, against demand, output.ts 24.)
CreditIsConserved ==
  status = "open" =>
    /\ Nexts <= wireRequested /\ wireRequested <= requested
    /\ stage # "ended" => wireRequested = Credits(outgoing) + reserved + demand + Nexts

\* The publisher is asked for what the peer has credit for, no less and no
\* more, however requests nest.  (requestUpstream, output.ts 131.)
PublisherOwesTheDemand ==
  stage = "running" => owed + pendingUpstreamDemand = demand

\* Once the requester has given the stream up, as long as the responder
\* runs it or will be asked to, a CANCEL is the last frame under way to it.
\* (cancel, failAndCancel and queueFrame.)
CancelIsTheLastWord ==
  /\ status \in {"cancelled", "failed"} /\ session # "over"
  /\ \/ stage \in {"reserved", "installed", "running"}
     \/ \E i \in DOMAIN outgoing : outgoing[i].type = "REQUEST_STREAM"
  => outgoing # <<>> /\ Last(outgoing) = Cancelling

\* An outage queues a bounded number of frames for a stream, however often
\* the application asks for more.  (queueFrame, client/session.ts 896-902.)
OutageQueueIsBounded == Len(pendingFrames) <= 2

\* Demand is served: an open stream does not stand still while it wants
\* items, also when it wants more than one frame can grant.
\* (replenishDemand, stream/session.ts 701.)
DemandIsServed ==
  (status = "open" /\ requested > 0) ~> (status # "open" \/ requested = 0)

\* A cancelled stream is released by the responder, its publisher with it.
CancelReachesPublisher ==
  status = "cancelled" ~>
    \/ session = "over"
    \/ stage \in {"none", "ended"} /\ outgoing = <<>>
===============================================================================

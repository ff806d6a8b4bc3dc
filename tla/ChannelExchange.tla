---------------------------- MODULE ChannelExchange ----------------------------
(***************************************************************************)
(* One request-channel interaction: the requester's RequestChannelOutbound *)
(* (rsocket-client-ts/src/channel/outbound.ts), the half-close rules of    *)
(* its RSocketStreamSubscription (stream/session.ts), and the responder's  *)
(* RequestChannelResponder with its ChannelInput                           *)
(* (rsocket-server-ts/src/stream).                                         *)
(*                                                                         *)
(* What flows from responder to requester is a response stream like the    *)
(* one of StreamDemand, of which only the ends are kept here.  The session *)
(* is the one of StreamDemand: frames survive the loss of a transport.     *)
(*                                                                         *)
(* The loop of the outbound side opens its source and awaits in seven      *)
(* places; `at` says where it is, and everything else may happen in        *)
(* between:                                                                *)
(*   start                   in the caller's code that opens the source    *)
(*   awaitInitial, readFirst, awaitFirst   before the request is sent      *)
(*   startRequest, send      a frame is about to be sent: the wait for a   *)
(*                           writable session is over, and may be out of   *)
(*                           date when the loop goes on                    *)
(*   demand, awaitRead, read                for the next item              *)
(*   credit, awaitSend                      with an item in hand           *)
(*   done                                                                  *)
(* ChannelInput delivers in a loop that calls out: `draining` is TRUE      *)
(* inside it.                                                              *)
(***************************************************************************)
EXTENDS Integers, Sequences, SequencesExt

CONSTANTS
  MaxRequestN,   \* MAX_REQUEST_N
  MaxSafe,       \* Number.MAX_SAFE_INTEGER
  Demands,       \* arguments the controller passes to request()
  MaxCalls,      \* bound: calls of request()
  MaxLosses,     \* bound: transports lost
  Items          \* bound: items the source yields

\* Number.POSITIVE_INFINITY, out of reach of every finite sum.
Unbounded == 2 * MaxSafe + 1

ASSUME ChannelAssumption ==
  /\ MaxRequestN \in Nat \ {0} /\ MaxSafe \in Nat /\ MaxRequestN <= MaxSafe
  /\ Demands \subseteq 1..MaxSafe \cup {Unbounded}
  /\ MaxCalls \in Nat /\ MaxLosses \in Nat /\ Items \in Nat

VARIABLES
  \* the requester's session, as in StreamDemand
  session, losses, up, pendingFrames, down,
  \* the subscription: starting (not sent), open (sent) or gone; its halves
  stage, responseTerminated, outboundTerminated,
  \* the outbound side
  at, aborted, demand, yielded, sourceEnded, iterator, returns,
  \* RequestChannelResponder: none, open or gone; its halves
  responder, requesterComplete, responderComplete,
  \* ChannelInput
  subscribed, calls, queued, downstreamDemand, remoteCredits, terminated, draining

transport == <<session, losses, up, pendingFrames>>
subscription == <<stage, responseTerminated, outboundTerminated>>
source == <<yielded, sourceEnded, iterator, returns>>
outbound == <<at, aborted, demand, source>>
requester == <<transport, subscription, outbound>>
halves == <<responder, requesterComplete, responderComplete>>
input == <<subscribed, calls, queued, downstreamDemand, remoteCredits, terminated, draining>>
vars == <<requester, down, halves, input>>

Plain(type) == [type |-> type, n |-> 0]
RequestN(n) == [type |-> "REQUEST_N", n |-> n]

Smaller(a, b) == IF a < b THEN a ELSE b

AddReactiveDemand(current, added) ==
  IF Unbounded \in {current, added} THEN Unbounded
  ELSE IF added >= MaxSafe - current THEN MaxSafe
  ELSE current + added

-------------------------------------------------------------------------------
(***************************************************************************)
(* The session of the requester.                                           *)
(***************************************************************************)
Initials == {"CHANNEL", "CHANNEL_COMPLETE"}

\* queueFrame: a CANCEL supersedes what is queued, and itself when the
\* initial request is among it.
Queued(frames, frame) ==
  IF frame.type # "CANCEL" THEN Append(frames, frame)
  ELSE IF \E i \in DOMAIN frames : frames[i].type \in Initials THEN <<>>
  ELSE <<frame>>

LoseTransport ==
  /\ losses < MaxLosses
  /\ losses' = losses + 1
  /\ session' = "lost"

\* sendFrame, sendSerializedFrame: see StreamDemand.
Send(frame) ==
  \/ /\ session \in {"lost", "handshake"}
     /\ pendingFrames' = Queued(pendingFrames, frame)
     /\ UNCHANGED <<session, losses, up>>
  \/ /\ session = "active"
     /\ up' = Append(up, frame)
     /\ UNCHANGED pendingFrames
     /\ LoseTransport \/ UNCHANGED <<session, losses>>
  \/ /\ session = "active"
     /\ LoseTransport
     /\ pendingFrames' = Queued(pendingFrames, frame)
     /\ UNCHANGED up

\* A session that is over throws; whoever sends then ignores it.
SendIfOpen(frame) == IF session = "over" THEN UNCHANGED transport ELSE Send(frame)

TransportLost ==
  /\ session \in {"active", "handshake"}
  /\ LoseTransport
  /\ UNCHANGED <<up, pendingFrames, subscription, outbound, down, halves, input>>

BeginResume ==
  /\ session = "lost"
  /\ session' = "handshake"
  /\ UNCHANGED <<losses, up, pendingFrames, subscription, outbound, down, halves, input>>

\* resumeWith, flushPendingFrames: all of them, or the first k before the
\* transport is lost again, and the others stay queued.
FinishResume ==
  /\ session = "handshake"
  /\ \/ /\ session' = "active"
        /\ up' = up \o pendingFrames
        /\ pendingFrames' = <<>>
        /\ UNCHANGED losses
     \/ /\ LoseTransport
        /\ \E k \in 0..Len(pendingFrames) :
             /\ up' = up \o SubSeq(pendingFrames, 1, k)
             /\ pendingFrames' = SubSeq(pendingFrames, k + 1, Len(pendingFrames))
  /\ UNCHANGED <<subscription, outbound, down, halves, input>>

\* terminateSession, apart from what the streams make of it.
TerminateSession ==
  /\ session' = "over"
  /\ pendingFrames' = <<>>
  /\ down' = <<>>
  /\ UNCHANGED <<losses, up>>

-------------------------------------------------------------------------------
(***************************************************************************)
(* The outbound side.                                                      *)
(***************************************************************************)
\* waitUntilWritable resolves.
Writable == session = "active"

\* Fault: closing forgets that the iterator was closed.
ReturnIteratorAgain ==
  /\ iterator' = IF iterator \in {"open", "returned"} THEN "returned" ELSE iterator
  /\ returns' = IF iterator \in {"open", "returned"} THEN returns + 1 ELSE returns

\* closeIterator
ReturnIterator ==
  /\ iterator' = IF iterator = "open" THEN "returned" ELSE iterator
  /\ returns' = IF iterator = "open" THEN returns + 1 ELSE returns

\* abort; the loop finds out when it goes on (Unwind).
AbortOutbound ==
  /\ IF outboundTerminated \/ aborted THEN UNCHANGED <<aborted, iterator, returns>>
     ELSE aborted' = TRUE /\ ReturnIterator
  /\ UNCHANGED <<at, demand, yielded, sourceEnded>>

\* The source has ended before the first item, and is not closed once it is
\* time to say so (iteratorClosed); otherwise it is closed.
LeaveSource ==
  IF sourceEnded THEN iterator' = "exhausted" /\ UNCHANGED returns ELSE ReturnIterator

\* The loop goes on after an await and sees that it was aborted, or the
\* factory of the source throws after that: the finally clause closes the
\* iterator again.
Unwind ==
  /\ aborted /\ at # "done"
  /\ at' = "done"
  /\ ReturnIterator
  /\ UNCHANGED <<transport, subscription, aborted, demand, yielded, sourceEnded, down, halves, input>>

aside == <<down, halves, input>>

\* channelInputIterator: the caller's code opens the source, and may cancel
\* meanwhile; what it returns then is closed at once.
OpenSource ==
  /\ at = "start"
  /\ IF aborted THEN at' = "done" /\ iterator' = "returned" /\ returns' = returns + 1
     ELSE at' = "awaitInitial" /\ iterator' = "open" /\ UNCHANGED returns
  /\ UNCHANGED <<transport, subscription, aborted, demand, yielded, sourceEnded, aside>>

\* One await of the loop ends.
Goes(from, to) == at = from /\ ~aborted /\ at' = to /\ UNCHANGED aborted

\* waitUntilWritable is over.
BecomesWritable ==
  /\ Writable
  /\ \/ Goes("awaitInitial", "readFirst") \/ Goes("awaitFirst", "startRequest")
     \/ Goes("awaitRead", "read") \/ Goes("awaitSend", "send")
  /\ UNCHANGED <<transport, subscription, demand, source, aside>>

\* Fault: an item in hand is sent without waiting for credit.
HasDemandOrItem ==
  /\ \/ demand > 0 /\ Goes("demand", "awaitRead")
     \/ Goes("credit", "awaitSend")
  /\ UNCHANGED <<transport, subscription, demand, source, aside>>

\* awaitDemand is over.
HasDemand ==
  /\ demand > 0
  /\ Goes("demand", "awaitRead") \/ Goes("credit", "awaitSend")
  /\ UNCHANGED <<transport, subscription, demand, source, aside>>

\* The source yields an item.
Yields ==
  /\ yielded < Items
  /\ yielded' = yielded + 1
  /\ Goes("readFirst", "awaitFirst") \/ Goes("read", "credit")
  /\ UNCHANGED <<transport, subscription, demand, sourceEnded, iterator, returns, aside>>

\* disposeIfDone: the stream leaves the session when both halves are done.
HalfDone(response, out) ==
  /\ responseTerminated' = response /\ outboundTerminated' = out
  /\ stage' = IF response /\ out THEN "gone" ELSE stage

\* The source ends before the first item.
EndsEmpty ==
  /\ Goes("readFirst", "awaitFirst")
  /\ sourceEnded' = TRUE
  /\ UNCHANGED <<transport, subscription, demand, yielded, iterator, returns, aside>>

\* The source ends later: COMPLETE, which needs no credit.
Completes ==
  /\ Goes("read", "done")
  /\ sourceEnded' = TRUE /\ iterator' = "exhausted"
  /\ Send(Plain("COMPLETE"))
  /\ HalfDone(responseTerminated, TRUE)
  /\ UNCHANGED <<demand, yielded, returns, aside>>

\* startResponseStream: the initial frame, with the first item or complete.
StartRequest ==
  /\ at = "startRequest" /\ ~aborted
  /\ session \in {"active", "handshake"}
  /\ IF sourceEnded
     THEN /\ Send(Plain("CHANNEL_COMPLETE"))
          /\ at' = "done" /\ iterator' = "exhausted"
          /\ outboundTerminated' = TRUE
     ELSE /\ Send(Plain("CHANNEL"))
          /\ at' = "demand"
          /\ UNCHANGED <<iterator, outboundTerminated>>
  /\ stage' = "open"
  /\ UNCHANGED <<responseTerminated, aborted, demand, yielded, sourceEnded, returns, aside>>

\* Fault: the loop does not look at `aborted` when its wait is over.
SendNextRegardless ==
  /\ at = "send" /\ session # "over"
  /\ at' = IF demand = 1 THEN "read" ELSE "demand"
  /\ demand' = demand - 1
  /\ Send(Plain("NEXT"))
  /\ UNCHANGED <<subscription, aborted, source, aside>>

\* The item is sent; without further demand the next one is read at once.
SendNext ==
  /\ at = "send" /\ ~aborted
  /\ at' = IF demand = 1 THEN "read" ELSE "demand"
  /\ demand' = demand - 1
  /\ Send(Plain("NEXT"))
  /\ UNCHANGED <<subscription, aborted, source, aside>>

\* The loop throws: failOutbound, with ERROR when the responder knows the
\* stream.
FailOutbound ==
  /\ ~aborted
  /\ at' = "done" /\ aborted' = TRUE
  /\ stage' = "gone" /\ outboundTerminated' = TRUE
  /\ IF stage = "open" THEN SendIfOpen(Plain("ERROR")) ELSE UNCHANGED transport
  /\ UNCHANGED <<responseTerminated, yielded, sourceEnded, aside>>

\* The source cannot be opened: there is nothing to close.
OpenThrows == at = "start" /\ FailOutbound /\ UNCHANGED <<demand, iterator, returns>>

SourceThrows == at \in {"readFirst", "read"} /\ FailOutbound /\ ReturnIterator /\ UNCHANGED demand

\* rejectWritableWaiters, or a session that was over before the wait: a first
\* item, or the end of the source, is dropped.
WritableRejected ==
  /\ session = "over" /\ at \in {"awaitInitial", "awaitFirst", "awaitRead", "awaitSend"}
  /\ FailOutbound /\ ReturnIterator /\ UNCHANGED demand

\* The first item cannot be encoded, or the request is refused: the
\* transport is lost or the session over by now, or there is no lease.
StartFails == at = "startRequest" /\ FailOutbound /\ LeaveSource /\ UNCHANGED demand

\* An item cannot be encoded; its credit is spent.
ItemFails == at = "send" /\ FailOutbound /\ ReturnIterator /\ demand' = demand - 1

\* What the loop sends ends the session (the replay buffer is full): the
\* stream is registered, fails and aborts the loop, which is still in its
\* call of sendFrame and then has nothing left to report.
SendEndsSession ==
  /\ session = "active" /\ ~aborted
  /\ TerminateSession
  /\ \/ at = "startRequest" /\ LeaveSource /\ UNCHANGED <<demand, sourceEnded>>
     \/ at = "send" /\ ReturnIterator /\ demand' = demand - 1 /\ UNCHANGED sourceEnded
     \/ at = "read" /\ sourceEnded' = TRUE /\ iterator' = "exhausted" /\ UNCHANGED <<demand, returns>>
  /\ at' = "done" /\ aborted' = TRUE /\ stage' = "gone"
  /\ UNCHANGED <<responseTerminated, outboundTerminated, yielded, halves, input>>

-------------------------------------------------------------------------------
(***************************************************************************)
(* The subscription.                                                       *)
(***************************************************************************)
\* cancel: allowed until both halves are done.
Cancel ==
  /\ stage # "gone"
  /\ stage' = "gone"
  /\ AbortOutbound
  /\ IF stage = "open" THEN SendIfOpen(Plain("CANCEL")) ELSE UNCHANGED transport
  /\ UNCHANGED <<responseTerminated, outboundTerminated, down, halves, input>>

\* terminateSession: every registered stream fails.  A channel that has not
\* sent its request is not among them and finds out when its loop goes on.
SessionEnds ==
  /\ session # "over"
  /\ TerminateSession
  /\ IF stage = "open" THEN stage' = "gone" /\ AbortOutbound ELSE UNCHANGED <<stage, outbound>>
  /\ UNCHANGED <<responseTerminated, outboundTerminated, halves, input>>

Incoming(type) == session = "active" /\ down # <<>> /\ Head(down).type = type /\ down' = Tail(down)

\* Fault: credit replaces the credit that is left.
AddDemandLatest(n) == demand' = n

\* addDemand
AddDemand(n) == demand' = IF aborted THEN demand ELSE AddReactiveDemand(demand, n)

\* handleRequestN
ReceiveRequestN ==
  /\ Incoming("REQUEST_N")
  /\ IF stage = "open" /\ ~outboundTerminated THEN AddDemand(Head(down).n) ELSE UNCHANGED demand
  /\ UNCHANGED <<transport, subscription, at, aborted, source, halves, input>>

\* completeResponse
ReceiveResponseComplete ==
  /\ Incoming("COMPLETE")
  /\ IF stage = "open" THEN HalfDone(TRUE, outboundTerminated) ELSE UNCHANGED subscription
  /\ UNCHANGED <<transport, outbound, halves, input>>

\* handleError, fail
ReceiveResponseError ==
  /\ Incoming("ERROR")
  /\ stage' = "gone"
  /\ IF stage = "open" THEN AbortOutbound ELSE UNCHANGED outbound
  /\ UNCHANGED <<transport, responseTerminated, outboundTerminated, halves, input>>

-------------------------------------------------------------------------------
(***************************************************************************)
(* The responder.                                                          *)
(***************************************************************************)
NextUp(types) == ~draining /\ up # <<>> /\ Head(up).type \in types /\ up' = Tail(up)
otherwise == <<session, losses, pendingFrames, subscription, outbound>>

Answer(frame) == down' = IF session = "over" THEN down ELSE Append(down, frame)

\* ChannelInput.terminate
TerminateInput ==
  /\ terminated' = TRUE /\ queued' = 0
  /\ downstreamDemand' = 0 /\ remoteCredits' = 0 /\ draining' = FALSE
  /\ UNCHANGED <<subscribed, calls>>

\* fail: one ERROR for the stream, both directions end.
Fail ==
  /\ responder = "open"
  /\ responder' = "gone"
  /\ TerminateInput
  /\ Answer(Plain("ERROR"))
  /\ UNCHANGED <<requesterComplete, responderComplete>>

\* completeIfDone
Ended(requesterDone, responderDone) ==
  /\ requesterComplete' = requesterDone /\ responderComplete' = responderDone
  /\ responder' = IF responder = "open" /\ requesterDone /\ responderDone THEN "gone" ELSE responder

\* dispatchInitialRequest: refused, or registered, with the first
\* continuation credit granted before the controller is called, which may
\* throw.  The initial frame need not carry an item (hasInitialChannelItem).
ReceiveChannel ==
  /\ NextUp(Initials)
  /\ \/ /\ responder' = "gone" /\ terminated' = TRUE
        /\ \/ Answer(Plain("ERROR"))
           \/ session # "over" /\ down' = down \o <<RequestN(1), Plain("ERROR")>>
        /\ UNCHANGED <<requesterComplete, responderComplete, subscribed, calls, queued,
                       downstreamDemand, remoteCredits, draining>>
     \/ /\ responder' = "open"
        /\ requesterComplete' = (Head(up).type = "CHANNEL_COMPLETE")
        /\ queued' \in IF requesterComplete' THEN {0} ELSE {0, 1}
        /\ remoteCredits' = 1
        /\ terminated' = requesterComplete'
        /\ Answer(RequestN(1))
        /\ UNCHANGED <<responderComplete, subscribed, calls, downstreamDemand, draining>>
  /\ UNCHANGED otherwise

\* subscribe, the first time; then a drain.
InputSubscribes ==
  /\ responder # "none" /\ ~subscribed /\ ~terminated
  /\ subscribed' = TRUE /\ draining' = TRUE
  /\ UNCHANGED <<requester, down, halves, calls, queued, downstreamDemand, remoteCredits, terminated>>

\* request, from anywhere, even from inside onNext.
InputRequests(n) ==
  /\ subscribed /\ ~terminated /\ calls < MaxCalls
  /\ calls' = calls + 1
  /\ downstreamDemand' = AddReactiveDemand(downstreamDemand, n)
  /\ draining' = TRUE
  /\ UNCHANGED <<requester, down, halves, subscribed, queued, remoteCredits, terminated>>

Deliverable == subscribed /\ downstreamDemand > 0 /\ queued > 0

\* One turn of the loop of drainOnce: the subscriber gets an item.
Deliver ==
  /\ draining /\ Deliverable
  /\ queued' = queued - 1
  /\ downstreamDemand' = IF downstreamDemand = Unbounded THEN Unbounded ELSE downstreamDemand - 1
  /\ UNCHANGED <<requester, down, halves, subscribed, calls, remoteCredits, terminated, draining>>

\* Fault: credits that are out are granted again.
MissingRepeatedly ==
  IF downstreamDemand = Unbounded THEN MaxRequestN - queued ELSE downstreamDemand - queued

\* grantForDemand: what is missing.
Missing ==
  LET available == queued + remoteCredits
  IN IF downstreamDemand = Unbounded
     THEN IF available > MaxRequestN \div 2 THEN 0 ELSE MaxRequestN - available
     ELSE downstreamDemand - available

\* grant: one frame carries what is missing, for the credits that are out
\* together never exceed what one frame can carry.
Grant ==
  LET granted == Smaller(Missing, MaxRequestN - remoteCredits)
  IN IF requesterComplete \/ granted <= 0 THEN UNCHANGED <<remoteCredits, down>>
     ELSE remoteCredits' = remoteCredits + granted /\ Answer(RequestN(granted))

\* The end of the drain, and of handlePayload when it was called from there.
DrainEnds ==
  /\ draining /\ ~Deliverable
  /\ draining' = FALSE
  /\ Ended(requesterComplete, responderComplete)
  /\ IF requesterComplete /\ queued = 0
     THEN terminated' = TRUE /\ UNCHANGED <<remoteCredits, down>>
     ELSE Grant /\ UNCHANGED terminated
  /\ UNCHANGED <<requester, subscribed, calls, queued, downstreamDemand>>

\* handlePayload, next
ReceiveNext ==
  /\ NextUp({"NEXT"})
  /\ IF responder # "open" \/ requesterComplete THEN UNCHANGED <<down, halves, input>>
     ELSE IF remoteCredits <= 0 THEN Fail
     ELSE /\ remoteCredits' = remoteCredits - 1
          /\ queued' = queued + 1
          /\ draining' = TRUE
          /\ UNCHANGED <<down, halves, subscribed, calls, downstreamDemand, terminated>>
  /\ UNCHANGED otherwise

\* handlePayload, complete
ReceiveComplete ==
  /\ NextUp({"COMPLETE"})
  /\ IF responder # "open" \/ requesterComplete THEN UNCHANGED <<halves, draining>>
     ELSE requesterComplete' = TRUE /\ draining' = TRUE /\ UNCHANGED <<responder, responderComplete>>
  /\ UNCHANGED <<otherwise, down, subscribed, calls, queued, downstreamDemand, remoteCredits, terminated>>

\* Fault: a channel whose response is complete is left alone.
TerminateUnlessComplete ==
  IF responder = "open" /\ ~responderComplete
  THEN responder' = "gone" /\ TerminateInput /\ UNCHANGED <<requesterComplete, responderComplete>>
  ELSE UNCHANGED <<halves, input>>

\* terminate: both publishers are released, nothing is sent.
Terminate ==
  IF responder = "open"
  THEN responder' = "gone" /\ TerminateInput /\ UNCHANGED <<requesterComplete, responderComplete>>
  ELSE UNCHANGED <<halves, input>>

\* handleCancel, handleError
ReceiveEnd ==
  /\ NextUp({"CANCEL", "ERROR"})
  /\ Terminate
  /\ UNCHANGED <<otherwise, down>>

ResponderSessionEnds ==
  /\ session = "over" /\ responder = "open"
  /\ Terminate
  /\ UNCHANGED <<requester, down>>

\* The subscriber cancels or throws, or asks for an invalid number: Fail,
\* which does nothing once both halves are complete.
InputFails ==
  /\ subscribed /\ ~terminated
  /\ Fail
  /\ UNCHANGED requester

\* outputComplete, outputError
ResponseCompletes ==
  /\ responder = "open" /\ ~responderComplete
  /\ Answer(Plain("COMPLETE"))
  /\ Ended(requesterComplete, TRUE)
  /\ UNCHANGED <<requester, input>>

ResponseFails ==
  /\ responder = "open" /\ ~responderComplete
  /\ Fail
  /\ UNCHANGED requester

-------------------------------------------------------------------------------
\* The first request of the subscriber has just been made: the outbound side
\* is attached and starts.
Init ==
  /\ session = "active" /\ losses = 0
  /\ up = <<>> /\ pendingFrames = <<>> /\ down = <<>>
  /\ stage = "starting" /\ responseTerminated = FALSE /\ outboundTerminated = FALSE
  /\ at = "start" /\ aborted = FALSE /\ demand = 0
  /\ yielded = 0 /\ sourceEnded = FALSE /\ iterator = "none" /\ returns = 0
  /\ responder = "none" /\ requesterComplete = FALSE /\ responderComplete = FALSE
  /\ subscribed = FALSE /\ calls = 0 /\ queued = 0
  /\ downstreamDemand = 0 /\ remoteCredits = 0
  /\ terminated = FALSE /\ draining = FALSE

Outbound ==
  \/ Unwind \/ BecomesWritable \/ HasDemand \/ StartRequest \/ SendNext
  \/ WritableRejected \/ StartFails \/ ItemFails \/ SendEndsSession
Source == OpenSource \/ OpenThrows \/ Yields \/ EndsEmpty \/ Completes \/ SourceThrows
ReceiveDown == ReceiveRequestN \/ ReceiveResponseComplete \/ ReceiveResponseError
ReceiveUp == ReceiveChannel \/ ReceiveNext \/ ReceiveComplete \/ ReceiveEnd
Drain == Deliver \/ DrainEnds

Next ==
  \/ TransportLost \/ BeginResume \/ FinishResume \/ SessionEnds
  \/ Outbound \/ Source \/ Cancel
  \/ ReceiveDown \/ ReceiveUp \/ Drain
  \/ InputSubscribes \/ InputFails \/ \E n \in Demands : InputRequests(n)
  \/ ResponseCompletes \/ ResponseFails \/ ResponderSessionEnds

Spec == Init /\ [][Next]_vars

\* The loops go on, iterators answer, frames are dispatched on a transport
\* that works, a loss is followed by a Resume attempt, and the controller
\* subscribes to its input.
Fairness ==
  /\ WF_vars(BeginResume) /\ WF_vars(FinishResume)
  /\ WF_vars(Outbound) /\ WF_vars(Source)
  /\ WF_vars(ReceiveDown) /\ WF_vars(session = "active" /\ ReceiveUp)
  /\ WF_vars(Drain) /\ WF_vars(InputSubscribes)

LiveSpec == Spec /\ Fairness

-------------------------------------------------------------------------------
\* Types, and numbers of credits that one frame can carry.
TypeOK ==
  /\ session \in {"active", "lost", "handshake", "over"} /\ losses \in 0..MaxLosses
  /\ stage \in {"starting", "open", "gone"} /\ responder \in {"none", "open", "gone"}
  /\ at \in {"start", "awaitInitial", "readFirst", "awaitFirst", "startRequest", "demand",
             "awaitRead", "read", "credit", "awaitSend", "send", "done"}
  /\ iterator \in {"none", "open", "exhausted", "returned"} /\ yielded \in 0..Items
  /\ {aborted, sourceEnded, responseTerminated, outboundTerminated, requesterComplete, responderComplete,
      subscribed, terminated, draining} \subseteq BOOLEAN
  /\ {demand, remoteCredits} \subseteq 0..MaxRequestN
  /\ downstreamDemand \in Nat /\ queued \in Nat
  /\ \A i \in DOMAIN down : down[i].n \in 0..MaxRequestN

outgoing == up \o pendingFrames
Total(numbers) ==
  LET F[i \in 0..Len(numbers)] == IF i = 0 THEN 0 ELSE F[i - 1] + numbers[i]
  IN F[Len(numbers)]
Credits(frames) == Total([i \in DOMAIN frames |-> frames[i].n])
Nexts(frames) == Total([i \in DOMAIN frames |-> IF frames[i].type = "NEXT" THEN 1 ELSE 0])

\* Credit is conserved: what the responder believes the requester may still
\* send is what the requester holds, what is on its way to it and the items
\* on their way back, across outages; so the responder is never overrun
\* (remoteCredits, channel-input.ts 115, against demand, outbound.ts 99).
CreditIsConserved ==
  /\ stage = "open" /\ ~outboundTerminated
  /\ responder = "open" /\ ~requesterComplete
  => remoteCredits = demand + Credits(down) + Nexts(outgoing)

\* What the responder has to hold is bounded by what its controller wants:
\* items waiting and items still granted are at most the demand, apart from
\* the initial item and the one of the first credit ("one-element prefetch",
\* channel-input.ts 42).
PrefetchIsBounded ==
  queued + remoteCredits <=
    IF downstreamDemand = Unbounded THEN MaxRequestN + 1
    ELSE IF downstreamDemand < 2 THEN 2 ELSE downstreamDemand

\* An end is final: a requester that has cancelled, failed or seen its
\* stream end sends nothing for it, and one that has completed its half
\* sends nothing but CANCEL, wherever its loop was waiting.
EndIsFinal ==
  [][/\ stage = "gone" => Len(outgoing') <= Len(outgoing)
     /\ outboundTerminated /\ Len(outgoing') > Len(outgoing) => Last(outgoing').type = "CANCEL"
    ]_<<stage, outboundTerminated, up, pendingFrames>>

\* The source is released exactly once, however abort, a failing send and the
\* end of the loop meet: return() is called at most once (iteratorClosed,
\* outbound.ts 104); it is left out only for a source that has ended; and
\* neither a loop that is over or aborted nor a stream that is gone holds one
\* open, not even one that was opened after the abort.
SourceIsReleased ==
  /\ returns = IF iterator = "returned" THEN 1 ELSE 0
  /\ iterator = "exhausted" => sourceEnded
  /\ at = "done" \/ aborted \/ stage = "gone" => iterator # "open"

\* Both ends let go of the channel once its halves are over, however they
\* end: unless the controller stops asking for items or keeps its response
\* open, neither keeps the stream; and when the session ends, the requester
\* does not keep it either, even one whose request was never sent.
ChannelSettles ==
  <>[](\/ stage = "gone" /\ at = "done" /\ (responder # "open" \/ session = "over")
       \/ responder = "open" /\ stage = "open" /\ (downstreamDemand = 0 \/ requesterComplete))
===============================================================================

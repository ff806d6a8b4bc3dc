---------------------------- MODULE PullIterable ----------------------------
(***************************************************************************)
(* One iterator of createPullAsyncIterable: every next() of the consumer   *)
(* grants its publisher one item of demand, and an AsyncQueue matches the  *)
(* items with the reads.  The publisher is any publisher: it may call the  *)
(* subscriber at any time, from inside subscribe(), request() and cancel() *)
(* too, signal without demand, twice or after the end, and throw.          *)
(*                                                                         *)
(* A call of the publisher's code is a state of its own, in which other    *)
(* callbacks may run: setup says whether subscribe() is running, requesting*)
(* how many request() calls are, and afterCancel what the iterator does to *)
(* its queue once cancel() returns.  A publisher that throws from cancel() *)
(* is one that returns (cancelSubscription).                               *)
(***************************************************************************)
EXTENDS AsyncQueue

CONSTANT MaxDemand      \* Number.MAX_SAFE_INTEGER, where demand saturates

VARIABLES
  setup,                \* "subscribing", then "settling", then "ready": next() can be called
  upstream,             \* "none", "subscribed" (the subscription is held), "ended", "cancelled"
  pendingDemand,        \* demand of reads from before onSubscribe
  outstandingDemand,
  terminated,
  aborted,              \* the signal's state
  listener,             \* the abort listener: "none", "observed" or "released"
  requesting, afterCancel,
  requested             \* history: all the demand the publisher was asked for

\* What ends the iterator changes these.
endVars == <<upstream, pendingDemand, outstandingDemand, terminated, listener, afterCancel>>
vars == <<queueVars, endVars, setup, aborted, requesting, requested>>

Subscribed == upstream = "subscribed"
Saturated(n) == IF n > MaxDemand THEN MaxDemand ELSE n

\* [Symbol.asyncIterator](): nothing is subscribed once the signal has aborted.
Init ==
  /\ values = EmptyArray /\ waiters = EmptyArray /\ results = <<>> /\ pushed = <<>>
  /\ failed = FALSE
  /\ aborted \in BOOLEAN
  /\ terminated = aborted /\ closed = aborted
  /\ setup = IF aborted THEN "ready" ELSE "subscribing"
  /\ upstream = "none" /\ listener = "none"
  /\ pendingDemand = 0 /\ outstandingDemand = 0
  /\ requesting = 0 /\ afterCancel = "nothing" /\ requested = 0

----------------------------------------------------------------------------
(* The ways to end.                                                        *)

\* What every end does before it touches the queue; how is what becomes of a held subscription.
Terminate(how) ==
  /\ terminated' = TRUE
  /\ pendingDemand' = 0 /\ outstandingDemand' = 0
  /\ listener' = IF listener = "observed" THEN "released" ELSE listener
  /\ upstream' = IF Subscribed THEN how ELSE upstream

\* A held subscription is cancelled first: the queue ends when cancel() is back.
CancelIterator ==
  IF terminated THEN Return /\ UNCHANGED endVars
  ELSE /\ Terminate("cancelled")
       /\ IF Subscribed THEN afterCancel' = "return" /\ UNCHANGED queueVars
          ELSE Return /\ UNCHANGED afterCancel

FailAndCancel ==
  IF terminated THEN UNCHANGED <<queueVars, endVars>>
  ELSE /\ Terminate("cancelled")
       /\ IF Subscribed THEN afterCancel' = "error" /\ UNCHANGED queueVars
          ELSE Error /\ UNCHANGED afterCancel

CancelReturns ==
  /\ \/ afterCancel = "return" /\ Return
     \/ afterCancel = "error" /\ Error
  /\ afterCancel' = "nothing"
  /\ UNCHANGED <<upstream, pendingDemand, outstandingDemand, terminated, listener,
                 setup, aborted, requesting, requested>>

----------------------------------------------------------------------------
(* subscribe() and the abort signal.                                       *)

NoCallRuns == requesting = 0 /\ afterCancel = "nothing"

\* observeAbort leaves a listener or, when the signal has aborted by then, runs it.
SubscribeReturns ==
  /\ setup = "subscribing" /\ NoCallRuns
  /\ setup' = "settling"
  /\ IF ~terminated /\ aborted THEN CancelIterator
     ELSE /\ listener' = IF terminated THEN listener ELSE "observed"
          /\ UNCHANGED <<queueVars, upstream, pendingDemand, outstandingDemand, terminated, afterCancel>>
  /\ UNCHANGED <<aborted, requesting, requested>>

\* subscribe() throws, or the signal's addEventListener does.
SubscribeThrows ==
  /\ setup = "subscribing" /\ NoCallRuns
  /\ setup' = "settling"
  /\ FailAndCancel
  /\ UNCHANGED <<aborted, requesting, requested>>

\* The consumer is given the iterator.
Ready ==
  /\ setup = "settling" /\ NoCallRuns
  /\ setup' = "ready"
  /\ UNCHANGED <<queueVars, endVars, aborted, requesting, requested>>

Abort ==
  /\ ~aborted
  /\ aborted' = TRUE
  /\ IF listener = "observed" THEN CancelIterator ELSE UNCHANGED <<queueVars, endVars>>
  /\ UNCHANGED <<setup, requesting, requested>>

----------------------------------------------------------------------------
(* Demand.                                                                 *)

\* Calls upstream.request(n).
RequestUpstream(n) == requesting' = requesting + 1 /\ requested' = requested + n

RequestReturns ==
  /\ requesting > 0 /\ afterCancel = "nothing"
  /\ requesting' = requesting - 1
  /\ UNCHANGED <<queueVars, endVars, setup, aborted, requested>>

RequestThrows ==
  /\ requesting > 0 /\ afterCancel = "nothing"
  /\ requesting' = requesting - 1
  /\ FailAndCancel
  /\ UNCHANGED <<setup, aborted, requested>>

\* next(): the read is in the queue before its demand is on the way.
NextRead ==
  /\ setup = "ready"
  /\ Read
  /\ IF terminated THEN UNCHANGED <<endVars, requesting, requested>>
     ELSE /\ outstandingDemand' = Saturated(outstandingDemand + 1)
          /\ IF Subscribed THEN RequestUpstream(1) /\ UNCHANGED pendingDemand
             ELSE pendingDemand' = Saturated(pendingDemand + 1) /\ UNCHANGED <<requesting, requested>>
          /\ UNCHANGED <<upstream, terminated, listener, afterCancel>>
  /\ UNCHANGED <<setup, aborted>>

ReturnIterator ==
  /\ setup = "ready"
  /\ CancelIterator
  /\ UNCHANGED <<setup, aborted, requesting, requested>>

ThrowIterator ==
  /\ setup = "ready"
  /\ FailAndCancel
  /\ UNCHANGED <<setup, aborted, requesting, requested>>

----------------------------------------------------------------------------
(* The subscriber.  A second subscription, or one that comes too late, is  *)
(* cancelled on the spot and leaves no trace.                              *)

OnSubscribe ==
  /\ ~terminated /\ ~Subscribed
  /\ upstream' = "subscribed"
  /\ pendingDemand' = 0
  /\ IF pendingDemand > 0 THEN RequestUpstream(pendingDemand) ELSE UNCHANGED <<requesting, requested>>
  /\ UNCHANGED <<queueVars, outstandingDemand, terminated, listener, afterCancel, setup, aborted>>

OnNext(value) ==
  /\ ~terminated
  /\ IF ~Subscribed \/ outstandingDemand <= 0 THEN FailAndCancel
     ELSE /\ outstandingDemand' = outstandingDemand - 1
          /\ Push(value)
          /\ UNCHANGED <<upstream, pendingDemand, terminated, listener, afterCancel>>
  /\ UNCHANGED <<setup, aborted, requesting, requested>>

OnError ==
  /\ ~terminated
  /\ Terminate("ended") /\ Error
  /\ UNCHANGED <<afterCancel, setup, aborted, requesting, requested>>

OnComplete ==
  /\ ~terminated
  /\ Terminate("ended") /\ Complete
  /\ UNCHANGED <<afterCancel, setup, aborted, requesting, requested>>

Next ==
  \/ SubscribeReturns \/ SubscribeThrows \/ Ready \/ Abort
  \/ CancelReturns \/ RequestReturns \/ RequestThrows
  \/ NextRead \/ ReturnIterator \/ ThrowIterator
  \/ OnSubscribe \/ OnError \/ OnComplete
  \/ \E value \in Values : OnNext(value)

Spec == Init /\ [][Next]_vars

----------------------------------------------------------------------------
\* With one item of demand per read the queue never has to hold a value, whatever the publisher does.
NothingIsBuffered == values = EmptyArray

\* A publisher that emits what it was asked for, and no more, is never failed for it: every read's
\* demand reaches it once, also when the reads came before onSubscribe or run inside its request().
DemandIsExact ==
  (~terminated /\ Len(results) <= MaxDemand) =>
    /\ outstandingDemand = Len(results) - Len(pushed)
    /\ requested + pendingDemand = Len(results)
    /\ Subscribed => pendingDemand = 0

\* An ended iterator lets go of everything: its subscription, the signal's listener and, once
\* cancel() is back, every waiting read.
EndReleasesEverything ==
  terminated =>
    /\ ~Subscribed /\ listener # "observed"
    /\ afterCancel = "nothing" => \A read \in DOMAIN results : results[read] # Pending

\* A subscription is cancelled once, and never after the publisher's own end.
CancelledOnce ==
  [][/\ upstream \in {"ended", "cancelled"} => upstream' = upstream
     /\ upstream' = "cancelled" /\ upstream # "cancelled" => afterCancel = "nothing"]_vars

\* An iterator whose signal has aborted is over once it has been handed out.
AbortEndsIt == (aborted /\ setup # "subscribing") => terminated
=============================================================================

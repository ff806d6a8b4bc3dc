---------------------------- MODULE ClientReconnect ----------------------------
(***************************************************************************)
(* The client facade RSocket (rsocket-client-ts/src/rsocket/socket.ts)     *)
(* with its RSocketResumeCoordinator (resume/coordinator.ts): connection   *)
(* attempts, reconnect timer, retained session, Resume token, the          *)
(* readiness signal (reconnect/deferred.ts) and the wake signals of the    *)
(* platform (rsocket-browser/src/reconnect/browser.ts).                    *)
(*                                                                         *)
(* Nearly every method of the facade runs application code in its middle:  *)
(* a lifecycle listener, a consumer whose stream fails, somebody waiting   *)
(* for the connection.  That code may call the facade again.  A method is  *)
(* therefore written as frames on `stack`, the innermost call first; the   *)
(* frame "user" is application code, and the frame below it is what the    *)
(* method does when that code returns.  What the event loop delivers       *)
(* (timers, transports, settled promises) comes when the stack is empty.   *)
(*                                                                         *)
(* An attempt is numbered by its connect token; the session that it sets   *)
(* up has the same number.  Delays, the attempt counter and the contents   *)
(* of events are left out.  A Resume token is told apart only from the     *)
(* current one: `holders` are the sessions that were set up with it.       *)
(***************************************************************************)
EXTENDS Integers, Sequences

CONSTANTS
  MaxAttempts,   \* bound: connection attempts
  MaxCalls       \* bound: calls of connect() and disconnect()

ASSUME ReconnectAssumption == MaxAttempts \in Nat /\ MaxCalls \in Nat

VARIABLES
  policy,         \* reconnect option: none, fresh (no Resume) or resume
  closeRequested, client, connecting,
  timer,          \* reconnectTimer is set
  wake,           \* the wake listener is installed
  ready,          \* readyDeferred: pending, resolved or rejected
  waiting,        \* somebody waits for readyDeferred
  current,        \* the attempt connectToken names; 0 after disconnect
  attempt,        \* attempts made so far
  retained, late, \* retainedClient, its deadline has passed
  holders,        \* sessions set up with the coordinator's currentToken
  session,        \* by number: none, opening, active, suspended, over
  calls, stack

facade == <<closeRequested, client, connecting, timer, wake, ready, waiting, current>>
coordinator == <<retained, late, holders>>
vars == <<policy, facade, attempt, coordinator, session, calls, stack>>

None == 0
Sessions == 1..MaxAttempts
Connected == client # None /\ session[client] = "active"
IsCurrent(t) == ~closeRequested /\ t = current
CanReconnect == ~closeRequested /\ policy # "none"
CanResume == policy = "resume" /\ retained # None /\ session[retained] = "suspended" /\ ~late

-------------------------------------------------------------------------------
(***************************************************************************)
(* The stack.                                                              *)
(***************************************************************************)
Call(do, of) == [do |-> do, of |-> of]
User == Call("user", 0)
Idle == stack = <<>>
Do(name) == ~Idle /\ Head(stack).do = name
It == Head(stack).of
Continue(frames) == stack' = frames \o Tail(stack)
Begin(frames) == Idle /\ stack' = frames
Calls(do, of) == IF of = None THEN <<>> ELSE <<Call(do, of)>>

\* Application code may run: from the event loop or from inside a method.
UserRuns == (Idle \/ Do("user")) /\ calls < MaxCalls /\ calls' = calls + 1

UserReturns ==
  /\ Do("user") /\ Continue(<<>>)
  /\ UNCHANGED <<policy, facade, attempt, coordinator, session, calls>>

AtStage(t, stage) == t \in DOMAIN attempt /\ attempt[t].stage = stage
ToStage(t, stage) == attempt' = [attempt EXCEPT ![t].stage = stage]

\* abortConnect
Aborted == [t \in DOMAIN attempt |->
              IF connecting /\ t = current THEN [attempt[t] EXCEPT !.aborted = TRUE] ELSE attempt[t]]

-------------------------------------------------------------------------------
(***************************************************************************)
(* The coordinator.                                                        *)
(***************************************************************************)
\* retain, on behalf of a client that has closed: while there was a client,
\* no other session was retained.
Retain(s) ==
  /\ IF session[s] = "suspended"
     THEN retained' = s /\ UNCHANGED holders
     ELSE retained' = None /\ holders' = {}
  /\ late' = FALSE

TakeRetained == retained' = None /\ late' = FALSE

\* What abandon and reset do to the session that was taken, with the rotation
\* of the token.
Abandoned == Calls("terminate", retained)
Reset == Abandoned \o <<Call("rotate", 0)>>

-------------------------------------------------------------------------------
(***************************************************************************)
(* The application: connect() or an interaction, and disconnect().         *)
(***************************************************************************)
\* connectNow, readyClient, ensureConnectionStarted: an attempt is joined or made.
Connect ==
  /\ UserRuns /\ ~Connected
  /\ IF connecting \/ timer
     THEN stack' = <<Call("await", 0)>> \o stack /\ UNCHANGED <<closeRequested, wake, ready>>
     ELSE /\ closeRequested' = FALSE
          /\ wake' = TRUE
          /\ ready' = "pending"
          /\ stack' = <<Call("connect", 0), Call("await", 0)>> \o stack
  /\ UNCHANGED <<policy, client, connecting, timer, waiting, current, attempt, coordinator, session>>

\* The caller waits for readyDeferred, unless it is settled by now.
Await ==
  /\ Do("await") /\ Continue(<<>>)
  /\ waiting' = (waiting \/ ready = "pending")
  /\ UNCHANGED <<policy, closeRequested, client, connecting, timer, wake, ready, current,
                 attempt, coordinator, session, calls>>

\* disconnectNow, up to the rejection of whoever waits.
Disconnect ==
  /\ UserRuns
  /\ ~(closeRequested /\ client = None /\ ~connecting /\ ~timer)
  /\ closeRequested' = TRUE /\ current' = None
  /\ attempt' = Aborted
  /\ connecting' = FALSE /\ timer' = FALSE /\ wake' = FALSE
  /\ ready' = IF ready = "pending" THEN "rejected" ELSE ready
  /\ waiting' = FALSE
  /\ stack' = (IF waiting THEN <<User>> ELSE <<>>) \o <<Call("release", 0)>> \o stack
  /\ UNCHANGED <<policy, client, coordinator, session>>

\* Fault: the retained session is kept for a later connect().
DisconnectReleasesClientOnly ==
  /\ Do("release")
  /\ client' = None
  /\ Continue(Calls("terminate", client) \o <<User>>)
  /\ UNCHANGED <<policy, closeRequested, connecting, timer, wake, ready, waiting, current,
                 attempt, coordinator, session, calls>>

\* disconnectNow, the rest: dispose of the coordinator, then the client.
DisconnectReleases ==
  /\ Do("release")
  /\ client' = None /\ TakeRetained
  /\ Continue((IF retained = client THEN <<>> ELSE Abandoned)
              \o <<Call("rotate", 0)>> \o Calls("terminate", client) \o <<User>>)
  /\ UNCHANGED <<policy, closeRequested, connecting, timer, wake, ready, waiting, current,
                 attempt, holders, session, calls>>

-------------------------------------------------------------------------------
(***************************************************************************)
(* A connection attempt.                                                   *)
(***************************************************************************)
New(reconnect) == [stage |-> "new", reconnect |-> reconnect, session |-> None,
                   aborted |-> FALSE, cause |-> "none"]

\* openConnection, up to its "connecting" event.
OpenConnection ==
  /\ Do("connect") \/ Do("reconnect")
  /\ Len(attempt) < MaxAttempts
  /\ attempt' = Append(Aborted, New(Do("reconnect")))
  /\ current' = Len(attempt) + 1
  /\ connecting' = TRUE
  /\ Continue(<<User, Call("start", current')>>)
  /\ UNCHANGED <<policy, closeRequested, client, timer, wake, ready, waiting, coordinator, session, calls>>

\* openReadyConnection: a reconnect waits until the platform is online, the
\* transport may have to be loaded; otherwise the coordinator opens at once.
Start ==
  /\ Do("start")
  /\ \/ ~IsCurrent(It) /\ ToStage(It, "done") /\ Continue(<<>>)
     \/ IsCurrent(It) /\ attempt[It].reconnect /\ ToStage(It, "offline") /\ Continue(<<>>)
     \/ IsCurrent(It) /\ ToStage(It, "loading") /\ Continue(<<>>)
     \/ IsCurrent(It) /\ ToStage(It, "opening") /\ Continue(<<Call("open", It)>>)
  /\ UNCHANGED <<policy, facade, coordinator, session, calls>>

\* waitUntilAvailable settles: online again, or aborted.
Available(t) ==
  /\ AtStage(t, "offline")
  /\ \/ attempt[t].aborted /\ ToStage(t, "failed") /\ Begin(<<>>)
     \/ ~attempt[t].aborted /\ ToStage(t, "loading") /\ Begin(<<>>)
     \/ ~attempt[t].aborted /\ ToStage(t, "opening") /\ Begin(<<Call("open", t)>>)
  /\ UNCHANGED <<policy, facade, coordinator, session, calls>>

\* provideTransport: every attempt awaits the same promise, in order.
Provided(t) ==
  /\ AtStage(t, "loading") /\ \A u \in 1..t - 1 : ~AtStage(u, "loading")
  /\ ToStage(t, "opening") /\ Begin(<<Call("open", t)>>)
  /\ UNCHANGED <<policy, facade, coordinator, session, calls>>

\* open of the coordinator: RESUME of the retained session, with its own
\* token (assertResumeConfiguration), or a fresh SETUP.
Open ==
  /\ Do("open")
  /\ LET t == It
     IN IF attempt[t].reconnect /\ CanResume
        THEN /\ attempt' = [attempt EXCEPT ![t].session = retained,
                              ![t].stage = IF attempt[t].aborted THEN "failed"
                                           ELSE IF retained \in holders THEN "resuming" ELSE "notResumed",
                              ![t].cause = "rejected"]
             /\ Continue(<<>>)
             /\ UNCHANGED <<retained, late>>
        ELSE /\ TakeRetained
             /\ Continue((IF retained = None THEN <<>> ELSE Reset) \o <<Call("fresh", t)>>)
             /\ UNCHANGED attempt
  /\ UNCHANGED <<policy, facade, holders, session, calls>>

\* connectFresh, RSocketClient.connect; an aborted attempt fails.
ConnectFresh ==
  /\ Do("fresh") /\ Continue(<<>>)
  /\ LET t == It
     IN IF attempt[t].aborted THEN ToStage(t, "failed") /\ UNCHANGED <<session, holders>>
        ELSE /\ attempt' = [attempt EXCEPT ![t].stage = "connecting", ![t].session = t]
             /\ session' = [session EXCEPT ![t] = "opening"]
             /\ holders' = holders \cup {t}
  /\ UNCHANGED <<policy, facade, retained, late, calls>>

\* The transport opens and SETUP is sent, also when the attempt is aborted
\* before its continuation runs.
ConnectSucceeds(t) ==
  /\ AtStage(t, "connecting") /\ Begin(<<>>)
  /\ session' = [session EXCEPT ![t] = "active"]
  /\ ToStage(t, "opened")
  /\ UNCHANGED <<policy, facade, coordinator, calls>>

\* It does not; a rejected SETUP takes its token with it.
ConnectFails(t) ==
  /\ AtStage(t, "connecting") /\ Begin(<<>>)
  /\ session' = [session EXCEPT ![t] = "over"]
  /\ ToStage(t, "failed")
  /\ holders' \in IF attempt[t].aborted THEN {holders} ELSE {holders, {}}
  /\ UNCHANGED <<policy, facade, retained, late, calls>>

ResumeSucceeds(t) ==
  /\ AtStage(t, "resuming") /\ ~attempt[t].aborted /\ session[attempt[t].session] = "suspended"
  /\ Begin(<<>>)
  /\ session' = [session EXCEPT ![attempt[t].session] = "active"]
  /\ ToStage(t, "resumed")
  /\ UNCHANGED <<policy, facade, coordinator, calls>>

\* A broken connection may be tried again, a refusal may not.
ResumeFails(t, cause) ==
  /\ AtStage(t, "resuming") /\ Begin(<<>>)
  /\ cause = "broken" \/ session[attempt[t].session] = "suspended"
  /\ attempt' = [attempt EXCEPT ![t].stage = "notResumed", ![t].cause = cause]
  /\ UNCHANGED <<policy, facade, coordinator, session, calls>>

-------------------------------------------------------------------------------
(***************************************************************************)
(* What follows the awaits of an attempt.                                  *)
(***************************************************************************)
\* open, after a Resume: the attempt may have been aborted, or the session
\* released, in the meantime.
Resumed(t) ==
  /\ AtStage(t, "resumed")
  /\ LET s == attempt[t].session
     IN IF attempt[t].aborted
        THEN /\ retained' = IF retained = s THEN None ELSE retained
             /\ ToStage(t, "failed") /\ Begin(<<Call("terminate", s)>>)
        ELSE /\ retained' = None
             /\ IF retained = s THEN ToStage(t, "opened") /\ Begin(<<>>)
                ELSE /\ Begin(<<Call("terminate", s)>> \o Reset \o <<Call("fresh", t)>>)
                     /\ UNCHANGED attempt
  /\ late' = (late /\ retained' # None)
  /\ UNCHANGED <<policy, facade, holders, session, calls>>

\* open, after a failed Resume: the session is kept for another attempt, or
\* given up and replaced.
NotResumed(t) ==
  /\ AtStage(t, "notResumed")
  /\ IF attempt[t].aborted \/ attempt[t].cause = "broken"
     THEN ToStage(t, "failed") /\ Begin(<<>>) /\ UNCHANGED <<retained, late>>
     ELSE /\ TakeRetained
          /\ ToStage(t, "opening")
          /\ Begin(Reset \o <<User, Call("fresh", t)>>)
  /\ UNCHANGED <<policy, facade, holders, session, calls>>

\* Fault: the client of a superseded attempt is taken all the same.
OpenedRegardless(t) ==
  /\ AtStage(t, "opened") /\ ToStage(t, "done")
  /\ client' = attempt[t].session /\ connecting' = FALSE
  /\ Begin((IF session[client'] = "active" THEN <<>> ELSE <<Call("closed", client')>>)
           \o <<Call("connected", t)>>)
  /\ UNCHANGED <<policy, closeRequested, timer, wake, ready, waiting, current, coordinator, session, calls>>

\* openConnection, after success; onClose reports a client that has closed
\* in the meantime at once.
Opened(t) ==
  /\ AtStage(t, "opened") /\ ToStage(t, "done")
  /\ LET s == attempt[t].session
     IN IF IsCurrent(t)
        THEN /\ client' = s /\ connecting' = FALSE
             /\ Begin((IF session[s] = "active" THEN <<>> ELSE <<Call("closed", s)>>)
                      \o <<Call("connected", t)>>)
        ELSE Begin(<<Call("terminate", s)>>) /\ UNCHANGED <<client, connecting>>
  /\ UNCHANGED <<policy, closeRequested, timer, wake, ready, waiting, current, coordinator, session, calls>>

ConnectedEvent ==
  /\ Do("connected")
  /\ LET t == It
     IN Continue(IF client = attempt[t].session /\ Connected THEN <<User, Call("resolve", t)>> ELSE <<>>)
  /\ UNCHANGED <<policy, facade, attempt, coordinator, session, calls>>

ResolveReady ==
  /\ Do("resolve")
  /\ LET t == It
     IN IF IsCurrent(t) /\ client = attempt[t].session /\ Connected /\ ready = "pending"
        THEN /\ ready' = "resolved" /\ waiting' = FALSE
             /\ Continue(IF waiting THEN <<User>> ELSE <<>>)
        ELSE Continue(<<>>) /\ UNCHANGED <<ready, waiting>>
  /\ UNCHANGED <<policy, closeRequested, client, connecting, timer, wake, current, attempt,
                 coordinator, session, calls>>

\* openConnection, after failure.
Failed(t) ==
  /\ AtStage(t, "failed") /\ ToStage(t, "done")
  /\ IF IsCurrent(t)
     THEN /\ connecting' = FALSE /\ client' = None
          /\ Begin((IF attempt[t].reconnect THEN <<User>> ELSE <<>>) \o <<Call("schedule", 0)>>)
     ELSE Begin(<<>>) /\ UNCHANGED <<connecting, client>>
  /\ UNCHANGED <<policy, closeRequested, timer, wake, ready, waiting, current, coordinator, session, calls>>

-------------------------------------------------------------------------------
(***************************************************************************)
(* The end of a session, and what is done about it.                        *)
(***************************************************************************)
\* terminateSession: streams fail first, then the close listener is told.
Terminate ==
  /\ Do("terminate")
  /\ LET s == It
     IN /\ session' = [session EXCEPT ![s] = "over"]
        /\ Continue(IF session[s] = "over" THEN <<>>
                    ELSE <<User>> \o IF session[s] = "active" THEN <<Call("closed", s)>> ELSE <<>>)
  /\ UNCHANGED <<policy, facade, attempt, coordinator, calls>>

\* rotateToken
Rotate ==
  /\ Do("rotate") /\ Continue(<<>>)
  /\ holders' = {}
  /\ UNCHANGED <<policy, facade, attempt, retained, late, session, calls>>

\* handleClientClose
HandleClientClose ==
  /\ Do("closed")
  /\ LET s == It
     IN IF s # client THEN Continue(<<>>) /\ UNCHANGED <<client, ready, coordinator>>
        ELSE /\ client' = None
             /\ Retain(s)
             /\ IF closeRequested THEN Continue(<<>>) /\ UNCHANGED ready
                ELSE ready' = "pending" /\ Continue(<<User, Call("schedule", 0)>>)
  /\ UNCHANGED <<policy, closeRequested, connecting, timer, wake, waiting, current, attempt, session, calls>>

\* Fault: the attempt under way is not looked at.
ScheduleAlways ==
  /\ Do("schedule")
  /\ timer' = CanReconnect
  /\ ready' = "pending"
  /\ Continue(IF CanReconnect THEN <<User>> ELSE <<>>)
  /\ UNCHANGED <<policy, closeRequested, client, connecting, wake, waiting, current, attempt,
                 coordinator, session, calls>>

\* scheduleReconnect
ScheduleReconnect ==
  /\ Do("schedule")
  /\ IF closeRequested \/ connecting THEN timer' = FALSE /\ Continue(<<>>) /\ UNCHANGED <<ready, waiting>>
     ELSE IF CanReconnect
     THEN /\ timer' = TRUE /\ ready' = "pending"
          /\ Continue(<<User>>)
          /\ UNCHANGED waiting
     ELSE /\ timer' = FALSE
          /\ ready' = "rejected" /\ waiting' = FALSE
          /\ Continue((IF waiting THEN <<User>> ELSE <<>>) \o <<Call("unwake", 0), User>>)
  /\ UNCHANGED <<policy, closeRequested, client, connecting, wake, current, attempt, coordinator, session, calls>>

\* clearWakeListener
ClearWakeListener ==
  /\ Do("unwake") /\ Continue(<<>>)
  /\ wake' = FALSE
  /\ UNCHANGED <<policy, closeRequested, client, connecting, timer, ready, waiting, current,
                 attempt, coordinator, session, calls>>

-------------------------------------------------------------------------------
(***************************************************************************)
(* The event loop.                                                         *)
(***************************************************************************)
\* loseTransport: suspended, or over without Resume.
TransportLost(s) ==
  /\ session[s] = "active"
  /\ IF policy = "resume"
     THEN session' = [session EXCEPT ![s] = "suspended"] /\ Begin(<<Call("closed", s)>>)
     ELSE UNCHANGED session /\ Begin(<<Call("terminate", s)>>)
  /\ UNCHANGED <<policy, facade, attempt, coordinator, calls>>

\* The peer ends the session.
SessionEnds(s) ==
  /\ session[s] = "active"
  /\ Begin(<<Call("terminate", s)>>)
  /\ UNCHANGED <<policy, facade, attempt, coordinator, session, calls>>

OpenAgain(start) ==
  /\ Begin(IF start THEN <<Call("reconnect", 0)>> ELSE <<>>)
  /\ timer' = FALSE
  /\ UNCHANGED <<policy, closeRequested, client, connecting, wake, ready, waiting, current,
                 attempt, coordinator, session, calls>>

\* scheduleReconnect: the timer.
ReconnectTimer == timer /\ OpenAgain(~closeRequested /\ ~connecting)

\* handleWake without a client.
HandleWake == wake /\ ~Connected /\ ~connecting /\ CanReconnect /\ OpenAgain(TRUE)

\* deadlineAt goes by, some time before the expiry timer runs.
DeadlinePasses ==
  /\ retained # None /\ ~late
  /\ late' = TRUE
  /\ UNCHANGED <<policy, facade, attempt, retained, holders, session, calls, stack>>

\* scheduleExpiry: the timer.
Expire ==
  /\ retained # None /\ late
  /\ retained' = None /\ late' = FALSE
  /\ Begin(<<Call("terminate", retained), Call("rotate", 0)>>)
  /\ UNCHANGED <<policy, facade, attempt, holders, session, calls>>

Init ==
  /\ policy \in {"none", "fresh", "resume"}
  /\ closeRequested = TRUE /\ client = None /\ connecting = FALSE
  /\ timer = FALSE /\ wake = FALSE
  /\ ready = "pending" /\ waiting = FALSE
  /\ current = None /\ attempt = <<>>
  /\ retained = None /\ late = FALSE /\ holders = {}
  /\ session = [s \in Sessions |-> "none"]
  /\ calls = 0 /\ stack = <<>>

Methods ==
  \/ UserReturns \/ Await \/ DisconnectReleases \/ OpenConnection \/ Start \/ Open \/ ConnectFresh
  \/ ConnectedEvent \/ ResolveReady \/ Terminate \/ Rotate \/ HandleClientClose
  \/ ScheduleReconnect \/ ClearWakeListener

Promises(t) ==
  \/ Available(t) \/ Provided(t) \/ ConnectSucceeds(t) \/ ConnectFails(t)
  \/ ResumeSucceeds(t) \/ \E cause \in {"broken", "rejected"} : ResumeFails(t, cause)
  \/ Resumed(t) \/ NotResumed(t) \/ Opened(t) \/ Failed(t)

Next ==
  \/ Connect \/ Disconnect \/ Methods
  \/ \E t \in Sessions : Promises(t) \/ TransportLost(t) \/ SessionEnds(t)
  \/ ReconnectTimer \/ HandleWake \/ DeadlinePasses \/ Expire

Spec == Init /\ [][Next]_vars

-------------------------------------------------------------------------------
Live(s) == session[s] \in {"opening", "active", "suspended"}
AttemptOwns(s) ==
  \E t \in DOMAIN attempt : attempt[t].session = s /\ attempt[t].stage \in {"connecting", "resumed", "opened"}

\* No session is lost: a live one is the client, or is retained, or is about
\* to be handed over or closed by the attempt that opened it, however late
\* that attempt finishes; and only one is ever in use.
SessionsAreOwned ==
  /\ client # None => retained = None
  /\ Idle => \A s \in Sessions :
       /\ Live(s) => client = s \/ retained = s \/ AttemptOwns(s)
       /\ client = s => ~connecting /\ ~timer

\* disconnect() is final: when it has returned, and unless the application
\* connects again, nothing is left that could bring a connection back.
DisconnectIsFinal ==
  Idle /\ closeRequested =>
    client = None /\ ~connecting /\ ~timer /\ ~wake /\ retained = None

\* Nobody waits for nothing: while somebody waits for a connection, an
\* attempt is under way or a timer will start one; and whoever joins an
\* attempt waits for its outcome, not for an older one.
WaitersAreServed ==
  /\ Idle /\ waiting => ready = "pending" /\ (connecting \/ timer)
  /\ Idle /\ (connecting \/ timer) => ready = "pending"
===============================================================================

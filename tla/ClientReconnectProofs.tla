------------------------- MODULE ClientReconnectProofs -------------------------
(***************************************************************************)
(* The client facade for any number of attempts and of calls: the          *)
(* inductive invariant of ClientReconnect and the invariants its run       *)
(* checks.                                                                 *)
(*                                                                         *)
(* What the facade promises holds between two turns of the event loop; in  *)
(* the middle of a method, and of the application code it calls, what is   *)
(* missing is what the frames below have still to do.  The invariant says  *)
(* of every frame on the stack what must be true for it to be resumed, and *)
(* of every promise of the facade which frame will make it good.           *)
(***************************************************************************)
EXTENDS ClientReconnect, SequenceTheorems, TLAPS

Stages == {"new", "offline", "loading", "opening", "connecting", "resuming", "notResumed",
           "resumed", "opened", "failed", "done"}
Attempt == [stage : Stages, reconnect : BOOLEAN, session : 0..MaxAttempts,
            aborted : BOOLEAN, cause : {"none", "broken", "rejected"}]
Frame == [do : {"user", "await", "connect", "reconnect", "start", "open", "fresh", "connected",
                "resolve", "terminate", "rotate", "closed", "schedule", "unwake", "release"},
          of : 0..MaxAttempts]

Types ==
  /\ policy \in {"none", "fresh", "resume"}
  /\ closeRequested \in BOOLEAN /\ connecting \in BOOLEAN
  /\ timer \in BOOLEAN /\ wake \in BOOLEAN /\ waiting \in BOOLEAN /\ late \in BOOLEAN
  /\ ready \in {"pending", "resolved", "rejected"}
  /\ client \in 0..MaxAttempts /\ retained \in 0..MaxAttempts
  /\ attempt \in Seq(Attempt) /\ Len(attempt) <= MaxAttempts /\ current \in 0..Len(attempt)
  /\ session \in [Sessions -> {"none", "opening", "active", "suspended", "over"}]
  /\ stack \in Seq(Frame)

\* The frames on the stack, in no order.
Members(frames) == {frames[i] : i \in 1..Len(frames)}
On(do) == \E f \in Members(stack) : f.do = do
Begins == On("connect") \/ On("reconnect")

\* A session whose SETUP has been sent.
Begun(s) == session[s] \in {"active", "suspended", "over"}

\* A closed facade has no attempt, no timer and no wake listener; the timer
\* and an attempt exclude each other, and a client excludes the timer.
FlagsInv ==
  /\ closeRequested => ~connecting /\ ~timer /\ ~wake /\ current = None
  /\ timer => ~connecting /\ client = None
  /\ connecting => current # None
  /\ connecting \/ timer => ready = "pending"
  /\ waiting => ready = "pending"

\* An attempt that has not ended is the current one or has been aborted.
AttemptOK(t) ==
  /\ attempt[t].stage # "done" => IF t = current THEN connecting ELSE attempt[t].aborted
  /\ t = current /\ connecting => attempt[t].stage # "done"
  /\ attempt[t].stage = "connecting" => attempt[t].session = t /\ session[t] = "opening"
  /\ attempt[t].stage \in {"resuming", "notResumed", "resumed", "opened"} =>
       attempt[t].session \in Sessions /\ Begun(attempt[t].session)
AttemptInv == \A t \in 1..Len(attempt) : AttemptOK(t)

\* A session exists from the attempt that sets it up.
SessionInv ==
  \A s \in Sessions :
    session[s] # "none" =>
      s \in 1..Len(attempt) /\ attempt[s].stage \in {"connecting", "opened", "failed", "done"}

\* The client and the retained session: never both; while a new connection
\* is made neither is in use, and once it is made nothing is retained.
ClientInv ==
  /\ client # None => retained = None /\ Begun(client)
  /\ retained # None => Begun(retained)
  /\ client # None /\ session[client] # "active" => Call("closed", client) \in Members(stack)
  /\ client # None /\ session[client] = "suspended" =>
       stack # <<>> /\ Head(stack) = Call("closed", client) /\ ~connecting
  /\ connecting /\ client # None => session[client] # "active"
  /\ retained # None /\ connecting =>
       /\ attempt[current].stage \notin {"connecting", "opened"}
       /\ Call("fresh", current) \notin Members(stack)

\* What has to be true for a frame to be resumed.
FrameOK(f) ==
  /\ f.do \in {"connect", "reconnect"} =>
       ~closeRequested /\ ~connecting /\ ~timer /\ ready = "pending" /\ ~Connected
  /\ f.do \in {"start", "open", "fresh", "connected", "resolve"} => f.of \in 1..Len(attempt)
  /\ f.do = "start" => attempt[f.of].stage = "new"
  /\ f.do = "open" => attempt[f.of].stage = "opening"
  /\ f.do = "fresh" => attempt[f.of].stage \in {"opening", "resumed"}
  /\ f.do = "fresh" /\ attempt[f.of].stage = "resumed" /\ Live(attempt[f.of].session) =>
       Call("terminate", attempt[f.of].session) \in Members(stack)
  /\ f.do \in {"connected", "resolve"} => ~(On("release") /\ f.of = current)
  /\ f.do = "schedule" => client = None
  /\ f.do = "release" => closeRequested \/ connecting \/ Begins
  /\ f.do \in {"terminate", "closed"} => f.of \in Sessions /\ Begun(f.of)
  /\ f.do = "closed" => session[f.of] # "active"
  /\ f.do = "terminate" /\ f.of = client => stack = <<f>>

Attempting == {"start", "open", "fresh"}
Beginning == {"connect", "reconnect"}

\* At most one frame carries an attempt on.
Apart(frames) ==
  \A i, j \in 1..Len(frames) :
    i # j /\ frames[i].do \in Attempting /\ frames[j].do \in Attempting =>
      frames[i].of # frames[j].of

StackInv ==
  /\ \A f \in Members(stack) : FrameOK(f)
  /\ Apart(stack)
  /\ stack # <<>> => \A f \in Members(Tail(stack)) : f.do \notin Beginning

\* SessionsAreOwned in the middle of a method.
OwnerInv ==
  \A s \in Sessions :
    Live(s) => client = s \/ retained = s \/ AttemptOwns(s) \/ Call("terminate", s) \in Members(stack)

\* DisconnectIsFinal in the middle of a method.
CloseInv == closeRequested /\ (client # None \/ retained # None) => On("release")

\* The news of a connection is under way to those who wait for it.
News ==
  \E f \in Members(stack) :
    /\ f.do \in {"connected", "resolve"} /\ f.of = current
    /\ client = attempt[f.of].session /\ Connected

\* WaitersAreServed in the middle of a method: a connection is coming.
Coming ==
  \/ connecting \/ timer \/ Begins \/ On("schedule") \/ News
  \/ stack # <<>> /\ Head(stack) = Call("closed", client) /\ client # None /\ ~closeRequested
WaitInv ==
  /\ closeRequested /\ ready = "pending" => ~waiting /\ ~On("await")
  /\ (waiting \/ On("await")) /\ ready = "pending" => Coming
  /\ ~closeRequested /\ policy # "none" =>
       client # None \/ connecting \/ timer \/ Begins \/ On("schedule")

IInv ==
  /\ Types /\ FlagsInv /\ AttemptInv /\ SessionInv /\ ClientInv /\ StackInv
  /\ OwnerInv /\ CloseInv /\ WaitInv
-------------------------------------------------------------------------------
(***************************************************************************)
(* The stack as a set of frames.                                           *)
(***************************************************************************)
LEMMA FrameForm ==
  /\ \A f \in Frame : f = Call(f.do, f.of)
  /\ \A do, of : Call(do, of).do = do /\ Call(do, of).of = of
BY DEF Frame, Call

LEMMA MembersOf ==
  ASSUME NEW F, NEW s \in Seq(F)
  PROVE  /\ Members(s) \subseteq F
         /\ s = <<>> => Members(s) = {}
         /\ s # <<>> => /\ Head(s) \in Members(s) /\ Head(s) \in F /\ Tail(s) \in Seq(F)
                        /\ Members(s) = {Head(s)} \cup Members(Tail(s))
<1>1. Members(s) \subseteq F
  BY DEF Members
<1>2. s = <<>> => Members(s) = {}
  BY DEF Members
<1>3. ASSUME s # <<>>
      PROVE  /\ Head(s) \in Members(s) /\ Head(s) \in F /\ Tail(s) \in Seq(F)
             /\ Members(s) = {Head(s)} \cup Members(Tail(s))
  <2>1. /\ Len(s) \in Nat /\ Len(s) > 0 /\ Head(s) = s[1] /\ Tail(s) \in Seq(F) /\ Head(s) \in F
        /\ Len(Tail(s)) = Len(s) - 1 /\ \A i \in 1..Len(Tail(s)) : Tail(s)[i] = s[i + 1]
    BY <1>3
  <2>2. Members(s) \subseteq {Head(s)} \cup Members(Tail(s))
    <3>1. SUFFICES ASSUME NEW i \in 1..Len(s) PROVE s[i] = Head(s) \/ s[i] \in Members(Tail(s))
      BY DEF Members
    <3>2. CASE i = 1
      BY <2>1, <3>2
    <3>3. CASE i > 1
      <4>1. i - 1 \in 1..Len(Tail(s)) /\ s[i] = Tail(s)[i - 1]
        BY <2>1, <3>3
      <4> QED BY <4>1 DEF Members
    <3> QED BY <3>2, <3>3
  <2>3. {Head(s)} \cup Members(Tail(s)) \subseteq Members(s)
    <3>1. Head(s) \in Members(s)
      BY <2>1 DEF Members
    <3>2. SUFFICES ASSUME NEW i \in 1..Len(Tail(s)) PROVE Tail(s)[i] \in Members(s)
      BY <3>1 DEF Members
    <3>3. i + 1 \in 1..Len(s) /\ Tail(s)[i] = s[i + 1]
      BY <2>1
    <3> QED BY <3>3 DEF Members
  <2> QED BY <2>1, <2>2, <2>3
<1> QED BY <1>1, <1>2, <1>3

LEMMA MembersConcat ==
  ASSUME NEW F, NEW r \in Seq(F), NEW s \in Seq(F)
  PROVE  /\ r \o s \in Seq(F)
         /\ Members(r \o s) = Members(r) \cup Members(s)
         /\ r = <<>> => r \o s = s
         /\ r # <<>> => r \o s # <<>> /\ Head(r \o s) = Head(r)
<1>1. /\ r \o s \in Seq(F) /\ Len(r \o s) = Len(r) + Len(s) /\ Len(r) \in Nat /\ Len(s) \in Nat
      /\ \A i \in 1..Len(r) : (r \o s)[i] = r[i]
      /\ \A i \in 1..Len(s) : (r \o s)[i + Len(r)] = s[i]
      /\ \A i \in Len(r) + 1..Len(r) + Len(s) : (r \o s)[i] = s[i - Len(r)]
  OBVIOUS
<1>2. Members(r \o s) \subseteq Members(r) \cup Members(s)
  <2>1. SUFFICES ASSUME NEW i \in 1..Len(r \o s) PROVE (r \o s)[i] \in Members(r) \cup Members(s)
    BY DEF Members
  <2>2. CASE i \in 1..Len(r)
    BY <1>1, <2>2 DEF Members
  <2>3. CASE i \in Len(r) + 1..Len(r) + Len(s)
    <3>1. i - Len(r) \in 1..Len(s) /\ (r \o s)[i] = s[i - Len(r)]
      BY <1>1, <2>3
    <3> QED BY <3>1 DEF Members
  <2> QED BY <1>1, <2>2, <2>3
<1>3. Members(r) \subseteq Members(r \o s)
  <2>1. SUFFICES ASSUME NEW i \in 1..Len(r) PROVE r[i] \in Members(r \o s)
    BY DEF Members
  <2>2. i \in 1..Len(r \o s) /\ (r \o s)[i] = r[i]
    BY <1>1
  <2> QED BY <2>2 DEF Members
<1>4. Members(s) \subseteq Members(r \o s)
  <2>1. SUFFICES ASSUME NEW i \in 1..Len(s) PROVE s[i] \in Members(r \o s)
    BY DEF Members
  <2>2. i + Len(r) \in 1..Len(r \o s) /\ (r \o s)[i + Len(r)] = s[i]
    BY <1>1
  <2> QED BY <2>2 DEF Members
<1>5. r = <<>> => r \o s = s
  OBVIOUS
<1>6. r # <<>> => r \o s # <<>> /\ Head(r \o s) = Head(r)
  OBVIOUS
<1> QED BY <1>1, <1>2, <1>3, <1>4, <1>5, <1>6

LEMMA FramesConcat ==
  \A a, b \in Seq(Frame) :
    \E r \in Seq(Frame) : r = a \o b /\ Members(r) = Members(a) \cup Members(b)
<1>1. ASSUME NEW a \in Seq(Frame), NEW b \in Seq(Frame)
      PROVE  a \o b \in Seq(Frame) /\ Members(a \o b) = Members(a) \cup Members(b)
  BY MembersConcat
<1> QED BY <1>1

LEMMA MembersLiteral ==
  /\ Members(<<>>) = {}
  /\ \A a : Members(<<a>>) = {a}
  /\ \A a, b : Members(<<a, b>>) = {a, b}
<1>1. Members(<<>>) = {}
  BY DEF Members
<1>2. ASSUME NEW a PROVE Members(<<a>>) = {a}
  BY DEF Members
<1>3. ASSUME NEW a, NEW b PROVE Members(<<a, b>>) = {a, b}
  BY DEF Members
<1> QED BY <1>1, <1>2, <1>3

LEMMA FrameSequences ==
  /\ \A f \in Frame : \E r \in Seq(Frame) : r = <<f>> /\ Members(r) = {f}
  /\ \A f, g \in Frame : \E r \in Seq(Frame) : r = <<f, g>> /\ Members(r) = {f, g}
<1>1. ASSUME NEW f \in Frame PROVE <<f>> \in Seq(Frame) /\ Members(<<f>>) = {f}
  BY MembersLiteral
<1>2. ASSUME NEW f \in Frame, NEW g \in Frame
      PROVE  <<f, g>> \in Seq(Frame) /\ Members(<<f, g>>) = {f, g}
  BY MembersLiteral
<1> QED BY <1>1, <1>2

\* Frames that carry no attempt on.
Plain(frames) == \A f \in Members(frames) : f.do \notin Attempting

LEMMA ApartConcat ==
  ASSUME NEW r \in Seq(Frame), NEW s \in Seq(Frame), Apart(r), Apart(s),
         \A f \in Members(r) : \A g \in Members(s) :
            f.do \in Attempting /\ g.do \in Attempting => f.of # g.of
  PROVE  Apart(r \o s)
<1> DEFINE c == r \o s
<1>1. /\ Len(c) = Len(r) + Len(s) /\ Len(r) \in Nat /\ Len(s) \in Nat
      /\ \A i \in 1..Len(r) : c[i] = r[i]
      /\ \A i \in Len(r) + 1..Len(r) + Len(s) : c[i] = s[i - Len(r)]
  OBVIOUS
<1> HIDE DEF c
<1>2. SUFFICES ASSUME NEW i \in 1..Len(c), NEW j \in 1..Len(c), i # j,
                      c[i].do \in Attempting, c[j].do \in Attempting
               PROVE  c[i].of # c[j].of
  BY DEF Apart, c
<1>3. CASE i \in 1..Len(r) /\ j \in 1..Len(r)
  BY <1>1, <1>2, <1>3 DEF Apart
<1>4. ASSUME NEW k \in Len(r) + 1..Len(r) + Len(s)
      PROVE  k - Len(r) \in 1..Len(s) /\ c[k] = s[k - Len(r)] /\ c[k] \in Members(s)
  <2>1. k - Len(r) \in 1..Len(s) /\ c[k] = s[k - Len(r)]
    BY <1>1, <1>4
  <2> QED BY <2>1 DEF Members
<1>5. ASSUME NEW k \in 1..Len(r) PROVE c[k] \in Members(r)
  BY <1>1, <1>5 DEF Members
<1>6. CASE i \notin 1..Len(r) /\ j \notin 1..Len(r)
  <2>1. i \in Len(r) + 1..Len(r) + Len(s) /\ j \in Len(r) + 1..Len(r) + Len(s)
    BY <1>1, <1>6
  <2>2. /\ i - Len(r) \in 1..Len(s) /\ c[i] = s[i - Len(r)]
        /\ j - Len(r) \in 1..Len(s) /\ c[j] = s[j - Len(r)]
    BY <2>1, <1>4
  <2>3. i - Len(r) # j - Len(r)
    BY <1>1, <1>2
  <2> QED BY <1>2, <2>2, <2>3 DEF Apart
<1>7. CASE i \in 1..Len(r) /\ j \notin 1..Len(r)
  <2>1. j \in Len(r) + 1..Len(r) + Len(s)
    BY <1>1, <1>7
  <2>2. c[i] \in Members(r) /\ c[j] \in Members(s)
    BY <2>1, <1>4, <1>5, <1>7
  <2> QED BY <1>2, <2>2
<1>8. CASE i \notin 1..Len(r) /\ j \in 1..Len(r)
  <2>1. i \in Len(r) + 1..Len(r) + Len(s)
    BY <1>1, <1>8
  <2>2. c[j] \in Members(r) /\ c[i] \in Members(s)
    BY <2>1, <1>4, <1>5, <1>8
  <2> QED BY <1>2, <2>2
<1> QED BY <1>3, <1>6, <1>7, <1>8

LEMMA ApartPlain ==
  ASSUME NEW r \in Seq(Frame), Plain(r)
  PROVE  Apart(r)
<1>1. \A i \in 1..Len(r) : r[i].do \notin Attempting
  BY DEF Plain, Members
<1> QED BY <1>1 DEF Apart

LEMMA ApartOne ==
  ASSUME NEW f \in Frame
  PROVE  Apart(<<f>>) /\ <<f>> \in Seq(Frame)
BY DEF Apart

LEMMA ApartPair ==
  ASSUME NEW f \in Frame, NEW g \in Frame, f.do \notin Attempting
  PROVE  /\ Apart(<<f, g>>) /\ <<f, g>> \in Seq(Frame) /\ Members(<<f, g>>) = {f, g}
<1>1. <<f, g>> \in Seq(Frame) /\ Len(<<f, g>>) = 2 /\ <<f, g>>[1] = f /\ <<f, g>>[2] = g
  OBVIOUS
<1>2. Apart(<<f, g>>)
  BY <1>1 DEF Apart
<1> QED BY <1>1, <1>2, MembersLiteral

\* Below a frame that carries an attempt on, none carries the same one on.
LEMMA ApartTail ==
  ASSUME NEW s \in Seq(Frame), s # <<>>, Apart(s)
  PROVE  /\ Apart(Tail(s))
         /\ Head(s).do \in Attempting =>
              \A f \in Members(Tail(s)) : f.do \in Attempting => f.of # Head(s).of
<1> DEFINE t == Tail(s)
<1>1. /\ Len(s) \in Nat /\ Len(s) > 0 /\ Head(s) = s[1] /\ Len(t) = Len(s) - 1
      /\ \A i \in 1..Len(t) : t[i] = s[i + 1]
  OBVIOUS
<1> HIDE DEF t
<1>2. Apart(t)
  <2>1. SUFFICES ASSUME NEW i \in 1..Len(t), NEW j \in 1..Len(t), i # j,
                        t[i].do \in Attempting, t[j].do \in Attempting
                 PROVE  t[i].of # t[j].of
    BY DEF Apart
  <2>2. /\ i + 1 \in 1..Len(s) /\ j + 1 \in 1..Len(s) /\ i + 1 # j + 1
        /\ t[i] = s[i + 1] /\ t[j] = s[j + 1]
    <3>1. i \in Int /\ j \in Int
      OBVIOUS
    <3>2. i + 1 # j + 1
      BY <2>1, <3>1
    <3> QED BY <1>1, <3>1, <3>2
  <2> QED BY <2>1, <2>2 DEF Apart
<1>3. ASSUME Head(s).do \in Attempting, NEW f \in Members(t), f.do \in Attempting
      PROVE  f.of # Head(s).of
  <2>1. PICK i \in 1..Len(t) : f = t[i]
    BY DEF Members
  <2>2. i + 1 \in 1..Len(s) /\ 1 \in 1..Len(s) /\ i + 1 # 1 /\ f = s[i + 1] /\ Head(s) = s[1]
    BY <1>1, <2>1
  <2> QED BY <1>3, <2>2 DEF Apart
<1> QED BY <1>2, <1>3 DEF t

\* What a method leaves of the stack when it goes on with the frames r.
Passed(r) ==
  /\ \A f \in Members(stack) : f.do # Head(stack).do => f \in Members(Tail(stack))
  /\ \A f \in Members(Tail(stack)) : f \in Members(stack)'
  /\ \A f \in Members(stack)' : f \in Members(r) \/ f \in Members(Tail(stack))
  /\ \A f \in Members(r) : f \in Members(stack)'
  /\ \A do : On(do) /\ do # Head(stack).do => On(do)'
  /\ \A do : On(do)' => On(do) \/ \E f \in Members(r) : f.do = do
  /\ \A f \in Members(Tail(stack)) :
       f \in Members(stack) /\ f \in Frame /\ f.do \notin Beginning /\ FrameOK(f) /\ stack # <<f>>
  /\ Head(stack).do \in Attempting =>
       \A f \in Members(Tail(stack)) : f.do \in Attempting => f.of # Head(stack).of
  /\ \A f \in Members(r) : f \in Frame /\ f.do \notin Beginning
  /\ ~Begins'
  /\ Head(stack).do \notin Beginning => ~Begins

\* A method returns into the frames below it, or goes on with new ones.
LEMMA Onward ==
  ASSUME Types, StackInv, ~Idle, NEW r \in Seq(Frame), Continue(r), Apart(r),
         \A f \in Members(r) : f.do \notin Beginning,
         \A f \in Members(r) : f.do \in Attempting =>
            \/ Head(stack).do \in Attempting /\ f.of = Head(stack).of
            \/ f.of > Len(attempt)
  PROVE  /\ stack' \in Seq(Frame) /\ Apart(stack)'
         /\ (stack # <<>> => \A f \in Members(Tail(stack)) : f.do \notin Beginning)'
         /\ Passed(r)
<1> DEFINE T == Members(Tail(stack))
<1>1. stack \in Seq(Frame) /\ stack # <<>> /\ attempt \in Seq(Attempt)
  BY DEF Types, Idle
<1>2. /\ Head(stack) \in Frame /\ Tail(stack) \in Seq(Frame)
      /\ Members(stack) = {Head(stack)} \cup T
      /\ Members(stack) \subseteq Frame
  BY <1>1, MembersOf
<1>3. /\ Apart(Tail(stack))
      /\ Head(stack).do \in Attempting =>
              \A f \in T : f.do \in Attempting => f.of # Head(stack).of
  BY <1>1, ApartTail DEF StackInv
<1>4. \A f \in T : f \in Members(stack) /\ f \in Frame /\ f.do \notin Beginning /\ FrameOK(f)
  BY <1>1, <1>2 DEF StackInv
<1>5. ASSUME NEW f \in T PROVE stack # <<f>>
  <2>1. SUFFICES ASSUME stack = <<f>> PROVE FALSE
    OBVIOUS
  <2>2. Tail(stack) = <<>>
    BY <1>1, <2>1
  <2> QED BY <1>5, <2>2, MembersLiteral
<1>6. stack' = r \o Tail(stack)
  BY DEF Continue
<1>7. stack' \in Seq(Frame) /\ Members(stack') = Members(r) \cup T
  <2> DEFINE s == Tail(stack)
  <2>1. s \in Seq(Frame)
    BY <1>2
  <2> HIDE DEF s
  <2>2. r \o s \in Seq(Frame) /\ Members(r \o s) = Members(r) \cup Members(s)
    BY <2>1, MembersConcat
  <2> QED BY <1>6, <2>2 DEF s
<1>8. Apart(stack')
  <2>1. ASSUME NEW f \in Members(r), NEW g \in T, f.do \in Attempting, g.do \in Attempting
        PROVE  f.of # g.of
    <3>1. g.of \in 1..Len(attempt)
      BY <1>4, <2>1 DEF FrameOK, Attempting
    <3>2. Len(attempt) \in Nat
      BY <1>1
    <3>3. CASE Head(stack).do \in Attempting /\ f.of = Head(stack).of
      BY <1>3, <2>1, <3>3
    <3>4. CASE f.of > Len(attempt)
      BY <3>1, <3>2, <3>4
    <3> QED BY <2>1, <3>3, <3>4
  <2>2. \A f \in Members(r) : \A g \in T :
            f.do \in Attempting /\ g.do \in Attempting => f.of # g.of
    BY <2>1
  <2>3. Apart(r \o Tail(stack))
    BY <1>2, <1>3, <2>2, ApartConcat
  <2> QED BY <1>6, <2>3
<1>9. Members(r) \subseteq Frame
  BY MembersOf
<1>10. \A f \in Members(stack') : f.do \notin Beginning
  BY <1>4, <1>7
<1>11. stack' # <<>> => \A f \in Members(Tail(stack')) : f.do \notin Beginning
  <2>1. stack' # <<>> => Members(Tail(stack')) \subseteq Members(stack')
    BY <1>7, MembersOf
  <2> QED BY <1>10, <2>1
<1>12. ~Begins'
  BY <1>10 DEF Begins, On, Beginning
<1>13. Head(stack).do \notin Beginning => ~Begins
  BY <1>2, <1>4 DEF Begins, On, Beginning
<1>14. \A do : On(do) /\ do # Head(stack).do => On(do)'
  BY <1>2, <1>7 DEF On
<1>15. \A do : On(do)' => On(do) \/ \E f \in Members(r) : f.do = do
  BY <1>2, <1>7 DEF On
<1>16. \A f \in Members(stack) : f.do # Head(stack).do => f \in T
  BY <1>2
<1> HIDE DEF T
<1>17. /\ \A f \in T : f \in Members(stack)'
       /\ \A f \in Members(stack)' : f \in Members(r) \/ f \in T
       /\ \A f \in Members(r) : f \in Members(stack)'
  BY <1>7
<1>18. Passed(r)
  BY <1>3, <1>4, <1>5, <1>9, <1>12, <1>13, <1>14, <1>15, <1>16, <1>17 DEF Passed, T
<1> QED BY <1>7, <1>8, <1>11, <1>18

\* The event loop calls a method.
LEMMA Outset ==
  ASSUME Types, NEW r \in Seq(Frame), Begin(r), Apart(r),
         \A f \in Members(r) : f.do \notin Beginning
  PROVE  /\ stack' \in Seq(Frame) /\ Apart(stack)'
         /\ (stack # <<>> => \A f \in Members(Tail(stack)) : f.do \notin Beginning)'
         /\ Members(stack) = {} /\ stack = <<>> /\ stack' = r /\ Members(stack)' = Members(r)
         /\ ~Begins /\ ~Begins' /\ \A do : ~On(do)
<1>1. stack = <<>> /\ stack' = r /\ Members(stack) = {}
  BY MembersOf DEF Begin, Idle, Types
<1>2. r # <<>> => Members(Tail(r)) \subseteq Members(r)
  BY MembersOf
<1>3. \A do : ~On(do)
  BY <1>1 DEF On
<1>4. ~Begins'
  BY <1>1 DEF On, Begins, Beginning
<1> QED BY <1>1, <1>2, <1>3, <1>4 DEF Begins

\* A frame below that a step passes over.  What is asked of the step holds
\* of every method.
FrameKept(f) ==
  /\ Len(attempt) <= Len(attempt')
  /\ f.do \in Attempting =>
       attempt'[f.of].stage = attempt[f.of].stage /\ attempt'[f.of].session = attempt[f.of].session
  /\ \A s \in Sessions : Begun(s) =>
       /\ Begun(s)'
       /\ Live(s)' => Live(s)
       /\ Live(s)' /\ Call("terminate", s) \in Members(stack) => Call("terminate", s) \in Members(stack)'
       /\ session'[s] = "active" => session[s] = "active"
  /\ client' \in {None, client}
  /\ f.do \in {"connected", "resolve"} /\ On("release")' /\ f.of = current' =>
       On("release") /\ f.of = current
  /\ f.do = "release" => closeRequested' \/ connecting' \/ Begins'

LEMMA FrameStays ==
  ASSUME ReconnectAssumption, Types, AttemptInv,
         NEW f \in Frame, FrameOK(f), f.do \notin Beginning, f.do = "terminate" => stack # <<f>>,
         attempt' \in Seq(Attempt), FrameKept(f)
  PROVE  FrameOK(f)'
<1>1. f.do \in {"start", "open", "fresh", "connected", "resolve"} => f.of \in 1..Len(attempt')
  <2>1. Len(attempt) \in Nat /\ Len(attempt') \in Nat /\ Len(attempt) <= Len(attempt')
    BY DEF Types, FrameKept
  <2>2. f.of \in 1..Len(attempt) => f.of \in 1..Len(attempt')
    BY <2>1
  <2> QED BY <2>2 DEF FrameOK
<1>2. f.do \in Attempting =>
        attempt'[f.of].stage = attempt[f.of].stage /\ attempt'[f.of].session = attempt[f.of].session
  BY DEF FrameKept
<1>3. /\ f.do = "start" => attempt'[f.of].stage = "new"
      /\ f.do = "open" => attempt'[f.of].stage = "opening"
      /\ f.do = "fresh" => attempt'[f.of].stage \in {"opening", "resumed"}
  BY <1>2 DEF FrameOK, Attempting
<1>4. f.do \in {"connected", "resolve"} => ~(On("release")' /\ f.of = current')
  BY DEF FrameOK, FrameKept
<1>5. f.do = "schedule" => client' = None
  BY DEF FrameOK, FrameKept
<1>6. f.do \in {"terminate", "closed"} => f.of \in Sessions /\ Begun(f.of)'
  BY DEF FrameOK, FrameKept
<1>7. f.do = "closed" => session'[f.of] # "active"
  BY DEF FrameOK, FrameKept
<1>8. ~(f.do = "terminate" /\ f.of = client')
  <2>1. SUFFICES ASSUME f.do = "terminate", f.of = client' PROVE FALSE
    OBVIOUS
  <2>2. f.of \in Sessions /\ f.of # client
    BY <2>1 DEF FrameOK
  <2>3. f.of # None
    BY <2>2 DEF Sessions, None, ReconnectAssumption
  <2> QED BY <2>1, <2>2, <2>3 DEF FrameKept
<1>9. f.do = "release" => closeRequested' \/ connecting' \/ Begins'
  BY DEF FrameKept
<1>10. (f.do = "fresh" /\ attempt[f.of].stage = "resumed" /\ Live(attempt[f.of].session) =>
          Call("terminate", attempt[f.of].session) \in Members(stack))'
  <2>1. SUFFICES ASSUME f.do = "fresh", attempt'[f.of].stage = "resumed",
                        session'[attempt'[f.of].session] \in {"opening", "active", "suspended"}
                 PROVE  Call("terminate", attempt'[f.of].session) \in Members(stack)'
    BY DEF Live
  <2>2. /\ f.of \in 1..Len(attempt) /\ attempt[f.of].stage = "resumed"
        /\ attempt'[f.of].session = attempt[f.of].session
    BY <1>2, <2>1 DEF FrameOK, Attempting
  <2>3. PICK s : s = attempt[f.of].session
    OBVIOUS
  <2>4. s \in Sessions /\ Begun(s)
    BY <2>2, <2>3 DEF AttemptInv, AttemptOK
  <2>5. Live(s)'
    BY <2>1, <2>2, <2>3 DEF Live
  <2>6. Live(s)
    BY <2>4, <2>5 DEF FrameKept
  <2>7. Call("terminate", s) \in Members(stack)
    BY <2>1, <2>2, <2>3, <2>6 DEF FrameOK
  <2>8. Call("terminate", s) \in Members(stack)'
    BY <2>4, <2>5, <2>7 DEF FrameKept
  <2> QED BY <2>2, <2>3, <2>8
<1> QED BY <1>1, <1>3, <1>4, <1>5, <1>6, <1>7, <1>8, <1>9, <1>10 DEF FrameOK, Beginning

\* What ToStage does to an attempt.
StageMoved(t, x) ==
  /\ attempt' \in Seq(Attempt) /\ Len(attempt') = Len(attempt)
  /\ attempt'[t].stage = x /\ attempt'[t].session = attempt[t].session
  /\ attempt'[t].aborted = attempt[t].aborted
  /\ \A u \in 1..Len(attempt) : u # t => attempt'[u] = attempt[u]

LEMMA StageMoves ==
  ASSUME attempt \in Seq(Attempt), NEW t \in 1..Len(attempt), NEW x \in Stages, ToStage(t, x)
  PROVE  StageMoved(t, x)
<1>1. attempt[t] \in Attempt
  OBVIOUS
<1>2. attempt' = [attempt EXCEPT ![t] = [attempt[t] EXCEPT !.stage = x]]
  BY DEF ToStage
<1>3. [attempt[t] EXCEPT !.stage = x] \in Attempt
  BY <1>1 DEF Attempt
<1>4. attempt' \in Seq(Attempt) /\ Len(attempt') = Len(attempt)
  BY <1>2, <1>3
<1>5. attempt'[t] = [attempt[t] EXCEPT !.stage = x]
  BY <1>2
<1>6. \A u \in 1..Len(attempt) : u # t => attempt'[u] = attempt[u]
  BY <1>2
<1> QED BY <1>1, <1>4, <1>5, <1>6 DEF Attempt, StageMoved

\* The stack of a method that goes on, apart from what the frames need.
Continued(r) ==
  /\ Passed(r) /\ ~Idle /\ stack' \in Seq(Frame) /\ Apart(stack)'
  /\ (stack # <<>> => \A f \in Members(Tail(stack)) : f.do \notin Beginning)'

\* A method other than terminateSession leaves its frames alone.
LEMMA TerminatesStay ==
  ASSUME NEW r, Continued(r), Head(stack).do # "terminate"
  PROVE  \A s : Call("terminate", s) \in Members(stack) => Call("terminate", s) \in Members(stack)'
BY FrameForm DEF Continued, Passed

LEMMA AttemptStays ==
  ASSUME NEW u, AttemptOK(u), attempt'[u] = attempt[u], UNCHANGED <<current, connecting>>,
         attempt[u].stage = "connecting" => session'[u] = session[u],
         \A s \in Sessions : Begun(s) => Begun(s)'
  PROVE  AttemptOK(u)'
<1>1. attempt[u].stage \in {"resuming", "notResumed", "resumed", "opened"} =>
        attempt[u].session \in Sessions /\ Begun(attempt[u].session)
  BY DEF AttemptOK
<1>2. PICK s : s = attempt[u].session
  OBVIOUS
<1>3. attempt[u].stage \in {"resuming", "notResumed", "resumed", "opened"} => s \in Sessions /\ Begun(s)'
  BY <1>1, <1>2
<1> QED BY <1>2, <1>3 DEF AttemptOK, Begun

LEMMA StackStays ==
  ASSUME ReconnectAssumption, Types, Types', AttemptInv, NEW r, Continued(r),
         \A f \in Members(Tail(stack)) : FrameKept(f),
         \A f \in Members(r) : FrameOK(f)'
  PROVE  StackInv'
<1>1. ASSUME NEW f \in Members(Tail(stack)) PROVE FrameOK(f)'
  <2>1. f \in Frame /\ FrameOK(f) /\ f.do \notin Beginning /\ stack # <<f>>
    BY <1>1 DEF Continued, Passed
  <2>2. attempt' \in Seq(Attempt)
    BY DEF Types
  <2> QED BY <1>1, <2>1, <2>2, FrameStays
<1>2. \A f \in Members(stack)' : f \in Members(r) \/ f \in Members(Tail(stack))
  BY DEF Continued, Passed
<1>3. \A f \in Members(stack)' : FrameOK(f)'
  BY <1>1, <1>2
<1> QED BY <1>3 DEF StackInv, Continued

LEMMA ClientStays ==
  ASSUME ClientInv, NEW r, Continued(r), Head(stack).do # "closed",
         UNCHANGED <<client, retained, connecting, current>>,
         client # None => session'[client] = session[client],
         retained # None => session'[retained] = session[retained],
         \A f \in Members(r) : f.do # "fresh",
         retained # None /\ connecting => attempt'[current].stage \notin {"connecting", "opened"}
  PROVE  ClientInv'
<1>1. \A of : Call("closed", of) \in Members(stack) => Call("closed", of) \in Members(stack)'
  BY FrameForm DEF Continued, Passed
<1>2. \A of : Call("fresh", of) \in Members(stack)' => Call("fresh", of) \in Members(stack)
  BY FrameForm DEF Continued, Passed
<1>3. ~(client # None /\ session[client] = "suspended")
  BY FrameForm DEF ClientInv
<1> QED BY <1>1, <1>2, <1>3 DEF ClientInv, Begun

LEMMA OwnerStays ==
  ASSUME OwnerInv, NEW r, Continued(r), Head(stack).do # "terminate",
         UNCHANGED <<client, retained, session>>,
         \A s : AttemptOwns(s) => AttemptOwns(s)'
  PROVE  OwnerInv'
<1>1. \A s : Call("terminate", s) \in Members(stack) => Call("terminate", s) \in Members(stack)'
  BY FrameForm DEF Continued, Passed
<1> QED BY <1>1 DEF OwnerInv, Live

LEMMA CloseStays ==
  ASSUME CloseInv, NEW r, Continued(r), Head(stack).do # "release",
         UNCHANGED <<closeRequested, client, retained>>
  PROVE  CloseInv'
BY DEF CloseInv, Continued, Passed

LEMMA NewsStays ==
  ASSUME News, NEW r, Continued(r), Head(stack).do \notin {"connected", "resolve"},
         UNCHANGED <<client, current>>, Connected => Connected',
         attempt'[current].session = attempt[current].session
  PROVE  News'
<1>1. PICK f \in Members(stack) : /\ f.do \in {"connected", "resolve"} /\ f.of = current
                                  /\ client = attempt[f.of].session /\ Connected
  BY DEF News
<1>2. f \in Members(stack)'
  BY <1>1 DEF Continued, Passed
<1> QED BY <1>1, <1>2 DEF News

LEMMA ComingStays ==
  ASSUME Coming, NEW r, Continued(r),
         Head(stack).do \notin Beginning \cup {"schedule", "closed"},
         connecting => connecting', timer => timer',
         News /\ ~connecting => News'
  PROVE  Coming'
<1>1. On("schedule") => On("schedule")'
  BY DEF Continued, Passed
<1>2. ~Begins
  BY DEF Continued, Passed
<1>3. Head(stack) # Call("closed", client)
  BY FrameForm
<1> QED BY <1>1, <1>2, <1>3 DEF Coming

LEMMA WaitStays ==
  ASSUME WaitInv, NEW r, Continued(r),
         Head(stack).do \notin Beginning \cup {"schedule", "closed"},
         UNCHANGED <<policy, closeRequested, client, connecting, timer, ready, waiting>>,
         News /\ ~connecting => News',
         \A f \in Members(r) : f.do # "await"
  PROVE  WaitInv'
<1>1. On("await")' => On("await")
  BY DEF Continued, Passed
<1>2. On("schedule") => On("schedule")'
  BY DEF Continued, Passed
<1>3. ~Begins /\ ~Begins'
  BY DEF Continued, Passed
<1>4. Coming => Coming'
  BY ComingStays
<1> QED BY <1>1, <1>2, <1>3, <1>4 DEF WaitInv

\* A method that calls others and sets no more than flags of the facade.
LEMMA OnlyFlags ==
  ASSUME ReconnectAssumption, IInv, NEW r, Continued(r),
         UNCHANGED <<policy, closeRequested, client, connecting, current, attempt, retained, late, session>>,
         timer' \in BOOLEAN, wake' \in BOOLEAN, waiting' \in BOOLEAN,
         ready' \in {"pending", "resolved", "rejected"}, FlagsInv', WaitInv',
         Head(stack).do \notin Beginning \cup {"release", "terminate", "closed"},
         \A f \in Members(r) : FrameOK(f)' /\ f.do \notin {"fresh", "release"}
  PROVE  IInv'
<1>1. Types'
  BY DEF Types, IInv, Continued
<1>2. AttemptInv' /\ SessionInv'
  BY DEF AttemptInv, AttemptOK, SessionInv, Begun, IInv
<1>3. ClientInv'
  <2>1. retained # None /\ connecting => attempt'[current].stage \notin {"connecting", "opened"}
    BY DEF ClientInv, IInv
  <2> QED BY <2>1, ClientStays DEF IInv
<1>4. StackInv'
  <2>1. ASSUME NEW f \in Members(Tail(stack)) PROVE FrameKept(f)
    <3>1. On("release")' => On("release")
      BY DEF Continued, Passed
    <3>2. f.do = "release" => closeRequested \/ connecting
      BY DEF Continued, Passed, FrameOK
    <3>3. Len(attempt) \in Nat
      BY DEF Types, IInv
    <3>4. \A s : Call("terminate", s) \in Members(stack) => Call("terminate", s) \in Members(stack)'
      BY TerminatesStay
    <3> QED BY <3>1, <3>2, <3>3, <3>4 DEF FrameKept, Begun, Live
  <2> QED BY <1>1, <2>1, StackStays DEF IInv
<1>5. OwnerInv'
  BY OwnerStays DEF IInv, AttemptOwns
<1>6. CloseInv'
  BY CloseStays DEF IInv
<1> QED BY <1>1, <1>2, <1>3, <1>4, <1>5, <1>6 DEF IInv

\* A method that only calls others.
LEMMA OnlyCalls ==
  ASSUME ReconnectAssumption, IInv, NEW r, Continued(r),
         UNCHANGED <<policy, facade, attempt, retained, late, session>>,
         Head(stack).do \notin Beginning \cup {"release", "terminate", "schedule", "closed"},
         News => News',
         \A f \in Members(r) : FrameOK(f)' /\ f.do \notin {"await", "fresh", "release"}
  PROVE  IInv'
<1> USE DEF facade
<1>1. FlagsInv'
  BY DEF FlagsInv, IInv
<1>2. WaitInv'
  BY WaitStays DEF IInv
<1>3. /\ timer' \in BOOLEAN /\ wake' \in BOOLEAN /\ waiting' \in BOOLEAN
      /\ ready' \in {"pending", "resolved", "rejected"}
  BY DEF IInv, Types
<1> QED BY <1>1, <1>2, <1>3, OnlyFlags

\* The head of the stack.
LEMMA HeadOK ==
  ASSUME IInv, NEW do, Do(do)
  PROVE  /\ ~Idle /\ Head(stack).do = do /\ It = Head(stack).of
         /\ Head(stack) \in Frame /\ FrameOK(Head(stack)) /\ Head(stack) \in Members(stack)
<1>1. ~Idle /\ Head(stack).do = do /\ It = Head(stack).of
  BY DEF Do, It
<1>2. stack \in Seq(Frame) /\ stack # <<>>
  BY <1>1 DEF IInv, Types, Idle
<1>3. Head(stack) \in Members(stack) /\ Head(stack) \in Frame
  BY <1>2, MembersOf
<1> QED BY <1>1, <1>3 DEF IInv, StackInv

\* Nothing is needed to resume application code, or to wait.
LEMMA SimpleFrames ==
  ASSUME NEW f, f.do \in {"user", "await", "rotate", "unwake"}
  PROVE  FrameOK(f)'
BY DEF FrameOK

\* Onward, for frames that carry no attempt on.
LEMMA PlainOn ==
  ASSUME IInv, ~Idle, NEW r \in Seq(Frame), Continue(r),
         \A f \in Members(r) : f.do \notin Beginning \cup Attempting
  PROVE  Continued(r)
<1>1. Apart(r)
  BY ApartPlain DEF Plain
<1> QED BY <1>1, Onward DEF IInv, Continued

-------------------------------------------------------------------------------
(***************************************************************************)
(* One lemma for each action.                                              *)
(***************************************************************************)
LEMMA UserReturnsKeeps ==
  ASSUME ReconnectAssumption, IInv, UserReturns
  PROVE  IInv'
<1>1. ~Idle /\ Head(stack).do = "user" /\ Continue(<<>>)
  BY HeadOK DEF UserReturns
<1>2. <<>> \in Seq(Frame) /\ Members(<<>>) = {}
  BY MembersLiteral
<1>3. Continued(<<>>)
  BY <1>1, <1>2, PlainOn
<1>4. UNCHANGED <<policy, facade, attempt, retained, late, session>>
  BY DEF UserReturns, coordinator
<1>5. News => News'
  BY <1>1, <1>3, <1>4, NewsStays DEF facade, Connected
<1> QED BY <1>1, <1>2, <1>3, <1>4, <1>5, OnlyCalls DEF Beginning

LEMMA RotateKeeps ==
  ASSUME ReconnectAssumption, IInv, Rotate
  PROVE  IInv'
<1>1. ~Idle /\ Head(stack).do = "rotate" /\ Continue(<<>>)
  BY HeadOK DEF Rotate
<1>2. <<>> \in Seq(Frame) /\ Members(<<>>) = {}
  BY MembersLiteral
<1>3. Continued(<<>>)
  BY <1>1, <1>2, PlainOn
<1>4. UNCHANGED <<policy, facade, attempt, retained, late, session>>
  BY DEF Rotate
<1>5. News => News'
  BY <1>1, <1>3, <1>4, NewsStays DEF facade, Connected
<1> QED BY <1>1, <1>2, <1>3, <1>4, <1>5, OnlyCalls DEF Beginning

LEMMA ConnectedEventKeeps ==
  ASSUME ReconnectAssumption, IInv, ConnectedEvent
  PROVE  IInv'
<1> DEFINE t == It
<1>1. /\ ~Idle /\ Head(stack).do = "connected" /\ t = Head(stack).of
      /\ Head(stack) \in Frame /\ FrameOK(Head(stack)) /\ Head(stack) \in Members(stack)
  BY HeadOK DEF ConnectedEvent
<1>2. PICK r : /\ Continue(r)
               /\ r = IF client = attempt[t].session /\ Connected THEN <<User, Call("resolve", t)>> ELSE <<>>
  BY DEF ConnectedEvent
<1>3. t \in 0..MaxAttempts
  BY <1>1 DEF Frame
<1>4. User \in Frame /\ Call("resolve", t) \in Frame
  BY <1>3 DEF User, Call, Frame, ReconnectAssumption
<1>5. r \in Seq(Frame) /\ Members(r) \subseteq {User, Call("resolve", t)}
  BY <1>2, <1>4, MembersLiteral
<1>6. client = attempt[t].session /\ Connected => Call("resolve", t) \in Members(r)
  BY <1>2, MembersLiteral
<1>7. \A f \in Members(r) : f.do \in {"user", "resolve"} /\ (f.do = "resolve" => f = Call("resolve", t))
  BY <1>5, FrameForm DEF User
<1>8. Continued(r)
  <2>1. \A f \in Members(r) : f.do \notin Beginning \cup Attempting
    BY <1>7 DEF Attempting, Beginning
  <2> QED BY <1>1, <1>2, <1>5, <2>1, PlainOn
<1>9. UNCHANGED <<policy, facade, attempt, retained, late, session>>
  BY DEF ConnectedEvent, coordinator
<1>10. News => News'
  <2>1. SUFFICES ASSUME News PROVE News'
    OBVIOUS
  <2>2. PICK f \in Members(stack) : /\ f.do \in {"connected", "resolve"} /\ f.of = current
                                    /\ client = attempt[f.of].session /\ Connected
    BY <2>1 DEF News
  <2>3. CASE f \in Members(Tail(stack))
    <3>1. f \in Members(stack)'
      BY <1>8, <2>3 DEF Continued, Passed
    <3> QED BY <1>9, <2>2, <3>1 DEF News, Connected, facade
  <2>4. CASE f \notin Members(Tail(stack))
    <3>1. f = Head(stack)
      BY <1>1, <2>4, MembersOf DEF IInv, Types, Idle
    <3>2. Call("resolve", t) \in Members(stack)'
      BY <1>1, <1>6, <1>8, <2>2, <3>1 DEF Continued, Passed
    <3>3. Call("resolve", t).do = "resolve" /\ Call("resolve", t).of = t
      BY FrameForm
    <3> QED BY <1>1, <1>9, <2>2, <3>1, <3>2, <3>3 DEF News, Connected, facade
  <2> QED BY <2>3, <2>4
<1>11. ASSUME NEW f \in Members(r) PROVE FrameOK(f)' /\ f.do \notin {"await", "fresh", "release"}
  <2>1. f.do \in {"user", "resolve"} /\ (f.do = "resolve" => f.of = t)
    BY <1>7, FrameForm
  <2>2. t \in 1..Len(attempt) /\ ~(On("release") /\ t = current)
    BY <1>1 DEF FrameOK
  <2>3. On("release")' => On("release")
    BY <1>7, <1>8 DEF Continued, Passed
  <2>4. f.do = "user" => FrameOK(f)'
    BY SimpleFrames
  <2>5. f.do = "resolve" => FrameOK(f)'
    BY <1>9, <2>1, <2>2, <2>3 DEF FrameOK, facade
  <2> QED BY <2>1, <2>4, <2>5
<1> QED BY <1>1, <1>8, <1>9, <1>10, <1>11, OnlyCalls DEF Beginning

\* What a method that carries an attempt on needs no more than to leave the
\* other attempts alone.
LEMMA OthersKept ==
  ASSUME Types, NEW r, Continued(r), Head(stack).do \in Attempting,
         \A u \in 1..Len(attempt) : u # Head(stack).of => attempt'[u] = attempt[u],
         NEW f \in Members(Tail(stack)), f.do \in Attempting
  PROVE  attempt'[f.of] = attempt[f.of]
<1>1. FrameOK(f) /\ f.of # Head(stack).of
  BY DEF Continued, Passed
<1>2. f.of \in 1..Len(attempt)
  BY <1>1 DEF FrameOK, Attempting
<1> QED BY <1>1, <1>2

LEMMA StartKeeps ==
  ASSUME ReconnectAssumption, IInv, Start
  PROVE  IInv'
<1> DEFINE t == It
<1>1. /\ ~Idle /\ Head(stack).do = "start" /\ t = Head(stack).of
      /\ Head(stack) \in Frame /\ FrameOK(Head(stack))
  BY HeadOK DEF Start
<1>2. PICK x \in {"done", "offline", "loading", "opening"}, r \in {<<>>, <<Call("open", t)>>} :
        /\ ToStage(t, x) /\ Continue(r)
        /\ x = "done" => ~IsCurrent(t)
        /\ r # <<>> => x = "opening"
  BY DEF Start
<1>3. UNCHANGED <<policy, facade, coordinator, session, calls>>
  BY DEF Start
<1>4. t \in 1..Len(attempt) /\ attempt[t].stage = "new" /\ t \in 0..MaxAttempts
  BY <1>1 DEF FrameOK, Frame
<1>5. /\ r \in Seq(Frame) /\ Apart(r)
      /\ \A f \in Members(r) : f = Call("open", t) /\ x = "opening"
  <2>1. Call("open", t) \in Frame
    BY <1>4 DEF Frame, Call
  <2>2. <<>> \in Seq(Frame) /\ Apart(<<>>) /\ Members(<<>>) = {}
    BY MembersLiteral DEF Apart
  <2>3. /\ <<Call("open", t)>> \in Seq(Frame) /\ Apart(<<Call("open", t)>>)
        /\ Members(<<Call("open", t)>>) = {Call("open", t)}
    BY <2>1, ApartOne, MembersLiteral
  <2>4. CASE r = <<>>
    BY <2>2, <2>4
  <2>5. CASE r # <<>>
    BY <1>2, <2>3, <2>5
  <2> QED BY <2>4, <2>5
<1>6. \A f \in Members(r) : f.do = "open" /\ f.of = t
  BY <1>5, FrameForm
<1> HIDE DEF t
<1>7. Continued(r)
  <2>1. /\ \A f \in Members(r) : f.do \notin Beginning
        /\ \A f \in Members(r) : f.do \in Attempting =>
              Head(stack).do \in Attempting /\ f.of = Head(stack).of
    BY <1>1, <1>6 DEF Beginning, Attempting
  <2> QED BY <1>1, <1>2, <1>5, <2>1, Onward DEF IInv, Continued
<1>8. StageMoved(t, x)
  BY <1>2, <1>4, StageMoves DEF Stages, Types, IInv
<1> USE DEF facade, coordinator
<1>10. Types'
  BY <1>3, <1>7, <1>8 DEF Types, StageMoved, IInv, Continued
<1>11. FlagsInv'
  BY <1>3 DEF FlagsInv, IInv
<1>12. AttemptInv'
  BY <1>2, <1>3, <1>4, <1>8 DEF AttemptInv, AttemptOK, FlagsInv, IsCurrent, Begun, StageMoved, IInv
<1>13. SessionInv'
  BY <1>3, <1>4, <1>8 DEF SessionInv, StageMoved, IInv
<1>14. ClientInv'
  <2>1. retained # None /\ connecting => attempt'[current].stage \notin {"connecting", "opened"}
    <3>1. SUFFICES ASSUME retained # None, connecting
                   PROVE  attempt'[current].stage \notin {"connecting", "opened"}
      OBVIOUS
    <3>2. current \in 1..Len(attempt) /\ attempt[current].stage \notin {"connecting", "opened"}
      BY <3>1 DEF ClientInv, Types, FlagsInv, IInv, None
    <3> QED BY <1>2, <1>8, <3>2 DEF StageMoved
  <2>2. \A f \in Members(r) : f.do # "fresh"
    BY <1>6
  <2> QED BY <1>1, <1>3, <1>7, <2>1, <2>2, ClientStays DEF IInv
<1>15. StackInv'
  <2>1. ASSUME NEW f \in Members(Tail(stack)) PROVE FrameKept(f)
    <3>1. On("release")' => On("release")
      BY <1>6, <1>7 DEF Continued, Passed
    <3>2. f.do = "release" => closeRequested \/ connecting
      BY <1>1, <1>7 DEF Continued, Passed, FrameOK, Beginning
    <3>3. Len(attempt) \in Nat
      BY DEF Types, IInv
    <3>4. f.do \in Attempting => attempt'[f.of] = attempt[f.of]
      <4>1. \A u \in 1..Len(attempt) : u # Head(stack).of => attempt'[u] = attempt[u]
        BY <1>1, <1>8 DEF StageMoved
      <4> QED BY <1>1, <1>7, <2>1, <4>1, OthersKept DEF IInv, Attempting
    <3>5. \A s : Call("terminate", s) \in Members(stack) => Call("terminate", s) \in Members(stack)'
      BY <1>1, <1>7, TerminatesStay
    <3> QED BY <1>3, <1>8, <3>1, <3>2, <3>3, <3>4, <3>5 DEF FrameKept, Begun, Live, StageMoved
  <2>2. ASSUME NEW f \in Members(r) PROVE FrameOK(f)'
    BY <1>4, <1>5, <1>6, <1>8 DEF FrameOK, StageMoved
  <2> QED BY <1>7, <1>10, <2>1, <2>2, StackStays DEF IInv
<1>16. OwnerInv'
  <2>1. \A s : AttemptOwns(s) => AttemptOwns(s)'
    BY <1>4, <1>8 DEF AttemptOwns, StageMoved, Types, IInv
  <2> QED BY <1>1, <1>3, <1>7, <2>1, OwnerStays DEF IInv
<1>17. CloseInv'
  BY <1>1, <1>3, <1>7, CloseStays DEF IInv
<1>18. WaitInv'
  <2>1. News /\ ~connecting => News'
    <3>1. SUFFICES ASSUME News PROVE News'
      OBVIOUS
    <3>2. current \in 1..Len(attempt)
      BY <3>1 DEF News, StackInv, FrameOK, IInv
    <3>3. attempt'[current].session = attempt[current].session
      BY <1>8, <3>2 DEF StageMoved
    <3> QED BY <1>1, <1>3, <1>7, <3>1, <3>3, NewsStays DEF Connected
  <2>2. \A f \in Members(r) : f.do # "await"
    BY <1>6
  <2> QED BY <1>1, <1>3, <1>7, <2>1, <2>2, WaitStays DEF IInv, Beginning
<1> QED BY <1>10, <1>11, <1>12, <1>13, <1>14, <1>15, <1>16, <1>17, <1>18 DEF IInv

LEMMA ClearWakeListenerKeeps ==
  ASSUME ReconnectAssumption, IInv, ClearWakeListener
  PROVE  IInv'
<1>1. ~Idle /\ Head(stack).do = "unwake" /\ Continue(<<>>)
  BY HeadOK DEF ClearWakeListener
<1>2. <<>> \in Seq(Frame) /\ Members(<<>>) = {}
  BY MembersLiteral
<1>3. Continued(<<>>)
  BY <1>1, <1>2, PlainOn
<1>4. /\ UNCHANGED <<policy, closeRequested, client, connecting, timer, ready, waiting, current,
                     attempt, retained, late, session>>
      /\ wake' = FALSE
  BY DEF ClearWakeListener, coordinator
<1>5. News => News'
  BY <1>1, <1>3, <1>4, NewsStays DEF Connected
<1>6. FlagsInv'
  BY <1>4 DEF FlagsInv, IInv
<1>7. WaitInv'
  BY <1>1, <1>2, <1>3, <1>4, <1>5, WaitStays DEF IInv, Beginning
<1>8. timer' \in BOOLEAN /\ waiting' \in BOOLEAN /\ ready' \in {"pending", "resolved", "rejected"}
  BY <1>4 DEF IInv, Types
<1> QED BY <1>1, <1>2, <1>3, <1>4, <1>6, <1>7, <1>8, OnlyFlags DEF Beginning

LEMMA AwaitKeeps ==
  ASSUME ReconnectAssumption, IInv, Await
  PROVE  IInv'
<1>1. ~Idle /\ Head(stack).do = "await" /\ Head(stack) \in Members(stack) /\ Continue(<<>>)
  BY HeadOK DEF Await
<1>2. <<>> \in Seq(Frame) /\ Members(<<>>) = {}
  BY MembersLiteral
<1>3. Continued(<<>>)
  BY <1>1, <1>2, PlainOn
<1>4. /\ UNCHANGED <<policy, closeRequested, client, connecting, timer, wake, ready, current,
                     attempt, retained, late, session>>
      /\ waiting' = (waiting \/ ready = "pending")
  BY DEF Await, coordinator
<1>5. News => News'
  BY <1>1, <1>3, <1>4, NewsStays DEF Connected
<1>6. FlagsInv'
  BY <1>4 DEF FlagsInv, IInv
<1>7. WaitInv'
  <2>1. On("await")
    BY <1>1 DEF On
  <2>2. On("schedule") => On("schedule")'
    BY <1>1, <1>3 DEF Continued, Passed
  <2>3. Coming => Coming'
    BY <1>1, <1>3, <1>4, <1>5, ComingStays DEF Beginning
  <2>4. ~Begins
    BY <1>1, <1>3 DEF Continued, Passed, Beginning
  <2> QED BY <1>4, <2>1, <2>2, <2>3, <2>4 DEF WaitInv, IInv
<1>8. /\ timer' \in BOOLEAN /\ wake' \in BOOLEAN /\ waiting' \in BOOLEAN
      /\ ready' \in {"pending", "resolved", "rejected"}
  BY <1>4 DEF IInv, Types
<1> QED BY <1>1, <1>2, <1>3, <1>4, <1>6, <1>7, <1>8, OnlyFlags DEF Beginning

\* The frames that settle a promise somebody waits for.
LEMMA UserFrames ==
  ASSUME ReconnectAssumption
  PROVE  /\ User \in Frame /\ User.do = "user"
         /\ <<>> \in Seq(Frame) /\ <<User>> \in Seq(Frame)
         /\ Members(<<>>) = {} /\ Members(<<User>>) = {User}
<1>1. User \in Frame
  BY DEF User, Call, Frame, ReconnectAssumption
<1>2. User.do = "user"
  BY FrameForm DEF User
<1> QED BY <1>1, <1>2, MembersLiteral

LEMMA ResolveReadyKeeps ==
  ASSUME ReconnectAssumption, IInv, ResolveReady
  PROVE  IInv'
<1> DEFINE t == It
           settles == IsCurrent(t) /\ client = attempt[t].session /\ Connected /\ ready = "pending"
<1>1. /\ ~Idle /\ Head(stack).do = "resolve" /\ t = Head(stack).of
      /\ Head(stack) \in Frame /\ Head(stack) \in Members(stack)
  BY HeadOK DEF ResolveReady
<1>2. /\ UNCHANGED <<policy, closeRequested, client, connecting, timer, wake, current,
                     attempt, retained, late, session>>
      /\ settles => ready' = "resolved" /\ waiting' = FALSE
      /\ ~settles => UNCHANGED <<ready, waiting>>
  BY DEF ResolveReady, coordinator
<1>3. PICK r \in {<<>>, <<User>>} : Continue(r)
  BY DEF ResolveReady
<1>4. r \in Seq(Frame) /\ \A f \in Members(r) : f.do = "user"
  BY <1>3, UserFrames
<1>5. Continued(r)
  <2>1. \A f \in Members(r) : f.do \notin Beginning \cup Attempting
    BY <1>4 DEF Attempting, Beginning
  <2> QED BY <1>1, <1>3, <1>4, <2>1, PlainOn
<1>6. FlagsInv'
  <2>1. CASE settles
    <3>1. ~timer /\ ~connecting
      BY <2>1 DEF Connected, FlagsInv, ClientInv, IInv
    <3> QED BY <1>2, <2>1, <3>1 DEF FlagsInv, IInv
  <2>2. CASE ~settles
    BY <1>2, <2>2 DEF FlagsInv, IInv
  <2> QED BY <2>1, <2>2
<1>7. WaitInv'
  <2>1. CASE settles
    BY <1>2, <2>1 DEF WaitInv, Connected
  <2>2. CASE ~settles
    <3>1. On("await")' => On("await")
      BY <1>4, <1>5 DEF Continued, Passed
    <3>2. On("schedule") => On("schedule")'
      BY <1>1, <1>5 DEF Continued, Passed
    <3>3. ~Begins
      BY <1>1, <1>5 DEF Continued, Passed, Beginning
    <3>4. ASSUME News, ready = "pending", ~closeRequested PROVE News'
      <4>1. PICK f \in Members(stack) : /\ f.do \in {"connected", "resolve"} /\ f.of = current
                                        /\ client = attempt[f.of].session /\ Connected
        BY <3>4 DEF News
      <4>2. f # Head(stack)
        BY <1>1, <2>2, <3>4, <4>1 DEF IsCurrent
      <4>3. f \in Members(Tail(stack))
        BY <1>1, <4>1, <4>2, MembersOf DEF IInv, Types, Idle
      <4>4. f \in Members(stack)'
        BY <1>5, <4>3 DEF Continued, Passed
      <4> QED BY <1>2, <4>1, <4>4 DEF News, Connected
    <3>5. ready = "pending" /\ ~closeRequested /\ Coming => Coming'
      <4>1. SUFFICES ASSUME ready = "pending", ~closeRequested, Coming PROVE Coming'
        OBVIOUS
      <4>2. connecting => connecting'
        BY <1>2
      <4>3. timer => timer'
        BY <1>2
      <4>4. News /\ ~connecting => News'
        BY <3>4, <4>1
      <4> QED BY <1>1, <1>5, <4>1, <4>2, <4>3, <4>4, ComingStays DEF Beginning
    <3> HIDE DEF settles
    <3> QED BY <1>2, <2>2, <3>1, <3>2, <3>3, <3>5 DEF WaitInv, IInv
  <2> QED BY <2>1, <2>2
<1>8. /\ timer' \in BOOLEAN /\ wake' \in BOOLEAN /\ waiting' \in BOOLEAN
      /\ ready' \in {"pending", "resolved", "rejected"}
  BY <1>2 DEF IInv, Types
<1>9. \A f \in Members(r) : FrameOK(f)' /\ f.do \notin {"fresh", "release"}
  BY <1>4, SimpleFrames
<1> QED BY <1>1, <1>2, <1>5, <1>6, <1>7, <1>8, <1>9, OnlyFlags DEF Beginning

LEMMA ScheduleReconnectKeeps ==
  ASSUME ReconnectAssumption, IInv, ScheduleReconnect
  PROVE  IInv'
<1>1. ~Idle /\ Head(stack).do = "schedule" /\ Head(stack) \in Members(stack) /\ FrameOK(Head(stack))
  BY HeadOK DEF ScheduleReconnect
<1>2. client = None
  BY <1>1 DEF FrameOK
<1>3. UNCHANGED <<policy, closeRequested, client, connecting, wake, current, attempt, retained, late, session>>
  BY DEF ScheduleReconnect, coordinator
<1>4. PICK r \in Seq(Frame) :
        /\ Continue(r) /\ \A f \in Members(r) : f.do \in {"user", "unwake"}
  <2>1. Call("unwake", 0) \in Frame /\ Call("unwake", 0).do = "unwake"
    BY FrameForm DEF Frame, Call, ReconnectAssumption
  <2>2. /\ <<Call("unwake", 0), User>> \in Seq(Frame)
        /\ \A f \in Members(<<Call("unwake", 0), User>>) : f.do \in {"user", "unwake"}
    <3>1. Members(<<Call("unwake", 0), User>>) = {Call("unwake", 0), User}
      BY MembersLiteral
    <3> QED BY <2>1, <3>1, UserFrames
  <2>3. ASSUME NEW p \in {<<>>, <<User>>}
        PROVE  /\ p \o <<Call("unwake", 0), User>> \in Seq(Frame)
               /\ \A f \in Members(p \o <<Call("unwake", 0), User>>) : f.do \in {"user", "unwake"}
    <3> DEFINE q == <<Call("unwake", 0), User>>
    <3>1. p \in Seq(Frame) /\ \A f \in Members(p) : f.do = "user"
      BY <2>3, UserFrames
    <3>2. q \in Seq(Frame) /\ \A f \in Members(q) : f.do \in {"user", "unwake"}
      BY <2>2
    <3> HIDE DEF q
    <3>3. p \o q \in Seq(Frame) /\ Members(p \o q) = Members(p) \cup Members(q)
      BY <3>1, <3>2, MembersConcat
    <3>4. \A f \in Members(p \o q) : f.do \in {"user", "unwake"}
      BY <3>1, <3>2, <3>3
    <3> QED BY <3>3, <3>4 DEF q
  <2>4. CASE closeRequested \/ connecting
    <3>1. Continue(<<>>)
      BY <2>4 DEF ScheduleReconnect
    <3> QED BY <3>1, UserFrames
  <2>5. CASE ~(closeRequested \/ connecting) /\ CanReconnect
    <3>1. Continue(<<User>>)
      BY <2>5 DEF ScheduleReconnect
    <3>2. \A f \in Members(<<User>>) : f.do \in {"user", "unwake"}
      BY UserFrames
    <3> QED BY <3>1, <3>2, UserFrames
  <2>6. CASE ~(closeRequested \/ connecting) /\ ~CanReconnect
    <3>1. PICK p \in {<<>>, <<User>>} : Continue(p \o <<Call("unwake", 0), User>>)
      BY <2>6 DEF ScheduleReconnect
    <3> QED BY <2>3, <3>1
  <2> QED BY <2>4, <2>5, <2>6
<1>5. Continued(r)
  <2>1. \A f \in Members(r) : f.do \notin Beginning \cup Attempting
    BY <1>4 DEF Attempting, Beginning
  <2> QED BY <1>1, <1>4, <2>1, PlainOn
<1>6. ~Begins /\ ~Begins'
  BY <1>1, <1>5 DEF Continued, Passed, Beginning
<1>7. On("await")' => On("await")
  BY <1>4, <1>5 DEF Continued, Passed
<1>8. /\ timer' \in BOOLEAN /\ wake' \in BOOLEAN /\ waiting' \in BOOLEAN
      /\ ready' \in {"pending", "resolved", "rejected"}
      /\ FlagsInv' /\ WaitInv'
  <2>1. Types /\ FlagsInv /\ WaitInv
    BY DEF IInv
  <2>2. CASE closeRequested \/ connecting
    <3>1. timer' = FALSE /\ UNCHANGED <<ready, waiting>>
      BY <2>2 DEF ScheduleReconnect
    <3>2. FlagsInv'
      BY <1>3, <2>1, <3>1 DEF FlagsInv
    <3>3. WaitInv'
      BY <1>3, <1>7, <2>1, <2>2, <3>1 DEF WaitInv, Coming
    <3> QED BY <1>3, <2>1, <3>1, <3>2, <3>3 DEF Types
  <2>3. CASE ~(closeRequested \/ connecting) /\ CanReconnect
    <3>1. timer' = TRUE /\ ready' = "pending" /\ UNCHANGED waiting
      BY <2>3 DEF ScheduleReconnect
    <3>2. FlagsInv'
      BY <1>2, <1>3, <2>1, <2>3, <3>1 DEF FlagsInv
    <3>3. WaitInv'
      BY <1>3, <1>7, <2>1, <2>3, <3>1 DEF WaitInv, Coming
    <3> QED BY <1>3, <2>1, <3>1, <3>2, <3>3 DEF Types
  <2>4. CASE ~(closeRequested \/ connecting) /\ ~CanReconnect
    <3>1. timer' = FALSE /\ ready' = "rejected" /\ waiting' = FALSE
      BY <2>4 DEF ScheduleReconnect
    <3>2. FlagsInv'
      BY <1>2, <1>3, <2>1, <2>4, <3>1 DEF FlagsInv
    <3>3. WaitInv'
      BY <1>3, <1>7, <2>1, <2>4, <3>1 DEF WaitInv, CanReconnect
    <3> QED BY <1>3, <2>1, <3>1, <3>2, <3>3 DEF Types
  <2> QED BY <2>2, <2>3, <2>4
<1>9. \A f \in Members(r) : FrameOK(f)' /\ f.do \notin {"fresh", "release"}
  BY <1>4, SimpleFrames
<1> QED BY <1>1, <1>3, <1>5, <1>8, <1>9, OnlyFlags DEF Beginning

\* Frames that terminate a session, if there is one.
LEMMA CallsFrames ==
  ASSUME ReconnectAssumption, NEW of \in 0..MaxAttempts
  PROVE  /\ Calls("terminate", of) \in Seq(Frame)
         /\ Members(Calls("terminate", of)) = IF of = None THEN {} ELSE {Call("terminate", of)}
<1>1. Call("terminate", of) \in Frame
  BY DEF Frame, Call
<1>2. <<>> \in Seq(Frame) /\ <<Call("terminate", of)>> \in Seq(Frame)
  BY <1>1
<1> QED BY <1>2, MembersLiteral DEF Calls

\* What giving a retained session up adds to the stack.
LEMMA ResetFrames ==
  ASSUME ReconnectAssumption, Types
  PROVE  \E p \in Seq(Frame) :
           /\ p = Abandoned \o <<Call("rotate", 0)>>
           /\ Members(p) = (IF retained = None THEN {} ELSE {Call("terminate", retained)})
                           \cup {Call("rotate", 0)}
           /\ \A f \in Members(p) : /\ f.do \in {"rotate", "terminate"}
                                    /\ f.do = "terminate" => f.of = retained /\ retained # None
<1>1. PICK of \in 0..MaxAttempts : of = retained
  BY DEF Types
<1> DEFINE a == Calls("terminate", of)  b == <<Call("rotate", 0)>>
<1>2. a \in Seq(Frame) /\ Members(a) = IF of = None THEN {} ELSE {Call("terminate", of)}
  BY CallsFrames
<1>3. Call("rotate", 0) \in Frame
  BY DEF Call, Frame, ReconnectAssumption
<1>4. b \in Seq(Frame) /\ Members(b) = {Call("rotate", 0)}
  BY <1>3, MembersLiteral
<1> HIDE DEF a, b
<1>5. a \o b \in Seq(Frame) /\ Members(a \o b) = Members(a) \cup Members(b)
  BY <1>2, <1>4, MembersConcat
<1>6. PICK p \in Seq(Frame) : p = a \o b
  BY <1>5
<1>7. Members(p) = (IF of = None THEN {} ELSE {Call("terminate", of)}) \cup {Call("rotate", 0)}
  BY <1>2, <1>4, <1>5, <1>6
<1>8. \A f \in Members(p) : /\ f.do \in {"rotate", "terminate"}
                            /\ f.do = "terminate" => f.of = of /\ of # None
  BY <1>7, FrameForm
<1>9. p = Abandoned \o <<Call("rotate", 0)>>
  BY <1>1, <1>6 DEF Abandoned, a, b
<1> QED BY <1>1, <1>7, <1>8, <1>9

LEMMA ConnectFreshKeeps ==
  ASSUME ReconnectAssumption, IInv, ConnectFresh
  PROVE  IInv'
<1>1. PICK t : t = It
  OBVIOUS
<1>2. /\ ~Idle /\ Head(stack).do = "fresh" /\ t = Head(stack).of /\ Continue(<<>>)
      /\ Head(stack) \in Frame /\ FrameOK(Head(stack)) /\ Head(stack) \in Members(stack)
  BY <1>1, HeadOK DEF ConnectFresh
<1>3. <<>> \in Seq(Frame) /\ Members(<<>>) = {}
  BY MembersLiteral
<1>4. Continued(<<>>)
  BY <1>2, <1>3, PlainOn
<1>5. UNCHANGED <<policy, closeRequested, client, connecting, timer, wake, ready, waiting, current, retained, late>>
  BY DEF ConnectFresh, facade
<1>6. t \in 1..Len(attempt) /\ attempt[t].stage \in {"opening", "resumed"} /\ t \in Sessions
  BY <1>2 DEF FrameOK, Sessions, Types, IInv
<1>7. /\ attempt \in Seq(Attempt) /\ attempt[t] \in Attempt /\ Len(attempt) \in Nat
  BY <1>6 DEF Types, IInv
<1>8. session[t] = "none" /\ session \in [Sessions -> {"none", "opening", "active", "suspended", "over"}]
  BY <1>6 DEF SessionInv, Types, IInv
<1>9. Head(stack) = Call("fresh", t)
  BY <1>2, FrameForm
<1>10. \/ /\ attempt[t].aborted /\ StageMoved(t, "failed") /\ UNCHANGED session
       \/ /\ ~attempt[t].aborted /\ t = current /\ connecting /\ retained = None
          /\ attempt' \in Seq(Attempt) /\ Len(attempt') = Len(attempt)
          /\ attempt'[t].stage = "connecting" /\ attempt'[t].session = t
          /\ attempt'[t].aborted = attempt[t].aborted
          /\ \A u \in 1..Len(attempt) : u # t => attempt'[u] = attempt[u]
          /\ session' = [session EXCEPT ![t] = "opening"]
  <2>1. CASE attempt[t].aborted
    <3>1. ToStage(t, "failed") /\ UNCHANGED session
      BY <1>1, <2>1 DEF ConnectFresh
    <3>2. StageMoved(t, "failed")
      BY <1>6, <1>7, <3>1, StageMoves DEF Stages
    <3> QED BY <2>1, <3>1, <3>2
  <2>2. CASE ~attempt[t].aborted
    <3>1. t = current /\ connecting
      BY <1>6, <2>2 DEF AttemptInv, AttemptOK, IInv
    <3>2. retained = None
      BY <1>2, <1>9, <3>1 DEF ClientInv, IInv
    <3> DEFINE new == [attempt[t] EXCEPT !.stage = "connecting", !.session = t]
    <3>3. attempt' = [attempt EXCEPT ![t] = new]
      BY <1>1, <2>2 DEF ConnectFresh
    <3>4. /\ new \in Attempt /\ new.stage = "connecting" /\ new.session = t
          /\ new.aborted = attempt[t].aborted
      <4>1. t \in 0..MaxAttempts
        BY <1>6 DEF Sessions
      <4> QED BY <1>7, <4>1 DEF Attempt, Stages
    <3> HIDE DEF new
    <3>5. /\ attempt' \in Seq(Attempt) /\ Len(attempt') = Len(attempt) /\ attempt'[t] = new
          /\ \A u \in 1..Len(attempt) : u # t => attempt'[u] = attempt[u]
      BY <1>6, <1>7, <3>3, <3>4
    <3>6. session' = [session EXCEPT ![t] = "opening"]
      BY <1>1, <2>2 DEF ConnectFresh
    <3> QED BY <2>2, <3>1, <3>2, <3>4, <3>5, <3>6
  <2> QED BY <2>1, <2>2
<1>11. /\ attempt' \in Seq(Attempt) /\ Len(attempt') = Len(attempt)
       /\ attempt'[t].aborted = attempt[t].aborted /\ attempt'[t].stage \in {"failed", "connecting"}
       /\ \A u \in 1..Len(attempt) : u # t => attempt'[u] = attempt[u]
       /\ \A s \in Sessions : s # t => session'[s] = session[s]
       /\ session'[t] \in {"none", "opening"}
       /\ session' \in [Sessions -> {"none", "opening", "active", "suspended", "over"}]
  BY <1>6, <1>8, <1>10 DEF StageMoved
<1>12. \A s \in Sessions : Begun(s) => s # t /\ session'[s] = session[s]
  BY <1>8, <1>11 DEF Begun
<1>13. Types'
  BY <1>4, <1>5, <1>11 DEF Types, IInv, Continued
<1>14. FlagsInv'
  BY <1>5 DEF FlagsInv, IInv
<1>15. AttemptInv'
  <2>1. SUFFICES ASSUME NEW u \in 1..Len(attempt) PROVE AttemptOK(u)'
    BY <1>11 DEF AttemptInv
  <2>2. u \in Sessions /\ AttemptOK(u)
    BY DEF Sessions, Types, AttemptInv, IInv
  <2>3. CASE u # t
    <3>1. attempt'[u] = attempt[u] /\ session'[u] = session[u]
      BY <1>11, <2>2, <2>3
    <3>2. \A s \in Sessions : Begun(s) => Begun(s)'
      BY <1>12 DEF Begun
    <3> QED BY <1>5, <2>2, <3>1, <3>2, AttemptStays
  <2>4. CASE u = t
    <3>1. IF t = current THEN connecting ELSE attempt[t].aborted
      BY <1>6, <2>2, <2>4 DEF AttemptOK
    <3>2. attempt'[t].stage = "connecting" => attempt'[t].session = t /\ session'[t] = "opening"
      BY <1>6, <1>8, <1>10 DEF StageMoved
    <3> QED BY <1>5, <1>11, <2>4, <3>1, <3>2 DEF AttemptOK
  <2> QED BY <2>3, <2>4
<1>16. SessionInv'
  BY <1>6, <1>8, <1>10, <1>11 DEF SessionInv, StageMoved, IInv
<1>17. ClientInv'
  <2>1. client # None => session'[client] = session[client]
    BY <1>12 DEF ClientInv, Types, IInv, Sessions, None, ReconnectAssumption
  <2>2. retained # None => session'[retained] = session[retained]
    BY <1>12 DEF ClientInv, Types, IInv, Sessions, None, ReconnectAssumption
  <2>3. retained # None /\ connecting => attempt'[current].stage \notin {"connecting", "opened"}
    <3>1. SUFFICES ASSUME retained # None, connecting
                   PROVE  attempt'[current].stage \notin {"connecting", "opened"}
      OBVIOUS
    <3>2. current \in 1..Len(attempt) /\ attempt[current].stage \notin {"connecting", "opened"}
      BY <3>1 DEF ClientInv, Types, FlagsInv, IInv, None
    <3> QED BY <1>10, <3>1, <3>2 DEF StageMoved
  <2> QED BY <1>2, <1>3, <1>4, <1>5, <2>1, <2>2, <2>3, ClientStays DEF IInv
<1>18. StackInv'
  <2>1. ASSUME NEW f \in Members(Tail(stack)) PROVE FrameKept(f)
    <3>1. On("release")' => On("release")
      BY <1>3, <1>4 DEF Continued, Passed
    <3>2. f.do = "release" => closeRequested \/ connecting
      BY <1>2, <1>4 DEF Continued, Passed, FrameOK, Beginning
    <3>3. f.do \in Attempting => attempt'[f.of] = attempt[f.of]
      BY <1>2, <1>4, <1>11, <2>1, OthersKept DEF IInv, Attempting
    <3>4. \A s : Call("terminate", s) \in Members(stack) => Call("terminate", s) \in Members(stack)'
      BY <1>2, <1>4, TerminatesStay
    <3>5. \A s \in Sessions : Begun(s) =>
             Begun(s)' /\ (Live(s)' => Live(s)) /\ (session'[s] = "active" => session[s] = "active")
      BY <1>12 DEF Begun, Live
    <3> QED BY <1>5, <1>7, <1>11, <3>1, <3>2, <3>3, <3>4, <3>5 DEF FrameKept
  <2>2. \A f \in Members(<<>>) : FrameOK(f)'
    BY <1>3
  <2> QED BY <1>4, <1>13, <2>1, <2>2, StackStays DEF IInv
<1>19. OwnerInv'
  <2>1. \A s : Call("terminate", s) \in Members(stack) => Call("terminate", s) \in Members(stack)'
    BY <1>2, <1>4, TerminatesStay
  <2>2. ASSUME NEW s \in Sessions, Live(s)'
        PROVE  client = s \/ retained = s \/ AttemptOwns(s)' \/ Call("terminate", s) \in Members(stack)
    <3>1. CASE s = t
      <4>1. attempt'[t].stage = "connecting" /\ attempt'[t].session = t
        BY <1>8, <1>10, <2>2, <3>1 DEF Live
      <4>2. t \in DOMAIN attempt'
        BY <1>6, <1>11
      <4> QED BY <3>1, <4>1, <4>2 DEF AttemptOwns
    <3>2. CASE s # t
      <4>1. Live(s)
        BY <1>11, <2>2, <3>2 DEF Live
      <4>2. CASE AttemptOwns(s)
        <5>1. PICK u \in 1..Len(attempt) :
                 attempt[u].session = s /\ attempt[u].stage \in {"connecting", "resumed", "opened"}
          BY <1>7, <4>2 DEF AttemptOwns
        <5>2. CASE u = t
          BY <1>2, <1>6, <4>1, <5>1, <5>2 DEF FrameOK
        <5>3. CASE u # t
          <6>1. attempt'[u] = attempt[u] /\ u \in DOMAIN attempt'
            BY <1>11, <5>3
          <6> QED BY <5>1, <6>1 DEF AttemptOwns
        <5> QED BY <5>2, <5>3
      <4> QED BY <4>1, <4>2 DEF OwnerInv, IInv
    <3> QED BY <3>1, <3>2
  <2> QED BY <1>5, <2>1, <2>2 DEF OwnerInv
<1>20. CloseInv'
  BY <1>2, <1>4, <1>5, CloseStays DEF IInv
<1>21. WaitInv'
  <2>1. News /\ ~connecting => News'
    <3>1. SUFFICES ASSUME News, ~connecting PROVE News'
      OBVIOUS
    <3>2. StageMoved(t, "failed") /\ UNCHANGED session
      BY <1>10, <3>1
    <3>3. current \in 1..Len(attempt)
      BY <3>1 DEF News, StackInv, FrameOK, IInv
    <3>4. attempt'[current].session = attempt[current].session
      BY <3>2, <3>3 DEF StageMoved
    <3> QED BY <1>2, <1>4, <1>5, <3>1, <3>2, <3>4, NewsStays DEF Connected
  <2> QED BY <1>2, <1>3, <1>4, <1>5, <2>1, WaitStays DEF IInv, Beginning
<1> QED BY <1>13, <1>14, <1>15, <1>16, <1>17, <1>18, <1>19, <1>20, <1>21 DEF IInv

\* A sequence of frames of which the last may carry an attempt on.
LEMMA LastFrame ==
  ASSUME NEW p \in Seq(Frame), NEW f \in Frame,
         \A g \in Members(p) : g.do \notin Attempting
  PROVE  \E r \in Seq(Frame) : /\ r = p \o <<f>> /\ Apart(r) /\ Members(r) = Members(p) \cup {f}
<1>1. <<f>> \in Seq(Frame) /\ Apart(<<f>>) /\ Members(<<f>>) = {f}
  BY ApartOne, MembersLiteral
<1>2. Apart(p)
  BY ApartPlain DEF Plain
<1>3. PICK q \in Seq(Frame) : q = <<f>>
  BY <1>1
<1>4. \A g \in Members(p) : \A h \in Members(q) :
        g.do \in Attempting /\ h.do \in Attempting => g.of # h.of
  OBVIOUS
<1>5. p \o q \in Seq(Frame) /\ Members(p \o q) = Members(p) \cup Members(q)
  BY MembersConcat
<1>6. Apart(p \o q)
  BY <1>1, <1>2, <1>3, <1>4, ApartConcat
<1> QED BY <1>1, <1>3, <1>5, <1>6

LEMMA OpenKeeps ==
  ASSUME ReconnectAssumption, IInv, Open
  PROVE  IInv'
<1>1. PICK t : t = It
  OBVIOUS
<1>2. /\ ~Idle /\ Head(stack).do = "open" /\ t = Head(stack).of
      /\ Head(stack) \in Frame /\ FrameOK(Head(stack)) /\ Head(stack) \in Members(stack)
  BY <1>1, HeadOK DEF Open
<1>3. /\ UNCHANGED <<policy, closeRequested, client, connecting, timer, wake, ready, waiting, current, session>>
  BY DEF Open, facade
<1>4. t \in 1..Len(attempt) /\ attempt[t].stage = "opening" /\ t \in 0..MaxAttempts
  BY <1>2 DEF FrameOK, Frame
<1>5. /\ attempt \in Seq(Attempt) /\ attempt[t] \in Attempt /\ Len(attempt) \in Nat
  BY <1>4 DEF Types, IInv
<1>6. FlagsInv'
  BY <1>3 DEF FlagsInv, IInv
<1>7. ASSUME attempt[t].reconnect, CanResume
      PROVE  IInv'
  <2>1. Continue(<<>>) /\ UNCHANGED <<retained, late>>
    BY <1>1, <1>7 DEF Open
  <2>2. <<>> \in Seq(Frame) /\ Members(<<>>) = {}
    BY MembersLiteral
  <2>3. Continued(<<>>)
    BY <1>2, <2>1, <2>2, PlainOn
  <2>4. PICK x \in {"failed", "resuming", "notResumed"} :
          attempt' = [attempt EXCEPT ![t].session = retained, ![t].stage = x, ![t].cause = "rejected"]
    BY <1>1, <1>7 DEF Open
  <2>5. /\ retained # None /\ retained \in Sessions /\ session[retained] = "suspended"
        /\ retained \in 0..MaxAttempts /\ client = None
    BY <1>7 DEF CanResume, ClientInv, Types, IInv, Sessions, None, ReconnectAssumption
  <2>6. /\ attempt' \in Seq(Attempt) /\ Len(attempt') = Len(attempt)
        /\ attempt'[t].session = retained /\ attempt'[t].stage = x /\ attempt'[t].aborted = attempt[t].aborted
        /\ \A u \in 1..Len(attempt) : u # t => attempt'[u] = attempt[u]
    <3> DEFINE new == [attempt[t] EXCEPT !.session = retained, !.stage = x, !.cause = "rejected"]
    <3>1. attempt' = [attempt EXCEPT ![t] = new]
      BY <1>4, <1>5, <2>4
    <3>2. /\ new \in Attempt /\ new.stage = x /\ new.session = retained
          /\ new.aborted = attempt[t].aborted
      BY <1>5, <2>5 DEF Attempt, Stages
    <3> HIDE DEF new
    <3>3. /\ attempt' \in Seq(Attempt) /\ Len(attempt') = Len(attempt) /\ attempt'[t] = new
          /\ \A u \in 1..Len(attempt) : u # t => attempt'[u] = attempt[u]
      BY <1>4, <1>5, <3>1, <3>2
    <3> QED BY <3>2, <3>3
  <2>7. Types'
    BY <1>3, <2>1, <2>3, <2>6 DEF Types, IInv, Continued
  <2>8. AttemptInv'
    <3>1. SUFFICES ASSUME NEW u \in 1..Len(attempt) PROVE AttemptOK(u)'
      BY <2>6 DEF AttemptInv
    <3>2. u \in Sessions /\ AttemptOK(u)
      BY DEF Sessions, Types, AttemptInv, IInv
    <3>3. CASE u # t
      BY <1>3, <2>6, <3>2, <3>3, AttemptStays DEF Begun
    <3>4. CASE u = t
      <4>1. IF t = current THEN connecting ELSE attempt[t].aborted
        BY <1>4, <3>2, <3>4 DEF AttemptOK
      <4>2. retained \in Sessions /\ session'[retained] \in {"active", "suspended", "over"}
        BY <1>3, <2>5
      <4> QED BY <1>3, <2>6, <3>4, <4>1, <4>2 DEF AttemptOK, Begun
    <3> QED BY <3>3, <3>4
  <2>9. SessionInv'
    BY <1>3, <1>4, <2>6 DEF SessionInv, IInv
  <2>10. ClientInv'
    <3>1. retained # None /\ connecting => attempt'[current].stage \notin {"connecting", "opened"}
      <4>1. SUFFICES ASSUME connecting PROVE attempt'[current].stage \notin {"connecting", "opened"}
        OBVIOUS
      <4>2. current \in 1..Len(attempt) /\ attempt[current].stage \notin {"connecting", "opened"}
        BY <2>5, <4>1 DEF ClientInv, Types, FlagsInv, IInv, None
      <4> QED BY <2>6, <4>2
    <3> QED BY <1>2, <1>3, <2>1, <2>2, <2>3, <3>1, ClientStays DEF IInv
  <2>11. StackInv'
    <3>1. ASSUME NEW f \in Members(Tail(stack)) PROVE FrameKept(f)
      <4>1. On("release")' => On("release")
        BY <2>2, <2>3 DEF Continued, Passed
      <4>2. f.do = "release" => closeRequested \/ connecting
        BY <1>2, <2>3, <3>1 DEF Continued, Passed, FrameOK, Beginning
      <4>3. f.do \in Attempting => attempt'[f.of] = attempt[f.of]
        BY <1>2, <2>3, <2>6, <3>1, OthersKept DEF IInv, Attempting
      <4>4. \A s : Call("terminate", s) \in Members(stack) => Call("terminate", s) \in Members(stack)'
        BY <1>2, <2>3, TerminatesStay
      <4> QED BY <1>3, <1>5, <2>6, <4>1, <4>2, <4>3, <4>4 DEF FrameKept, Begun, Live
    <3>2. \A f \in Members(<<>>) : FrameOK(f)'
      BY <2>2
    <3> QED BY <2>3, <2>7, <3>1, <3>2, StackStays DEF IInv
  <2>12. OwnerInv'
    <3>1. \A s : AttemptOwns(s) => AttemptOwns(s)'
      BY <1>4, <1>5, <2>6 DEF AttemptOwns
    <3> QED BY <1>2, <1>3, <2>1, <2>3, <3>1, OwnerStays DEF IInv
  <2>13. CloseInv'
    BY <1>2, <1>3, <2>1, <2>3, CloseStays DEF IInv
  <2>14. WaitInv'
    <3>1. ~News
      BY <2>5 DEF News, Connected
    <3> QED BY <1>2, <1>3, <2>2, <2>3, <3>1, WaitStays DEF IInv, Beginning
  <2> QED BY <1>6, <2>7, <2>8, <2>9, <2>10, <2>11, <2>12, <2>13, <2>14 DEF IInv
<1>8. ASSUME ~(attempt[t].reconnect /\ CanResume)
      PROVE  IInv'
  <2>1. /\ retained' = None /\ late' = FALSE /\ UNCHANGED attempt
        /\ Continue((IF retained = None THEN <<>> ELSE Reset) \o <<Call("fresh", t)>>)
    BY <1>1, <1>8 DEF Open, TakeRetained
  <2>2. Call("fresh", t) \in Frame /\ Call("fresh", t).do = "fresh" /\ Call("fresh", t).of = t
    BY <1>4, FrameForm DEF Frame, Call
  <2>3. PICK p \in Seq(Frame) :
          /\ p = IF retained = None THEN <<>> ELSE Reset
          /\ retained # None => Call("terminate", retained) \in Members(p)
          /\ \A f \in Members(p) : /\ f.do \in {"rotate", "terminate"}
                                   /\ f.do = "terminate" => f.of = retained /\ retained # None
    <3>1. CASE retained = None
      BY <3>1, MembersLiteral, UserFrames
    <3>2. CASE retained # None
      BY <3>2, ResetFrames DEF IInv, Reset
    <3> QED BY <3>1, <3>2
  <2>4. PICK r \in Seq(Frame) :
          r = p \o <<Call("fresh", t)>> /\ Apart(r) /\ Members(r) = Members(p) \cup {Call("fresh", t)}
    BY <2>2, <2>3, LastFrame DEF Attempting
  <2>5. Continued(r)
    <3>1. Continue(r)
      BY <2>1, <2>3, <2>4
    <3>2. \A f \in Members(r) : f.do \notin Beginning
      BY <2>2, <2>3, <2>4 DEF Beginning
    <3>3. \A f \in Members(r) : f.do \in Attempting => Head(stack).do \in Attempting /\ f.of = Head(stack).of
      BY <1>2, <2>2, <2>3, <2>4 DEF Attempting
    <3> QED BY <1>2, <2>4, <3>1, <3>2, <3>3, Onward DEF IInv, Continued
  <2>6. Types'
    <3>1. stack' \in Seq(Frame)
      BY <2>5 DEF Continued
    <3>2. retained' = 0 /\ late' = FALSE /\ attempt' = attempt
      BY <2>1 DEF None
    <3>3. retained' \in 0..MaxAttempts
      BY <3>2 DEF ReconnectAssumption
    <3> QED BY <1>3, <3>1, <3>2, <3>3 DEF Types, IInv
  <2>7. AttemptInv' /\ SessionInv'
    BY <1>3, <2>1 DEF AttemptInv, AttemptOK, SessionInv, Begun, IInv
  <2>8. ClientInv'
    <3>1. \A of : Call("closed", of) \in Members(stack) => Call("closed", of) \in Members(stack)'
      BY <1>2, <2>5, FrameForm DEF Continued, Passed
    <3>2. ~(client # None /\ session[client] = "suspended")
      BY <1>2, FrameForm DEF ClientInv, IInv
    <3> QED BY <1>3, <2>1, <3>1, <3>2 DEF ClientInv, Begun, IInv
  <2>9. StackInv'
    <3>1. ASSUME NEW f \in Members(Tail(stack)) PROVE FrameKept(f)
      <4>1. On("release")' => On("release")
        BY <2>2, <2>3, <2>4, <2>5 DEF Continued, Passed
      <4>2. f.do = "release" => closeRequested \/ connecting
        BY <1>2, <2>5, <3>1 DEF Continued, Passed, FrameOK, Beginning
      <4>3. \A s : Call("terminate", s) \in Members(stack) => Call("terminate", s) \in Members(stack)'
        BY <1>2, <2>5, TerminatesStay
      <4> QED BY <1>3, <1>5, <2>1, <4>1, <4>2, <4>3 DEF FrameKept, Begun, Live
    <3>2. ASSUME NEW f \in Members(r) PROVE FrameOK(f)'
      <4>1. CASE f = Call("fresh", t)
        BY <1>4, <2>1, <2>2, <4>1 DEF FrameOK
      <4>2. CASE f \in Members(p) /\ f.do = "rotate"
        BY <4>2, SimpleFrames
      <4>3. CASE f \in Members(p) /\ f.do = "terminate"
        <5>1. f.of = retained /\ retained # None
          BY <2>3, <4>3
        <5>2. f.of \in Sessions /\ Begun(f.of) /\ client = None
          BY <5>1 DEF Types, ClientInv, IInv, Sessions, None, ReconnectAssumption
        <5> QED BY <1>3, <4>3, <5>1, <5>2 DEF FrameOK, Begun
      <4> QED BY <2>3, <2>4, <4>1, <4>2, <4>3
    <3> QED BY <2>5, <2>6, <3>1, <3>2, StackStays DEF IInv
  <2>10. OwnerInv'
    <3>1. \A s : Call("terminate", s) \in Members(stack) => Call("terminate", s) \in Members(stack)'
      BY <1>2, <2>5, TerminatesStay
    <3>2. retained # None => Call("terminate", retained) \in Members(stack)'
      BY <2>3, <2>4, <2>5 DEF Continued, Passed
    <3>3. None \notin Sessions
      BY DEF None, Sessions, ReconnectAssumption
    <3> QED BY <1>3, <2>1, <3>1, <3>2, <3>3 DEF OwnerInv, Live, AttemptOwns, IInv
  <2>11. CloseInv'
    BY <1>2, <1>3, <2>1, <2>5 DEF CloseInv, Continued, Passed, IInv
  <2>12. WaitInv'
    <3>1. News => News'
      BY <1>2, <1>3, <2>1, <2>5, NewsStays DEF Connected
    <3>2. \A f \in Members(r) : f.do # "await"
      BY <2>2, <2>3, <2>4
    <3> QED BY <1>2, <1>3, <2>5, <3>1, <3>2, WaitStays DEF IInv, Beginning
  <2> QED BY <1>6, <2>6, <2>7, <2>8, <2>9, <2>10, <2>11, <2>12 DEF IInv
<1> QED BY <1>7, <1>8

LEMMA TerminateKeeps ==
  ASSUME ReconnectAssumption, IInv, Terminate
  PROVE  IInv'
<1>1. PICK s : s = It
  OBVIOUS
<1>2. /\ ~Idle /\ Head(stack).do = "terminate" /\ s = Head(stack).of
      /\ Head(stack) \in Frame /\ FrameOK(Head(stack)) /\ Head(stack) \in Members(stack)
  BY <1>1, HeadOK DEF Terminate
<1>3. UNCHANGED <<policy, closeRequested, client, connecting, timer, wake, ready, waiting, current,
                  attempt, retained, late>>
  BY DEF Terminate, facade, coordinator
<1>4. /\ s \in Sessions /\ Begun(s) /\ Head(stack) = Call("terminate", s)
      /\ s = client => stack = <<Call("terminate", s)>>
  BY <1>2, FrameForm DEF FrameOK
<1>5. session \in [Sessions -> {"none", "opening", "active", "suspended", "over"}]
  BY DEF Types, IInv
<1>6. session' = [session EXCEPT ![s] = "over"]
  BY <1>1 DEF Terminate
<1>7. /\ session'[s] = "over" /\ \A u \in Sessions : u # s => session'[u] = session[u]
      /\ session' \in [Sessions -> {"none", "opening", "active", "suspended", "over"}]
  BY <1>4, <1>5, <1>6
<1>8. PICK r \in Seq(Frame) :
        /\ Continue(r)
        /\ \A f \in Members(r) : f.do = "user" \/ f = Call("closed", s)
        /\ session[s] = "active" => Call("closed", s) \in Members(r)
  <2>1. Call("closed", s) \in Frame
    BY <1>4 DEF Call, Frame, Sessions
  <2>2. /\ <<User>> \o <<Call("closed", s)>> \in Seq(Frame)
        /\ Members(<<User>> \o <<Call("closed", s)>>) = {User, Call("closed", s)}
    <3>1. <<Call("closed", s)>> \in Seq(Frame) /\ Members(<<Call("closed", s)>>) = {Call("closed", s)}
      BY <2>1, MembersLiteral
    <3>2. PICK a \in Seq(Frame), b \in Seq(Frame) : a = <<User>> /\ b = <<Call("closed", s)>>
      BY <3>1, UserFrames
    <3>3. a \o b \in Seq(Frame) /\ Members(a \o b) = Members(a) \cup Members(b)
      BY MembersConcat
    <3> QED BY <3>1, <3>2, <3>3, UserFrames
  <2>3. CASE session[s] = "over"
    <3>1. Continue(<<>>)
      BY <1>1, <2>3 DEF Terminate
    <3> QED BY <2>3, <3>1, UserFrames
  <2>4. CASE session[s] = "active"
    <3>1. Continue(<<User>> \o <<Call("closed", s)>>)
      BY <1>1, <2>4 DEF Terminate
    <3>2. \A f \in {User, Call("closed", s)} : f.do = "user" \/ f = Call("closed", s)
      BY UserFrames
    <3> QED BY <2>2, <3>1, <3>2
  <2>5. CASE session[s] \notin {"over", "active"}
    <3>1. Continue(<<User>> \o <<>>)
      BY <1>1, <2>5 DEF Terminate
    <3>2. <<User>> \o <<>> = <<User>>
      OBVIOUS
    <3>3. Continue(<<User>>)
      BY <3>1, <3>2
    <3>4. <<User>> \in Seq(Frame) /\ \A f \in Members(<<User>>) : f.do = "user"
      BY UserFrames
    <3> QED BY <2>5, <3>3, <3>4
  <2> QED BY <2>3, <2>4, <2>5
<1>9. \A f \in Members(r) : f.do \in {"user", "closed"} /\ (f.do = "closed" => f.of = s)
  BY <1>8, FrameForm
<1>10. Continued(r)
  <2>1. \A f \in Members(r) : f.do \notin Beginning \cup Attempting
    BY <1>9 DEF Attempting, Beginning
  <2> QED BY <1>2, <1>8, <2>1, PlainOn
<1>11. \A u \in Sessions : /\ Begun(u) => Begun(u)'
                           /\ Live(u)' => Live(u) /\ u # s
                           /\ session'[u] = "active" => session[u] = "active"
  BY <1>7 DEF Begun, Live
<1>12. \A u : u # s /\ Call("terminate", u) \in Members(stack) => Call("terminate", u) \in Members(stack)'
  <2>1. ASSUME NEW u, u # s, Call("terminate", u) \in Members(stack)
        PROVE  Call("terminate", u) \in Members(stack)'
    <3>1. Call("terminate", u) # Head(stack)
      BY <1>2, <2>1, FrameForm
    <3>2. stack \in Seq(Frame) /\ stack # <<>>
      BY <1>2 DEF Types, IInv, Idle
    <3>3. Call("terminate", u) \in Members(Tail(stack))
      BY <2>1, <3>1, <3>2, MembersOf
    <3> QED BY <1>10, <3>3 DEF Continued, Passed
  <2> QED BY <2>1
<1>13. Types'
  BY <1>3, <1>7, <1>10 DEF Types, IInv, Continued
<1>14. FlagsInv'
  BY <1>3 DEF FlagsInv, IInv
<1>15. AttemptInv'
  <2>1. SUFFICES ASSUME NEW u \in 1..Len(attempt) PROVE AttemptOK(u)'
    BY <1>3 DEF AttemptInv
  <2>2. AttemptOK(u) /\ u \in Sessions
    BY DEF Sessions, Types, AttemptInv, IInv
  <2>3. attempt[u].stage = "connecting" => session'[u] = session[u]
    BY <1>4, <1>7, <2>2 DEF AttemptOK, Begun
  <2> QED BY <1>3, <1>11, <2>2, <2>3, AttemptStays
<1>16. SessionInv'
  BY <1>3, <1>4, <1>7 DEF SessionInv, Begun, IInv
<1>17. ClientInv'
  <2>1. ClientInv /\ Types
    BY DEF IInv
  <2>2. client # None => client \in Sessions /\ Begun(client)
    BY <2>1 DEF ClientInv, Types, Sessions, None, ReconnectAssumption
  <2>3. retained # None => retained \in Sessions /\ Begun(retained)
    BY <2>1 DEF ClientInv, Types, Sessions, None, ReconnectAssumption
  <2>4. client # None /\ session'[client] # "active" => Call("closed", client) \in Members(stack)'
    <3>1. CASE session[client] # "active"
      <4>1. \A of : Call("closed", of) \in Members(stack) => Call("closed", of) \in Members(stack)'
        BY <1>2, <1>10, FrameForm DEF Continued, Passed
      <4> QED BY <2>1, <3>1, <4>1 DEF ClientInv
    <3>2. CASE client = s /\ session[client] = "active"
      BY <1>8, <1>10, <3>2 DEF Continued, Passed
    <3>3. CASE client # s /\ session[client] = "active"
      BY <1>7, <2>2, <3>3
    <3> QED BY <3>1, <3>2, <3>3
  <2>5. ~(client # None /\ session[client] = "suspended")
    BY <1>2, <2>1, FrameForm DEF ClientInv
  <2>6. ~(client # None /\ session'[client] = "suspended")
    BY <1>7, <2>2, <2>5
  <2>7. \A of : Call("fresh", of) \in Members(stack)' => Call("fresh", of) \in Members(stack)
    BY <1>9, <1>10, FrameForm DEF Continued, Passed
  <2>8. connecting /\ client # None => session'[client] # "active"
    BY <1>11, <2>1, <2>2 DEF ClientInv
  <2>9. (client # None => Begun(client)') /\ (retained # None => Begun(retained)')
    BY <1>3, <1>11, <2>2, <2>3 DEF Begun
  <2> QED BY <1>3, <2>1, <2>4, <2>6, <2>7, <2>8, <2>9 DEF ClientInv, Begun
<1>18. StackInv'
  <2>1. ASSUME NEW f \in Members(Tail(stack)) PROVE FrameKept(f)
    <3>1. On("release")' => On("release")
      BY <1>9, <1>10 DEF Continued, Passed
    <3>2. f.do = "release" => closeRequested \/ connecting
      BY <1>2, <1>10 DEF Continued, Passed, FrameOK, Beginning
    <3>3. Len(attempt) \in Nat
      BY DEF Types, IInv
    <3> QED BY <1>3, <1>11, <1>12, <3>1, <3>2, <3>3 DEF FrameKept
  <2>2. ASSUME NEW f \in Members(r) PROVE FrameOK(f)'
    <3>1. CASE f.do = "user"
      BY <3>1, SimpleFrames
    <3>2. CASE f.do = "closed"
      <4>1. f.of = s /\ session'[s] = "over"
        BY <1>7, <1>9, <3>2
      <4> QED BY <1>4, <3>2, <4>1 DEF FrameOK, Begun
    <3> QED BY <1>9, <3>1, <3>2
  <2> QED BY <1>10, <1>13, <2>1, <2>2, StackStays DEF IInv
<1>19. OwnerInv'
  BY <1>3, <1>11, <1>12 DEF OwnerInv, AttemptOwns, IInv
<1>20. CloseInv'
  BY <1>2, <1>3, <1>10, CloseStays DEF IInv
<1>21. WaitInv'
  <2>1. News => News'
    <3>1. SUFFICES ASSUME News PROVE News'
      OBVIOUS
    <3>2. client # s
      <4>1. SUFFICES ASSUME client = s PROVE FALSE
        OBVIOUS
      <4>2. Members(stack) = {Call("terminate", s)}
        BY <1>4, <4>1, MembersLiteral
      <4> QED BY <3>1, <4>2, FrameForm DEF News
    <3>3. Connected => Connected'
      BY <1>3, <1>7, <3>2 DEF Connected, Types, IInv, Sessions, None, ReconnectAssumption
    <3> QED BY <1>2, <1>3, <1>10, <3>1, <3>3, NewsStays
  <2>2. \A f \in Members(r) : f.do # "await"
    BY <1>9
  <2> QED BY <1>2, <1>3, <1>10, <2>1, <2>2, WaitStays DEF IInv, Beginning
<1> QED BY <1>13, <1>14, <1>15, <1>16, <1>17, <1>18, <1>19, <1>20, <1>21 DEF IInv

LEMMA HandleClientCloseKeeps ==
  ASSUME ReconnectAssumption, IInv, HandleClientClose
  PROVE  IInv'
<1>1. PICK s : s = It
  OBVIOUS
<1>2. /\ ~Idle /\ Head(stack).do = "closed" /\ s = Head(stack).of
      /\ Head(stack) \in Frame /\ FrameOK(Head(stack)) /\ Head(stack) \in Members(stack)
  BY <1>1, HeadOK DEF HandleClientClose
<1>3. UNCHANGED <<policy, closeRequested, connecting, timer, wake, waiting, current, attempt, session>>
  BY DEF HandleClientClose
<1>4. s \in Sessions /\ Begun(s) /\ session[s] # "active" /\ Head(stack) = Call("closed", s)
  BY <1>2, FrameForm DEF FrameOK
<1>5. None \notin Sessions
  BY DEF None, Sessions, ReconnectAssumption
<1>6. ASSUME s # client
      PROVE  IInv'
  <2>1. Continue(<<>>) /\ UNCHANGED <<client, ready, retained, late>>
    BY <1>1, <1>6 DEF HandleClientClose, coordinator
  <2>2. <<>> \in Seq(Frame) /\ Members(<<>>) = {}
    BY MembersLiteral
  <2>3. Continued(<<>>)
    BY <1>2, <2>1, <2>2, PlainOn
  <2>4. Types'
    BY <1>3, <2>1, <2>3 DEF Types, IInv, Continued
  <2>5. FlagsInv' /\ AttemptInv' /\ SessionInv'
    BY <1>3, <2>1 DEF FlagsInv, AttemptInv, AttemptOK, SessionInv, Begun, IInv
  <2>6. ClientInv'
    <3>1. \A u : u # s /\ Call("closed", u) \in Members(stack) => Call("closed", u) \in Members(stack)'
      <4>1. ASSUME NEW u, u # s, Call("closed", u) \in Members(stack)
            PROVE  Call("closed", u) \in Members(stack)'
        <5>1. Call("closed", u) # Head(stack)
          BY <1>2, <4>1, FrameForm
        <5>2. stack \in Seq(Frame) /\ stack # <<>>
          BY <1>2 DEF Types, IInv, Idle
        <5>3. Call("closed", u) \in Members(Tail(stack))
          BY <4>1, <5>1, <5>2, MembersOf
        <5> QED BY <2>3, <5>3 DEF Continued, Passed
      <4> QED BY <4>1
    <3>2. \A of : Call("fresh", of) \in Members(stack)' => Call("fresh", of) \in Members(stack)
      BY <2>2, <2>3 DEF Continued, Passed
    <3>3. ~(client # None /\ session[client] = "suspended")
      BY <1>2, <1>6, FrameForm DEF ClientInv, IInv
    <3> QED BY <1>3, <1>6, <2>1, <3>1, <3>2, <3>3 DEF ClientInv, Begun, IInv
  <2>7. StackInv'
    <3>1. ASSUME NEW f \in Members(Tail(stack)) PROVE FrameKept(f)
      <4>1. On("release")' => On("release")
        BY <2>2, <2>3 DEF Continued, Passed
      <4>2. f.do = "release" => closeRequested \/ connecting
        BY <1>2, <2>3, <3>1 DEF Continued, Passed, FrameOK, Beginning
      <4>3. Len(attempt) \in Nat
        BY DEF Types, IInv
      <4>4. \A u : Call("terminate", u) \in Members(stack) => Call("terminate", u) \in Members(stack)'
        BY <1>2, <2>3, TerminatesStay
      <4> QED BY <1>3, <2>1, <4>1, <4>2, <4>3, <4>4 DEF FrameKept, Begun, Live
    <3>2. \A f \in Members(<<>>) : FrameOK(f)'
      BY <2>2
    <3> QED BY <2>3, <2>4, <3>1, <3>2, StackStays DEF IInv
  <2>8. OwnerInv'
    BY <1>2, <1>3, <2>1, <2>3, OwnerStays DEF IInv, AttemptOwns
  <2>9. CloseInv'
    BY <1>2, <1>3, <2>1, <2>3, CloseStays DEF IInv
  <2>10. WaitInv'
    <3>1. On("await")' => On("await")
      BY <2>2, <2>3 DEF Continued, Passed
    <3>2. On("schedule") => On("schedule")'
      BY <1>2, <2>3 DEF Continued, Passed
    <3>3. ~Begins
      BY <1>2, <2>3 DEF Continued, Passed, Beginning
    <3>4. Head(stack) # Call("closed", client)
      BY <1>2, <1>6, FrameForm
    <3>5. News => News'
      BY <1>2, <1>3, <2>1, <2>3, NewsStays DEF Connected
    <3>6. Coming => Coming'
      BY <1>3, <3>2, <3>3, <3>4, <3>5 DEF Coming
    <3> QED BY <1>3, <2>1, <3>1, <3>2, <3>3, <3>6 DEF WaitInv, IInv
  <2> QED BY <2>4, <2>5, <2>6, <2>7, <2>8, <2>9, <2>10 DEF IInv
<1>7. ASSUME s = client
      PROVE  IInv'
  <2>1. /\ client' = None
        /\ \/ session[s] = "suspended" /\ retained' = s
           \/ session[s] # "suspended" /\ retained' = None
        /\ late' = FALSE
    BY <1>1, <1>7 DEF HandleClientClose, Retain
  <2>2. /\ closeRequested => UNCHANGED ready
        /\ ~closeRequested => ready' = "pending"
    BY <1>1, <1>7 DEF HandleClientClose
  <2>3. PICK r \in Seq(Frame) :
          /\ Continue(r) /\ \A f \in Members(r) : f.do \in {"user", "schedule"}
          /\ ~closeRequested => \E f \in Members(r) : f.do = "schedule"
    <3>1. Call("schedule", 0) \in Frame /\ Call("schedule", 0).do = "schedule"
      BY FrameForm DEF Frame, Call, ReconnectAssumption
    <3>2. /\ <<User, Call("schedule", 0)>> \in Seq(Frame)
          /\ Members(<<User, Call("schedule", 0)>>) = {User, Call("schedule", 0)}
      BY <3>1, UserFrames, MembersLiteral
    <3>3. CASE closeRequested
      <4>1. Continue(<<>>)
        BY <1>1, <1>7, <3>3 DEF HandleClientClose
      <4> QED BY <3>3, <4>1, UserFrames
    <3>4. CASE ~closeRequested
      <4>1. Continue(<<User, Call("schedule", 0)>>)
        BY <1>1, <1>7, <3>4 DEF HandleClientClose
      <4>2. \A f \in {User, Call("schedule", 0)} : f.do \in {"user", "schedule"}
        BY <3>1, UserFrames
      <4>3. \E f \in {User, Call("schedule", 0)} : f.do = "schedule"
        BY <3>1
      <4> QED BY <3>2, <4>1, <4>2, <4>3
    <3> QED BY <3>3, <3>4
  <2>4. Continued(r)
    <3>1. \A f \in Members(r) : f.do \notin Beginning \cup Attempting
      BY <2>3 DEF Attempting, Beginning
    <3> QED BY <1>2, <2>3, <3>1, PlainOn
  <2>5. session[s] = "suspended" => ~connecting
    BY <1>4, <1>5, <1>7 DEF ClientInv, IInv
  <2>6. retained = None
    BY <1>4, <1>5, <1>7 DEF ClientInv, IInv
  <2>7. Types'
    <3>1. client' \in 0..MaxAttempts /\ retained' \in 0..MaxAttempts
      BY <1>4, <2>1 DEF None, Sessions, ReconnectAssumption
    <3>2. stack' \in Seq(Frame)
      BY <2>4 DEF Continued
    <3>3. ready' \in {"pending", "resolved", "rejected"}
      BY <2>2 DEF Types, IInv
    <3> QED BY <1>3, <2>1, <3>1, <3>2, <3>3 DEF Types, IInv
  <2>8. FlagsInv'
    BY <1>3, <2>1, <2>2 DEF FlagsInv, IInv
  <2>9. AttemptInv' /\ SessionInv'
    BY <1>3 DEF AttemptInv, AttemptOK, SessionInv, Begun, IInv
  <2>10. ClientInv'
    BY <1>3, <1>4, <2>1, <2>5 DEF ClientInv, Begun
  <2>11. On("release")' <=> On("release")
    BY <1>2, <2>3, <2>4 DEF Continued, Passed
  <2>12. StackInv'
    <3>1. ASSUME NEW f \in Members(Tail(stack)) PROVE FrameKept(f)
      <4>1. f.do = "release" => closeRequested \/ connecting
        BY <1>2, <2>4, <3>1 DEF Continued, Passed, FrameOK, Beginning
      <4>2. Len(attempt) \in Nat
        BY DEF Types, IInv
      <4>3. \A u : Call("terminate", u) \in Members(stack) => Call("terminate", u) \in Members(stack)'
        BY <1>2, <2>4, TerminatesStay
      <4> QED BY <1>3, <2>1, <2>11, <4>1, <4>2, <4>3 DEF FrameKept, Begun, Live
    <3>2. ASSUME NEW f \in Members(r) PROVE FrameOK(f)'
      <4>1. CASE f.do = "user"
        BY <4>1, SimpleFrames
      <4>2. CASE f.do = "schedule"
        BY <2>1, <4>2 DEF FrameOK
      <4> QED BY <2>3, <4>1, <4>2
    <3> QED BY <2>4, <2>7, <3>1, <3>2, StackStays DEF IInv
  <2>13. OwnerInv'
    <3>1. \A u : Call("terminate", u) \in Members(stack) => Call("terminate", u) \in Members(stack)'
      BY <1>2, <2>4, TerminatesStay
    <3>2. Live(s) => retained' = s
      BY <1>4, <2>1 DEF Live, Begun
    <3> QED BY <1>3, <1>5, <1>7, <2>6, <3>1, <3>2 DEF OwnerInv, Live, AttemptOwns, IInv
  <2>14. CloseInv'
    BY <1>3, <1>4, <1>5, <1>7, <2>11 DEF CloseInv, IInv
  <2>15. WaitInv'
    <3>1. On("await")' => On("await")
      BY <2>3, <2>4 DEF Continued, Passed
    <3>2. ~closeRequested => On("schedule")'
      BY <2>3, <2>4 DEF Continued, Passed, On
    <3> QED BY <1>3, <2>2, <3>1, <3>2 DEF WaitInv, Coming, IInv
  <2> QED BY <2>7, <2>8, <2>9, <2>10, <2>12, <2>13, <2>14, <2>15 DEF IInv
<1> QED BY <1>6, <1>7

LEMMA DisconnectReleasesKeeps ==
  ASSUME ReconnectAssumption, IInv, DisconnectReleases
  PROVE  IInv'
<1>1. ~Idle /\ Head(stack).do = "release" /\ FrameOK(Head(stack))
  BY HeadOK DEF DisconnectReleases
<1>2. /\ UNCHANGED <<policy, closeRequested, connecting, timer, wake, ready, waiting, current, attempt, session>>
      /\ client' = None /\ retained' = None /\ late' = FALSE
  BY DEF DisconnectReleases, TakeRetained
<1>3. None \notin Sessions
  BY DEF None, Sessions, ReconnectAssumption
<1>4. PICK c \in 0..MaxAttempts, k \in 0..MaxAttempts : c = client /\ k = retained
  BY DEF Types, IInv
<1>5. /\ c # None => k = None /\ c \in Sessions /\ Begun(c)
      /\ k # None => k \in Sessions /\ Begun(k)
  BY <1>4 DEF ClientInv, Types, IInv, Sessions, None, ReconnectAssumption
<1>6. PICK r \in Seq(Frame) :
        /\ Continue(r)
        /\ \A f \in Members(r) :
             \/ f.do \in {"user", "rotate"}
             \/ f.do = "terminate" /\ f.of # None /\ f.of \in {c, k}
        /\ c # None => Call("terminate", c) \in Members(r)
        /\ k # None => Call("terminate", k) \in Members(r)
  <2>1. PICK p \in Seq(Frame) :
          /\ p = IF retained = client THEN <<>> ELSE Abandoned
          /\ Members(p) = IF k = None \/ k = c THEN {} ELSE {Call("terminate", k)}
    <3>1. /\ Calls("terminate", k) \in Seq(Frame)
          /\ Members(Calls("terminate", k)) = IF k = None THEN {} ELSE {Call("terminate", k)}
      BY <1>4, CallsFrames
    <3>2. CASE k = c
      BY <1>4, <3>2, UserFrames
    <3>3. CASE k # c
      BY <1>4, <3>1, <3>3 DEF Abandoned
    <3> QED BY <3>2, <3>3
  <2>2. PICK q \in Seq(Frame) : q = <<Call("rotate", 0)>> /\ Members(q) = {Call("rotate", 0)}
    <3>1. Call("rotate", 0) \in Frame
      BY DEF Call, Frame, ReconnectAssumption
    <3>2. <<Call("rotate", 0)>> \in Seq(Frame) /\ Members(<<Call("rotate", 0)>>) = {Call("rotate", 0)}
      BY <3>1, MembersLiteral
    <3> QED BY <3>2
  <2>3. PICK d \in Seq(Frame) :
          /\ d = Calls("terminate", client)
          /\ Members(d) = IF c = None THEN {} ELSE {Call("terminate", c)}
    BY <1>4, CallsFrames
  <2>4. PICK u \in Seq(Frame) : u = <<User>> /\ Members(u) = {User}
    BY UserFrames
  <2>5. Continue(p \o q \o d \o u)
    BY <2>1, <2>2, <2>3, <2>4 DEF DisconnectReleases
  <2>6. PICK pq \in Seq(Frame) : pq = p \o q /\ Members(pq) = Members(p) \cup Members(q)
    BY FramesConcat
  <2>7. PICK pqd \in Seq(Frame) : pqd = pq \o d /\ Members(pqd) = Members(pq) \cup Members(d)
    BY FramesConcat
  <2>8. PICK r \in Seq(Frame) : r = pqd \o u /\ Members(r) = Members(pqd) \cup Members(u)
    BY FramesConcat
  <2>9. Continue(r)
    BY <2>5, <2>6, <2>7, <2>8
  <2>10. Members(r) = Members(p) \cup {Call("rotate", 0)} \cup Members(d) \cup {User}
    BY <2>2, <2>4, <2>6, <2>7, <2>8
  <2>11. ASSUME NEW f \in Members(r)
         PROVE  \/ f.do \in {"user", "rotate"}
                \/ f.do = "terminate" /\ f.of # None /\ f.of \in {c, k}
    <3>1. CASE f \in Members(p)
      BY <2>1, <3>1, FrameForm
    <3>2. CASE f \in Members(d)
      BY <2>3, <3>2, FrameForm
    <3>3. CASE f \in {User, Call("rotate", 0)}
      BY <3>3, FrameForm DEF User
    <3> QED BY <2>10, <2>11, <3>1, <3>2, <3>3
  <2>12. c # None => Call("terminate", c) \in Members(r)
    BY <2>3, <2>10
  <2>13. k # None => Call("terminate", k) \in Members(r)
    BY <1>5, <2>1, <2>10
  <2> QED BY <2>9, <2>11, <2>12, <2>13
<1>7. Continued(r)
  <2>1. \A f \in Members(r) : f.do \notin Beginning \cup Attempting
    BY <1>6 DEF Attempting, Beginning
  <2> QED BY <1>1, <1>6, <2>1, PlainOn
<1>8. closeRequested \/ connecting
  BY <1>1, <1>7 DEF FrameOK, Continued, Passed, Beginning
<1>9. Types'
  <2>1. client' = 0 /\ retained' = 0 /\ stack' \in Seq(Frame)
    BY <1>2, <1>7 DEF None, Continued
  <2>2. client' \in 0..MaxAttempts /\ retained' \in 0..MaxAttempts
    BY <2>1 DEF ReconnectAssumption
  <2> QED BY <1>2, <2>1, <2>2 DEF Types, IInv
<1>10. FlagsInv'
  BY <1>2 DEF FlagsInv, IInv
<1>11. AttemptInv' /\ SessionInv'
  BY <1>2 DEF AttemptInv, AttemptOK, SessionInv, Begun, IInv
<1>12. ClientInv'
  BY <1>2 DEF ClientInv
<1>13. StackInv'
  <2>1. ASSUME NEW f \in Members(Tail(stack)) PROVE FrameKept(f)
    <3>1. On("release")' => On("release")
      BY <1>6, <1>7 DEF Continued, Passed
    <3>2. Len(attempt) \in Nat
      BY DEF Types, IInv
    <3>3. \A u : Call("terminate", u) \in Members(stack) => Call("terminate", u) \in Members(stack)'
      BY <1>1, <1>7, TerminatesStay
    <3> QED BY <1>2, <1>8, <3>1, <3>2, <3>3 DEF FrameKept, Begun, Live
  <2>2. ASSUME NEW f \in Members(r) PROVE FrameOK(f)'
    <3>1. CASE f.do \in {"user", "rotate"}
      BY <3>1, SimpleFrames
    <3>2. CASE f.do = "terminate" /\ f.of # None /\ f.of \in {c, k}
      <4>1. f.of \in Sessions /\ Begun(f.of)
        BY <1>5, <3>2
      <4> QED BY <1>2, <3>2, <4>1 DEF FrameOK, Begun
    <3> QED BY <1>6, <3>1, <3>2
  <2> QED BY <1>7, <1>9, <2>1, <2>2, StackStays DEF IInv
<1>14. OwnerInv'
  <2>1. \A u : Call("terminate", u) \in Members(stack) => Call("terminate", u) \in Members(stack)'
    BY <1>1, <1>7, TerminatesStay
  <2>2. /\ c # None => Call("terminate", c) \in Members(stack)'
        /\ k # None => Call("terminate", k) \in Members(stack)'
    BY <1>6, <1>7 DEF Continued, Passed
  <2> QED BY <1>2, <1>3, <1>4, <2>1, <2>2 DEF OwnerInv, Live, AttemptOwns, IInv
<1>15. CloseInv'
  BY <1>2 DEF CloseInv
<1>16. WaitInv'
  <2>1. On("await")' => On("await")
    BY <1>6, <1>7 DEF Continued, Passed
  <2> QED BY <1>2, <1>8, <2>1 DEF WaitInv, Coming, IInv
<1> QED BY <1>9, <1>10, <1>11, <1>12, <1>13, <1>14, <1>15, <1>16 DEF IInv

\* abortConnect and openConnection.
LEMMA AbortedForm ==
  ASSUME Types
  PROVE  /\ Aborted \in Seq(Attempt) /\ Len(Aborted) = Len(attempt)
         /\ \A t \in 1..Len(attempt) :
              /\ Aborted[t].stage = attempt[t].stage /\ Aborted[t].session = attempt[t].session
              /\ Aborted[t].aborted = (attempt[t].aborted \/ (connecting /\ t = current))
         /\ ~connecting => Aborted = attempt
<1> DEFINE new(t) == IF connecting /\ t = current THEN [attempt[t] EXCEPT !.aborted = TRUE] ELSE attempt[t]
<1>1. attempt \in Seq(Attempt) /\ Len(attempt) \in Nat /\ DOMAIN attempt = 1..Len(attempt)
  BY DEF Types
<1>2. Aborted = [t \in 1..Len(attempt) |-> new(t)]
  BY <1>1 DEF Aborted
<1>3. ASSUME NEW t \in 1..Len(attempt)
      PROVE  /\ new(t) \in Attempt /\ new(t).stage = attempt[t].stage /\ new(t).session = attempt[t].session
             /\ new(t).aborted = (attempt[t].aborted \/ (connecting /\ t = current))
  <2>1. attempt[t] \in Attempt
    BY <1>1
  <2>2. CASE connecting /\ t = current
    <3>1. new(t) = [attempt[t] EXCEPT !.aborted = TRUE]
      BY <2>2
    <3>2. /\ new(t) \in Attempt /\ new(t).stage = attempt[t].stage /\ new(t).session = attempt[t].session
          /\ new(t).aborted = TRUE
      BY <2>1, <3>1 DEF Attempt
    <3> QED BY <2>2, <3>2
  <2>3. CASE ~(connecting /\ t = current)
    <3>1. new(t) = attempt[t]
      BY <2>3
    <3>2. attempt[t].aborted \in BOOLEAN
      BY <2>1 DEF Attempt
    <3> QED BY <2>1, <2>3, <3>1, <3>2
  <2> QED BY <2>2, <2>3
<1> HIDE DEF new
<1>4. Aborted \in Seq(Attempt) /\ Len(Aborted) = Len(attempt)
  BY <1>1, <1>2, <1>3
<1>5. \A t \in 1..Len(attempt) : Aborted[t] = new(t)
  BY <1>1, <1>2
<1>6. ~connecting => Aborted = attempt
  <2>1. SUFFICES ASSUME ~connecting PROVE Aborted = attempt
    OBVIOUS
  <2>2. \A t \in 1..Len(attempt) : new(t) = attempt[t]
    BY <2>1 DEF new
  <2>3. attempt = [t \in 1..Len(attempt) |-> attempt[t]]
    BY <1>1
  <2> QED BY <1>2, <2>2, <2>3
<1> QED BY <1>3, <1>4, <1>5, <1>6

LEMMA OpenConnectionKeeps ==
  ASSUME ReconnectAssumption, IInv, OpenConnection
  PROVE  IInv'
<1>1. PICK t \in Nat : t = Len(attempt) + 1
  BY DEF Types, IInv
<1>2. /\ ~Idle /\ Head(stack).do \in Beginning /\ FrameOK(Head(stack))
      /\ Do("reconnect") \in BOOLEAN
  BY HeadOK DEF OpenConnection, Beginning, Do
<1>3. ~closeRequested /\ ~connecting /\ ~timer /\ ready = "pending" /\ ~Connected
  BY <1>2 DEF FrameOK, Beginning
<1>4. /\ UNCHANGED <<policy, closeRequested, client, timer, wake, ready, waiting, retained, late, session>>
      /\ connecting' = TRUE /\ current' = t /\ Len(attempt) < MaxAttempts
      /\ Continue(<<User, Call("start", t)>>)
  BY <1>1 DEF OpenConnection, coordinator
<1>5. attempt \in Seq(Attempt) /\ Len(attempt) \in Nat /\ t \in Sessions /\ t \in 0..MaxAttempts
  BY <1>1, <1>4 DEF Types, IInv, Sessions, ReconnectAssumption
<1>6. /\ attempt' \in Seq(Attempt) /\ Len(attempt') = t
      /\ attempt'[t].stage = "new" /\ ~attempt'[t].aborted
      /\ \A u \in 1..Len(attempt) : attempt'[u] = attempt[u] /\ u # t
  <2>1. Aborted = attempt
    BY <1>3, AbortedForm DEF IInv
  <2>2. PICK n : n = New(Do("reconnect"))
    OBVIOUS
  <2>3. n \in Attempt /\ n.stage = "new" /\ n.aborted = FALSE
    BY <1>2, <2>2 DEF New, Attempt, Stages, None, ReconnectAssumption
  <2>4. attempt' = Append(attempt, n)
    BY <2>1, <2>2 DEF OpenConnection
  <2>5. attempt' \in Seq(Attempt) /\ Len(attempt') = t /\ attempt'[t] = n
    BY <1>1, <1>5, <2>3, <2>4
  <2>6. \A u \in 1..Len(attempt) : attempt'[u] = attempt[u] /\ u # t
    BY <1>1, <1>5, <2>3, <2>4
  <2> QED BY <2>3, <2>5, <2>6
<1>7. PICK r \in Seq(Frame) :
        /\ r = <<User, Call("start", t)>> /\ Apart(r) /\ Members(r) = {User, Call("start", t)}
  <2>1. Call("start", t) \in Frame
    BY <1>5 DEF Call, Frame
  <2>2. User.do \notin Attempting
    BY UserFrames DEF Attempting
  <2> QED BY <2>1, <2>2, UserFrames, ApartPair
<1>8. \A f \in Members(r) : f.do \in {"user", "start"} /\ (f.do = "start" => f.of = t)
  BY <1>7, FrameForm DEF User
<1>9. Continued(r)
  <2>2. Continue(r)
    BY <1>4, <1>7
  <2>3. \A f \in Members(r) : f.do \notin Beginning
    BY <1>8 DEF Beginning
  <2>4. \A f \in Members(r) : f.do \in Attempting => f.of > Len(attempt)
    BY <1>1, <1>5, <1>8 DEF Attempting
  <2> QED BY <1>2, <1>7, <2>2, <2>3, <2>4, Onward DEF IInv, Continued
<1>10. Types'
  <2>1. Len(attempt') <= MaxAttempts /\ current' \in 0..Len(attempt') /\ stack' \in Seq(Frame)
    BY <1>1, <1>4, <1>5, <1>6, <1>9 DEF Continued, ReconnectAssumption
  <2> QED BY <1>4, <1>6, <2>1 DEF Types, IInv
<1>11. FlagsInv'
  <2>1. t # None
    BY <1>1, <1>5 DEF None
  <2> QED BY <1>3, <1>4, <2>1 DEF FlagsInv, IInv
<1>12. AttemptInv'
  <2>1. SUFFICES ASSUME NEW u \in 1..Len(attempt') PROVE AttemptOK(u)'
    BY DEF AttemptInv
  <2>2. CASE u = t
    BY <1>4, <1>6, <2>2 DEF AttemptOK
  <2>3. CASE u # t
    <3>1. u \in 1..Len(attempt)
      BY <1>1, <1>5, <1>6, <2>3
    <3>2. AttemptOK(u) /\ attempt'[u] = attempt[u] /\ u # t
      BY <1>6, <3>1 DEF AttemptInv, IInv
    <3>3. attempt[u].stage # "done" => attempt[u].aborted
      BY <1>3, <3>2 DEF AttemptOK
    <3> QED BY <1>4, <3>2, <3>3 DEF AttemptOK, Begun
  <2> QED BY <2>2, <2>3
<1>13. SessionInv'
  <2>1. \A s \in 1..Len(attempt) : s \in 1..Len(attempt')
    BY <1>1, <1>5, <1>6
  <2> QED BY <1>4, <1>6, <2>1 DEF SessionInv, IInv
<1>14. ClientInv'
  <2>1. \A of : Call("closed", of) \in Members(stack) => Call("closed", of) \in Members(stack)'
    BY <1>2, <1>9, FrameForm DEF Continued, Passed, Beginning
  <2>2. ~(client # None /\ session[client] = "suspended")
    BY <1>2, FrameForm DEF ClientInv, Beginning, IInv
  <2>3. Call("fresh", t) \notin Members(stack)'
    <3>1. SUFFICES ASSUME Call("fresh", t) \in Members(stack)' PROVE FALSE
      OBVIOUS
    <3>2. Call("fresh", t) \in Members(Tail(stack))
      BY <1>8, <1>9, <3>1, FrameForm DEF Continued, Passed
    <3>3. FrameOK(Call("fresh", t))
      BY <1>9, <3>2 DEF Continued, Passed
    <3>4. t \in 1..Len(attempt)
      BY <3>3, FrameForm DEF FrameOK
    <3> QED BY <1>6, <3>4
  <2>4. connecting' /\ client' # None => session'[client'] # "active"
    BY <1>3, <1>4 DEF Connected
  <2> QED BY <1>4, <1>6, <2>1, <2>2, <2>3, <2>4 DEF ClientInv, Begun, IInv
<1>15. StackInv'
  <2>1. ASSUME NEW f \in Members(Tail(stack)) PROVE FrameKept(f)
    <3>1. FrameOK(f)
      BY <1>9, <2>1 DEF Continued, Passed
    <3>2. f.do \in {"connected", "resolve"} => f.of # t
      BY <1>6, <3>1 DEF FrameOK
    <3>3. Len(attempt) <= Len(attempt')
      BY <1>1, <1>5, <1>6
    <3>4. f.do \in Attempting => attempt'[f.of] = attempt[f.of]
      BY <1>6, <3>1 DEF FrameOK, Attempting
    <3>5. \A u : Call("terminate", u) \in Members(stack) => Call("terminate", u) \in Members(stack)'
      BY <1>2, <1>9, TerminatesStay DEF Beginning
    <3> QED BY <1>4, <3>2, <3>3, <3>4, <3>5 DEF FrameKept, Begun, Live
  <2>2. ASSUME NEW f \in Members(r) PROVE FrameOK(f)'
    <3>1. CASE f.do = "user"
      BY <3>1, SimpleFrames
    <3>2. CASE f.do = "start"
      <4>1. f.of = t /\ t \in 1..Len(attempt')
        BY <1>1, <1>5, <1>6, <1>8, <3>2
      <4> QED BY <1>6, <3>2, <4>1 DEF FrameOK
    <3> QED BY <1>8, <3>1, <3>2
  <2> QED BY <1>9, <1>10, <2>1, <2>2, StackStays DEF IInv
<1>16. OwnerInv'
  <2>1. \A s : AttemptOwns(s) => AttemptOwns(s)'
    <3>1. \A u \in 1..Len(attempt) : u \in 1..Len(attempt')
      BY <1>1, <1>5, <1>6
    <3>2. DOMAIN attempt = 1..Len(attempt) /\ DOMAIN attempt' = 1..Len(attempt')
      BY <1>5, <1>6
    <3> QED BY <1>6, <3>1, <3>2 DEF AttemptOwns
  <2> QED BY <1>2, <1>4, <1>9, <2>1, OwnerStays DEF IInv, Beginning
<1>17. CloseInv'
  BY <1>3, <1>4 DEF CloseInv
<1>18. WaitInv'
  BY <1>3, <1>4 DEF WaitInv, Coming
<1> QED BY <1>10, <1>11, <1>12, <1>13, <1>14, <1>15, <1>16, <1>17, <1>18 DEF IInv

\* Application code calls a method.
Pushed(r) ==
  /\ stack' \in Seq(Frame) /\ Apart(stack)'
  /\ (stack # <<>> => \A f \in Members(Tail(stack)) : f.do \notin Beginning)'
  /\ \A f \in Members(stack) :
       /\ f \in Members(stack)' /\ f \in Frame /\ FrameOK(f) /\ f.do \notin Beginning
       /\ f.do = "terminate" => stack # <<f>>
  /\ \A f \in Members(stack)' : f \in Members(r) \/ f \in Members(stack)
  /\ \A f \in Members(r) : f \in Members(stack)'
  /\ \A do : On(do) => On(do)'
  /\ \A do : On(do)' => On(do) \/ \E f \in Members(r) : f.do = do
  /\ ~Begins
  /\ \A s : ~(stack # <<>> /\ Head(stack) = Call("closed", s))

LEMMA TailConcat ==
  ASSUME NEW r \in Seq(Frame), r # <<>>, NEW s \in Seq(Frame)
  PROVE  Members(Tail(r \o s)) \subseteq Members(Tail(r)) \cup Members(s)
<1> DEFINE c == r \o s
<1>1. /\ Len(c) = Len(r) + Len(s) /\ Len(r) \in Nat /\ Len(s) \in Nat /\ Len(r) > 0
      /\ \A i \in 1..Len(r) : c[i] = r[i]
      /\ \A i \in Len(r) + 1..Len(r) + Len(s) : c[i] = s[i - Len(r)]
      /\ c \in Seq(Frame) /\ c # <<>>
  OBVIOUS
<1> HIDE DEF c
<1>2. SUFFICES ASSUME NEW i \in 1..Len(Tail(c)) PROVE Tail(c)[i] \in Members(Tail(r)) \cup Members(s)
  BY DEF Members, c
<1>3. i \in Nat /\ Len(Tail(c)) = Len(c) - 1 /\ i + 1 \in 1..Len(c) /\ Tail(c)[i] = c[i + 1]
  BY <1>1, <1>2
<1>4. CASE i + 1 \in 1..Len(r)
  <2>1. i \in 1..Len(Tail(r)) /\ Tail(r)[i] = r[i + 1]
    BY <1>3, <1>4
  <2> QED BY <1>1, <1>3, <1>4, <2>1 DEF Members
<1>5. CASE i + 1 \in Len(r) + 1..Len(r) + Len(s)
  <2>1. i + 1 - Len(r) \in 1..Len(s) /\ c[i + 1] = s[i + 1 - Len(r)]
    BY <1>1, <1>3, <1>5
  <2> QED BY <1>3, <2>1 DEF Members
<1> QED BY <1>1, <1>3, <1>4, <1>5

LEMMA Onto ==
  ASSUME Types, StackInv, Idle \/ Do("user"), NEW r \in Seq(Frame), r # <<>>, stack' = r \o stack,
         \A f \in Members(r) : f.do \notin Attempting,
         \A f \in Members(Tail(r)) : f.do \notin Beginning
  PROVE  Pushed(r)
<1>1. stack \in Seq(Frame) /\ attempt \in Seq(Attempt)
  BY DEF Types
<1>2. /\ Members(stack) \subseteq Frame
      /\ stack # <<>> => Head(stack).do = "user" /\ Members(stack) = {Head(stack)} \cup Members(Tail(stack))
  BY <1>1, MembersOf DEF Idle, Do
<1>3. \A f \in Members(stack) : f.do \notin Beginning
  <2>1. CASE stack = <<>>
    BY <2>1, MembersLiteral
  <2>2. CASE stack # <<>>
    BY <1>2, <2>2 DEF StackInv, Beginning
  <2> QED BY <2>1, <2>2
<1>4. stack' \in Seq(Frame) /\ Members(stack') = Members(r) \cup Members(stack)
  BY <1>1, MembersConcat
<1>5. Apart(r)
  BY ApartPlain DEF Plain
<1>6. Apart(stack')
  <2>1. Apart(r \o stack)
    BY <1>1, <1>5, ApartConcat DEF StackInv
  <2> QED BY <2>1
<1>7. stack' # <<>> => \A f \in Members(Tail(stack')) : f.do \notin Beginning
  <2>1. Members(Tail(r \o stack)) \subseteq Members(Tail(r)) \cup Members(stack)
    BY <1>1, TailConcat
  <2> QED BY <1>3, <2>1
<1>8. ~Begins
  BY <1>3 DEF Begins, On, Beginning
<1>9. \A s : ~(stack # <<>> /\ Head(stack) = Call("closed", s))
  BY <1>2, FrameForm
<1>10. ASSUME NEW f \in Members(stack), f.do = "terminate" PROVE stack # <<f>>
  <2>1. SUFFICES ASSUME stack = <<f>> PROVE FALSE
    OBVIOUS
  <2>2. stack # <<>> /\ Head(stack) = f
    BY <2>1
  <2> QED BY <1>2, <1>10, <2>2
<1>11. \A f \in Members(stack) : FrameOK(f)
  BY DEF StackInv
<1>12. \A do : On(do) => On(do)'
  BY <1>4 DEF On
<1>13. \A do : On(do)' => On(do) \/ \E f \in Members(r) : f.do = do
  BY <1>4 DEF On
<1> QED BY <1>2, <1>3, <1>4, <1>6, <1>7, <1>8, <1>9, <1>10, <1>11, <1>12, <1>13 DEF Pushed

LEMMA StackPushed ==
  ASSUME ReconnectAssumption, Types, Types', AttemptInv, NEW r, Pushed(r),
         \A f \in Members(stack) : FrameKept(f),
         \A f \in Members(r) : FrameOK(f)'
  PROVE  StackInv'
<1>1. ASSUME NEW f \in Members(stack) PROVE FrameOK(f)'
  <2>1. f \in Frame /\ FrameOK(f) /\ f.do \notin Beginning /\ (f.do = "terminate" => stack # <<f>>)
    BY <1>1 DEF Pushed
  <2>2. attempt' \in Seq(Attempt)
    BY DEF Types
  <2> QED BY <1>1, <2>1, <2>2, FrameStays
<1>2. \A f \in Members(stack)' : f \in Members(r) \/ f \in Members(stack)
  BY DEF Pushed
<1>3. \A f \in Members(stack)' : FrameOK(f)'
  BY <1>1, <1>2
<1> QED BY <1>3 DEF StackInv, Pushed

\* A session that is neither opened nor ended keeps its owner when
\* application code calls a method.
LEMMA OwnerPushed ==
  ASSUME OwnerInv, NEW r, Pushed(r), UNCHANGED <<client, retained, session>>,
         \A s : AttemptOwns(s) => AttemptOwns(s)'
  PROVE  OwnerInv'
BY DEF OwnerInv, Live, Pushed

LEMMA ConnectKeeps ==
  ASSUME ReconnectAssumption, IInv, Connect
  PROVE  IInv'
<1>1. /\ UNCHANGED <<policy, client, connecting, timer, waiting, current, attempt, retained, late, session>>
      /\ ~Connected /\ (Idle \/ Do("user"))
  BY DEF Connect, UserRuns, coordinator
<1>2. Call("await", 0) \in Frame /\ Call("connect", 0) \in Frame
  BY DEF Call, Frame, ReconnectAssumption
<1>3. PICK r \in Seq(Frame) :
        /\ r # <<>> /\ stack' = r \o stack
        /\ \A f \in Members(Tail(r)) : f.do \notin Beginning
        /\ \/ /\ connecting \/ timer
              /\ UNCHANGED <<closeRequested, wake, ready>>
              /\ Members(r) = {Call("await", 0)}
           \/ /\ ~connecting /\ ~timer
              /\ closeRequested' = FALSE /\ wake' = TRUE /\ ready' = "pending"
              /\ Members(r) = {Call("connect", 0), Call("await", 0)}
  <2>1. CASE connecting \/ timer
    <3>1. PICK r \in Seq(Frame) : r = <<Call("await", 0)>> /\ Members(r) = {Call("await", 0)}
      BY <1>2, FrameSequences
    <3>2. r # <<>> /\ Tail(r) = <<>>
      BY <3>1
    <3>3. stack' = r \o stack /\ UNCHANGED <<closeRequested, wake, ready>>
      BY <2>1, <3>1 DEF Connect
    <3>4. \A f \in Members(Tail(r)) : f.do \notin Beginning
      BY <3>2, MembersLiteral
    <3> QED BY <2>1, <3>1, <3>2, <3>3, <3>4
  <2>2. CASE ~(connecting \/ timer)
    <3>1. PICK r \in Seq(Frame) : /\ r = <<Call("connect", 0), Call("await", 0)>>
                                  /\ Members(r) = {Call("connect", 0), Call("await", 0)}
      BY <1>2, FrameSequences
    <3>2. r # <<>> /\ Tail(r) = <<Call("await", 0)>>
      BY <1>2, <3>1
    <3>3. /\ stack' = r \o stack
          /\ closeRequested' = FALSE /\ wake' = TRUE /\ ready' = "pending"
      BY <2>2, <3>1 DEF Connect
    <3>4. Members(Tail(r)) = {Call("await", 0)} /\ Call("await", 0).do = "await"
      BY <3>2, MembersLiteral, FrameForm
    <3>5. \A f \in Members(Tail(r)) : f.do \notin Beginning
      BY <3>4 DEF Beginning
    <3> QED BY <2>2, <3>1, <3>2, <3>3, <3>5
  <2> QED BY <2>1, <2>2
<1>4. \A f \in Members(r) : f.do \in {"connect", "await"} /\ (f.do = "connect" => ~connecting /\ ~timer)
  BY <1>3, FrameForm
<1>5. Pushed(r)
  <2>1. \A f \in Members(r) : f.do \notin Attempting
    BY <1>4 DEF Attempting
  <2> QED BY <1>1, <1>3, <2>1, Onto DEF IInv
<1>6. \/ /\ connecting \/ timer
         /\ UNCHANGED <<closeRequested, wake, ready>> /\ ~closeRequested
      \/ /\ ~connecting /\ ~timer
         /\ closeRequested' = FALSE /\ wake' = TRUE /\ ready' = "pending" /\ Begins'
  <2>1. ~connecting /\ ~timer => Begins'
    <3>1. SUFFICES ASSUME ~connecting /\ ~timer PROVE Begins'
      OBVIOUS
    <3>2. Call("connect", 0) \in Members(stack)'
      BY <1>3, <1>5, <3>1 DEF Pushed
    <3> QED BY <3>2, FrameForm DEF Begins, On
  <2>2. connecting \/ timer => ~closeRequested
    BY DEF FlagsInv, IInv
  <2> QED BY <1>3, <2>1, <2>2
<1>7. closeRequested' = FALSE /\ ready' = "pending"
  BY <1>6 DEF FlagsInv, IInv
<1>8. Types'
  <2>1. wake' \in BOOLEAN
    BY <1>6 DEF Types, IInv
  <2> QED BY <1>1, <1>5, <1>7, <2>1 DEF Types, IInv, Pushed
<1>9. FlagsInv'
  BY <1>1, <1>7 DEF FlagsInv, IInv
<1>10. AttemptInv' /\ SessionInv'
  BY <1>1 DEF AttemptInv, AttemptOK, SessionInv, Begun, IInv
<1>11. ClientInv'
  <2>1. ~(client # None /\ session[client] = "suspended")
    BY <1>5 DEF ClientInv, Pushed, IInv
  <2>2. \A of : Call("closed", of) \in Members(stack) => Call("closed", of) \in Members(stack)'
    BY <1>5 DEF Pushed
  <2>3. \A of : Call("fresh", of) \in Members(stack)' => Call("fresh", of) \in Members(stack)
    BY <1>4, <1>5, FrameForm DEF Pushed
  <2> QED BY <1>1, <2>1, <2>2, <2>3 DEF ClientInv, Begun, IInv
<1>12. StackInv'
  <2>1. ASSUME NEW f \in Members(stack) PROVE FrameKept(f)
    <3>1. On("release")' => On("release")
      BY <1>4, <1>5 DEF Pushed
    <3>2. f.do = "release" => connecting' \/ Begins'
      <4>1. f.do = "release" => closeRequested \/ connecting
        BY <1>5, <2>1 DEF Pushed, FrameOK
      <4>2. closeRequested => Begins'
        BY <1>6
      <4> QED BY <1>1, <4>1, <4>2
    <3>3. Len(attempt) \in Nat
      BY DEF Types, IInv
    <3>4. \A s : Call("terminate", s) \in Members(stack) => Call("terminate", s) \in Members(stack)'
      BY <1>5 DEF Pushed
    <3> QED BY <1>1, <3>1, <3>2, <3>3, <3>4 DEF FrameKept, Begun, Live
  <2>2. ASSUME NEW f \in Members(r) PROVE FrameOK(f)'
    <3>1. CASE f.do = "await"
      BY <3>1, SimpleFrames
    <3>2. CASE f.do = "connect"
      <4>1. ~connecting' /\ ~timer' /\ ~Connected'
        BY <1>1, <1>4, <3>2 DEF Connected
      <4> QED BY <1>7, <3>2, <4>1 DEF FrameOK
    <3> QED BY <1>4, <3>1, <3>2
  <2> QED BY <1>5, <1>8, <2>1, <2>2, StackPushed DEF IInv
<1>13. OwnerInv'
  BY <1>1, <1>5, OwnerPushed DEF IInv, AttemptOwns
<1>14. CloseInv'
  BY <1>7 DEF CloseInv
<1>15. WaitInv'
  <2>1. connecting' \/ timer' \/ Begins'
    BY <1>1, <1>6
  <2> QED BY <1>7, <2>1 DEF WaitInv, Coming
<1> QED BY <1>8, <1>9, <1>10, <1>11, <1>12, <1>13, <1>14, <1>15 DEF IInv

LEMMA DisconnectKeeps ==
  ASSUME ReconnectAssumption, IInv, Disconnect
  PROVE  IInv'
<1>1. /\ UNCHANGED <<policy, client, retained, late, session>>
      /\ closeRequested' = TRUE /\ current' = None /\ attempt' = Aborted
      /\ connecting' = FALSE /\ timer' = FALSE /\ wake' = FALSE /\ waiting' = FALSE
      /\ ready' = IF ready = "pending" THEN "rejected" ELSE ready
      /\ Idle \/ Do("user")
  BY DEF Disconnect, UserRuns, coordinator
<1>2. ready' \in {"resolved", "rejected"}
  BY <1>1 DEF Types, IInv
<1>3. /\ attempt' \in Seq(Attempt) /\ Len(attempt') = Len(attempt)
      /\ \A t \in 1..Len(attempt) :
           /\ attempt'[t].stage = attempt[t].stage /\ attempt'[t].session = attempt[t].session
           /\ attempt'[t].aborted = (attempt[t].aborted \/ (connecting /\ t = current))
  BY <1>1, AbortedForm DEF IInv
<1>4. attempt \in Seq(Attempt) /\ Len(attempt) \in Nat
  BY DEF Types, IInv
<1>5. PICK r \in Seq(Frame) :
        /\ r # <<>> /\ stack' = r \o stack
        /\ \A f \in Members(r) : f.do \in {"user", "release"}
        /\ Call("release", 0) \in Members(r)
  <2>1. Call("release", 0) \in Frame
    BY DEF Call, Frame, ReconnectAssumption
  <2>2. PICK p \in Seq(Frame) : p = (IF waiting THEN <<User>> ELSE <<>>) /\ Members(p) \subseteq {User}
    BY UserFrames
  <2>3. PICK q \in Seq(Frame) : q = <<Call("release", 0)>> /\ Members(q) = {Call("release", 0)}
    BY <2>1, FrameSequences
  <2>4. PICK r \in Seq(Frame) : r = p \o q /\ Members(r) = Members(p) \cup Members(q)
    BY FramesConcat
  <2>5. stack' = p \o q \o stack
    BY <2>2, <2>3 DEF Disconnect
  <2>6. r # <<>>
    BY <2>3, <2>4, MembersLiteral
  <2>7. \A f \in Members(r) : f.do \in {"user", "release"}
    BY <2>2, <2>3, <2>4, FrameForm DEF User
  <2> QED BY <2>3, <2>4, <2>5, <2>6, <2>7
<1>6. Pushed(r)
  <2>1. \A f \in Members(r) : f.do \notin Attempting /\ f.do \notin Beginning
    BY <1>5 DEF Attempting, Beginning
  <2>2. Members(Tail(r)) \subseteq Members(r)
    BY <1>5, MembersOf
  <2>3. \A f \in Members(Tail(r)) : f.do \notin Beginning
    BY <2>1, <2>2
  <2> QED BY <1>1, <1>5, <2>1, <2>3, Onto DEF IInv
<1>7. Types'
  <2>1. current' \in 0..Len(attempt') /\ stack' \in Seq(Frame)
    BY <1>1, <1>3, <1>4, <1>6 DEF None, Pushed
  <2>2. ready' \in {"pending", "resolved", "rejected"}
    BY <1>2
  <2> QED BY <1>1, <1>3, <2>1, <2>2 DEF Types, IInv
<1>8. FlagsInv'
  BY <1>1 DEF FlagsInv
<1>9. AttemptInv'
  <2>1. SUFFICES ASSUME NEW u \in 1..Len(attempt) PROVE AttemptOK(u)'
    BY <1>3 DEF AttemptInv
  <2>2. AttemptOK(u)
    BY DEF AttemptInv, IInv
  <2>3. u # None
    BY DEF None
  <2>4. attempt'[u].stage # "done" => attempt'[u].aborted
    BY <1>3, <2>2 DEF AttemptOK
  <2>5. attempt[u].stage \in {"resuming", "notResumed", "resumed", "opened"} =>
          attempt[u].session \in Sessions /\ session[attempt[u].session] \in {"active", "suspended", "over"}
    BY <2>2 DEF AttemptOK, Begun
  <2> QED BY <1>1, <1>3, <2>2, <2>3, <2>4, <2>5 DEF AttemptOK, Begun
<1>10. SessionInv'
  BY <1>1, <1>3 DEF SessionInv, IInv
<1>11. ClientInv'
  <2>1. ~(client # None /\ session[client] = "suspended")
    BY <1>6 DEF ClientInv, Pushed, IInv
  <2>2. \A of : Call("closed", of) \in Members(stack) => Call("closed", of) \in Members(stack)'
    BY <1>6 DEF Pushed
  <2> QED BY <1>1, <2>1, <2>2 DEF ClientInv, Begun, IInv
<1>12. On("release")'
  <2>1. Call("release", 0) \in Members(stack)'
    BY <1>5, <1>6 DEF Pushed
  <2> QED BY <2>1, FrameForm DEF On
<1>13. StackInv'
  <2>1. ASSUME NEW f \in Members(stack) PROVE FrameKept(f)
    <3>1. FrameOK(f)
      BY <1>6, <2>1 DEF Pushed
    <3>2. f.do \in {"connected", "resolve"} => f.of # current'
      BY <1>1, <3>1 DEF FrameOK, None
    <3>3. f.do \in Attempting => f.of \in 1..Len(attempt)
      BY <3>1 DEF FrameOK, Attempting
    <3>4. \A s : Call("terminate", s) \in Members(stack) => Call("terminate", s) \in Members(stack)'
      BY <1>6 DEF Pushed
    <3> QED BY <1>1, <1>3, <1>4, <3>2, <3>3, <3>4 DEF FrameKept, Begun, Live
  <2>2. ASSUME NEW f \in Members(r) PROVE FrameOK(f)'
    <3>1. CASE f.do = "user"
      BY <3>1, SimpleFrames
    <3>2. CASE f.do = "release"
      BY <1>1, <3>2 DEF FrameOK
    <3> QED BY <1>5, <3>1, <3>2
  <2> QED BY <1>6, <1>7, <2>1, <2>2, StackPushed DEF IInv
<1>14. OwnerInv'
  <2>1. \A s : AttemptOwns(s) => AttemptOwns(s)'
    BY <1>3, <1>4 DEF AttemptOwns
  <2> QED BY <1>1, <1>6, <2>1, OwnerPushed DEF IInv
<1>15. CloseInv'
  BY <1>12 DEF CloseInv
<1>16. WaitInv'
  BY <1>1, <1>2 DEF WaitInv
<1> QED BY <1>7, <1>8, <1>9, <1>10, <1>11, <1>13, <1>14, <1>15, <1>16 DEF IInv

LEMMA DeadlinePassesKeeps ==
  ASSUME ReconnectAssumption, IInv, DeadlinePasses
  PROVE  IInv'
<1>1. late' = TRUE /\ UNCHANGED <<policy, facade, attempt, retained, session, stack>>
  BY DEF DeadlinePasses
<1> USE DEF facade
<1>2. Types'
  BY <1>1 DEF Types, IInv
<1>3. FlagsInv' /\ AttemptInv' /\ SessionInv'
  BY <1>1 DEF FlagsInv, AttemptInv, AttemptOK, SessionInv, Begun, IInv
<1>4. ClientInv' /\ OwnerInv' /\ CloseInv'
  BY <1>1 DEF ClientInv, OwnerInv, CloseInv, Begun, Live, AttemptOwns, On, IInv
<1>5. StackInv'
  <2>1. \A f : FrameOK(f) => FrameOK(f)'
    BY <1>1 DEF FrameOK, On, Begins, Connected, Begun, Live
  <2> QED BY <1>1, <2>1 DEF StackInv, IInv
<1>6. WaitInv'
  BY <1>1 DEF WaitInv, Coming, News, On, Begins, Connected, IInv
<1> QED BY <1>2, <1>3, <1>4, <1>5, <1>6 DEF IInv

-------------------------------------------------------------------------------
(***************************************************************************)
(* The event loop: no method is under way, so nothing is missing.          *)
(***************************************************************************)
LEMMA AtRest ==
  ASSUME ReconnectAssumption, IInv, Idle
  PROVE  /\ Members(stack) = {} /\ ~Begins /\ \A do : ~On(do)
         /\ client # None => session[client] = "active" /\ ~connecting /\ ~timer /\ client \in Sessions
         /\ client # None => retained = None
         /\ closeRequested => client = None /\ retained = None
         /\ closeRequested /\ ready = "pending" => ~waiting
         /\ waiting /\ ready = "pending" => connecting \/ timer
         /\ ~closeRequested /\ policy # "none" => client # None \/ connecting \/ timer
         /\ retained # None => retained \in Sessions /\ Begun(retained)
         /\ \A s \in Sessions : Live(s) => client = s \/ retained = s \/ AttemptOwns(s)
<1>1. stack = <<>> /\ Members(stack) = {}
  BY MembersLiteral DEF Idle
<1>2. \A do : ~On(do)
  BY <1>1 DEF On
<1>3. ~Begins
  BY <1>2 DEF Begins
<1>4. ~News
  BY <1>1 DEF News
<1>5. ~Coming \/ connecting \/ timer
  BY <1>1, <1>2, <1>3, <1>4 DEF Coming
<1>6. client # None => session[client] = "active" /\ ~connecting /\ ~timer /\ client \in Sessions
  BY <1>1 DEF ClientInv, FlagsInv, Types, IInv, Sessions, None, ReconnectAssumption
<1>7. retained # None => retained \in Sessions /\ Begun(retained)
  BY DEF ClientInv, Types, IInv, Sessions, None, ReconnectAssumption
<1>8. client # None => retained = None
  BY DEF ClientInv, IInv
<1>9. closeRequested => client = None /\ retained = None
  BY <1>2 DEF CloseInv, IInv
<1>10. /\ closeRequested /\ ready = "pending" => ~waiting
       /\ waiting /\ ready = "pending" => connecting \/ timer
       /\ ~closeRequested /\ policy # "none" => client # None \/ connecting \/ timer
  BY <1>2, <1>3, <1>5 DEF WaitInv, IInv
<1>11. \A s \in Sessions : Live(s) => client = s \/ retained = s \/ AttemptOwns(s)
  BY <1>1 DEF OwnerInv, IInv
<1> QED BY <1>1, <1>2, <1>3, <1>6, <1>7, <1>8, <1>9, <1>10, <1>11

\* The stack when the event loop has called a method.
Started(r) ==
  /\ Idle /\ stack' = r /\ Members(stack)' = Members(r)
  /\ stack' \in Seq(Frame) /\ Apart(stack)'
  /\ (stack # <<>> => \A f \in Members(Tail(stack)) : f.do \notin Beginning)'
  /\ \A do : On(do)' <=> \E f \in Members(r) : f.do = do

LEMMA Starts ==
  ASSUME IInv, NEW r \in Seq(Frame), Begin(r), Apart(r),
         \A f \in Members(r) : f.do \notin Beginning
  PROVE  Started(r)
<1>1. /\ stack' \in Seq(Frame) /\ Apart(stack)' /\ stack' = r /\ Members(stack)' = Members(r)
      /\ (stack # <<>> => \A f \in Members(Tail(stack)) : f.do \notin Beginning)'
  BY Outset DEF IInv
<1> QED BY <1>1 DEF Started, On, Begin

\* A step of an attempt that leaves the facade as it is.
LEMMA PromiseKeeps ==
  ASSUME ReconnectAssumption, IInv, NEW r, Started(r),
         UNCHANGED <<policy, facade>>, retained' \in {None, retained}, late' \in BOOLEAN,
         attempt' \in Seq(Attempt), Len(attempt') = Len(attempt),
         session' \in [Sessions -> {"none", "opening", "active", "suspended", "over"}],
         AttemptInv', SessionInv', ClientInv', OwnerInv',
         \A f \in Members(r) : FrameOK(f)' /\ f.do \notin {"await", "release"}
  PROVE  IInv'
<1> USE DEF facade
<1>1. Idle
  BY DEF Started
<1>2. Types'
  <2>1. retained' \in 0..MaxAttempts
    BY DEF Types, IInv, None, ReconnectAssumption
  <2> QED BY <2>1 DEF Types, IInv, Started
<1>3. FlagsInv'
  BY DEF FlagsInv, IInv
<1>4. StackInv'
  BY DEF StackInv, Started
<1>5. CloseInv'
  BY <1>1, AtRest DEF CloseInv
<1>6. WaitInv'
  <2>1. ~On("await")'
    BY DEF Started
  <2>2. /\ closeRequested /\ ready = "pending" => ~waiting
        /\ waiting /\ ready = "pending" => connecting \/ timer
        /\ ~closeRequested /\ policy # "none" => client # None \/ connecting \/ timer
    BY <1>1, AtRest
  <2> QED BY <2>1, <2>2 DEF WaitInv, Coming
<1> QED BY <1>2, <1>3, <1>4, <1>5, <1>6 DEF IInv

\* One attempt changes, and it keeps its part of the invariant.
Alone(t) ==
  /\ attempt' \in Seq(Attempt) /\ Len(attempt') = Len(attempt)
  /\ \A u \in 1..Len(attempt) : u # t => attempt'[u] = attempt[u]

LEMMA AloneAttempts ==
  ASSUME AttemptInv, Types, NEW t \in 1..Len(attempt), Alone(t), AttemptOK(t)',
         UNCHANGED <<current, connecting>>,
         \A u \in 1..Len(attempt) : u # t /\ attempt[u].stage = "connecting" => session'[u] = session[u],
         \A s \in Sessions : Begun(s) => Begun(s)'
  PROVE  AttemptInv'
<1>1. ASSUME NEW u \in 1..Len(attempt) PROVE AttemptOK(u)'
  <2>1. CASE u = t
    BY <2>1
  <2>2. CASE u # t
    <3>1. AttemptOK(u) /\ attempt'[u] = attempt[u]
      BY <2>2 DEF AttemptInv, Alone
    <3> QED BY <2>2, <3>1, AttemptStays
  <2> QED BY <2>1, <2>2
<1> QED BY <1>1 DEF AttemptInv, Alone

Owning == {"connecting", "resumed", "opened"}

LEMMA AloneOwns ==
  ASSUME Types, NEW t \in 1..Len(attempt), Alone(t)
  PROVE  /\ \A s : AttemptOwns(s) =>
              AttemptOwns(s)' \/ (s = attempt[t].session /\ attempt[t].stage \in Owning)
         /\ \A s : s = attempt'[t].session /\ attempt'[t].stage \in Owning => AttemptOwns(s)'
<1>1. DOMAIN attempt = 1..Len(attempt) /\ DOMAIN attempt' = 1..Len(attempt)
  BY DEF Types, Alone
<1>2. ASSUME NEW s, AttemptOwns(s), ~(s = attempt[t].session /\ attempt[t].stage \in Owning)
      PROVE  AttemptOwns(s)'
  <2>1. PICK u \in 1..Len(attempt) : attempt[u].session = s /\ attempt[u].stage \in Owning
    BY <1>1, <1>2 DEF AttemptOwns, Owning
  <2>2. u # t
    BY <1>2, <2>1
  <2>3. attempt'[u] = attempt[u]
    BY <2>2 DEF Alone
  <2> QED BY <1>1, <2>1, <2>3 DEF AttemptOwns, Owning
<1>3. ASSUME NEW s, s = attempt'[t].session, attempt'[t].stage \in Owning
      PROVE  AttemptOwns(s)'
  BY <1>1, <1>3 DEF AttemptOwns, Owning
<1> QED BY <1>2, <1>3

\* The client and the retained session while the event loop serves an attempt.
LEMMA ClientAtRest ==
  ASSUME ReconnectAssumption, IInv, Idle, UNCHANGED <<client, connecting, current>>,
         retained' \in {None, retained},
         client # None => session'[client] = "active",
         retained' # None => Begun(retained)',
         retained' # None /\ connecting =>
           /\ attempt'[current].stage \notin {"connecting", "opened"}
           /\ Call("fresh", current) \notin Members(stack)'
  PROVE  ClientInv'
<1>1. client # None => ~connecting /\ retained = None
  BY AtRest
<1> QED BY <1>1 DEF ClientInv, Begun

LEMMA StageOfAttempt ==
  ASSUME IInv, NEW t, NEW y, AtStage(t, y)
  PROVE  /\ t \in 1..Len(attempt) /\ attempt[t].stage = y /\ t \in Sessions /\ t \in 0..MaxAttempts
         /\ AttemptOK(t) /\ attempt \in Seq(Attempt) /\ attempt[t] \in Attempt
         /\ Len(attempt) \in Nat
<1>1. attempt \in Seq(Attempt) /\ Len(attempt) \in Nat /\ Len(attempt) <= MaxAttempts
  BY DEF Types, IInv
<1>2. t \in 1..Len(attempt) /\ attempt[t].stage = y
  BY <1>1 DEF AtStage
<1>3. t \in Sessions /\ t \in 0..MaxAttempts
  BY <1>1, <1>2, ReconnectAssumption DEF Sessions, ReconnectAssumption
<1>4. attempt[t] \in Attempt /\ AttemptOK(t)
  BY <1>1, <1>2 DEF AttemptInv, IInv
<1> QED BY <1>1, <1>2, <1>3, <1>4

\* An attempt has waited and may go on, or has been aborted.
LEMMA WaitedKeeps ==
  ASSUME ReconnectAssumption, IInv, NEW t, NEW y \in {"offline", "loading"}, AtStage(t, y),
         NEW x \in {"failed", "loading", "opening"}, ToStage(t, x),
         NEW r \in {<<>>, <<Call("open", t)>>}, Begin(r), r # <<>> => x = "opening",
         UNCHANGED <<policy, facade, coordinator, session, calls>>
  PROVE  IInv'
<1>1. /\ t \in 1..Len(attempt) /\ attempt[t].stage = y /\ t \in Sessions /\ t \in 0..MaxAttempts
      /\ AttemptOK(t) /\ attempt \in Seq(Attempt)
  BY StageOfAttempt
<1>2. StageMoved(t, x)
  BY <1>1, StageMoves DEF Stages
<1>3. Alone(t)
  BY <1>2 DEF Alone, StageMoved
<1>4. /\ r \in Seq(Frame) /\ Apart(r)
      /\ \A f \in Members(r) : f.do = "open" /\ f.of = t /\ x = "opening"
  <2>1. Call("open", t) \in Frame
    BY <1>1 DEF Frame, Call
  <2>2. <<>> \in Seq(Frame) /\ Apart(<<>>) /\ Members(<<>>) = {}
    BY MembersLiteral DEF Apart
  <2>3. /\ <<Call("open", t)>> \in Seq(Frame) /\ Apart(<<Call("open", t)>>)
        /\ Members(<<Call("open", t)>>) = {Call("open", t)}
    BY <2>1, ApartOne, MembersLiteral
  <2>4. Call("open", t).do = "open" /\ Call("open", t).of = t
    BY FrameForm
  <2>5. CASE r = <<>>
    BY <2>2, <2>5
  <2>6. CASE r # <<>>
    <3>1. r = <<Call("open", t)>> /\ x = "opening"
      BY <2>6
    <3> QED BY <2>3, <2>4, <3>1
  <2> QED BY <2>5, <2>6
<1>5. Started(r)
  <2>1. \A f \in Members(r) : f.do \notin Beginning
    BY <1>4 DEF Beginning
  <2> QED BY <1>4, <2>1, Starts
<1>6. Idle
  BY DEF Begin
<1> USE DEF facade, coordinator
<1>7. AttemptInv'
  <2>1. AttemptOK(t)'
    BY <1>1, <1>2 DEF AttemptOK, StageMoved
  <2> QED BY <1>1, <1>3, <2>1, AloneAttempts DEF IInv, Begun
<1>8. SessionInv'
  BY <1>1, <1>2 DEF SessionInv, StageMoved, IInv
<1>9. ClientInv'
  <2>1. client # None => session'[client] = "active"
    BY <1>6, AtRest
  <2>2. retained' # None => Begun(retained)'
    BY <1>6, AtRest DEF Begun
  <2>3. ASSUME retained # None, connecting
        PROVE  /\ attempt'[current].stage \notin {"connecting", "opened"}
               /\ Call("fresh", current) \notin Members(stack)'
    <3>1. current \in 1..Len(attempt) /\ attempt[current].stage \notin {"connecting", "opened"}
      BY <2>3 DEF ClientInv, Types, FlagsInv, IInv, None
    <3>2. attempt'[current].stage \notin {"connecting", "opened"}
      BY <1>2, <3>1 DEF StageMoved
    <3>3. Call("fresh", current) \notin Members(stack)'
      BY <1>4, <1>5, FrameForm DEF Started
    <3> QED BY <3>2, <3>3
  <2> QED BY <1>6, <2>1, <2>2, <2>3, ClientAtRest
<1>10. OwnerInv'
  <2>1. \A s : AttemptOwns(s) => AttemptOwns(s)'
    BY <1>1, <1>3, AloneOwns DEF Owning, IInv
  <2> QED BY <1>6, <2>1, AtRest DEF OwnerInv, Live
<1>11. \A f \in Members(r) : FrameOK(f)' /\ f.do \notin {"await", "release"}
  BY <1>1, <1>2, <1>4 DEF FrameOK, StageMoved
<1>12. /\ late' \in BOOLEAN
       /\ session' \in [Sessions -> {"none", "opening", "active", "suspended", "over"}]
  BY DEF Types, IInv
<1> QED BY <1>3, <1>5, <1>7, <1>8, <1>9, <1>10, <1>11, <1>12, PromiseKeeps DEF Alone

LEMMA AvailableKeeps ==
  ASSUME ReconnectAssumption, IInv, NEW t, Available(t)
  PROVE  IInv'
<1>1. PICK x \in {"failed", "loading", "opening"}, r \in {<<>>, <<Call("open", t)>>} :
        ToStage(t, x) /\ Begin(r) /\ (r # <<>> => x = "opening")
  BY DEF Available
<1>2. AtStage(t, "offline") /\ UNCHANGED <<policy, facade, coordinator, session, calls>>
  BY DEF Available
<1> QED BY <1>1, <1>2, WaitedKeeps

LEMMA ProvidedKeeps ==
  ASSUME ReconnectAssumption, IInv, NEW t, Provided(t)
  PROVE  IInv'
<1>1. /\ AtStage(t, "loading") /\ UNCHANGED <<policy, facade, coordinator, session, calls>>
      /\ ToStage(t, "opening") /\ Begin(<<Call("open", t)>>)
  BY DEF Provided
<1> QED BY <1>1, WaitedKeeps

\* The session of an attempt changes, or only what the attempt is waiting for.
LEMMA SettledKeeps ==
  ASSUME ReconnectAssumption, IInv, NEW t, NEW y, AtStage(t, y), y # "done",
         NEW x, x \notin {"done", "connecting"}, StageMoved(t, x), Begin(<<>>),
         x \in {"opened", "failed"} \/ y = "resuming",
         x = "opened" => y = "connecting",
         UNCHANGED <<policy, facade, retained, late>>,
         NEW w \in Sessions, w = attempt[t].session, Begun(w)', session[w] # "none",
         session[w] = "opening" => w = t,
         w = client => session'[w] = "active",
         Live(w)' => x \in Owning \/ (Live(w) /\ y \notin Owning),
         session' \in [Sessions -> {"none", "opening", "active", "suspended", "over"}],
         \A s \in Sessions : s # w => session'[s] = session[s]
  PROVE  IInv'
<1>1. /\ t \in 1..Len(attempt) /\ attempt[t].stage = y /\ t \in Sessions
      /\ AttemptOK(t) /\ attempt \in Seq(Attempt)
  BY StageOfAttempt
<1>2. Alone(t)
  BY DEF Alone, StageMoved
<1>3. Started(<<>>) /\ Idle /\ Members(<<>>) = {}
  <2>1. <<>> \in Seq(Frame) /\ Apart(<<>>) /\ Members(<<>>) = {}
    BY MembersLiteral DEF Apart
  <2> QED BY <2>1, Starts DEF Begin
<1> USE DEF facade
<1>4. \A s \in Sessions : Begun(s) => Begun(s)'
  BY DEF Begun
<1>5. AttemptInv'
  <2>1. AttemptOK(t)'
    BY <1>1 DEF AttemptOK, StageMoved
  <2>2. ASSUME NEW u \in 1..Len(attempt), u # t, attempt[u].stage = "connecting"
        PROVE  session'[u] = session[u]
    <3>1. u \in Sessions /\ session[u] = "opening"
      BY <2>2 DEF AttemptInv, AttemptOK, Types, IInv, Sessions, ReconnectAssumption
    <3> QED BY <2>2, <3>1
  <2> QED BY <1>1, <1>2, <1>4, <2>1, <2>2, AloneAttempts DEF IInv
<1>6. SessionInv'
  <2>1. ASSUME NEW s \in Sessions, session'[s] # "none"
        PROVE  s \in 1..Len(attempt') /\ attempt'[s].stage \in {"connecting", "opened", "failed", "done"}
    <3>1. session[s] # "none"
      BY <2>1
    <3>2. s \in 1..Len(attempt) /\ attempt[s].stage \in {"connecting", "opened", "failed", "done"}
      BY <3>1 DEF SessionInv, IInv
    <3>3. CASE s = t
      BY <1>1, <3>2, <3>3 DEF StageMoved
    <3>4. CASE s # t
      BY <3>2, <3>4 DEF StageMoved
    <3> QED BY <3>3, <3>4
  <2> QED BY <2>1 DEF SessionInv
<1>7. ClientInv'
  <2>1. client # None => session'[client] = "active"
    BY <1>3, AtRest
  <2>2. retained' # None => Begun(retained)'
    BY <1>3, <1>4, AtRest
  <2>3. ASSUME retained' # None, connecting
        PROVE  /\ attempt'[current].stage \notin {"connecting", "opened"}
               /\ Call("fresh", current) \notin Members(stack)'
    <3>1. current \in 1..Len(attempt) /\ attempt[current].stage \notin {"connecting", "opened"}
      BY <2>3 DEF ClientInv, Types, FlagsInv, IInv, None
    <3>2. attempt'[current].stage \notin {"connecting", "opened"}
      BY <1>1, <3>1 DEF StageMoved
    <3>3. Call("fresh", current) \notin Members(stack)'
      BY <1>3 DEF Started
    <3> QED BY <3>2, <3>3
  <2>4. retained' \in {None, retained}
    OBVIOUS
  <2> QED BY <1>3, <2>1, <2>2, <2>3, <2>4, ClientAtRest
<1>8. OwnerInv'
  <2>1. ASSUME NEW s \in Sessions, Live(s)'
        PROVE  client = s \/ retained = s \/ AttemptOwns(s)'
    <3>1. CASE x \in Owning /\ s = w
      <4>1. s = attempt'[t].session /\ attempt'[t].stage \in Owning
        BY <3>1 DEF StageMoved
      <4> QED BY <1>1, <1>2, <4>1, AloneOwns DEF IInv
    <3>2. CASE ~(x \in Owning /\ s = w)
      <4>1. Live(s) /\ ~(s = w /\ y \in Owning)
        BY <2>1, <3>2 DEF Live
      <4>2. client = s \/ retained = s \/ AttemptOwns(s)
        BY <1>3, <4>1, AtRest
      <4>3. AttemptOwns(s) => AttemptOwns(s)'
        BY <1>1, <1>2, <4>1, AloneOwns DEF IInv
      <4> QED BY <4>2, <4>3
    <3> QED BY <3>1, <3>2
  <2> QED BY <2>1 DEF OwnerInv
<1>9. \A f \in Members(<<>>) : FrameOK(f)' /\ f.do \notin {"await", "release"}
  BY <1>3
<1>10. late' \in BOOLEAN /\ retained' \in {None, retained}
  BY DEF Types, IInv
<1> QED BY <1>2, <1>3, <1>5, <1>6, <1>7, <1>8, <1>9, <1>10, PromiseKeeps DEF Alone

LEMMA ConnectSucceedsKeeps ==
  ASSUME ReconnectAssumption, IInv, NEW t, ConnectSucceeds(t)
  PROVE  IInv'
<1>1. /\ AtStage(t, "connecting") /\ Begin(<<>>) /\ session' = [session EXCEPT ![t] = "active"]
      /\ ToStage(t, "opened") /\ UNCHANGED <<policy, facade, retained, late>>
  BY DEF ConnectSucceeds, coordinator
<1>2. /\ t \in 1..Len(attempt) /\ attempt[t].stage = "connecting" /\ t \in Sessions
      /\ AttemptOK(t) /\ attempt \in Seq(Attempt)
  BY <1>1, StageOfAttempt
<1>3. StageMoved(t, "opened")
  BY <1>1, <1>2, StageMoves DEF Stages
<1>4. t = attempt[t].session /\ session[t] = "opening"
  BY <1>2 DEF AttemptOK
<1>5. session \in [Sessions -> {"none", "opening", "active", "suspended", "over"}]
  BY DEF Types, IInv
<1>6. /\ session' \in [Sessions -> {"none", "opening", "active", "suspended", "over"}]
      /\ session'[t] = "active" /\ \A s \in Sessions : s # t => session'[s] = session[s]
  BY <1>1, <1>2, <1>5
<1>7. Begun(t)' /\ session[t] # "none" /\ "opened" \in Owning
  BY <1>4, <1>6 DEF Begun, Owning
<1> QED BY <1>1, <1>2, <1>3, <1>4, <1>6, <1>7, SettledKeeps

LEMMA ConnectFailsKeeps ==
  ASSUME ReconnectAssumption, IInv, NEW t, ConnectFails(t)
  PROVE  IInv'
<1>1. /\ AtStage(t, "connecting") /\ Begin(<<>>) /\ session' = [session EXCEPT ![t] = "over"]
      /\ ToStage(t, "failed") /\ UNCHANGED <<policy, facade, retained, late>>
  BY DEF ConnectFails
<1>2. /\ t \in 1..Len(attempt) /\ attempt[t].stage = "connecting" /\ t \in Sessions
      /\ AttemptOK(t) /\ attempt \in Seq(Attempt)
  BY <1>1, StageOfAttempt
<1>3. StageMoved(t, "failed")
  BY <1>1, <1>2, StageMoves DEF Stages
<1>4. t = attempt[t].session /\ session[t] = "opening"
  BY <1>2 DEF AttemptOK
<1>5. session \in [Sessions -> {"none", "opening", "active", "suspended", "over"}]
  BY DEF Types, IInv
<1>6. /\ session' \in [Sessions -> {"none", "opening", "active", "suspended", "over"}]
      /\ session'[t] = "over" /\ \A s \in Sessions : s # t => session'[s] = session[s]
  BY <1>1, <1>2, <1>5
<1>7. Begun(t)' /\ session[t] # "none" /\ ~Live(t)'
  BY <1>4, <1>6 DEF Begun, Live
<1>8. t # client
  BY <1>1, <1>2, <1>4, AtRest DEF Begin, None, Sessions, ReconnectAssumption
<1> QED BY <1>1, <1>2, <1>3, <1>4, <1>6, <1>7, <1>8, SettledKeeps

LEMMA ResumeSucceedsKeeps ==
  ASSUME ReconnectAssumption, IInv, NEW t, ResumeSucceeds(t)
  PROVE  IInv'
<1>1. PICK w : w = attempt[t].session
  OBVIOUS
<1>2. /\ AtStage(t, "resuming") /\ Begin(<<>>) /\ session[w] = "suspended"
      /\ session' = [session EXCEPT ![w] = "active"]
      /\ ToStage(t, "resumed") /\ UNCHANGED <<policy, facade, retained, late>>
  BY <1>1 DEF ResumeSucceeds, coordinator
<1>3. /\ t \in 1..Len(attempt) /\ attempt[t].stage = "resuming" /\ t \in Sessions
      /\ AttemptOK(t) /\ attempt \in Seq(Attempt)
  BY <1>2, StageOfAttempt
<1>4. StageMoved(t, "resumed")
  BY <1>2, <1>3, StageMoves DEF Stages
<1>5. w \in Sessions
  BY <1>1, <1>3 DEF AttemptOK
<1>6. session \in [Sessions -> {"none", "opening", "active", "suspended", "over"}]
  BY DEF Types, IInv
<1>7. /\ session' \in [Sessions -> {"none", "opening", "active", "suspended", "over"}]
      /\ session'[w] = "active" /\ \A s \in Sessions : s # w => session'[s] = session[s]
  BY <1>2, <1>5, <1>6
<1>8. Begun(w)' /\ session[w] \notin {"none", "opening"} /\ "resumed" \in Owning
  BY <1>2, <1>7 DEF Begun, Owning
<1> QED BY <1>1, <1>2, <1>3, <1>4, <1>5, <1>7, <1>8, SettledKeeps

\* A Resume that has failed, or whose failure is not made up for.
LEMMA UnresumedKeeps ==
  ASSUME ReconnectAssumption, IInv, NEW t,
         NEW y \in {"resuming", "notResumed"}, AtStage(t, y),
         NEW x, x = IF y = "resuming" THEN "notResumed" ELSE "failed",
         StageMoved(t, x), Begin(<<>>), UNCHANGED <<policy, facade, retained, late, session>>
  PROVE  IInv'
<1>1. PICK w : w = attempt[t].session
  OBVIOUS
<1>2. w \in Sessions /\ Begun(w)
  BY <1>1, StageOfAttempt DEF AttemptOK
<1>3. /\ session' \in [Sessions -> {"none", "opening", "active", "suspended", "over"}]
      /\ \A s \in Sessions : session'[s] = session[s]
  BY DEF Types, IInv
<1>4. Begun(w)' /\ session[w] \notin {"none", "opening"} /\ (Live(w)' => Live(w)) /\ y \notin Owning
  BY <1>2, <1>3 DEF Begun, Live, Owning
<1>5. w = client => session'[w] = "active"
  BY <1>2, <1>3, AtRest DEF Begin, None, Sessions, ReconnectAssumption
<1>6. /\ y # "done" /\ x \notin {"done", "connecting", "opened"}
      /\ x \in {"opened", "failed"} \/ y = "resuming"
  OBVIOUS
<1> QED BY <1>1, <1>2, <1>3, <1>4, <1>5, <1>6, SettledKeeps

LEMMA ResumeFailsKeeps ==
  ASSUME ReconnectAssumption, IInv, NEW t, NEW cause \in {"broken", "rejected"}, ResumeFails(t, cause)
  PROVE  IInv'
<1>1. /\ AtStage(t, "resuming") /\ Begin(<<>>) /\ UNCHANGED <<policy, facade, retained, late, session>>
      /\ attempt' = [attempt EXCEPT ![t].stage = "notResumed", ![t].cause = cause]
  BY DEF ResumeFails, coordinator
<1>2. t \in 1..Len(attempt) /\ attempt \in Seq(Attempt) /\ attempt[t] \in Attempt
  BY <1>1, StageOfAttempt
<1>3. StageMoved(t, "notResumed")
  <2> DEFINE new == [attempt[t] EXCEPT !.stage = "notResumed", !.cause = cause]
  <2>1. attempt' = [attempt EXCEPT ![t] = new]
    BY <1>1
  <2>2. /\ new \in Attempt /\ new.stage = "notResumed" /\ new.session = attempt[t].session
        /\ new.aborted = attempt[t].aborted
    BY <1>2 DEF Attempt, Stages
  <2> HIDE DEF new
  <2>3. /\ attempt' \in Seq(Attempt) /\ Len(attempt') = Len(attempt) /\ attempt'[t] = new
        /\ \A u \in 1..Len(attempt) : u # t => attempt'[u] = attempt[u]
    BY <1>2, <2>1, <2>2
  <2> QED BY <2>2, <2>3 DEF StageMoved
<1> QED BY <1>1, <1>3, UnresumedKeeps

\* An attempt goes on to another stage: what holds of attempts and sessions.
LEMMA MovedParts ==
  ASSUME ReconnectAssumption, IInv, NEW t, NEW y, AtStage(t, y), y # "done",
         NEW x, x # "connecting", StageMoved(t, x), UNCHANGED <<current, session>>,
         connecting' = connecting \/ t = current,
         t = current => (connecting' <=> x # "done"), connecting' \in BOOLEAN,
         x \in {"resuming", "notResumed", "resumed", "opened"} =>
           y \in {"resuming", "notResumed", "resumed", "opened"},
         x \in {"opened", "failed", "done"} \/ y \notin {"connecting", "opened", "failed", "done"}
  PROVE  AttemptInv' /\ SessionInv'
<1>1. /\ t \in 1..Len(attempt) /\ attempt[t].stage = y /\ AttemptOK(t)
  BY StageOfAttempt
<1>2. AttemptInv'
  <2>1. SUFFICES ASSUME NEW u \in 1..Len(attempt) PROVE AttemptOK(u)'
    BY DEF AttemptInv, StageMoved
  <2>2. AttemptOK(u)
    BY DEF AttemptInv, IInv
  <2>3. CASE u = t
    BY <1>1, <2>3 DEF AttemptOK, StageMoved, Begun
  <2>4. CASE u # t
    <3>1. attempt'[u] = attempt[u]
      BY <2>4 DEF StageMoved
    <3>2. u = current => connecting' = connecting
      BY <2>4
    <3> QED BY <2>2, <3>1, <3>2 DEF AttemptOK, Begun
  <2> QED BY <2>3, <2>4
<1>3. SessionInv'
  BY <1>1 DEF SessionInv, StageMoved, IInv
<1> QED BY <1>2, <1>3

\* A session that its owner gives up is terminated at once.
LEMMA OneFrame ==
  ASSUME ReconnectAssumption, NEW do \in {"terminate", "closed"}, NEW s \in Sessions
  PROVE  /\ Call(do, s) \in Frame /\ <<Call(do, s)>> \in Seq(Frame) /\ Apart(<<Call(do, s)>>)
         /\ Members(<<Call(do, s)>>) = {Call(do, s)}
         /\ Call(do, s).do = do /\ Call(do, s).of = s
<1>1. Call(do, s) \in Frame
  BY DEF Frame, Call, Sessions, ReconnectAssumption
<1> QED BY <1>1, ApartOne, MembersLiteral, FrameForm

LEMMA ResumedAbortedKeeps ==
  ASSUME ReconnectAssumption, IInv, NEW t, Resumed(t), attempt[t].aborted
  PROVE  IInv'
<1>1. PICK s : s = attempt[t].session
  OBVIOUS
<1>2. /\ AtStage(t, "resumed") /\ retained' = (IF retained = s THEN None ELSE retained)
      /\ ToStage(t, "failed") /\ Begin(<<Call("terminate", s)>>)
      /\ late' = (late /\ retained' # None) /\ UNCHANGED <<policy, facade, session>>
  BY <1>1 DEF Resumed
<1>3. t \in 1..Len(attempt) /\ attempt[t].stage = "resumed" /\ AttemptOK(t) /\ attempt \in Seq(Attempt)
  BY <1>2, StageOfAttempt
<1>4. s \in Sessions /\ Begun(s)
  BY <1>1, <1>3 DEF AttemptOK
<1>5. StageMoved(t, "failed")
  BY <1>2, <1>3, StageMoves DEF Stages
<1>6. Alone(t)
  BY <1>5 DEF Alone, StageMoved
<1>7. PICK f : f = Call("terminate", s)
  OBVIOUS
<1>8. <<f>> \in Seq(Frame) /\ Apart(<<f>>) /\ Members(<<f>>) = {f} /\ f.do = "terminate" /\ f.of = s
  BY <1>4, <1>7, OneFrame
<1>9. Started(<<f>>) /\ Idle
  BY <1>2, <1>7, <1>8, Starts DEF Beginning, Begin
<1> USE DEF facade
<1>10. AttemptInv' /\ SessionInv'
  BY <1>2, <1>3, <1>5, MovedParts DEF AttemptOK, Types, IInv
<1>11. retained' \in {None, retained} /\ late' \in BOOLEAN
  BY <1>2 DEF Types, IInv
<1>12. ClientInv'
  <2>1. client # None => session'[client] = "active"
    BY <1>2, <1>9, AtRest
  <2>2. retained' # None => Begun(retained)'
    BY <1>2, <1>9, AtRest DEF Begun
  <2>3. ASSUME retained' # None, connecting
        PROVE  /\ attempt'[current].stage \notin {"connecting", "opened"}
               /\ Call("fresh", current) \notin Members(stack)'
    <3>1. retained # None
      BY <1>11, <2>3
    <3>2. current \in 1..Len(attempt) /\ attempt[current].stage \notin {"connecting", "opened"}
      BY <2>3, <3>1 DEF ClientInv, Types, FlagsInv, IInv, None
    <3>3. attempt'[current].stage \notin {"connecting", "opened"}
      BY <1>5, <3>2 DEF StageMoved
    <3>4. Call("fresh", current) \notin Members(stack)'
      BY <1>8, <1>9, FrameForm DEF Started
    <3> QED BY <3>3, <3>4
  <2> QED BY <1>2, <1>9, <1>11, <2>1, <2>2, <2>3, ClientAtRest
<1>13. OwnerInv'
  <2>1. ASSUME NEW q \in Sessions, Live(q)', q # s
        PROVE  client = q \/ retained' = q \/ AttemptOwns(q)'
    <3>1. Live(q)
      BY <1>2, <2>1 DEF Live
    <3>2. client = q \/ retained = q \/ AttemptOwns(q)
      BY <1>9, <3>1, AtRest
    <3>3. retained = q => retained' = q
      BY <1>2, <2>1
    <3>4. AttemptOwns(q) => AttemptOwns(q)'
      BY <1>1, <1>3, <1>6, <2>1, AloneOwns DEF IInv
    <3> QED BY <3>2, <3>3, <3>4
  <2>2. Call("terminate", s) \in Members(stack)'
    BY <1>7, <1>8, <1>9 DEF Started
  <2> QED BY <1>2, <2>1, <2>2 DEF OwnerInv
<1>14. \A g \in Members(<<f>>) : FrameOK(g)' /\ g.do \notin {"await", "release"}
  <2>1. FrameOK(f)'
    BY <1>2, <1>4, <1>8, <1>9 DEF FrameOK, Started, Begun
  <2> QED BY <1>8, <2>1
<1> QED BY <1>2, <1>6, <1>9, <1>10, <1>11, <1>12, <1>13, <1>14, PromiseKeeps DEF Alone, Types, IInv

\* An attempt that has not been aborted is the current one.
LEMMA Current ==
  ASSUME ReconnectAssumption, IInv, Idle, NEW t, NEW y, AtStage(t, y), y # "done", ~attempt[t].aborted
  PROVE  t = current /\ connecting /\ client = None
<1>1. t = current /\ connecting
  BY StageOfAttempt DEF AttemptOK
<1> QED BY <1>1, AtRest

LEMMA ResumedHeldKeeps ==
  ASSUME ReconnectAssumption, IInv, NEW t, Resumed(t), ~attempt[t].aborted,
         retained = attempt[t].session
  PROVE  IInv'
<1>1. PICK s : s = attempt[t].session
  OBVIOUS
<1>2. /\ AtStage(t, "resumed") /\ retained' = None /\ retained = s
      /\ ToStage(t, "opened") /\ Begin(<<>>)
      /\ late' = (late /\ retained' # None) /\ UNCHANGED <<policy, facade, session>>
  BY <1>1 DEF Resumed
<1>3. t \in 1..Len(attempt) /\ attempt[t].stage = "resumed" /\ AttemptOK(t) /\ attempt \in Seq(Attempt)
  BY <1>2, StageOfAttempt
<1>4. Idle /\ t = current /\ connecting /\ client = None
  BY <1>2, Current DEF Begin
<1>5. StageMoved(t, "opened")
  BY <1>2, <1>3, StageMoves DEF Stages
<1>6. Alone(t)
  BY <1>5 DEF Alone, StageMoved
<1>7. Started(<<>>) /\ Members(<<>>) = {}
  <2>1. <<>> \in Seq(Frame) /\ Apart(<<>>) /\ Members(<<>>) = {}
    BY MembersLiteral DEF Apart
  <2> QED BY <1>2, <2>1, Starts
<1> USE DEF facade
<1>8. AttemptInv' /\ SessionInv'
  BY <1>2, <1>3, <1>4, <1>5, MovedParts DEF Types, IInv
<1>9. ClientInv'
  BY <1>2, <1>4 DEF ClientInv
<1>10. OwnerInv'
  <2>1. ASSUME NEW q \in Sessions, Live(q)' PROVE AttemptOwns(q)'
    <3>1. Live(q)
      BY <1>2, <2>1 DEF Live
    <3>2. retained = q \/ AttemptOwns(q)
      BY <1>4, <3>1, AtRest DEF Sessions, None, ReconnectAssumption
    <3>3. AttemptOwns(s)'
      BY <1>1, <1>3, <1>5, <1>6, AloneOwns DEF StageMoved, Owning, IInv
    <3>4. q # s => AttemptOwns(q)'
      BY <1>1, <1>2, <1>3, <1>6, <3>2, AloneOwns DEF IInv
    <3> QED BY <3>3, <3>4
  <2> QED BY <2>1 DEF OwnerInv
<1>11. \A f \in Members(<<>>) : FrameOK(f)' /\ f.do \notin {"await", "release"}
  BY <1>7
<1>12. late' \in BOOLEAN
  BY <1>2 DEF Types, IInv
<1> QED BY <1>2, <1>6, <1>7, <1>8, <1>9, <1>10, <1>11, <1>12, PromiseKeeps DEF Alone, Types, IInv

\* A session that has been given up while it was resumed is replaced.
LEMMA ResumedLostKeeps ==
  ASSUME ReconnectAssumption, IInv, NEW t, Resumed(t), ~attempt[t].aborted,
         retained # attempt[t].session
  PROVE  IInv'
<1>1. PICK s : s = attempt[t].session
  OBVIOUS
<1>2. /\ AtStage(t, "resumed") /\ retained' = None
      /\ Begin(<<Call("terminate", s)>> \o Reset \o <<Call("fresh", t)>>) /\ UNCHANGED attempt
      /\ late' = (late /\ retained' # None) /\ UNCHANGED <<policy, facade, session>>
  BY <1>1 DEF Resumed
<1>3. /\ t \in 1..Len(attempt) /\ attempt[t].stage = "resumed" /\ AttemptOK(t)
      /\ attempt \in Seq(Attempt) /\ t \in 0..MaxAttempts
  BY <1>2, StageOfAttempt
<1>4. s \in Sessions /\ Begun(s)
  BY <1>1, <1>3 DEF AttemptOK
<1>5. Idle /\ t = current /\ connecting /\ client = None
  BY <1>2, Current DEF Begin
<1>6. PICK a \in Seq(Frame) : /\ a = <<Call("terminate", s)>> /\ Members(a) = {Call("terminate", s)}
  BY <1>4, OneFrame
<1>7. PICK p \in Seq(Frame) :
           /\ p = Reset
           /\ Members(p) = (IF retained = None THEN {} ELSE {Call("terminate", retained)})
                           \cup {Call("rotate", 0)}
           /\ \A f \in Members(p) : /\ f.do \in {"rotate", "terminate"}
                                    /\ f.do = "terminate" => f.of = retained /\ retained # None
  BY ResetFrames DEF Reset, IInv
<1>8. PICK q \in Seq(Frame) : q = a \o p /\ Members(q) = Members(a) \cup Members(p)
  BY FramesConcat
<1>9. Call("fresh", t) \in Frame
  BY <1>3 DEF Call, Frame
<1>10. \A f \in Members(q) : f.do \in {"rotate", "terminate"}
  BY <1>6, <1>7, <1>8, FrameForm
<1>11. PICK r \in Seq(Frame) : r = q \o <<Call("fresh", t)>> /\ Apart(r)
                               /\ Members(r) = Members(q) \cup {Call("fresh", t)}
  <2>1. \A f \in Members(q) : f.do \notin Attempting
    BY <1>10 DEF Attempting
  <2> QED BY <1>9, <2>1, LastFrame
<1>12. Begin(r)
  BY <1>2, <1>6, <1>7, <1>8, <1>11
<1>13. \A f \in Members(r) :
         \/ f = Call("fresh", t) /\ f.do = "fresh" /\ f.of = t
         \/ f.do = "rotate"
         \/ f.do = "terminate" /\ f.of \in {s, retained} /\ f.of # None
  <2>1. s # None
    BY <1>4 DEF Sessions, None, ReconnectAssumption
  <2>2. /\ Call("terminate", s).do = "terminate" /\ Call("terminate", s).of = s
        /\ Call("fresh", t).do = "fresh" /\ Call("fresh", t).of = t
    BY FrameForm
  <2>3. \A f \in Members(r) : f \in Members(a) \/ f \in Members(p) \/ f = Call("fresh", t)
    BY <1>8, <1>11
  <2>4. \A f \in Members(a) : f.do = "terminate" /\ f.of \in {s, retained} /\ f.of # None
    BY <1>6, <2>1, <2>2
  <2>5. \A f \in Members(p) :
           f.do = "rotate" \/ (f.do = "terminate" /\ f.of \in {s, retained} /\ f.of # None)
    BY <1>7
  <2> QED BY <2>2, <2>3, <2>4, <2>5
<1>14. Started(r)
  <2>1. \A f \in Members(r) : f.do \notin Beginning
    BY <1>13 DEF Beginning
  <2> QED BY <1>11, <1>12, <2>1, Starts
<1>15. /\ Call("terminate", s) \in Members(stack)'
       /\ retained # None => Call("terminate", retained) \in Members(stack)'
  BY <1>6, <1>7, <1>8, <1>11, <1>14 DEF Started
<1> USE DEF facade
<1>16. AttemptInv' /\ SessionInv'
  BY <1>2 DEF AttemptInv, AttemptOK, SessionInv, Begun, IInv
<1>17. ClientInv'
  BY <1>2, <1>5 DEF ClientInv
<1>18. OwnerInv'
  <2>1. ASSUME NEW w \in Sessions, Live(w)'
        PROVE  AttemptOwns(w)' \/ Call("terminate", w) \in Members(stack)'
    <3>1. Live(w)
      BY <1>2, <2>1 DEF Live
    <3>2. retained = w \/ AttemptOwns(w)
      BY <1>5, <3>1, AtRest DEF Sessions, None, ReconnectAssumption
    <3>3. AttemptOwns(w) => AttemptOwns(w)'
      BY <1>2 DEF AttemptOwns
    <3>4. w # None
      BY DEF Sessions, None, ReconnectAssumption
    <3> QED BY <1>15, <3>2, <3>3, <3>4
  <2> QED BY <2>1 DEF OwnerInv
<1>19. ASSUME NEW f \in Members(r) PROVE FrameOK(f)' /\ f.do \notin {"await", "release"}
  <2>1. CASE f = Call("fresh", t) /\ f.do = "fresh" /\ f.of = t
    BY <1>1, <1>2, <1>3, <1>15, <2>1 DEF FrameOK
  <2>2. CASE f.do = "rotate"
    BY <2>2, SimpleFrames
  <2>3. CASE f.do = "terminate" /\ f.of \in {s, retained} /\ f.of # None
    <3>1. f.of \in Sessions /\ Begun(f.of)
      BY <1>4, <1>5, <2>3, AtRest
    <3> QED BY <1>2, <1>5, <2>3, <3>1 DEF FrameOK, Begun
  <2> QED BY <1>13, <2>1, <2>2, <2>3
<1>20. late' \in BOOLEAN
  BY <1>2 DEF Types, IInv
<1> QED BY <1>2, <1>3, <1>14, <1>16, <1>17, <1>18, <1>19, <1>20, PromiseKeeps DEF Types, IInv

LEMMA ResumedKeeps ==
  ASSUME ReconnectAssumption, IInv, NEW t, Resumed(t)
  PROVE  IInv'
BY ResumedAbortedKeeps, ResumedHeldKeeps, ResumedLostKeeps

LEMMA NotResumedKeeps ==
  ASSUME ReconnectAssumption, IInv, NEW t, NotResumed(t)
  PROVE  IInv'
<1>1. AtStage(t, "notResumed") /\ UNCHANGED <<policy, facade, session>>
  BY DEF NotResumed
<1>2. /\ t \in 1..Len(attempt) /\ attempt[t].stage = "notResumed" /\ AttemptOK(t)
      /\ attempt \in Seq(Attempt) /\ t \in 0..MaxAttempts
  BY <1>1, StageOfAttempt
<1>3. CASE attempt[t].aborted \/ attempt[t].cause = "broken"
  <2>1. ToStage(t, "failed") /\ Begin(<<>>) /\ UNCHANGED <<retained, late>>
    BY <1>3 DEF NotResumed
  <2>2. StageMoved(t, "failed")
    BY <1>2, <2>1, StageMoves DEF Stages
  <2> QED BY <1>1, <2>1, <2>2, UnresumedKeeps
<1>4. CASE ~(attempt[t].aborted \/ attempt[t].cause = "broken")
  <2>1. /\ retained' = None /\ late' = FALSE /\ ToStage(t, "opening")
        /\ Begin(Reset \o <<User, Call("fresh", t)>>)
    BY <1>4 DEF NotResumed, TakeRetained
  <2>2. Idle /\ t = current /\ connecting /\ client = None
    BY <1>1, <1>4, <2>1, Current DEF Begin
  <2>3. StageMoved(t, "opening")
    BY <1>2, <2>1, StageMoves DEF Stages
  <2>4. Alone(t)
    BY <2>3 DEF Alone, StageMoved
  <2>5. PICK p \in Seq(Frame) :
           /\ p = Reset
           /\ Members(p) = (IF retained = None THEN {} ELSE {Call("terminate", retained)})
                           \cup {Call("rotate", 0)}
           /\ \A f \in Members(p) : /\ f.do \in {"rotate", "terminate"}
                                    /\ f.do = "terminate" => f.of = retained /\ retained # None
    BY ResetFrames DEF Reset, IInv
  <2>6. User \in Frame /\ Call("fresh", t) \in Frame /\ User.do = "user"
    BY <1>2, UserFrames DEF Call, Frame
  <2>7. PICK q \in Seq(Frame) : q = <<User, Call("fresh", t)>> /\ Apart(q)
                                /\ Members(q) = {User, Call("fresh", t)}
    <3>1. User.do \notin Attempting
      BY <2>6 DEF Attempting
    <3> QED BY <2>6, <3>1, ApartPair
  <2>8. PICK r \in Seq(Frame) : r = p \o q /\ Members(r) = Members(p) \cup Members(q)
    BY FramesConcat
  <2>9. Apart(r)
    <3>1. \A f \in Members(p) : f.do \notin Attempting
      BY <2>5 DEF Attempting
    <3>2. Apart(p)
      BY <3>1, ApartPlain DEF Plain
    <3>3. \A f \in Members(p) : \A g \in Members(q) :
             f.do \in Attempting /\ g.do \in Attempting => f.of # g.of
      BY <3>1
    <3>4. Apart(p \o q)
      BY <2>7, <3>2, <3>3, ApartConcat
    <3> QED BY <2>8, <3>4
  <2>10. Begin(r)
    BY <2>1, <2>5, <2>7, <2>8
  <2>11. \A f \in Members(r) :
         \/ f.do = "fresh" /\ f.of = t
         \/ f.do \in {"rotate", "user"}
         \/ f.do = "terminate" /\ f.of = retained /\ retained # None
    <3>1. Call("fresh", t).do = "fresh" /\ Call("fresh", t).of = t
      BY FrameForm
    <3>2. \A f \in Members(p) :
             f.do = "rotate" \/ (f.do = "terminate" /\ f.of = retained /\ retained # None)
      BY <2>5
    <3>3. \A f \in Members(q) : (f.do = "fresh" /\ f.of = t) \/ f.do = "user"
      BY <2>6, <2>7, <3>1
    <3> QED BY <2>8, <3>2, <3>3
  <2>12. Started(r)
    <3>1. \A f \in Members(r) : f.do \notin Beginning
      BY <2>11 DEF Beginning
    <3> QED BY <2>9, <2>10, <3>1, Starts
  <2>13. retained # None => Call("terminate", retained) \in Members(stack)'
    BY <2>5, <2>8, <2>12 DEF Started
  <2> USE DEF facade
  <2>14. AttemptInv' /\ SessionInv'
    BY <1>1, <1>2, <2>2, <2>3, MovedParts DEF Types, IInv
  <2>15. ClientInv'
    BY <1>1, <2>1, <2>2 DEF ClientInv
  <2>16. OwnerInv'
    <3>1. ASSUME NEW w \in Sessions, Live(w)'
          PROVE  AttemptOwns(w)' \/ Call("terminate", w) \in Members(stack)'
      <4>1. Live(w)
        BY <1>1, <3>1 DEF Live
      <4>2. w # None
        BY DEF Sessions, None, ReconnectAssumption
      <4>3. retained = w \/ AttemptOwns(w)
        BY <2>2, <4>1, <4>2, AtRest
      <4>4. AttemptOwns(w) => AttemptOwns(w)'
        BY <1>2, <2>4, AloneOwns DEF Owning, IInv
      <4> QED BY <2>13, <4>2, <4>3, <4>4
    <3> QED BY <3>1 DEF OwnerInv
  <2>17. ASSUME NEW f \in Members(r) PROVE FrameOK(f)' /\ f.do \notin {"await", "release"}
    <3>1. CASE f.do = "fresh" /\ f.of = t
      BY <1>2, <2>3, <3>1 DEF FrameOK, StageMoved
    <3>2. CASE f.do \in {"rotate", "user"}
      BY <3>2, SimpleFrames
    <3>3. CASE f.do = "terminate" /\ f.of = retained /\ retained # None
      <4>1. f.of \in Sessions /\ Begun(f.of)
        BY <2>2, <3>3, AtRest
      <4> QED BY <1>1, <2>2, <3>3, <4>1 DEF FrameOK, Begun
    <3> QED BY <2>11, <3>1, <3>2, <3>3
  <2>18. late' \in BOOLEAN /\ retained' \in {None, retained}
    BY <2>1
  <2> QED BY <1>1, <2>4, <2>12, <2>14, <2>15, <2>16, <2>17, <2>18, PromiseKeeps DEF Alone, Types, IInv
<1> QED BY <1>3, <1>4

\* The attempt is over and another has taken its place.
LEMMA SupersededParts ==
  ASSUME ReconnectAssumption, IInv, NEW t, NEW y \in {"opened", "failed"}, AtStage(t, y),
         ToStage(t, "done"), ~IsCurrent(t), UNCHANGED <<policy, facade, coordinator, session>>
  PROVE  /\ t \in 1..Len(attempt) /\ t # current /\ Alone(t)
         /\ AttemptInv' /\ SessionInv'
<1>1. t \in 1..Len(attempt) /\ AttemptOK(t) /\ attempt \in Seq(Attempt) /\ t \in Sessions
  BY StageOfAttempt
<1>2. t # current
  BY <1>1 DEF IsCurrent, FlagsInv, IInv, None, Sessions, ReconnectAssumption
<1>3. StageMoved(t, "done")
  BY <1>1, StageMoves DEF Stages
<1>4. AttemptInv' /\ SessionInv'
  BY <1>1, <1>2, <1>3, MovedParts DEF facade, Types, IInv
<1> QED BY <1>1, <1>2, <1>3, <1>4 DEF Alone, StageMoved

LEMMA SupersededClient ==
  ASSUME ReconnectAssumption, IInv, Idle, NEW t, t # current, Alone(t),
         UNCHANGED <<policy, facade, coordinator, session>>, Call("fresh", current) \notin Members(stack)'
  PROVE  ClientInv'
<1> USE DEF facade, coordinator
<1>1. client # None => session'[client] = "active"
  BY AtRest
<1>2. retained' # None => Begun(retained)'
  BY AtRest DEF Begun
<1>3. ASSUME retained' # None, connecting
      PROVE  attempt'[current].stage \notin {"connecting", "opened"}
  <2>1. current \in 1..Len(attempt) /\ attempt[current].stage \notin {"connecting", "opened"}
    BY <1>3 DEF ClientInv, Types, FlagsInv, IInv, None
  <2> QED BY <2>1 DEF Alone
<1>4. retained' \in {None, retained}
  OBVIOUS
<1> QED BY <1>1, <1>2, <1>3, <1>4, ClientAtRest

LEMMA OpenedSupersededKeeps ==
  ASSUME ReconnectAssumption, IInv, NEW t, Opened(t), ~IsCurrent(t)
  PROVE  IInv'
<1>1. PICK s : s = attempt[t].session
  OBVIOUS
<1>2. /\ AtStage(t, "opened") /\ ToStage(t, "done") /\ Begin(<<Call("terminate", s)>>)
      /\ UNCHANGED <<policy, facade, coordinator, session>>
  BY <1>1 DEF Opened, facade
<1>3. /\ t \in 1..Len(attempt) /\ t # current /\ Alone(t) /\ AttemptInv' /\ SessionInv'
  BY <1>2, SupersededParts
<1>4. s \in Sessions /\ Begun(s)
  BY <1>1, <1>2, StageOfAttempt DEF AttemptOK
<1>5. PICK f : f = Call("terminate", s)
  OBVIOUS
<1>6. <<f>> \in Seq(Frame) /\ Apart(<<f>>) /\ Members(<<f>>) = {f} /\ f.do = "terminate" /\ f.of = s
  BY <1>4, <1>5, OneFrame
<1>7. Started(<<f>>) /\ Idle
  BY <1>2, <1>5, <1>6, Starts DEF Beginning, Begin
<1>8. Call("fresh", current) \notin Members(stack)'
  BY <1>6, <1>7, FrameForm DEF Started
<1>9. ClientInv'
  BY <1>2, <1>3, <1>7, <1>8, SupersededClient
<1> USE DEF facade, coordinator
<1>10. OwnerInv'
  <2>1. ASSUME NEW q \in Sessions, Live(q)', q # s
        PROVE  client = q \/ retained = q \/ AttemptOwns(q)'
    <3>1. Live(q)
      BY <1>2, <2>1 DEF Live
    <3>2. client = q \/ retained = q \/ AttemptOwns(q)
      BY <1>7, <3>1, AtRest
    <3>3. AttemptOwns(q) => AttemptOwns(q)'
      BY <1>1, <1>3, <2>1, AloneOwns DEF IInv
    <3> QED BY <3>2, <3>3
  <2>2. Call("terminate", s) \in Members(stack)'
    BY <1>5, <1>6, <1>7 DEF Started
  <2> QED BY <1>2, <2>1, <2>2 DEF OwnerInv
<1>11. \A g \in Members(<<f>>) : FrameOK(g)' /\ g.do \notin {"await", "release"}
  <2>1. FrameOK(f)'
    BY <1>2, <1>4, <1>6, <1>7 DEF FrameOK, Started, Begun
  <2> QED BY <1>6, <2>1
<1>12. retained' \in {None, retained} /\ late' \in BOOLEAN
  BY <1>2 DEF Types, IInv
<1> QED BY <1>2, <1>3, <1>7, <1>9, <1>10, <1>11, <1>12, PromiseKeeps DEF Alone, Types, IInv

LEMMA FailedSupersededKeeps ==
  ASSUME ReconnectAssumption, IInv, NEW t, Failed(t), ~IsCurrent(t)
  PROVE  IInv'
<1>1. /\ AtStage(t, "failed") /\ ToStage(t, "done") /\ Begin(<<>>)
      /\ UNCHANGED <<policy, facade, coordinator, session>>
  BY DEF Failed, facade
<1>2. /\ t \in 1..Len(attempt) /\ t # current /\ Alone(t) /\ AttemptInv' /\ SessionInv'
  BY <1>1, SupersededParts
<1>3. Started(<<>>) /\ Idle /\ Members(<<>>) = {}
  <2>1. <<>> \in Seq(Frame) /\ Apart(<<>>) /\ Members(<<>>) = {}
    BY MembersLiteral DEF Apart
  <2> QED BY <1>1, <2>1, Starts DEF Begin
<1>4. Call("fresh", current) \notin Members(stack)'
  BY <1>3 DEF Started
<1>5. ClientInv'
  BY <1>1, <1>2, <1>3, <1>4, SupersededClient
<1> USE DEF facade, coordinator
<1>6. OwnerInv'
  <2>1. \A q : AttemptOwns(q) => AttemptOwns(q)'
    BY <1>1, <1>2, AloneOwns, StageOfAttempt DEF Owning, IInv
  <2> QED BY <1>1, <1>3, <2>1, AtRest DEF OwnerInv, Live
<1>7. \A f \in Members(<<>>) : FrameOK(f)' /\ f.do \notin {"await", "release"}
  BY <1>3
<1>8. retained' \in {None, retained} /\ late' \in BOOLEAN
  BY <1>1 DEF Types, IInv
<1> QED BY <1>1, <1>2, <1>3, <1>5, <1>6, <1>7, <1>8, PromiseKeeps DEF Alone, Types, IInv

\* The current attempt is over: the rest of the facade's invariant.
LEMMA SettlesParts ==
  ASSUME ReconnectAssumption, IInv, Idle, NEW t, NEW y \in {"opened", "failed"}, AtStage(t, y),
         ToStage(t, "done"), IsCurrent(t), connecting' = FALSE,
         UNCHANGED <<policy, closeRequested, timer, wake, ready, waiting, current, coordinator, session>>
  PROVE  /\ connecting /\ ~timer /\ client = None /\ ~closeRequested /\ t = current /\ Alone(t)
         /\ t \in 1..Len(attempt) /\ t \in 0..MaxAttempts
         /\ y = "opened" => retained = None
         /\ FlagsInv' /\ AttemptInv' /\ SessionInv'
<1>1. /\ t \in 1..Len(attempt) /\ AttemptOK(t) /\ attempt \in Seq(Attempt) /\ t \in 0..MaxAttempts
      /\ attempt[t].stage = y
  BY StageOfAttempt
<1>2. t = current /\ connecting /\ ~closeRequested
  BY <1>1 DEF AttemptOK, IsCurrent
<1>3. ~timer /\ client = None
  BY <1>2, AtRest DEF FlagsInv, IInv
<1>4. StageMoved(t, "done")
  BY <1>1, StageMoves DEF Stages
<1>5. AttemptInv' /\ SessionInv'
  <2>1. connecting' \in BOOLEAN /\ (t = current => (connecting' <=> "done" # "done"))
    OBVIOUS
  <2>2. connecting' = connecting \/ t = current
    BY <1>2
  <2> QED BY <1>4, <2>1, <2>2, MovedParts
<1>6. FlagsInv'
  BY <1>2, <1>3 DEF FlagsInv, IInv
<1>7. y = "opened" => retained = None
  BY <1>1, <1>2 DEF ClientInv, IInv
<1> QED BY <1>1, <1>2, <1>3, <1>4, <1>5, <1>6, <1>7 DEF Alone, StageMoved

LEMMA OpenedCurrentKeeps ==
  ASSUME ReconnectAssumption, IInv, NEW t, Opened(t), IsCurrent(t)
  PROVE  IInv'
<1>1. PICK s : s = attempt[t].session
  OBVIOUS
<1>2. /\ AtStage(t, "opened") /\ ToStage(t, "done") /\ client' = s /\ connecting' = FALSE
      /\ UNCHANGED <<policy, closeRequested, timer, wake, ready, waiting, current, coordinator, session>>
  BY <1>1 DEF Opened
<1>3. PICK p : /\ p = (IF session[s] = "active" THEN <<>> ELSE <<Call("closed", s)>>)
               /\ Begin(p \o <<Call("connected", t)>>)
  BY <1>1 DEF Opened
<1>4. Idle
  BY <1>3 DEF Begin
<1>5. /\ connecting /\ ~timer /\ client = None /\ ~closeRequested /\ t = current /\ Alone(t)
      /\ t \in 1..Len(attempt) /\ t \in 0..MaxAttempts /\ retained = None
      /\ FlagsInv' /\ AttemptInv' /\ SessionInv'
  BY <1>2, <1>4, SettlesParts
<1>6. s \in Sessions /\ Begun(s) /\ attempt[t].stage = "opened"
  BY <1>1, <1>2, StageOfAttempt DEF AttemptOK
<1>7. s # None /\ s \in 0..MaxAttempts
  BY <1>6 DEF Sessions, None, ReconnectAssumption
<1>8. attempt'[t].session = s
  <2>1. attempt \in Seq(Attempt)
    BY DEF Types, IInv
  <2>2. StageMoved(t, "done")
    BY <1>2, <1>5, <2>1, StageMoves DEF Stages
  <2> QED BY <1>1, <2>2 DEF StageMoved
<1>9. PICK c : c = Call("closed", s)
  OBVIOUS
<1>10. PICK f : f = Call("connected", t)
  OBVIOUS
<1>11. c.do = "closed" /\ c.of = s /\ f.do = "connected" /\ f.of = t /\ c \in Frame /\ f \in Frame
  <2>1. f \in Frame
    BY <1>5, <1>10 DEF Frame, Call
  <2>2. c.do = "closed" /\ c.of = s /\ c \in Frame
    BY <1>6, <1>9, OneFrame
  <2>3. f.do = "connected" /\ f.of = t
    BY <1>10, FrameForm
  <2> QED BY <2>1, <2>2, <2>3
<1>12. p \in Seq(Frame) /\ Members(p) = IF session[s] = "active" THEN {} ELSE {c}
  BY <1>3, <1>6, <1>9, UserFrames, OneFrame
<1>13. PICK r \in Seq(Frame) : r = p \o <<f>> /\ Apart(r) /\ Members(r) = Members(p) \cup {f}
  <2>1. \A g \in Members(p) : g.do \notin Attempting
    BY <1>11, <1>12 DEF Attempting
  <2> QED BY <1>11, <1>12, <2>1, LastFrame
<1>14. Begin(r)
  BY <1>3, <1>10, <1>13
<1>15. Started(r)
  <2>1. \A g \in Members(r) : g.do \notin Beginning
    BY <1>11, <1>12, <1>13 DEF Beginning
  <2> QED BY <1>13, <1>14, <2>1, Starts
<1>16. session[s] # "active" => r # <<>> /\ Head(r) = c
  <2>1. SUFFICES ASSUME session[s] # "active" PROVE r # <<>> /\ Head(r) = c
    OBVIOUS
  <2>2. p = <<c>>
    BY <1>3, <1>9, <2>1
  <2>3. <<f>> \in Seq(Frame) /\ p # <<>> /\ Head(p) = c
    BY <1>11, <2>2
  <2> QED BY <1>12, <1>13, <2>3, MembersConcat
<1> USE DEF coordinator
<1>17. Types'
  BY <1>2, <1>5, <1>7, <1>15 DEF Types, IInv, Alone, Started
<1>18. session[s] # "active" => Head(stack)' = c /\ stack' # <<>> /\ c \in Members(stack)'
  BY <1>12, <1>13, <1>15, <1>16 DEF Started
<1>19. ClientInv'
  BY <1>2, <1>5, <1>6, <1>9, <1>18 DEF ClientInv, Begun
<1>20. StackInv'
  <2>1. ~On("release")'
    BY <1>11, <1>12, <1>13, <1>15 DEF Started
  <2>2. FrameOK(f)'
    BY <1>5, <1>11, <2>1 DEF FrameOK, Alone
  <2>3. session[s] # "active" => FrameOK(c)'
    BY <1>2, <1>6, <1>11 DEF FrameOK, Begun
  <2>4. \A g \in Members(stack)' : g = f \/ (g = c /\ session[s] # "active")
    BY <1>12, <1>13, <1>15 DEF Started
  <2> QED BY <1>15, <2>2, <2>3, <2>4 DEF StackInv, Started
<1>21. OwnerInv'
  <2>1. ASSUME NEW q \in Sessions, Live(q)' PROVE client' = q \/ AttemptOwns(q)'
    <3>1. Live(q)
      BY <1>2, <2>1 DEF Live
    <3>2. AttemptOwns(q)
      BY <1>4, <1>5, <3>1, AtRest DEF Sessions, None, ReconnectAssumption
    <3>3. q # s => AttemptOwns(q)'
      BY <1>1, <1>5, <3>2, AloneOwns DEF IInv
    <3> QED BY <1>2, <3>3
  <2> QED BY <2>1 DEF OwnerInv
<1>22. CloseInv'
  BY <1>2, <1>5 DEF CloseInv
<1>23. WaitInv'
  <2>1. CASE session[s] = "active"
    <3>1. News'
      <4>1. f \in Members(stack)'
        BY <1>13, <1>15 DEF Started
      <4>2. Connected'
        BY <1>2, <1>7, <2>1 DEF Connected
      <4> QED BY <1>2, <1>5, <1>8, <1>11, <4>1, <4>2 DEF News
    <3> QED BY <1>2, <1>5, <1>7, <3>1 DEF WaitInv, Coming
  <2>2. CASE session[s] # "active"
    BY <1>2, <1>5, <1>7, <1>9, <1>18, <2>2 DEF WaitInv, Coming
  <2> QED BY <2>1, <2>2
<1> QED BY <1>5, <1>17, <1>19, <1>20, <1>21, <1>22, <1>23 DEF IInv

LEMMA OpenedKeeps ==
  ASSUME ReconnectAssumption, IInv, NEW t, Opened(t)
  PROVE  IInv'
BY OpenedCurrentKeeps, OpenedSupersededKeeps

LEMMA FailedCurrentKeeps ==
  ASSUME ReconnectAssumption, IInv, NEW t, Failed(t), IsCurrent(t)
  PROVE  IInv'
<1>1. /\ AtStage(t, "failed") /\ ToStage(t, "done") /\ client' = None /\ connecting' = FALSE
      /\ UNCHANGED <<policy, closeRequested, timer, wake, ready, waiting, current, coordinator, session>>
  BY DEF Failed
<1>2. PICK p \in {<<>>, <<User>>} : Begin(p \o <<Call("schedule", 0)>>)
  BY DEF Failed
<1>3. Idle
  BY <1>2 DEF Begin
<1>4. /\ connecting /\ ~timer /\ client = None /\ ~closeRequested /\ t = current /\ Alone(t)
      /\ t \in 1..Len(attempt) /\ t \in 0..MaxAttempts
      /\ FlagsInv' /\ AttemptInv' /\ SessionInv'
  BY <1>1, <1>3, SettlesParts
<1>5. PICK f : f = Call("schedule", 0)
  OBVIOUS
<1>6. f.do = "schedule" /\ f \in Frame
  BY <1>5, FrameForm DEF Frame, Call, ReconnectAssumption
<1>7. p \in Seq(Frame) /\ \A g \in Members(p) : g.do = "user"
  BY <1>2, UserFrames
<1>8. PICK r \in Seq(Frame) : r = p \o <<f>> /\ Apart(r) /\ Members(r) = Members(p) \cup {f}
  <2>1. \A g \in Members(p) : g.do \notin Attempting
    BY <1>7 DEF Attempting
  <2> QED BY <1>6, <1>7, <2>1, LastFrame
<1>9. Begin(r) /\ \A g \in Members(r) : g = f \/ g.do = "user"
  BY <1>2, <1>5, <1>7, <1>8
<1>10. Started(r)
  <2>1. \A g \in Members(r) : g.do \notin Beginning
    BY <1>6, <1>9 DEF Beginning
  <2> QED BY <1>8, <1>9, <2>1, Starts
<1> USE DEF coordinator
<1>11. Types'
  <2>1. client' \in 0..MaxAttempts
    BY <1>1 DEF None, ReconnectAssumption
  <2> QED BY <1>1, <1>4, <1>10, <2>1 DEF Types, IInv, Alone, Started
<1>12. ClientInv'
  <2>1. retained' # None => Begun(retained)'
    BY <1>1, <1>3, AtRest DEF Begun
  <2> QED BY <1>1, <2>1 DEF ClientInv
<1>13. StackInv'
  <2>1. FrameOK(f)'
    BY <1>1, <1>6 DEF FrameOK
  <2>2. \A g \in Members(stack)' : FrameOK(g)'
    BY <1>9, <1>10, <2>1, SimpleFrames DEF Started
  <2> QED BY <1>10, <2>2 DEF StackInv, Started
<1>14. OwnerInv'
  <2>1. \A q : AttemptOwns(q) => AttemptOwns(q)'
    BY <1>1, <1>4, AloneOwns, StageOfAttempt DEF Owning, IInv
  <2> QED BY <1>1, <1>3, <1>4, <2>1, AtRest DEF OwnerInv, Live
<1>15. CloseInv'
  BY <1>1, <1>4 DEF CloseInv
<1>16. WaitInv'
  <2>1. On("schedule")'
    BY <1>6, <1>8, <1>10 DEF Started
  <2> QED BY <1>1, <1>4, <2>1 DEF WaitInv, Coming
<1> QED BY <1>4, <1>11, <1>12, <1>13, <1>14, <1>15, <1>16 DEF IInv

LEMMA FailedKeeps ==
  ASSUME ReconnectAssumption, IInv, NEW t, Failed(t)
  PROVE  IInv'
BY FailedCurrentKeeps, FailedSupersededKeeps

\* The session of the client, or of an attempt, loses its transport.
LEMMA SuspendedKeeps ==
  ASSUME ReconnectAssumption, IInv, NEW s \in Sessions, session[s] = "active",
         session' = [session EXCEPT ![s] = "suspended"], Begin(<<Call("closed", s)>>),
         UNCHANGED <<policy, facade, attempt, coordinator, calls>>
  PROVE  IInv'
<1>1. PICK c : c = Call("closed", s)
  OBVIOUS
<1>2. <<c>> \in Seq(Frame) /\ Apart(<<c>>) /\ Members(<<c>>) = {c} /\ c.do = "closed" /\ c.of = s
  BY <1>1, OneFrame
<1>3. Started(<<c>>) /\ Idle
  BY <1>1, <1>2, Starts DEF Beginning, Begin
<1>4. session \in [Sessions -> {"none", "opening", "active", "suspended", "over"}]
  BY DEF Types, IInv
<1>5. /\ session' \in [Sessions -> {"none", "opening", "active", "suspended", "over"}]
      /\ session'[s] = "suspended" /\ \A q \in Sessions : q # s => session'[q] = session[q]
  BY <1>4
<1>6. \A q \in Sessions : /\ Begun(q) => Begun(q)'
                          /\ Live(q)' => Live(q)
                          /\ session[q] = "opening" => session'[q] = "opening"
                          /\ session'[q] # "none" => session[q] # "none"
  BY <1>5 DEF Begun, Live
<1> USE DEF facade, coordinator
<1>7. AttemptInv'
  <2>1. ASSUME NEW u \in 1..Len(attempt) PROVE AttemptOK(u)'
    <3>1. AttemptOK(u) /\ u \in Sessions
      BY DEF AttemptInv, Types, IInv, Sessions, ReconnectAssumption
    <3>2. attempt[u].stage = "connecting" => session'[u] = session[u]
      BY <1>6, <3>1 DEF AttemptOK
    <3> QED BY <1>6, <3>1, <3>2, AttemptStays
  <2> QED BY <2>1 DEF AttemptInv
<1>8. SessionInv'
  BY <1>6 DEF SessionInv, IInv
<1>9. stack' = <<c>> /\ Head(stack)' = c /\ stack' # <<>> /\ c \in Members(stack)'
  BY <1>2, <1>3 DEF Started
<1>10. ClientInv'
  <2>1. /\ client # None => retained = None /\ ~connecting /\ client \in Sessions /\ session[client] = "active"
        /\ retained # None => retained \in Sessions /\ Begun(retained)
    BY <1>3, AtRest
  <2>2. client # None /\ session'[client] # "active" => client = s
    BY <1>5, <2>1
  <2>3. client # None => Begun(client)'
    BY <1>6, <2>1 DEF Begun
  <2>4. retained # None => Begun(retained)'
    BY <1>6, <2>1 DEF Begun
  <2>5. ASSUME retained # None, connecting
        PROVE  /\ attempt[current].stage \notin {"connecting", "opened"}
               /\ Call("fresh", current) \notin Members(stack)'
    <3>1. attempt[current].stage \notin {"connecting", "opened"}
      BY <2>5 DEF ClientInv, IInv
    <3>2. Call("fresh", current) \notin Members(stack)'
      BY <1>2, <1>3, FrameForm DEF Started
    <3> QED BY <3>1, <3>2
  <2> QED BY <1>1, <1>9, <2>1, <2>2, <2>3, <2>4, <2>5 DEF ClientInv
<1>11. OwnerInv'
  <2>1. \A q : AttemptOwns(q)' <=> AttemptOwns(q)
    BY DEF AttemptOwns
  <2> QED BY <1>3, <1>6, <2>1, AtRest DEF OwnerInv
<1>12. \A f \in Members(<<c>>) : FrameOK(f)' /\ f.do \notin {"await", "release"}
  <2>1. FrameOK(c)'
    BY <1>2, <1>5 DEF FrameOK, Begun
  <2> QED BY <1>2, <2>1
<1>13. /\ retained' \in {None, retained} /\ late' \in BOOLEAN
       /\ attempt' \in Seq(Attempt) /\ Len(attempt') = Len(attempt)
  BY DEF Types, IInv
<1> QED BY <1>3, <1>5, <1>7, <1>8, <1>10, <1>11, <1>12, <1>13, PromiseKeeps

\* What a call from the event loop, and it alone, leaves to prove.
LEMMA CalledKeeps ==
  ASSUME ReconnectAssumption, IInv, NEW r, Started(r),
         UNCHANGED <<policy, facade, attempt, session>>, retained' \in {None, retained}, late' \in BOOLEAN,
         retained # None /\ retained' = None => Call("terminate", retained) \in Members(r),
         \A f \in Members(r) : FrameOK(f)' /\ f.do \notin {"await", "release", "fresh"}
  PROVE  IInv'
<1>1. Idle
  BY DEF Started
<1> USE DEF facade
<1>2. AttemptInv' /\ SessionInv'
  BY DEF AttemptInv, AttemptOK, SessionInv, Begun, IInv
<1>3. ClientInv'
  <2>1. client # None => session'[client] = "active"
    BY <1>1, AtRest
  <2>2. retained' # None => Begun(retained)'
    BY <1>1, AtRest DEF Begun
  <2>3. ASSUME retained' # None, connecting
        PROVE  /\ attempt'[current].stage \notin {"connecting", "opened"}
               /\ Call("fresh", current) \notin Members(stack)'
    <3>1. attempt[current].stage \notin {"connecting", "opened"}
      BY <2>3 DEF ClientInv, IInv
    <3>2. Call("fresh", current) \notin Members(stack)'
      BY FrameForm DEF Started
    <3> QED BY <3>1, <3>2
  <2> QED BY <1>1, <2>1, <2>2, <2>3, ClientAtRest
<1>4. OwnerInv'
  <2>1. ASSUME NEW q \in Sessions, Live(q)'
        PROVE  client = q \/ retained' = q \/ AttemptOwns(q)' \/ Call("terminate", q) \in Members(stack)'
    <3>1. Live(q)
      BY <2>1 DEF Live
    <3>2. client = q \/ retained = q \/ AttemptOwns(q)
      BY <1>1, <3>1, AtRest
    <3>3. AttemptOwns(q) => AttemptOwns(q)'
      BY DEF AttemptOwns
    <3>4. q # None
      BY DEF Sessions, None, ReconnectAssumption
    <3>5. retained = q => retained' = q \/ Call("terminate", q) \in Members(stack)'
      BY <3>4 DEF Started
    <3> QED BY <3>2, <3>3, <3>5
  <2> QED BY <2>1 DEF OwnerInv
<1>5. attempt' \in Seq(Attempt) /\ Len(attempt') = Len(attempt)
      /\ session' \in [Sessions -> {"none", "opening", "active", "suspended", "over"}]
  BY DEF Types, IInv
<1> QED BY <1>2, <1>3, <1>4, <1>5, PromiseKeeps

LEMMA TerminatedKeeps ==
  ASSUME ReconnectAssumption, IInv, NEW s \in Sessions, session[s] = "active",
         Begin(<<Call("terminate", s)>>), UNCHANGED <<policy, facade, attempt, coordinator, session, calls>>
  PROVE  IInv'
<1>1. PICK f : f = Call("terminate", s)
  OBVIOUS
<1>2. <<f>> \in Seq(Frame) /\ Apart(<<f>>) /\ Members(<<f>>) = {f} /\ f.do = "terminate" /\ f.of = s
  BY <1>1, OneFrame
<1>3. Started(<<f>>)
  BY <1>1, <1>2, Starts DEF Beginning
<1>4. FrameOK(f)'
  BY <1>2, <1>3 DEF FrameOK, Started, Begun
<1>5. retained' \in {None, retained} /\ late' \in BOOLEAN
  BY DEF coordinator, Types, IInv
<1>6. ~(retained # None /\ retained' = None)
  BY DEF coordinator
<1>7. \A g \in Members(<<f>>) : FrameOK(g)' /\ g.do \notin {"await", "release", "fresh"}
  BY <1>2, <1>4
<1> QED BY <1>3, <1>5, <1>6, <1>7, CalledKeeps

LEMMA TransportLostKeeps ==
  ASSUME ReconnectAssumption, IInv, NEW s \in Sessions, TransportLost(s)
  PROVE  IInv'
BY SuspendedKeeps, TerminatedKeeps DEF TransportLost

LEMMA SessionEndsKeeps ==
  ASSUME ReconnectAssumption, IInv, NEW s \in Sessions, SessionEnds(s)
  PROVE  IInv'
BY TerminatedKeeps DEF SessionEnds

LEMMA ExpireKeeps ==
  ASSUME ReconnectAssumption, IInv, Expire
  PROVE  IInv'
<1>1. PICK s : s = retained
  OBVIOUS
<1>2. /\ s # None /\ retained' = None /\ late' = FALSE
      /\ Begin(<<Call("terminate", s), Call("rotate", 0)>>)
      /\ UNCHANGED <<policy, facade, attempt, session>>
  BY <1>1 DEF Expire
<1>3. Idle /\ s \in Sessions /\ Begun(s) /\ client = None
  BY <1>1, <1>2, AtRest DEF Begin
<1>4. PICK f, g : f = Call("terminate", s) /\ g = Call("rotate", 0)
  OBVIOUS
<1>5. f \in Frame /\ f.do = "terminate" /\ f.of = s
  BY <1>3, <1>4, OneFrame
<1>6. g \in Frame /\ g.do = "rotate"
  BY <1>4, FrameForm DEF Call, Frame, ReconnectAssumption
<1>7. Apart(<<f, g>>) /\ <<f, g>> \in Seq(Frame) /\ Members(<<f, g>>) = {f, g}
  BY <1>5, <1>6, ApartPair DEF Attempting
<1>8. Started(<<f, g>>)
  BY <1>2, <1>4, <1>5, <1>6, <1>7, Starts DEF Beginning
<1>9. FrameOK(f)'
  BY <1>2, <1>3, <1>5 DEF FrameOK, Begun, facade
<1>10. \A h \in Members(<<f, g>>) : FrameOK(h)' /\ h.do \notin {"await", "release", "fresh"}
  BY <1>5, <1>6, <1>7, <1>9, SimpleFrames
<1>11. retained' \in {None, retained} /\ late' \in BOOLEAN
  BY <1>2
<1>12. Call("terminate", retained) \in Members(<<f, g>>)
  BY <1>1, <1>4, <1>7
<1> QED BY <1>2, <1>8, <1>10, <1>11, <1>12, CalledKeeps

\* The timer is set whenever an attempt may be made without having been asked for.
LEMMA OpenAgainKeeps ==
  ASSUME ReconnectAssumption, IInv, timer, ~closeRequested, OpenAgain(TRUE)
  PROVE  IInv'
<1>1. /\ Begin(<<Call("reconnect", 0)>>) /\ timer' = FALSE
      /\ UNCHANGED <<policy, closeRequested, client, connecting, wake, ready, waiting, current,
                     attempt, coordinator, session>>
  BY DEF OpenAgain
<1>2. ~connecting /\ client = None /\ ready = "pending"
  BY DEF FlagsInv, IInv
<1>3. PICK f : f = Call("reconnect", 0)
  OBVIOUS
<1>4. f \in Frame /\ f.do = "reconnect"
  BY <1>3, FrameForm DEF Call, Frame, ReconnectAssumption
<1>5. <<f>> \in Seq(Frame) /\ Apart(<<f>>) /\ Members(<<f>>) = {f} /\ Tail(<<f>>) = <<>>
  BY <1>4, ApartOne, MembersLiteral
<1>6. Idle /\ stack' = <<f>>
  BY <1>1, <1>3 DEF Begin
<1> USE DEF coordinator
<1>7. Types'
  BY <1>1, <1>5, <1>6 DEF Types, IInv
<1>8. FlagsInv' /\ AttemptInv' /\ SessionInv'
  BY <1>1 DEF FlagsInv, AttemptInv, AttemptOK, SessionInv, Begun, IInv
<1>9. ClientInv'
  <2>1. retained # None => Begun(retained)
    BY <1>6, AtRest
  <2> QED BY <1>1, <1>2, <2>1 DEF ClientInv, Begun
<1>10. StackInv'
  <2>1. FrameOK(f)'
    BY <1>1, <1>2, <1>4 DEF FrameOK, Connected
  <2> QED BY <1>5, <1>6, <2>1, MembersLiteral DEF StackInv
<1>11. OwnerInv'
  <2>1. \A q : AttemptOwns(q) => AttemptOwns(q)'
    BY <1>1 DEF AttemptOwns
  <2> QED BY <1>1, <1>6, <2>1, AtRest DEF OwnerInv, Live
<1>12. CloseInv'
  BY <1>1 DEF CloseInv
<1>13. WaitInv'
  <2>1. Begins'
    BY <1>4, <1>5, <1>6 DEF Begins, On
  <2> QED BY <1>1, <2>1 DEF WaitInv, Coming
<1> QED BY <1>7, <1>8, <1>9, <1>10, <1>11, <1>12, <1>13 DEF IInv

LEMMA ReconnectTimerKeeps ==
  ASSUME ReconnectAssumption, IInv, ReconnectTimer
  PROVE  IInv'
<1>1. timer /\ ~closeRequested /\ ~connecting
  BY DEF ReconnectTimer, FlagsInv, IInv
<1>2. OpenAgain(TRUE)
  BY <1>1 DEF ReconnectTimer, OpenAgain
<1> QED BY <1>1, <1>2, OpenAgainKeeps

LEMMA HandleWakeKeeps ==
  ASSUME ReconnectAssumption, IInv, HandleWake
  PROVE  IInv'
<1>1. ~Connected /\ ~connecting /\ ~closeRequested /\ policy # "none" /\ OpenAgain(TRUE) /\ Idle
  BY DEF HandleWake, CanReconnect, OpenAgain, Begin
<1>2. timer
  BY <1>1, AtRest DEF Connected
<1> QED BY <1>1, <1>2, OpenAgainKeeps

-------------------------------------------------------------------------------
(***************************************************************************)
(* The invariant, and what the run checks of it.                           *)
(***************************************************************************)
LEMMA InitEstablishes ==
  ASSUME ReconnectAssumption, Init
  PROVE  IInv
<1>1. <<>> \in Seq(Frame) /\ <<>> \in Seq(Attempt) /\ Len(<<>>) = 0 /\ Members(<<>>) = {}
  BY MembersLiteral
<1>2. client \in 0..MaxAttempts /\ retained \in 0..MaxAttempts /\ current \in 0..0
  BY DEF Init, None, ReconnectAssumption
<1>3. session \in [Sessions -> {"none", "opening", "active", "suspended", "over"}]
  BY DEF Init
<1>4. 0 <= MaxAttempts
  BY DEF ReconnectAssumption
<1>5. Types
  BY <1>1, <1>2, <1>3, <1>4 DEF Init, Types
<1>6. FlagsInv
  BY DEF Init, FlagsInv
<1>7. AttemptInv
  BY <1>1 DEF Init, AttemptInv
<1>8. SessionInv /\ OwnerInv
  BY DEF Init, SessionInv, OwnerInv, Live
<1>9. ClientInv
  BY DEF Init, ClientInv
<1>10. StackInv
  BY <1>1 DEF Init, StackInv, Apart
<1>11. CloseInv
  BY DEF Init, CloseInv
<1>12. WaitInv
  BY <1>1 DEF Init, WaitInv, On
<1> QED BY <1>5, <1>6, <1>7, <1>8, <1>9, <1>10, <1>11, <1>12 DEF IInv

LEMMA StutterKeeps ==
  ASSUME IInv, UNCHANGED vars
  PROVE  IInv'
<1> USE DEF vars, facade, coordinator
<1>1. \A do : On(do)' <=> On(do)
  BY DEF On
<1>2. Begins' <=> Begins
  BY <1>1 DEF Begins
<1>3. Types' /\ FlagsInv' /\ AttemptInv' /\ SessionInv'
  BY DEF IInv, Types, FlagsInv, AttemptInv, AttemptOK, SessionInv, Begun
<1>4. ClientInv' /\ OwnerInv'
  BY DEF IInv, ClientInv, OwnerInv, Begun, Live, AttemptOwns
<1>5. CloseInv'
  BY <1>1 DEF IInv, CloseInv
<1>6. StackInv'
  <2>1. \A f : FrameOK(f) => FrameOK(f)'
    BY <1>1, <1>2 DEF FrameOK, Connected, Begun, Live
  <2> QED BY <2>1 DEF StackInv, IInv
<1>7. WaitInv'
  <2>1. Coming' <=> Coming
    BY <1>1, <1>2 DEF Coming, News, Connected
  <2> QED BY <1>1, <1>2, <2>1 DEF WaitInv, IInv
<1> QED BY <1>3, <1>4, <1>5, <1>6, <1>7 DEF IInv

LEMMA MethodsKeep ==
  ASSUME ReconnectAssumption, IInv, Methods
  PROVE  IInv'
<1>1. CASE UserReturns
  BY <1>1, UserReturnsKeeps
<1>2. CASE Await
  BY <1>2, AwaitKeeps
<1>3. CASE DisconnectReleases
  BY <1>3, DisconnectReleasesKeeps
<1>4. CASE OpenConnection
  BY <1>4, OpenConnectionKeeps
<1>5. CASE Start
  BY <1>5, StartKeeps
<1>6. CASE Open
  BY <1>6, OpenKeeps
<1>7. CASE ConnectFresh
  BY <1>7, ConnectFreshKeeps
<1>8. CASE ConnectedEvent
  BY <1>8, ConnectedEventKeeps
<1>9. CASE ResolveReady
  BY <1>9, ResolveReadyKeeps
<1>10. CASE Terminate
  BY <1>10, TerminateKeeps
<1>11. CASE Rotate
  BY <1>11, RotateKeeps
<1>12. CASE HandleClientClose
  BY <1>12, HandleClientCloseKeeps
<1>13. CASE ScheduleReconnect
  BY <1>13, ScheduleReconnectKeeps
<1>14. CASE ClearWakeListener
  BY <1>14, ClearWakeListenerKeeps
<1> QED BY <1>1, <1>2, <1>3, <1>4, <1>5, <1>6, <1>7, <1>8, <1>9, <1>10, <1>11, <1>12, <1>13, <1>14
        DEF Methods

LEMMA PromisesKeep ==
  ASSUME ReconnectAssumption, IInv, NEW t \in Sessions, Promises(t)
  PROVE  IInv'
<1>1. CASE Available(t)
  BY <1>1, AvailableKeeps
<1>2. CASE Provided(t)
  BY <1>2, ProvidedKeeps
<1>3. CASE ConnectSucceeds(t)
  BY <1>3, ConnectSucceedsKeeps
<1>4. CASE ConnectFails(t)
  BY <1>4, ConnectFailsKeeps
<1>5. CASE ResumeSucceeds(t)
  BY <1>5, ResumeSucceedsKeeps
<1>6. CASE \E cause \in {"broken", "rejected"} : ResumeFails(t, cause)
  BY <1>6, ResumeFailsKeeps
<1>7. CASE Resumed(t)
  BY <1>7, ResumedKeeps
<1>8. CASE NotResumed(t)
  BY <1>8, NotResumedKeeps
<1>9. CASE Opened(t)
  BY <1>9, OpenedKeeps
<1>10. CASE Failed(t)
  BY <1>10, FailedKeeps
<1> QED BY <1>1, <1>2, <1>3, <1>4, <1>5, <1>6, <1>7, <1>8, <1>9, <1>10 DEF Promises

LEMMA StepKeeps ==
  ASSUME ReconnectAssumption, IInv, [Next]_vars
  PROVE  IInv'
<1>1. CASE Connect
  BY <1>1, ConnectKeeps
<1>2. CASE Disconnect
  BY <1>2, DisconnectKeeps
<1>3. CASE Methods
  BY <1>3, MethodsKeep
<1>4. ASSUME NEW t \in Sessions, Promises(t) \/ TransportLost(t) \/ SessionEnds(t)
      PROVE  IInv'
  BY <1>4, PromisesKeep, TransportLostKeeps, SessionEndsKeeps
<1>5. CASE ReconnectTimer
  BY <1>5, ReconnectTimerKeeps
<1>6. CASE HandleWake
  BY <1>6, HandleWakeKeeps
<1>7. CASE DeadlinePasses
  BY <1>7, DeadlinePassesKeeps
<1>8. CASE Expire
  BY <1>8, ExpireKeeps
<1>9. CASE UNCHANGED vars
  BY <1>9, StutterKeeps
<1> QED BY <1>1, <1>2, <1>3, <1>4, <1>5, <1>6, <1>7, <1>8, <1>9 DEF Next

\* Between the turns of the event loop the frames have made everything good.
LEMMA InvariantImplies ==
  ASSUME ReconnectAssumption, IInv
  PROVE  SessionsAreOwned /\ DisconnectIsFinal /\ WaitersAreServed
<1>1. SessionsAreOwned
  <2>1. client # None => retained = None
    BY DEF ClientInv, IInv
  <2>2. ASSUME Idle, NEW s \in Sessions
        PROVE  /\ Live(s) => client = s \/ retained = s \/ AttemptOwns(s)
               /\ client = s => ~connecting /\ ~timer
    <3>1. s # None
      BY DEF Sessions, None, ReconnectAssumption
    <3> QED BY <2>2, <3>1, AtRest
  <2> QED BY <2>1, <2>2 DEF SessionsAreOwned
<1>2. DisconnectIsFinal
  <2>1. SUFFICES ASSUME Idle, closeRequested
                 PROVE  client = None /\ ~connecting /\ ~timer /\ ~wake /\ retained = None
    BY DEF DisconnectIsFinal
  <2>2. client = None /\ retained = None
    BY <2>1, AtRest
  <2>3. ~connecting /\ ~timer /\ ~wake
    BY <2>1 DEF FlagsInv, IInv
  <2> QED BY <2>2, <2>3
<1>3. WaitersAreServed
  <2>1. waiting => ready = "pending"
    BY DEF FlagsInv, IInv
  <2>2. connecting \/ timer => ready = "pending"
    BY DEF FlagsInv, IInv
  <2>3. Idle /\ waiting /\ ready = "pending" => connecting \/ timer
    BY AtRest
  <2> QED BY <2>1, <2>2, <2>3 DEF WaitersAreServed
<1> QED BY <1>1, <1>2, <1>3

\* Whatever the application calls from a listener and in whatever order the
\* event loop settles what the attempts await, each frame of the facade finds
\* what it needs when it is resumed, and makes good what its caller promised.
THEOREM Invariant == Spec => []IInv
<1>1. Init => IInv
  BY InitEstablishes, ReconnectAssumption
<1>2. IInv /\ [Next]_vars => IInv'
  BY StepKeeps, ReconnectAssumption
<1> QED BY <1>1, <1>2, PTL DEF Spec

\* No session is lost between openConnection, the coordinator and
\* handleClientClose: a live one is the client, is retained, or is held by the
\* attempt that opened it; and a client excludes an attempt and a timer.
THEOREM NoSessionIsLost == Spec => []SessionsAreOwned
<1>1. IInv => SessionsAreOwned
  BY InvariantImplies, ReconnectAssumption
<1> QED BY <1>1, Invariant, PTL

\* When disconnectNow has returned, and unless the application connects again,
\* neither a timer, a wake signal, an attempt nor a session is left.
THEOREM DisconnectEnds == Spec => []DisconnectIsFinal
<1>1. IInv => DisconnectIsFinal
  BY InvariantImplies, ReconnectAssumption
<1> QED BY <1>1, Invariant, PTL

\* Whoever waits for readyDeferred waits for one that is pending, and a
\* connection is being made or a timer will have one made.
THEOREM NobodyWaitsInVain == Spec => []WaitersAreServed
<1>1. IInv => WaitersAreServed
  BY InvariantImplies, ReconnectAssumption
<1> QED BY <1>1, Invariant, PTL
===============================================================================

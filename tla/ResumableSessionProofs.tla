------------------------ MODULE ResumableSessionProofs ------------------------
(***************************************************************************)
(* Resume is safe, for any number of requests and transports and any       *)
(* capacity of the replay buffers: the inductive invariant of              *)
(* ResumableSession, the invariants and the refinement its run checks.     *)
(*                                                                         *)
(* The invariant says of every frame in flight which position it has.      *)
(* Frames that can still be read by the other side continue what that side *)
(* has dispatched, without a gap and without repetition, and as long as a  *)
(* connection works they are all there is (Flow and Complete).             *)
(***************************************************************************)
EXTENDS ResumableSession, SequenceTheorems, FiniteSetTheorems, TLAPS

UpFrames ==
  PositionalFrames
    \cup [type : {"KEEPALIVE"}, respond : {TRUE}, position : Nat]
    \cup [type : {"SETUP"}]
    \cup [type : {"RESUME"}, received : Nat, first : Nat]

DownFrames ==
  Answers
    \cup [type : {"KEEPALIVE"}, respond : {FALSE}, position : Nat]
    \cup [type : {"RESUME_OK"}, position : Nat]
    \cup [type : {"REJECTED_RESUME"}]
    \cup [type : {"ERROR"}]

\* TypeOK without the bounds of the positions, and types of what it leaves out.
Types ==
  /\ state \in {"active", "lost", "handshake", "replaying", "terminated"}
  /\ connection \in Connections
  /\ clientPosition \in Nat /\ cServerPosition \in Nat
  /\ cRetained \in Seq(PositionalFrames) /\ pendingFrames \in Seq(PositionalFrames)
  /\ pendingIncomingFrames \in Seq(Answers)
  /\ resumeOk \in Nat \cup {NoPosition}
  /\ nextStreamId \in 1..(2 * MaxRequests + 1)
  /\ streams \subseteq StreamIds /\ withdrawn \subseteq StreamIds
  /\ sState \in {"listening", "active", "suspended", "terminated"}
  /\ binding \in Connections \cup {0}
  /\ sClientPosition \in Nat /\ serverPosition \in Nat
  /\ sRetained \in Seq(Answers)
  /\ sNextStreamId \in 1..(2 * MaxRequests + 1)
  /\ sStreams \subseteq StreamIds /\ sCapacity \in ServerCapacities
  /\ link \in [Connections -> {"unused", "open", "broken"}]
  /\ up \in [Connections -> Seq(UpFrames)]
  /\ down \in [Connections -> Seq(DownFrames)]
  /\ cLog \in Seq(PositionalFrames) /\ sGot \in Seq(PositionalFrames)
  /\ sLog \in Seq(Answers) /\ cGot \in Seq(Answers)

(***************************************************************************)
(* Positions and logs.                                                     *)
(***************************************************************************)
IsPrefixOf(s, log) == Len(s) <= Len(log) /\ \A i \in 1..Len(s) : s[i] = log[i]

IsSuffixOf(s, log) ==
  Len(s) <= Len(log) /\ \A i \in 1..Len(s) : s[i] = log[Len(log) - Len(s) + i]

\* s is the run of log that follows its first n frames.
IsRun(s, n, log) == n + Len(s) <= Len(log) /\ \A i \in 1..Len(s) : s[i] = log[n + i]

PositionInv ==
  /\ PositionsCountFrames
  /\ IsPrefixOf(sGot, cLog) /\ IsPrefixOf(cGot, sLog)
  /\ IsSuffixOf(cRetained, cLog) /\ IsSuffixOf(sRetained, sLog)
  /\ state # "terminated" => clientPosition - Len(cRetained) <= sClientPosition
  /\ sState # "terminated" => serverPosition - Len(sRetained) <= cServerPosition

(***************************************************************************)
(* Frames in flight.  One KEEPALIVE may be among them; an ERROR is the     *)
(* last frame.                                                             *)
(***************************************************************************)
IsKeepalive(f) == f.type = "KEEPALIVE"
IsError(f) == f.type = "ERROR"

\* The KEEPALIVEs among the first i frames.
Echoes(queue, i) == IF \E j \in 1..i : IsKeepalive(queue[j]) THEN 1 ELSE 0

\* What the queue carries continues the log after its first n frames.
Flow(queue, n, log) ==
  /\ \A i, j \in 1..Len(queue) : IsKeepalive(queue[i]) /\ IsKeepalive(queue[j]) => i = j
  /\ \A i \in 1..Len(queue) :
       \/ IsKeepalive(queue[i])
       \/ IsError(queue[i]) /\ i = Len(queue)
       \/ /\ n + i - Echoes(queue, i) \in 1..Len(log)
          /\ queue[i] = log[n + i - Echoes(queue, i)]

\* ... up to its end.
Complete(queue, n, log) == n + Len(queue) - Echoes(queue, Len(queue)) = Len(log)

NoError(queue) == \A i \in 1..Len(queue) : ~IsError(queue[i])

Open == link[connection] = "open"
Bound == binding = connection /\ Open

LinkInv ==
  /\ \A k \in Connections :
       /\ k > connection => link[k] = "unused" /\ up[k] = <<>> /\ down[k] = <<>>
       /\ k < connection => link[k] = "broken" /\ down[k] = <<>>
  /\ link[connection] # "unused"
  /\ state \in {"lost", "terminated"} => ~Open /\ down[connection] = <<>>
  /\ binding # 0 <=> sState = "active"
  /\ binding <= connection
  /\ Open /\ state \in {"active", "replaying"} =>
       \/ binding = connection
       \/ sState = "listening" /\ connection = 1 /\ state = "active" /\ up[1] # <<>>

\* The frames of the requester: on the connection the responder reads, on the
\* first one before it is accepted, and RESUMEs nobody has read yet.
BoundUp ==
  binding # 0 =>
    /\ Flow(up[binding], sClientPosition, cLog) /\ NoError(up[binding])
    /\ binding = connection /\ state \in {"handshake", "replaying"} => up[binding] = <<>>
    /\ Bound /\ state = "active" => Complete(up[binding], sClientPosition, cLog)

SetupUp(k) ==
  /\ k = 1 /\ sState = "listening" /\ Head(up[k]).type = "SETUP"
  /\ Flow(Tail(up[k]), 0, cLog) /\ NoError(Tail(up[k]))
  /\ connection = 1 /\ Open => Complete(Tail(up[k]), 0, cLog)
  /\ connection = 1 => state \notin {"handshake", "replaying"}

ResumeUp(k) ==
  /\ Len(up[k]) = 1 /\ Head(up[k]).type = "RESUME"
  /\ Head(up[k]).received <= cServerPosition
  /\ Head(up[k]).first <= sClientPosition
  /\ k = connection =>
       /\ state \in {"handshake", "lost", "terminated"}
       /\ state = "handshake" =>
            /\ down[connection] = <<>>
            /\ Head(up[k]).received = cServerPosition
            /\ Head(up[k]).first = clientPosition - Len(cRetained)

UpInv ==
  /\ BoundUp
  /\ \A k \in Connections : k # binding /\ up[k] # <<>> => SetupUp(k) \/ ResumeUp(k)

KeepaliveInv ==
  /\ \A i \in 1..Len(up[connection]), j \in 1..Len(down[connection]) :
       ~(IsKeepalive(up[connection][i]) /\ IsKeepalive(down[connection][j]))
  /\ \A k \in Connections :
       /\ \A i \in 1..Len(up[k]) : IsKeepalive(up[k][i]) => up[k][i].position <= cServerPosition
       /\ \A i \in 1..Len(down[k]) : IsKeepalive(down[k][i]) => down[k][i].position <= sClientPosition

\* The frames of the responder, on the requester's connection.
ActiveDown ==
  state = "active" =>
    /\ Flow(down[connection], cServerPosition, sLog)
    /\ Open => NoError(down[connection])
    /\ Bound => Complete(down[connection], cServerPosition, sLog)

\* A RESUME_OK names a position the requester still has what follows of.
Replayable(position) ==
  /\ position \in (clientPosition - Len(cRetained))..sClientPosition
  /\ Bound => position = sClientPosition

ReplayingDown ==
  state = "replaying" =>
    /\ Replayable(resumeOk)
    /\ IsRun(pendingIncomingFrames, cServerPosition, sLog)
    /\ IsRun(down[connection], cServerPosition + Len(pendingIncomingFrames), sLog)
    /\ Bound => cServerPosition + Len(pendingIncomingFrames) + Len(down[connection]) = Len(sLog)

HandshakeDown ==
  state = "handshake" =>
    /\ Bound => down[connection] # <<>>
    /\ down[connection] # <<>> =>
       \/ Len(down[connection]) = 1 /\ Head(down[connection]).type = "REJECTED_RESUME" /\ ~Open
       \/ /\ Head(down[connection]).type = "RESUME_OK"
          /\ Replayable(Head(down[connection]).position)
          /\ IsRun(Tail(down[connection]), cServerPosition, sLog)
          /\ Open => Bound
          /\ Bound => cServerPosition + Len(Tail(down[connection])) = Len(sLog)

DownInv ==
  /\ ActiveDown /\ ReplayingDown /\ HandshakeDown
  /\ state # "replaying" => resumeOk = NoPosition /\ pendingIncomingFrames = <<>>

(***************************************************************************)
(* Requests and answers: each frame is sent once.                          *)
(***************************************************************************)
Elements(s) == {s[i] : i \in 1..Len(s)}
Distinct(s) == \A i, j \in 1..Len(s) : s[i] = s[j] => i = j

RequestInv ==
  /\ Distinct(cLog) /\ Distinct(pendingFrames)
  /\ Elements(cLog) \cap Elements(pendingFrames) = {}
  /\ \A f \in Elements(cLog) \cup Elements(pendingFrames) :
       /\ f.stream < nextStreamId
       /\ f.type = "CANCEL" => f.stream \notin streams
  /\ \A id \in streams \cup withdrawn : id < nextStreamId
  /\ \A id \in withdrawn :
       /\ id \notin streams
       /\ {Request(id), Cancel(id)} \cap (Elements(cLog) \cup Elements(pendingFrames)) = {}
  /\ state = "active" => pendingFrames = <<>>

AnswerInv ==
  /\ Distinct(sLog)
  /\ \A f \in Elements(sLog) : f.stream < sNextStreamId /\ f.stream \notin sStreams
  /\ \A id \in sStreams : id < sNextStreamId
  /\ sState \in {"listening", "terminated"} => sStreams = {} /\ sRetained = <<>>
  /\ sState = "listening" => sLog = <<>> /\ sGot = <<>>

NetworkInv == PositionInv /\ LinkInv /\ UpInv /\ KeepaliveInv /\ DownInv

IInv == Types /\ NetworkInv /\ RequestInv /\ AnswerInv

-------------------------------------------------------------------------------
(***************************************************************************)
(* Frames: what their fields tell apart.                                   *)
(***************************************************************************)
LEMMA PositionalFrame ==
  \A f \in PositionalFrames :
    /\ f.type \in {"REQUEST", "CANCEL"} /\ f.stream \in StreamIds
    /\ f = Request(f.stream) \/ f = Cancel(f.stream)
    /\ f.type = "REQUEST" => f = Request(f.stream)
    /\ f.type = "CANCEL" => f = Cancel(f.stream)
BY DEF PositionalFrames, Request, Cancel

LEMMA AnswerFrame ==
  \A f \in Answers : f.type = "PAYLOAD" /\ f.stream \in StreamIds /\ f = Response(f.stream)
BY DEF Answers, Response

LEMMA UpFrame ==
  \A f \in UpFrames :
    /\ f.type \in {"REQUEST", "CANCEL"} => f \in PositionalFrames
    /\ f.type \in {"REQUEST", "CANCEL", "KEEPALIVE", "SETUP", "RESUME"}
    /\ f.type = "KEEPALIVE" => f.position \in Nat
    /\ f.type = "RESUME" => f.received \in Nat /\ f.first \in Nat
BY PositionalFrame DEF UpFrames

LEMMA DownFrame ==
  \A f \in DownFrames :
    /\ f.type = "PAYLOAD" => f \in Answers
    /\ f.type \in {"PAYLOAD", "KEEPALIVE", "RESUME_OK", "REJECTED_RESUME", "ERROR"}
    /\ f.type \in {"KEEPALIVE", "RESUME_OK"} => f.position \in Nat
BY AnswerFrame DEF DownFrames

LEMMA StreamFrames ==
  \A id \in StreamIds :
    /\ Request(id) \in PositionalFrames /\ Request(id).type = "REQUEST" /\ Request(id).stream = id
    /\ Cancel(id) \in PositionalFrames /\ Cancel(id).type = "CANCEL" /\ Cancel(id).stream = id
    /\ Response(id) \in Answers /\ Response(id).stream = id
BY DEF PositionalFrames, Answers, Request, Cancel, Response

LEMMA KeepaliveFrames ==
  \A p \in Nat :
    /\ Keepalive(TRUE, p) \in UpFrames /\ IsKeepalive(Keepalive(TRUE, p)) /\ Keepalive(TRUE, p).position = p
    /\ Keepalive(FALSE, p) \in DownFrames /\ IsKeepalive(Keepalive(FALSE, p)) /\ Keepalive(FALSE, p).position = p
    /\ ~IsError(Keepalive(TRUE, p)) /\ ~IsError(Keepalive(FALSE, p))
BY DEF UpFrames, DownFrames, Keepalive, IsKeepalive, IsError

LEMMA ResumeFrames ==
  \A p, q \in Nat :
    /\ Resume(p, q) \in UpFrames /\ Resume(p, q).type = "RESUME"
    /\ Resume(p, q).received = p /\ Resume(p, q).first = q
    /\ ResumeOk(p) \in DownFrames /\ ResumeOk(p).type = "RESUME_OK" /\ ResumeOk(p).position = p
BY DEF UpFrames, DownFrames, Resume, ResumeOk

LEMMA ControlFrames ==
  /\ Setup \in UpFrames /\ Setup.type = "SETUP"
  /\ Rejected \in DownFrames /\ Rejected.type = "REJECTED_RESUME"
  /\ ConnectionError \in DownFrames /\ IsError(ConnectionError) /\ ~IsKeepalive(ConnectionError)
BY DEF UpFrames, DownFrames, Setup, Rejected, ConnectionError, IsKeepalive, IsError

LEMMA FramesInFlight == PositionalFrames \subseteq UpFrames /\ Answers \subseteq DownFrames
BY DEF UpFrames, DownFrames

\* Positional frames and answers are neither KEEPALIVEs nor errors.
Plain(f) == ~IsKeepalive(f) /\ ~IsError(f)

LEMMA PlainFrames == \A f \in PositionalFrames \cup Answers : Plain(f)
BY PositionalFrame, AnswerFrame DEF Plain, IsKeepalive, IsError

(***************************************************************************)
(* Laws of prefixes, suffixes and runs.                                    *)
(***************************************************************************)
LEMMA Extended ==
  ASSUME NEW S, NEW log \in Seq(S), NEW more \in Seq(S)
  PROVE  /\ log \o more \in Seq(S) /\ Len(log \o more) = Len(log) + Len(more)
         /\ IsPrefixOf(log, log \o more)
         /\ IsRun(more, Len(log), log \o more)
BY ConcatProperties, LenProperties DEF IsPrefixOf, IsRun

LEMMA PrefixGrows ==
  ASSUME NEW S, NEW log \in Seq(S), NEW more \in Seq(S), NEW s \in Seq(S), IsPrefixOf(log, more)
  PROVE  /\ IsPrefixOf(s, log) => IsPrefixOf(s, more)
         /\ \A n \in Nat : IsRun(s, n, log) => IsRun(s, n, more)
BY LenProperties DEF IsPrefixOf, IsRun

LEMMA RunGrows ==
  ASSUME NEW S, NEW log \in Seq(S), NEW more \in Seq(S), IsPrefixOf(log, more),
         NEW Q, NEW s \in Seq(Q), NEW n \in Nat, IsRun(s, n, log)
  PROVE  IsRun(s, n, more)
BY LenProperties DEF IsPrefixOf, IsRun

LEMMA RunAfterPrefix ==
  ASSUME NEW S, NEW log \in Seq(S), NEW got \in Seq(S), NEW s \in Seq(S),
         IsPrefixOf(got, log), IsRun(s, Len(got), log)
  PROVE  got \o s \in Seq(S) /\ Len(got \o s) = Len(got) + Len(s) /\ IsPrefixOf(got \o s, log)
BY ConcatProperties, LenProperties DEF IsPrefixOf, IsRun

LEMMA SuffixGrows ==
  ASSUME NEW S, NEW log \in Seq(S), NEW s \in Seq(S), NEW more \in Seq(S), IsSuffixOf(s, log)
  PROVE  s \o more \in Seq(S) /\ Len(s \o more) = Len(s) + Len(more) /\ IsSuffixOf(s \o more, log \o more)
BY ConcatProperties, LenProperties DEF IsSuffixOf

LEMMA EmptyIsSuffix ==
  ASSUME NEW S, NEW log \in Seq(S)
  PROVE  IsSuffixOf(<<>>, log) /\ IsPrefixOf(<<>>, log) /\ \A n \in 0..Len(log) : IsRun(<<>>, n, log)
BY LenProperties, EmptySeq DEF IsSuffixOf, IsPrefixOf, IsRun

\* RetainedFrom cuts a suffix that begins right after the position.
LEMMA RetainedFromLaw ==
  ASSUME NEW S, NEW log \in Seq(S), NEW s \in Seq(S), IsSuffixOf(s, log),
         NEW p \in (Len(log) - Len(s))..Len(log)
  PROVE  /\ RetainedFrom(s, Len(log), p) \in Seq(S)
         /\ Len(RetainedFrom(s, Len(log), p)) = Len(log) - p
         /\ IsSuffixOf(RetainedFrom(s, Len(log), p), log)
         /\ IsRun(RetainedFrom(s, Len(log), p), p, log)
<1> DEFINE m == Len(s) - (Len(log) - p) + 1
           r == SubSeq(s, m, Len(s))
<1>1. /\ Len(s) \in Nat /\ Len(log) \in Nat /\ Len(s) <= Len(log) /\ p \in Nat /\ p <= Len(log)
      /\ m \in 1..(Len(s) + 1) /\ \A i \in 1..Len(s) : s[i] \in S
  BY LenProperties, ElementOfSeq DEF IsSuffixOf
<1>2. /\ r \in Seq(S) /\ Len(r) = Len(log) - p
      /\ \A i \in 1..(Len(log) - p) : r[i] = s[m + i - 1]
  <2> HIDE DEF m
  <2>1. /\ r \in Seq(S) /\ Len(r) = IF m <= Len(s) THEN Len(s) - m + 1 ELSE 0
        /\ \A i \in 1..(Len(s) - m + 1) : r[i] = s[m + i - 1]
    BY <1>1, SubSeqProperties
  <2> QED BY <1>1, <2>1 DEF m
<1>3. \A i \in 1..(Len(log) - p) : r[i] = log[p + i]
  BY <1>1, <1>2 DEF IsSuffixOf
<1>4. RetainedFrom(s, Len(log), p) = r
  BY DEF RetainedFrom
<1> HIDE DEF r, m
<1>5. r \in Seq(S) /\ Len(r) = Len(log) - p
  BY <1>2
<1>6. /\ p + Len(r) <= Len(log) /\ Len(log) - Len(r) = p
      /\ Len(r) <= Len(log) /\ 1..Len(r) = 1..(Len(log) - p)
  BY <1>1, <1>5
<1>7. IsSuffixOf(r, log)
  BY <1>3, <1>6 DEF IsSuffixOf
<1>8. IsRun(r, p, log)
  BY <1>3, <1>6 DEF IsRun
<1> QED BY <1>4, <1>5, <1>7, <1>8

LEMMA AcknowledgedLaw ==
  ASSUME NEW S, NEW log \in Seq(S), NEW s \in Seq(S), IsSuffixOf(s, log),
         NEW p \in Nat, p <= Len(log)
  PROVE  /\ Acknowledged(s, Len(log), p) \in Seq(S)
         /\ IsSuffixOf(Acknowledged(s, Len(log), p), log)
         /\ Len(log) - Len(Acknowledged(s, Len(log), p)) \in {Len(log) - Len(s), p}
<1>1. Len(s) \in Nat /\ Len(log) \in Nat
  BY LenProperties
<1>2. CASE p <= Len(log) - Len(s)
  BY <1>1, <1>2 DEF Acknowledged
<1>3. CASE ~(p <= Len(log) - Len(s))
  <2>1. p \in (Len(log) - Len(s))..Len(log)
    BY <1>1, <1>3
  <2>2. Acknowledged(s, Len(log), p) = RetainedFrom(s, Len(log), p)
    BY <1>3 DEF Acknowledged
  <2> QED BY <1>1, <2>1, <2>2, RetainedFromLaw
<1> QED BY <1>2, <1>3

(***************************************************************************)
(* Laws of the frames in flight.                                           *)
(***************************************************************************)
LEMMA EchoesFacts ==
  ASSUME NEW queue, NEW i \in Nat
  PROVE  /\ Echoes(queue, i) \in 0..1
         /\ Echoes(queue, i) = 1 <=> \E j \in 1..i : IsKeepalive(queue[j])
BY DEF Echoes

LEMMA FlowEmpty ==
  ASSUME NEW log, NEW n \in Nat
  PROVE  /\ Flow(<<>>, n, log) /\ NoError(<<>>)
         /\ Complete(<<>>, n, log) <=> n = Len(log)
BY DEF Flow, Complete, NoError, Echoes

LEMMA FlowLogGrows ==
  ASSUME NEW S, NEW log \in Seq(S), NEW more \in Seq(S), IsPrefixOf(log, more),
         NEW Q, NEW queue \in Seq(Q), NEW n \in Nat, Flow(queue, n, log)
  PROVE  Flow(queue, n, more)
<1>1. Len(queue) \in Nat /\ Len(log) \in Nat /\ Len(more) \in Nat
  BY LenProperties
<1>2. \A i \in 1..Len(queue) : Echoes(queue, i) \in 0..1
  BY DEF Echoes
<1> QED BY <1>1, <1>2 DEF Flow, IsPrefixOf

LEMMA FlowRun ==
  ASSUME NEW S, NEW log \in Seq(S), \A f \in S : Plain(f),
         NEW s \in Seq(S), NEW n \in Nat, IsRun(s, n, log)
  PROVE  /\ Flow(s, n, log) /\ NoError(s) /\ \A i \in 1..Len(s) : ~IsKeepalive(s[i])
         /\ Complete(s, n, log) <=> n + Len(s) = Len(log)
<1>1. Len(s) \in Nat /\ Len(log) \in Nat /\ \A i \in 1..Len(s) : s[i] \in S
  BY LenProperties, ElementOfSeq
<1>2. \A i \in 1..Len(s) : ~IsKeepalive(s[i]) /\ ~IsError(s[i])
  BY <1>1 DEF Plain
<1>3. \A i \in 0..Len(s) : Echoes(s, i) = 0
  BY <1>1, <1>2 DEF Echoes
<1> QED BY <1>1, <1>2, <1>3 DEF IsRun, Flow, Complete, NoError

LEMMA FlowAppend ==
  ASSUME NEW S, NEW log \in Seq(S), NEW f \in S, Plain(f),
         NEW Q, NEW queue \in Seq(Q), f \in Q, NEW n \in Nat,
         Flow(queue, n, log), NoError(queue), Complete(queue, n, log)
  PROVE  /\ Flow(Append(queue, f), n, Append(log, f))
         /\ NoError(Append(queue, f)) /\ Complete(Append(queue, f), n, Append(log, f))
<1> DEFINE q == Append(queue, f)
           l == Append(log, f)
           len == Len(queue)
<1>1. /\ len \in Nat /\ Len(log) \in Nat /\ Len(q) = len + 1 /\ Len(l) = Len(log) + 1
      /\ \A i \in 1..len : q[i] = queue[i]
      /\ q[len + 1] = f
      /\ \A i \in 1..Len(log) : l[i] = log[i]
      /\ l[Len(log) + 1] = f
  BY LenProperties, AppendProperties
<1> HIDE DEF q, l
<1>2. /\ \A i \in 1..len : Echoes(q, i) = Echoes(queue, i)
      /\ Echoes(q, len + 1) = Echoes(queue, len)
      /\ \A i \in 1..len : Echoes(queue, i) \in 0..1
      /\ Echoes(queue, len) \in 0..1
  BY <1>1 DEF Echoes, Plain
<1>3. n + len - Echoes(queue, len) = Len(log)
  BY DEF Complete
<1>4. ASSUME NEW i \in 1..(len + 1)
      PROVE  \/ IsKeepalive(q[i])
             \/ n + i - Echoes(q, i) \in 1..Len(l) /\ q[i] = l[n + i - Echoes(q, i)]
  <2>1. CASE i = len + 1
    BY <1>1, <1>2, <1>3, <2>1
  <2>2. CASE i \in 1..len
    <3>1. \/ IsKeepalive(queue[i])
          \/ n + i - Echoes(queue, i) \in 1..Len(log) /\ queue[i] = log[n + i - Echoes(queue, i)]
      BY <2>2 DEF Flow, NoError
    <3> QED BY <1>1, <1>2, <2>2, <3>1
  <2> QED BY <1>1, <2>1, <2>2
<1>5. \A i, j \in 1..(len + 1) : IsKeepalive(q[i]) /\ IsKeepalive(q[j]) => i = j
  BY <1>1 DEF Flow, Plain
<1>6. Flow(q, n, l)
  BY <1>1, <1>4, <1>5 DEF Flow
<1>7. NoError(q)
  BY <1>1 DEF NoError, Plain
<1>8. Complete(q, n, l)
  BY <1>1, <1>2, <1>3 DEF Complete
<1> QED BY <1>6, <1>7, <1>8 DEF q, l

\* A KEEPALIVE, or an ERROR, joins the frames in flight.
LEMMA FlowAppendControl ==
  ASSUME NEW S, NEW log \in Seq(S), NEW Q, NEW queue \in Seq(Q), NEW f \in Q, NEW n \in Nat,
         Flow(queue, n, log), NoError(queue),
         \/ IsError(f) /\ ~IsKeepalive(f)
         \/ IsKeepalive(f) /\ \A i \in 1..Len(queue) : ~IsKeepalive(queue[i])
  PROVE  /\ Flow(Append(queue, f), n, log)
         /\ IsKeepalive(f) => /\ ~IsError(f) => NoError(Append(queue, f))
                              /\ Complete(queue, n, log) => Complete(Append(queue, f), n, log)
<1> DEFINE q == Append(queue, f)
           len == Len(queue)
<1>1. /\ len \in Nat /\ Len(log) \in Nat /\ Len(q) = len + 1
      /\ \A i \in 1..len : q[i] = queue[i]
      /\ q[len + 1] = f
  BY LenProperties, AppendProperties
<1> HIDE DEF q
<1>2. /\ \A i \in 1..len : Echoes(q, i) = Echoes(queue, i)
      /\ \A i \in 1..len : Echoes(queue, i) \in 0..1
      /\ IsKeepalive(f) => Echoes(q, len + 1) = 1
      /\ (\A i \in 1..Len(queue) : ~IsKeepalive(queue[i])) => Echoes(queue, len) = 0
  BY <1>1 DEF Echoes
<1>3. ASSUME NEW i \in 1..(len + 1)
      PROVE  \/ IsKeepalive(q[i])
             \/ IsError(q[i]) /\ i = len + 1
             \/ n + i - Echoes(q, i) \in 1..Len(log) /\ q[i] = log[n + i - Echoes(q, i)]
  <2>1. CASE i = len + 1
    BY <1>1, <2>1
  <2>2. CASE i \in 1..len
    BY <1>1, <1>2, <2>2 DEF Flow, NoError
  <2> QED BY <1>1, <2>1, <2>2
<1>4. \A i, j \in 1..(len + 1) : IsKeepalive(q[i]) /\ IsKeepalive(q[j]) => i = j
  BY <1>1 DEF Flow
<1>5. Flow(q, n, log)
  BY <1>1, <1>3, <1>4 DEF Flow
<1>6. IsKeepalive(f) /\ ~IsError(f) => NoError(q)
  BY <1>1 DEF NoError
<1>7. IsKeepalive(f) /\ Complete(queue, n, log) => Complete(q, n, log)
  <2> SUFFICES ASSUME IsKeepalive(f), Complete(queue, n, log) PROVE Complete(q, n, log)
    OBVIOUS
  <2>1. Echoes(q, len + 1) = 1
    BY <1>1 DEF Echoes
  <2>2. \A i \in 1..len : ~IsKeepalive(queue[i]) \/ (IsError(f) /\ ~IsKeepalive(f))
    OBVIOUS
  <2>3. Echoes(queue, len) = 0
    BY <2>2 DEF Echoes
  <2> QED BY <1>1, <2>1, <2>3 DEF Complete
<1> QED BY <1>5, <1>6, <1>7 DEF q

LEMMA FlowTail ==
  ASSUME NEW S, NEW log \in Seq(S), NEW Q, NEW queue \in Seq(Q), queue # <<>>, NEW n \in Nat,
         Flow(queue, n, log)
  PROVE  /\ IsKeepalive(Head(queue)) =>
              /\ Flow(Tail(queue), n, log)
              /\ \A i \in 1..Len(Tail(queue)) : ~IsKeepalive(Tail(queue)[i])
              /\ Complete(queue, n, log) => Complete(Tail(queue), n, log)
         /\ Plain(Head(queue)) =>
              /\ n + 1 <= Len(log) /\ Head(queue) = log[n + 1]
              /\ Flow(Tail(queue), n + 1, log)
              /\ Complete(queue, n, log) => Complete(Tail(queue), n + 1, log)
         /\ NoError(queue) => NoError(Tail(queue))
<1> DEFINE q == Tail(queue)
           len == Len(queue)
           h == Head(queue)
<1>1. /\ len \in Nat /\ len > 0 /\ Len(log) \in Nat /\ q \in Seq(Q) /\ Len(q) = len - 1
      /\ \A i \in 1..(len - 1) : q[i] = queue[i + 1]
      /\ h = queue[1]
  BY LenProperties, HeadTailProperties, EmptySeq
<1> HIDE DEF q, h
<1>2. /\ \A i, j \in 1..len : IsKeepalive(queue[i]) /\ IsKeepalive(queue[j]) => i = j
      /\ \A i \in 1..len : \/ IsKeepalive(queue[i])
                           \/ IsError(queue[i]) /\ i = len
                           \/ /\ n + i - Echoes(queue, i) \in 1..Len(log)
                              /\ queue[i] = log[n + i - Echoes(queue, i)]
  BY DEF Flow
<1>3. ASSUME NEW i \in 1..(len - 1), NEW j \in 1..(len - 1), IsKeepalive(q[i]), IsKeepalive(q[j])
      PROVE  i = j
  <2>1. /\ i + 1 \in 1..len /\ j + 1 \in 1..len
        /\ q[i] = queue[i + 1] /\ q[j] = queue[j + 1]
    BY <1>1
  <2>2. i + 1 = j + 1
    BY <1>2, <1>3, <2>1
  <2> QED BY <2>2
<1>4. \A i \in 1..len : Echoes(queue, i) \in 0..1
  BY DEF Echoes
<1>5. ASSUME IsKeepalive(h)
      PROVE  /\ Flow(q, n, log) /\ \A i \in 1..Len(q) : ~IsKeepalive(q[i])
             /\ Complete(queue, n, log) => Complete(q, n, log)
  <2>1. \A i \in 2..len : ~IsKeepalive(queue[i])
    BY <1>1, <1>2, <1>5
  <2>2. \A i \in 1..(len - 1) : ~IsKeepalive(q[i])
    BY <1>1, <2>1
  <2>3. /\ \A i \in 0..(len - 1) : Echoes(q, i) = 0
        /\ \A i \in 1..len : Echoes(queue, i) = 1
    BY <1>1, <1>5, <2>2 DEF Echoes
  <2>4. ASSUME NEW i \in 1..(len - 1)
        PROVE  \/ IsError(q[i]) /\ i = Len(q)
               \/ n + i - Echoes(q, i) \in 1..Len(log) /\ q[i] = log[n + i - Echoes(q, i)]
    <3>1. i + 1 \in 2..len /\ i + 1 \in 1..len
      BY <1>1
    <3>2. \/ IsError(queue[i + 1]) /\ i + 1 = len
          \/ /\ n + (i + 1) - Echoes(queue, i + 1) \in 1..Len(log)
             /\ queue[i + 1] = log[n + (i + 1) - Echoes(queue, i + 1)]
      BY <1>2, <2>1, <3>1
    <3>3. Echoes(queue, i + 1) = 1 /\ Echoes(q, i) = 0 /\ q[i] = queue[i + 1]
      BY <1>1, <2>3, <3>1
    <3> QED BY <1>1, <3>1, <3>2, <3>3
  <2>5. Flow(q, n, log)
    BY <1>1, <1>3, <2>4 DEF Flow
  <2>6. Complete(queue, n, log) => Complete(q, n, log)
    BY <1>1, <2>3 DEF Complete
  <2> QED BY <1>1, <2>2, <2>5, <2>6
<1>6. ASSUME Plain(h)
      PROVE  /\ n + 1 <= Len(log) /\ h = log[n + 1]
             /\ Flow(q, n + 1, log)
             /\ Complete(queue, n, log) => Complete(q, n + 1, log)
  <2>1. ~IsKeepalive(queue[1]) /\ ~IsError(queue[1])
    BY <1>1, <1>6 DEF Plain
  <2>2. \A i \in 0..(len - 1) : Echoes(q, i) = Echoes(queue, i + 1)
    <3> SUFFICES ASSUME NEW i \in 0..(len - 1)
                 PROVE  (\E j \in 1..i : IsKeepalive(q[j])) <=> (\E j \in 1..(i + 1) : IsKeepalive(queue[j]))
      BY DEF Echoes
    <3>1. ASSUME NEW j \in 1..i, IsKeepalive(q[j]) PROVE \E k \in 1..(i + 1) : IsKeepalive(queue[k])
      <4>1. j + 1 \in 1..(i + 1) /\ q[j] = queue[j + 1]
        BY <1>1
      <4> QED BY <3>1, <4>1
    <3>2. ASSUME NEW j \in 1..(i + 1), IsKeepalive(queue[j]) PROVE \E k \in 1..i : IsKeepalive(q[k])
      <4>1. j - 1 \in 1..i /\ j - 1 \in 1..(len - 1) /\ (j - 1) + 1 = j
        BY <1>1, <2>1, <3>2
      <4>2. q[j - 1] = queue[j]
        BY <1>1, <4>1
      <4> QED BY <3>2, <4>1, <4>2
    <3> QED BY <3>1, <3>2
  <2>3. Echoes(queue, 1) = 0 /\ 1 \in 1..len
    BY <1>1, <2>1 DEF Echoes
  <2>4. n + 1 <= Len(log) /\ h = log[n + 1]
    BY <1>1, <1>2, <2>1, <2>3
  <2>5. ASSUME NEW i \in 1..(len - 1)
        PROVE  \/ IsKeepalive(q[i])
               \/ IsError(q[i]) /\ i = Len(q)
               \/ n + 1 + i - Echoes(q, i) \in 1..Len(log) /\ q[i] = log[n + 1 + i - Echoes(q, i)]
    <3>1. i + 1 \in 1..len /\ q[i] = queue[i + 1] /\ Echoes(q, i) = Echoes(queue, i + 1)
      BY <1>1, <2>2
    <3>2. PICK e \in 0..1 : e = Echoes(queue, i + 1) /\ e = Echoes(q, i)
      BY <1>4, <3>1
    <3>3. \/ IsKeepalive(queue[i + 1])
          \/ IsError(queue[i + 1]) /\ i + 1 = len
          \/ n + (i + 1) - e \in 1..Len(log) /\ queue[i + 1] = log[n + (i + 1) - e]
      BY <1>2, <3>1, <3>2
    <3>4. n + (i + 1) - e = n + 1 + i - e /\ i \in Nat
      BY <3>2, <1>1
    <3> QED BY <1>1, <3>1, <3>2, <3>3, <3>4
  <2>6. Complete(queue, n, log) => Complete(q, n + 1, log)
    <3>1. Echoes(q, len - 1) = Echoes(queue, len) /\ Echoes(queue, len) \in 0..1
      BY <1>1, <1>4, <2>2
    <3> QED BY <1>1, <3>1 DEF Complete
  <2>7. Flow(q, n + 1, log)
    BY <1>1, <1>3, <2>5 DEF Flow
  <2> QED BY <2>4, <2>6, <2>7
<1>7. NoError(queue) => NoError(q)
  BY <1>1 DEF NoError
<1> QED BY <1>5, <1>6, <1>7 DEF q, h

-------------------------------------------------------------------------------
(***************************************************************************)
(* Connections.                                                            *)
(***************************************************************************)
LEMMA DeliveredLaw ==
  ASSUME NEW Q, NEW queue \in [Connections -> Seq(Q)], NEW k \in Connections, NEW frames \in Seq(Q)
  PROVE  /\ Delivered(queue, k, frames) \in [Connections -> Seq(Q)]
         /\ \A j \in Connections \ {k} : Delivered(queue, k, frames)[j] = queue[j]
         /\ link[k] = "open" => Delivered(queue, k, frames)[k] = queue[k] \o frames
         /\ link[k] # "open" => Delivered(queue, k, frames) = queue
<1>1. queue[k] \o frames \in Seq(Q)
  BY ConcatProperties
<1> QED BY <1>1 DEF Delivered

LEMMA SingleFrame ==
  ASSUME NEW Q, NEW queue \in Seq(Q), NEW f \in Q
  PROVE  <<f>> \in Seq(Q) /\ queue \o <<f>> = Append(queue, f) /\ Append(queue, f) \in Seq(Q)
BY ConcatProperties, AppendProperties, LenProperties

LEMMA DeliveredFrame ==
  ASSUME NEW Q, NEW queue \in [Connections -> Seq(Q)], NEW k \in Connections, NEW f \in Q
  PROVE  /\ Delivered(queue, k, <<f>>) \in [Connections -> Seq(Q)]
         /\ \A j \in Connections \ {k} : Delivered(queue, k, <<f>>)[j] = queue[j]
         /\ link[k] = "open" => Delivered(queue, k, <<f>>)[k] = Append(queue[k], f)
         /\ link[k] # "open" => Delivered(queue, k, <<f>>) = queue
<1>1. queue[k] \o <<f>> = Append(queue[k], f) /\ Append(queue[k], f) \in Seq(Q)
  BY SingleFrame
<1> QED BY <1>1 DEF Delivered

LEMMA LinkFacts ==
  ASSUME Types, LinkInv
  PROVE  /\ MaxConnections \in Nat /\ connection \in Nat /\ connection \in Connections
         /\ binding # 0 => binding \in Connections
         /\ \A k \in Connections : link[k] = "open" => k = connection
         /\ \A k \in Connections : link[k] \in {"open", "broken", "unused"}
         /\ \A k \in Connections : up[k] # <<>> => k <= connection
         /\ Open => state \in {"active", "handshake", "replaying"}
         /\ ~Open => link[connection] = "broken"
         /\ Bound => binding = connection /\ Open /\ sState = "active"
         /\ binding = connection /\ Open => Bound
<1>1. MaxConnections \in Nat /\ connection \in Connections
  BY SessionAssumption DEF Types
<1>2. Connections \subseteq Nat /\ 0 \notin Connections
  BY <1>1 DEF Connections
<1>3. \A k \in Connections : link[k] \in {"open", "broken", "unused"}
  BY DEF Types
<1>4. \A k \in Connections : k = connection \/ k < connection \/ k > connection
  BY <1>1, <1>2
<1>5. /\ \A k \in Connections : link[k] = "open" => k = connection
      /\ \A k \in Connections : up[k] # <<>> => k <= connection
  BY <1>1, <1>2, <1>4 DEF LinkInv
<1>6. /\ binding # 0 => binding \in Connections
      /\ Open => state \in {"active", "handshake", "replaying"}
      /\ ~Open => link[connection] = "broken"
      /\ Bound => binding = connection /\ Open /\ sState = "active"
      /\ binding = connection /\ Open => Bound
  BY <1>1, <1>2, <1>3 DEF Types, LinkInv, Open, Bound
<1> QED BY <1>1, <1>2, <1>3, <1>5, <1>6

LEMMA Lengths ==
  ASSUME Types
  PROVE  /\ Len(cLog) \in Nat /\ Len(sGot) \in Nat /\ Len(sLog) \in Nat /\ Len(cGot) \in Nat
         /\ Len(cRetained) \in Nat /\ Len(sRetained) \in Nat
         /\ Len(pendingFrames) \in Nat /\ Len(pendingIncomingFrames) \in Nat
         /\ \A k \in Connections : Len(up[k]) \in Nat /\ Len(down[k]) \in Nat
BY LenProperties DEF Types

-------------------------------------------------------------------------------
(***************************************************************************)
(* The requester gives its connection up: whatever happened to the frames  *)
(* it wrote before, the connection is broken and read no more.             *)
(***************************************************************************)
ClientDrops ==
  /\ state' \in {"lost", "terminated"} /\ resumeOk' = NoPosition /\ pendingIncomingFrames' = <<>>
  /\ Unbind(down, down', connection)
  /\ UNCHANGED <<connection, clientGot, server>>
  /\ IsPrefixOf(cLog, cLog') /\ clientPosition' = Len(cLog')
  /\ IsSuffixOf(cRetained', cLog')
  /\ state' # "terminated" => clientPosition' - Len(cRetained') <= sClientPosition
  /\ \/ up' = up
     \/ /\ binding = connection
        /\ \E run \in Seq(PositionalFrames) :
             IsRun(run, sClientPosition, cLog') /\ up' = [up EXCEPT ![connection] = run]

LEMMA ClientDropsStep ==
  ASSUME Types, Types', NetworkInv, ClientDrops
  PROVE  NetworkInv'
<1> USE DEF NetworkInv
<1>1. /\ connection' = connection /\ binding' = binding /\ sState' = sState
      /\ cServerPosition' = cServerPosition /\ cGot' = cGot
      /\ sClientPosition' = sClientPosition /\ sGot' = sGot
      /\ serverPosition' = serverPosition /\ sLog' = sLog /\ sRetained' = sRetained
      /\ state' \in {"lost", "terminated"}
  BY DEF ClientDrops, server, serverSent, serverGot, clientGot
<1>2. /\ IsPrefixOf(cLog, cLog') /\ clientPosition' = Len(cLog')
      /\ cLog \in Seq(PositionalFrames) /\ cLog' \in Seq(PositionalFrames)
  BY DEF ClientDrops, Types
<1>3. /\ \A k \in Connections : k # connection => link'[k] = link[k] /\ down'[k] = down[k] /\ up'[k] = up[k]
      /\ link'[connection] = "broken" /\ down'[connection] = <<>>
      /\ up' = up \/ binding = connection
  BY DEF ClientDrops, Unbind, Broken, Types
<1>4. PositionInv'
  <2>1. IsPrefixOf(sGot, cLog')
    BY <1>2, PrefixGrows DEF Types, PositionInv
  <2> QED BY <1>1, <1>2, <2>1 DEF PositionInv, PositionsCountFrames, ClientDrops
<1>5. LinkInv'
  BY <1>1, <1>3, LinkFacts DEF LinkInv, Open
<1>6. \A n \in Nat : \A q \in Seq(UpFrames) : Flow(q, n, cLog) => Flow(q, n, cLog')
  BY <1>2, FlowLogGrows
<1>7. BoundUp'
  <2> SUFFICES ASSUME binding # 0
               PROVE  /\ Flow(up'[binding], sClientPosition, cLog') /\ NoError(up'[binding])
    BY <1>1, <1>3 DEF BoundUp, Bound, Open
  <2>1. CASE up' = up
    BY <2>1, <1>6, LinkFacts DEF UpInv, BoundUp, Types
  <2>2. CASE up' # up
    <3>1. PICK run \in Seq(PositionalFrames) :
                 IsRun(run, sClientPosition, cLog') /\ up' = [up EXCEPT ![connection] = run]
      BY <2>2 DEF ClientDrops
    <3>2. Flow(run, sClientPosition, cLog') /\ NoError(run)
      BY <3>1, <1>2, FlowRun, PlainFrames DEF Types
    <3> QED BY <1>3, <2>2, <3>1, <3>2 DEF Types
  <2> QED BY <2>1, <2>2
<1>8. UpInv'
  <2> SUFFICES ASSUME NEW k \in Connections, k # binding, up'[k] # <<>>
               PROVE  SetupUp(k)' \/ ResumeUp(k)'
    BY <1>1, <1>7 DEF UpInv
  <2>1. up'[k] = up[k]
    BY <1>3
  <2>2. SetupUp(k) \/ ResumeUp(k)
    BY <2>1 DEF UpInv
  <2>3. CASE SetupUp(k)
    <3>1. Tail(up[k]) \in Seq(UpFrames)
      BY <2>1, HeadTailProperties DEF Types
    <3> QED BY <1>1, <1>3, <1>6, <2>1, <2>3, <3>1 DEF SetupUp, Open
  <2>4. CASE ResumeUp(k)
    BY <1>1, <2>1, <2>4 DEF ResumeUp
  <2> QED BY <2>2, <2>3, <2>4
<1>9. KeepaliveInv'
  <2>1. \A k \in Connections : \A i \in 1..Len(up'[k]) : IsKeepalive(up'[k][i]) => up'[k][i].position <= cServerPosition
    <3>1. CASE up' = up
      BY <3>1 DEF KeepaliveInv
    <3>2. CASE up' # up
      <4>1. PICK run \in Seq(PositionalFrames) :
                   IsRun(run, sClientPosition, cLog') /\ up' = [up EXCEPT ![connection] = run]
        BY <3>2 DEF ClientDrops
      <4>2. \A i \in 1..Len(run) : ~IsKeepalive(run[i])
        BY <4>1, <1>2, FlowRun, PlainFrames DEF Types
      <4>3. connection \in Connections
        BY DEF Types
      <4> QED BY <1>3, <4>1, <4>2, <4>3 DEF KeepaliveInv, Types
    <3> QED BY <3>1, <3>2
  <2>2. \A k \in Connections : \A i \in 1..Len(down'[k]) : IsKeepalive(down'[k][i]) => down'[k][i].position <= sClientPosition
    BY <1>3, EmptySeq DEF KeepaliveInv
  <2> QED BY <1>1, <1>3, <2>1, <2>2 DEF KeepaliveInv
<1>10. DownInv'
  BY <1>1 DEF DownInv, ActiveDown, ReplayingDown, HandshakeDown, ClientDrops
<1> QED BY <1>4, <1>5, <1>8, <1>9, <1>10

(***************************************************************************)
(* The responder lets its connection go, if it has one.  Answers may have  *)
(* joined its log before, and a refused request may have been counted and  *)
(* reported in an ERROR.                                                   *)
(***************************************************************************)
ServerDrops ==
  /\ sState # "listening"
  /\ sState' \in {"suspended", "terminated"} /\ binding' = 0
  /\ UNCHANGED client
  /\ IF binding = 0 THEN UNCHANGED <<up, link>> ELSE Unbind(up, up', binding)
  /\ IsPrefixOf(sGot', cLog) /\ sClientPosition' = Len(sGot') /\ sClientPosition' >= sClientPosition
  /\ IsPrefixOf(sLog, sLog') /\ serverPosition' = Len(sLog')
  /\ IsSuffixOf(sRetained', sLog')
  /\ sState' # "terminated" => serverPosition' - Len(sRetained') <= cServerPosition
  /\ \/ down' = down
     \/ /\ binding # 0 /\ up[binding] # <<>>
        /\ down' = Delivered(down, binding, <<ConnectionError>>)

LEMMA ResumePositions ==
  ASSUME Types, NEW k \in Connections, ResumeUp(k)
  PROVE  Head(up[k]).received \in Nat /\ Head(up[k]).first \in Nat
<1>1. up[k] \in Seq(UpFrames) /\ up[k] # <<>>
  <2>1. up[k] \in Seq(UpFrames)
    BY DEF Types
  <2>2. Len(up[k]) = 1
    BY DEF ResumeUp
  <2> QED BY <2>1, <2>2, EmptySeq
<1>2. Head(up[k]) \in UpFrames
  BY <1>1, HeadTailProperties
<1> QED BY <1>2, UpFrame DEF ResumeUp

LEMMA ServerDropsStep ==
  ASSUME Types, Types', NetworkInv, ServerDrops
  PROVE  NetworkInv'
<1> USE DEF NetworkInv
<1>1. /\ connection' = connection /\ state' = state /\ resumeOk' = resumeOk
      /\ pendingIncomingFrames' = pendingIncomingFrames
      /\ clientPosition' = clientPosition /\ cRetained' = cRetained /\ cLog' = cLog
      /\ cServerPosition' = cServerPosition /\ cGot' = cGot
      /\ sState # "listening" /\ sState' \in {"suspended", "terminated"} /\ binding' = 0
  BY DEF ServerDrops, client, queues, clientSent, clientGot
<1>2. /\ IsPrefixOf(sLog, sLog') /\ serverPosition' = Len(sLog')
      /\ sClientPosition' = Len(sGot') /\ sClientPosition' >= sClientPosition
      /\ sLog \in Seq(Answers) /\ sLog' \in Seq(Answers)
  BY DEF ServerDrops, Types
<1>3. /\ \A k \in Connections : k # binding => link'[k] = link[k] /\ up'[k] = up[k]
      /\ binding # 0 => link'[binding] = "broken" /\ up'[binding] = <<>>
      /\ link'[connection] = "open" => Open /\ binding # connection
  <2>1. CASE binding = 0
    BY <2>1, LinkFacts DEF ServerDrops, Open, Connections
  <2>2. CASE binding # 0
    BY <2>2, LinkFacts DEF ServerDrops, Unbind, Broken, Types, Open
  <2> QED BY <2>1, <2>2
<1>4. \/ down' = down
      \/ /\ Bound /\ state = "active"
         /\ down'[connection] = Append(down[connection], ConnectionError)
         /\ \A k \in Connections \ {connection} : down'[k] = down[k]
  <2> SUFFICES ASSUME binding # 0, up[binding] # <<>>,
                      down' = Delivered(down, binding, <<ConnectionError>>), down' # down
               PROVE  /\ Bound /\ state = "active"
                      /\ down'[connection] = Append(down[connection], ConnectionError)
                      /\ \A k \in Connections \ {connection} : down'[k] = down[k]
    BY DEF ServerDrops
  <2>1. binding \in Connections /\ <<ConnectionError>> \in Seq(DownFrames) /\ connection \in Connections
    BY LinkFacts, SingleFrame, ControlFrames DEF Types
  <2>2. link[binding] = "open" /\ binding = connection
    BY <2>1, LinkFacts DEF Delivered
  <2>3. Bound /\ state = "active"
    <3>1. Open /\ Bound /\ state \in {"active", "handshake", "replaying"}
      BY <2>2, LinkFacts DEF Open
    <3> QED BY <2>2, <3>1 DEF UpInv, BoundUp
  <2>4. down[connection] \o <<ConnectionError>> = Append(down[connection], ConnectionError)
    BY <2>1, SingleFrame, ControlFrames DEF Types
  <2> QED BY <2>1, <2>2, <2>3, <2>4 DEF Delivered, Types
<1>5. PositionInv'
  <2>1. IsPrefixOf(cGot, sLog')
    BY <1>2, PrefixGrows DEF Types, PositionInv
  <2>2. state # "terminated" => clientPosition - Len(cRetained) <= sClientPosition'
    BY <1>2, Lengths DEF PositionInv, Types
  <2> QED BY <1>1, <1>2, <2>1, <2>2 DEF PositionInv, PositionsCountFrames, ServerDrops
<1>6. LinkInv'
  <2>1. \A k \in Connections : /\ k > connection => link'[k] = "unused" /\ up'[k] = <<>> /\ down'[k] = <<>>
                               /\ k < connection => link'[k] = "broken" /\ down'[k] = <<>>
    <3> SUFFICES ASSUME NEW k \in Connections
                 PROVE  /\ k > connection => link'[k] = "unused" /\ up'[k] = <<>> /\ down'[k] = <<>>
                        /\ k < connection => link'[k] = "broken" /\ down'[k] = <<>>
      OBVIOUS
    <3>1. binding <= connection /\ k \in Nat /\ connection \in Nat /\ binding \in Nat
      BY LinkFacts DEF LinkInv, Connections, Types
    <3>2. k # connection => down'[k] = down[k]
      BY <1>4
    <3>3. k # binding => link'[k] = link[k] /\ up'[k] = up[k]
      BY <1>3
    <3>4. k = binding => link'[k] = "broken"
      BY <1>3, LinkFacts DEF Connections
    <3> QED BY <3>1, <3>2, <3>3, <3>4 DEF LinkInv
  <2>2. link'[connection] # "unused"
    <3>1. connection \in Connections /\ (connection = binding => binding # 0)
      BY LinkFacts DEF Connections
    <3> QED BY <1>3, <3>1 DEF LinkInv
  <2>3. state \in {"lost", "terminated"} => link'[connection] # "open" /\ down'[connection] = <<>>
    BY <1>3, <1>4, LinkFacts DEF LinkInv
  <2>4. ~(link'[connection] = "open" /\ state \in {"active", "replaying"})
    BY <1>1, <1>3 DEF LinkInv
  <2> QED BY <1>1, <2>1, <2>2, <2>3, <2>4, LinkFacts DEF LinkInv, Open
<1>7. UpInv'
  <2>1. BoundUp'
    BY <1>1 DEF BoundUp
  <2> SUFFICES ASSUME NEW k \in Connections, up'[k] # <<>>
               PROVE  ResumeUp(k)'
    BY <1>1, <2>1 DEF UpInv
  <2>2. up'[k] = up[k] /\ k # binding
    BY <1>3, LinkFacts DEF Connections
  <2>3. ResumeUp(k)
    BY <1>1, <2>2 DEF UpInv, SetupUp
  <2>4. state = "handshake" => down'[connection] = down[connection]
    BY <1>4
  <2>5. Head(up[k]).first <= sClientPosition'
    <3>1. sClientPosition \in Nat /\ sClientPosition' \in Nat
      BY DEF Types
    <3>2. Head(up[k]).first \in Nat /\ Head(up[k]).first <= sClientPosition
      BY <2>3, ResumePositions DEF ResumeUp
    <3> QED BY <1>2, <3>1, <3>2
  <2> QED BY <1>1, <2>2, <2>3, <2>4, <2>5 DEF ResumeUp
<1>8. KeepaliveInv'
  <2>1. \A k \in Connections : \A i \in 1..Len(up'[k]) : /\ up'[k] = up[k]
                                                         /\ i \in 1..Len(up[k])
    BY <1>3, LinkFacts, EmptySeq DEF Connections
  <2>2. \A k \in Connections : \A i \in 1..Len(down'[k]) :
          IsKeepalive(down'[k][i]) => i \in 1..Len(down[k]) /\ down'[k][i] = down[k][i]
    <3> SUFFICES ASSUME NEW k \in Connections, NEW i \in 1..Len(down'[k]), IsKeepalive(down'[k][i]),
                        down' # down
                 PROVE  i \in 1..Len(down[k]) /\ down'[k][i] = down[k][i]
      OBVIOUS
    <3>1. CASE k = connection
      <4>1. down'[k] = Append(down[k], ConnectionError) /\ down[k] \in Seq(DownFrames)
        BY <1>4, <3>1 DEF Types
      <4>2. /\ Len(down'[k]) = Len(down[k]) + 1 /\ Len(down[k]) \in Nat
            /\ \A j \in 1..Len(down[k]) : down'[k][j] = down[k][j]
            /\ down'[k][Len(down[k]) + 1] = ConnectionError
        BY <4>1, AppendProperties, LenProperties, ControlFrames
      <4> QED BY <4>2, ControlFrames
    <3>2. CASE k # connection
      BY <1>4, <3>2
    <3> QED BY <3>1, <3>2
  <2>3. \A k \in Connections : \A i \in 1..Len(down'[k]) : IsKeepalive(down'[k][i]) => down'[k][i].position <= sClientPosition'
    <3> SUFFICES ASSUME NEW k \in Connections, NEW i \in 1..Len(down'[k]), IsKeepalive(down'[k][i])
                 PROVE  down'[k][i].position <= sClientPosition'
      OBVIOUS
    <3>1. down'[k][i] = down[k][i] /\ down[k][i].position <= sClientPosition
      BY <2>2 DEF KeepaliveInv
    <3>2. down'[k][i] \in DownFrames
      BY ElementOfSeq, LenProperties DEF Types
    <3>3. down'[k][i].position \in Nat
      BY <3>2, DownFrame DEF IsKeepalive
    <3>4. \A n \in Nat : n <= sClientPosition => n <= sClientPosition'
      BY <1>2 DEF Types
    <3> QED BY <3>1, <3>3, <3>4
  <2>4. connection \in Connections
    BY DEF Types
  <2> QED BY <1>1, <2>1, <2>2, <2>3, <2>4 DEF KeepaliveInv
<1>9. DownInv'
  <2>1. ~Bound'
    BY <1>1, LinkFacts DEF Bound, Connections
  <2>2. ActiveDown'
    <3> SUFFICES ASSUME state = "active"
                 PROVE  Flow(down'[connection], cServerPosition, sLog') /\ link'[connection] # "open"
      BY <1>1, <2>1 DEF ActiveDown, Open
    <3>1. link'[connection] # "open"
      BY <1>1, <1>3 DEF LinkInv
    <3>2. down[connection] \in Seq(DownFrames) /\ Flow(down[connection], cServerPosition, sLog)
      BY DEF DownInv, ActiveDown, Types
    <3>3. Flow(down[connection], cServerPosition, sLog')
      BY <1>2, <3>2, FlowLogGrows DEF Types
    <3>4. CASE down' = down
      BY <3>1, <3>3, <3>4
    <3>5. CASE down' # down
      <4>1. NoError(down[connection])
        BY <1>4, <3>5 DEF DownInv, ActiveDown, Bound
      <4>2. Flow(Append(down[connection], ConnectionError), cServerPosition, sLog')
        BY <1>2, <3>2, <3>3, <4>1, FlowAppendControl, ControlFrames DEF Types
      <4> QED BY <1>4, <3>1, <3>5, <4>2
    <3> QED BY <3>4, <3>5
  <2>3. \A s \in Seq(Answers), n \in Nat : IsRun(s, n, sLog) => IsRun(s, n, sLog')
    BY <1>2, PrefixGrows
  <2>4. \A q \in Nat : Replayable(q) => Replayable(q)'
    BY <1>1, <1>2, <2>1, Lengths DEF Replayable, Types
  <2>5. ReplayingDown'
    <3> SUFFICES ASSUME state = "replaying" PROVE ReplayingDown'
      BY <1>1 DEF ReplayingDown
    <3>1. /\ Replayable(resumeOk)
          /\ IsRun(pendingIncomingFrames, cServerPosition, sLog)
          /\ IsRun(down[connection], cServerPosition + Len(pendingIncomingFrames), sLog)
      BY DEF DownInv, ReplayingDown
    <3>2. resumeOk \in Nat
      BY <3>1, Lengths DEF Replayable, IsSuffixOf, PositionInv, PositionsCountFrames, Types
    <3>3. IsRun(pendingIncomingFrames, cServerPosition, sLog')
      BY <2>3, <3>1 DEF Types
    <3>4. IsRun(down[connection], cServerPosition + Len(pendingIncomingFrames), sLog')
      <4>1. cServerPosition + Len(pendingIncomingFrames) \in Nat
        BY Lengths DEF Types
      <4> QED BY <1>2, <3>1, <4>1, RunGrows DEF Types
    <3> QED BY <1>1, <1>4, <2>1, <2>4, <3>1, <3>2, <3>3, <3>4 DEF ReplayingDown
  <2>6. HandshakeDown'
    <3> SUFFICES ASSUME state = "handshake", down[connection] # <<>>
                 PROVE  HandshakeDown'
      BY <1>1, <1>4, <2>1 DEF HandshakeDown
    <3>1. down' = down
      BY <1>4
    <3>2. CASE Head(down[connection]).type = "REJECTED_RESUME"
      BY <1>1, <1>3, <2>1, <3>1, <3>2 DEF HandshakeDown, DownInv, Open
    <3>3. CASE Head(down[connection]).type # "REJECTED_RESUME"
      <4>1. /\ Head(down[connection]).type = "RESUME_OK"
            /\ Replayable(Head(down[connection]).position)
            /\ IsRun(Tail(down[connection]), cServerPosition, sLog)
            /\ Open => Bound
        BY <3>3 DEF HandshakeDown, DownInv
      <4>2. link'[connection] # "open"
        BY <1>3, <4>1, LinkFacts
      <4>3. Head(down[connection]).position \in Nat
        BY <4>1, DownFrame, HeadTailProperties DEF Types
      <4>4. IsRun(Tail(down[connection]), cServerPosition, sLog')
        <5>1. Tail(down[connection]) \in Seq(DownFrames)
          BY HeadTailProperties DEF Types
        <5> QED BY <1>2, <4>1, <5>1, RunGrows DEF Types
      <4> QED BY <1>1, <2>1, <2>4, <3>1, <4>1, <4>2, <4>3, <4>4 DEF HandshakeDown, Open
    <3> QED BY <3>2, <3>3
  <2> QED BY <1>1, <2>2, <2>5, <2>6 DEF DownInv
<1> QED BY <1>5, <1>6, <1>7, <1>8, <1>9

-------------------------------------------------------------------------------
(***************************************************************************)
(* Induction over the naturals, for a set.                                 *)
(***************************************************************************)
LEMMA Least ==
  ASSUME NEW T \in SUBSET Nat, T # {}
  PROVE  \E m \in T : \A k \in T : m <= k
<1> DEFINE R == OpToRel(<, Nat)
<1>1. \E x \in T : \A y \in T : ~ (<<y, x>> \in R)
  BY WFMin, NatLessThanWellFounded
<1>2. \A x, y \in T : y < x => <<y, x>> \in R
  BY DEF OpToRel
<1>3. PICK x \in T : \A y \in T : ~(<<y, x>> \in R)
  BY <1>1 DEF R, OpToRel
<1>4. \A y \in T : ~(y < x)
  BY <1>2, <1>3, Zenon
<1>5. \A y \in T : y \in Nat /\ x \in Nat
  OBVIOUS
<1> HIDE DEF R
<1> QED BY <1>4, <1>5

LEMMA SetInduction ==
  ASSUME NEW T, 0 \in T, \A n \in Nat : n \in T => n + 1 \in T
  PROVE  \A n \in Nat : n \in T
<1>1. SUFFICES ASSUME NEW q \in Nat, q \notin T PROVE FALSE
  OBVIOUS
<1> DEFINE U == {n \in Nat : n \notin T}
<1>2. PICK m \in U : \A k \in U : m <= k
  <2>1. q \in U /\ U \in SUBSET Nat
    BY <1>1
  <2> HIDE DEF U
  <2> QED BY <2>1, Least
<1>3. m \in Nat /\ m # 0 /\ m - 1 \in Nat /\ m \notin T
  OBVIOUS
<1>4. m - 1 \in T
  BY <1>2, <1>3
<1> QED BY <1>3, <1>4

-------------------------------------------------------------------------------
(***************************************************************************)
(* Elements and repetitions of sequences.                                  *)
(***************************************************************************)
LEMMA AppendElements ==
  ASSUME NEW S, NEW s \in Seq(S), NEW f \in S
  PROVE  /\ Append(s, f) \in Seq(S)
         /\ Elements(Append(s, f)) = Elements(s) \cup {f}
         /\ Distinct(s) /\ f \notin Elements(s) => Distinct(Append(s, f))
<1> DEFINE r == Append(s, f)
<1>1. /\ r \in Seq(S) /\ Len(r) = Len(s) + 1 /\ Len(s) \in Nat
      /\ \A j \in 1..Len(s) : r[j] = s[j]
      /\ r[Len(s) + 1] = f
  BY AppendProperties, LenProperties
<1> HIDE DEF r
<1>2. /\ \A j \in 1..Len(r) : j \in 1..Len(s) \/ j = Len(s) + 1
      /\ 1..Len(s) \subseteq 1..Len(r) /\ Len(s) + 1 \in 1..Len(r)
  BY <1>1
<1>3. Elements(r) = Elements(s) \cup {f}
  BY <1>1, <1>2 DEF Elements
<1>4. ASSUME Distinct(s), f \notin Elements(s) PROVE Distinct(r)
  <2> SUFFICES ASSUME NEW j \in 1..Len(r), NEW k \in 1..Len(r), r[j] = r[k] PROVE j = k
    BY DEF Distinct
  <2>1. \A l \in 1..Len(s) : r[l] = s[l] /\ r[l] # f
    BY <1>1, <1>4 DEF Elements
  <2> QED BY <1>1, <1>2, <1>4, <2>1 DEF Distinct
<1> QED BY <1>1, <1>3, <1>4 DEF r

LEMMA ConcatElements ==
  ASSUME NEW S, NEW s \in Seq(S), NEW t \in Seq(S)
  PROVE  /\ s \o t \in Seq(S)
         /\ Elements(s \o t) = Elements(s) \cup Elements(t)
         /\ Distinct(s) /\ Distinct(t) /\ Elements(s) \cap Elements(t) = {} => Distinct(s \o t)
<1> DEFINE r == s \o t
<1>1. /\ r \in Seq(S) /\ Len(r) = Len(s) + Len(t) /\ Len(s) \in Nat /\ Len(t) \in Nat
      /\ \A j \in 1..Len(s) : r[j] = s[j]
      /\ \A j \in 1..Len(t) : r[Len(s) + j] = t[j]
  BY ConcatProperties, LenProperties
<1> HIDE DEF r
<1>2. /\ \A j \in 1..Len(r) : j \in 1..Len(s) \/ (j - Len(s) \in 1..Len(t) /\ j = Len(s) + (j - Len(s)))
      /\ 1..Len(s) \subseteq 1..Len(r) /\ \A j \in 1..Len(t) : Len(s) + j \in 1..Len(r)
  BY <1>1
<1>3. \A j \in 1..Len(r) : \/ j \in 1..Len(s) /\ r[j] = s[j] /\ r[j] \in Elements(s)
                           \/ /\ j - Len(s) \in 1..Len(t) /\ r[j] = t[j - Len(s)]
                              /\ r[j] \in Elements(t)
  BY <1>1, <1>2 DEF Elements
<1>4. Elements(r) = Elements(s) \cup Elements(t)
  <2>1. Elements(r) \subseteq Elements(s) \cup Elements(t)
    BY <1>3 DEF Elements
  <2>2. Elements(s) \subseteq Elements(r) /\ Elements(t) \subseteq Elements(r)
    BY <1>1, <1>2, ZenonT(30) DEF Elements
  <2> QED BY <2>1, <2>2
<1>5. ASSUME Distinct(s), Distinct(t), Elements(s) \cap Elements(t) = {} PROVE Distinct(r)
  <2> SUFFICES ASSUME NEW j \in 1..Len(r), NEW k \in 1..Len(r), r[j] = r[k] PROVE j = k
    BY DEF Distinct
  <2>1. CASE j \in 1..Len(s) /\ k \in 1..Len(s)
    BY <1>1, <1>5, <2>1 DEF Distinct
  <2>2. CASE ~(j \in 1..Len(s)) /\ ~(k \in 1..Len(s))
    <3>1. j - Len(s) = k - Len(s)
      BY <1>3, <1>5, <2>2 DEF Distinct
    <3> QED BY <1>1, <3>1
  <2>3. CASE (j \in 1..Len(s)) # (k \in 1..Len(s))
    BY <1>3, <1>5, <2>3
  <2> QED BY <2>1, <2>2, <2>3
<1> QED BY <1>1, <1>4, <1>5 DEF r

\* A sequence is cut in two.
LEMMA CutElements ==
  ASSUME NEW S, NEW s \in Seq(S), NEW n \in 0..Len(s)
  PROVE  /\ SubSeq(s, 1, n) \in Seq(S) /\ SubSeq(s, n + 1, Len(s)) \in Seq(S)
         /\ Len(SubSeq(s, 1, n)) = n /\ \A i \in 1..n : SubSeq(s, 1, n)[i] = s[i]
         /\ Elements(SubSeq(s, 1, n)) \cup Elements(SubSeq(s, n + 1, Len(s))) = Elements(s)
         /\ Distinct(s) => /\ Distinct(SubSeq(s, 1, n)) /\ Distinct(SubSeq(s, n + 1, Len(s)))
                           /\ Elements(SubSeq(s, 1, n)) \cap Elements(SubSeq(s, n + 1, Len(s))) = {}
<1> DEFINE a == SubSeq(s, 1, n)
           b == SubSeq(s, n + 1, Len(s))
<1>1. /\ Len(s) \in Nat /\ n \in Nat /\ n <= Len(s) /\ n + 1 \in 1..(Len(s) + 1)
      /\ \A i \in 1..Len(s) : s[i] \in S
  BY LenProperties, ElementOfSeq
<1>2. /\ a \in Seq(S) /\ Len(a) = n /\ \A i \in 1..n : a[i] = s[i]
  BY <1>1, SubSeqProperties
<1>3. /\ b \in Seq(S) /\ Len(b) = Len(s) - n /\ \A i \in 1..(Len(s) - n) : b[i] = s[n + i]
  <2> DEFINE m == n + 1
  <2>1. m \in 1..(Len(s) + 1) /\ \A i \in m..Len(s) : s[i] \in S
    BY <1>1
  <2> HIDE DEF m
  <2>2. /\ SubSeq(s, m, Len(s)) \in Seq(S)
        /\ Len(SubSeq(s, m, Len(s))) = IF m <= Len(s) THEN Len(s) - m + 1 ELSE 0
        /\ \A i \in 1..(Len(s) - m + 1) : SubSeq(s, m, Len(s))[i] = s[m + i - 1]
    BY <1>1, <2>1, SubSeqProperties
  <2> QED BY <1>1, <2>2 DEF m
<1> HIDE DEF a, b
<1>4. /\ \A i \in 1..n : i \in 1..Len(s) /\ a[i] = s[i]
      /\ \A i \in 1..(Len(s) - n) : n + i \in 1..Len(s) /\ b[i] = s[n + i] /\ n + i > n
      /\ \A i \in 1..Len(s) : i \in 1..n \/ (i - n \in 1..(Len(s) - n) /\ n + (i - n) = i)
  BY <1>1, <1>2, <1>3
<1>5. Elements(a) \cup Elements(b) = Elements(s)
  <2>1. Elements(a) \subseteq Elements(s) /\ Elements(b) \subseteq Elements(s)
    BY <1>2, <1>3, <1>4 DEF Elements
  <2>2. ASSUME NEW i \in 1..Len(s) PROVE s[i] \in Elements(a) \cup Elements(b)
    <3>1. CASE i \in 1..n
      BY <1>2, <1>4, <3>1 DEF Elements
    <3>2. CASE i - n \in 1..(Len(s) - n) /\ n + (i - n) = i
      <4>1. b[i - n] = s[i]
        BY <1>4, <3>2
      <4> QED BY <1>3, <3>2, <4>1 DEF Elements
    <3> QED BY <1>4, <3>1, <3>2
  <2> QED BY <2>1, <2>2 DEF Elements
<1>6. ASSUME Distinct(s)
      PROVE  Distinct(a) /\ Distinct(b) /\ Elements(a) \cap Elements(b) = {}
  <2>1. Distinct(a)
    BY <1>2, <1>4, <1>6 DEF Distinct
  <2>2. Distinct(b)
    <3> SUFFICES ASSUME NEW i \in 1..(Len(s) - n), NEW j \in 1..(Len(s) - n), b[i] = b[j] PROVE i = j
      BY <1>3 DEF Distinct
    <3>1. n + i = n + j
      BY <1>4, <1>6 DEF Distinct
    <3> QED BY <1>1, <3>1
  <2>3. ASSUME NEW i \in 1..n, NEW j \in 1..(Len(s) - n) PROVE a[i] # b[j]
    <3>1. i # n + j
      BY <1>1
    <3> QED BY <1>4, <1>6, <3>1 DEF Distinct
  <2> QED BY <1>2, <1>3, <2>1, <2>2, <2>3 DEF Elements
<1> QED BY <1>2, <1>3, <1>5, <1>6 DEF a, b

-------------------------------------------------------------------------------
(***************************************************************************)
(* What queueFrame keeps: OtherStreams is defined, and it drops exactly    *)
(* the frames of one stream and repeats none.                              *)
(***************************************************************************)
KeptStep(frames, stream, F, i) ==
  IF i = 0 THEN <<>>
  ELSE IF frames[i].stream = stream THEN F[i - 1]
  ELSE Append(F[i - 1], frames[i])

LEMMA KeptExists ==
  ASSUME NEW frames, NEW stream, NEW n \in Nat
  PROVE  \E F : F = [i \in 0..n |-> KeptStep(frames, stream, F, i)]
<1> DEFINE T == {m \in Nat : \E F : F = [i \in 0..m |-> KeptStep(frames, stream, F, i)]}
<1>1. 0 \in T
  <2> DEFINE F == [i \in 0..0 |-> <<>>]
  <2>1. F = [i \in 0..0 |-> KeptStep(frames, stream, F, i)]
    BY DEF KeptStep
  <2> QED BY <2>1
<1>2. ASSUME NEW m \in Nat, m \in T PROVE m + 1 \in T
  <2>1. PICK F : F = [i \in 0..m |-> KeptStep(frames, stream, F, i)]
    BY <1>2
  <2> DEFINE G == [i \in 0..(m + 1) |-> IF i <= m THEN F[i] ELSE KeptStep(frames, stream, F, i)]
  <2>2. \A i \in 0..m : G[i] = F[i]
    OBVIOUS
  <2>3. ASSUME NEW i \in 0..(m + 1) PROVE G[i] = KeptStep(frames, stream, G, i)
    <3>1. i # 0 => i - 1 \in 0..m
      BY <2>3
    <3>2. KeptStep(frames, stream, G, i) = KeptStep(frames, stream, F, i)
      BY <2>2, <3>1 DEF KeptStep
    <3>3. CASE i <= m
      <4>1. i \in 0..m
        BY <2>3, <3>3
      <4>2. F[i] = KeptStep(frames, stream, F, i)
        BY <2>1, <4>1
      <4> QED BY <2>2, <3>2, <4>1, <4>2
    <3>4. CASE ~(i <= m)
      BY <3>2, <3>4
    <3> QED BY <3>3, <3>4
  <2>4. G = [i \in 0..(m + 1) |-> KeptStep(frames, stream, G, i)]
    <3>1. G = [i \in 0..(m + 1) |-> G[i]]
      OBVIOUS
    <3> HIDE DEF G
    <3> QED BY <2>3, <3>1
  <2> HIDE DEF G
  <2>5. \E H : H = [i \in 0..(m + 1) |-> KeptStep(frames, stream, H, i)]
    BY <2>4
  <2> QED BY <2>5
<1> HIDE DEF T
<1>3. n \in T
  BY <1>1, <1>2, SetInduction
<1> QED BY <1>3 DEF T

LEMMA KeptLaw ==
  ASSUME NEW S, NEW frames \in Seq(S), NEW stream, NEW F,
         F = [i \in 0..Len(frames) |-> KeptStep(frames, stream, F, i)], NEW n \in 0..Len(frames)
  PROVE  /\ F[n] \in Seq(S)
         /\ Elements(F[n]) = {frames[i] : i \in {j \in 1..n : frames[j].stream # stream}}
         /\ Distinct(frames) => Distinct(F[n])
<1>1. Len(frames) \in Nat /\ \A i \in 1..Len(frames) : frames[i] \in S
  BY LenProperties, ElementOfSeq
<1> DEFINE Kept(i) == {frames[k] : k \in {j \in 1..i : frames[j].stream # stream}}
           Good(i) == /\ F[i] \in Seq(S)
                      /\ Elements(F[i]) = Kept(i)
                      /\ Distinct(frames) => Distinct(F[i])
           T == {i \in Nat : i <= Len(frames) => Good(i)}
<1>2. 0 \in T
  <2>1. F[0] = <<>>
    BY <1>1 DEF KeptStep
  <2>2. <<>> \in Seq(S) /\ Elements(<<>>) = {} /\ Distinct(<<>>)
    BY EmptySeq DEF Elements, Distinct
  <2>3. Kept(0) = {}
    OBVIOUS
  <2> QED BY <2>1, <2>2, <2>3
<1>3. ASSUME NEW i \in Nat, i \in T PROVE i + 1 \in T
  <2> SUFFICES ASSUME i + 1 <= Len(frames) PROVE Good(i + 1)
    <3> HIDE DEF Good
    <3> QED OBVIOUS
  <2>1. /\ F[i] \in Seq(S) /\ Elements(F[i]) = Kept(i)
        /\ Distinct(frames) => Distinct(F[i])
    <3>1. Good(i)
      <4> HIDE DEF Good
      <4> QED BY <1>1, <1>3
    <3> QED BY <3>1
  <2>2. i + 1 \in 0..Len(frames) /\ i + 1 \in 1..Len(frames) /\ (i + 1) - 1 = i /\ i + 1 # 0
    BY <1>1
  <2>3. F[i + 1] = IF frames[i + 1].stream = stream THEN F[i] ELSE Append(F[i], frames[i + 1])
    BY <2>2 DEF KeptStep
  <2>4. CASE frames[i + 1].stream = stream
    <3>1. Kept(i + 1) = Kept(i)
      <4>1. {j \in 1..(i + 1) : frames[j].stream # stream} = {j \in 1..i : frames[j].stream # stream}
        BY <2>4
      <4> QED BY <4>1
    <3> QED BY <2>1, <2>3, <2>4, <3>1
  <2>5. CASE frames[i + 1].stream # stream
    <3> DEFINE f == frames[i + 1]
               s == F[i]
               r == Append(s, f)
    <3>1. Kept(i + 1) = Kept(i) \cup {f}
      <4>1. {j \in 1..(i + 1) : frames[j].stream # stream}
              = {j \in 1..i : frames[j].stream # stream} \cup {i + 1}
        BY <2>5
      <4> QED BY <4>1
    <3>2. f \in S /\ F[i + 1] = r
      BY <1>1, <2>2, <2>3, <2>5
    <3>3. s \in Seq(S)
      BY <2>1
    <3>4. Elements(s) = Kept(i)
      BY <2>1
    <3>5. ASSUME Distinct(frames) PROVE f \notin Kept(i) /\ Distinct(s)
      <4>1. \A k \in 1..i : frames[k] # frames[i + 1]
        BY <2>2, <3>5 DEF Distinct
      <4> QED BY <2>1, <3>5, <4>1
    <3> HIDE DEF f, s, r, Kept
    <3>6. r \in Seq(S) /\ Elements(r) = Elements(s) \cup {f}
      BY <3>2, <3>3, AppendElements DEF r
    <3>7. Distinct(frames) => Distinct(r)
      BY <3>2, <3>3, <3>4, <3>5, AppendElements DEF r
    <3> QED BY <3>1, <3>2, <3>3, <3>4, <3>6, <3>7
  <2> QED BY <2>4, <2>5
<1>4. n \in T /\ n <= Len(frames)
  <2> HIDE DEF T
  <2> QED BY <1>1, <1>2, <1>3, SetInduction
<1> QED BY <1>4

\* OtherStreams is what is left without the frames of `stream`.
LEMMA OtherStreamsLaw ==
  ASSUME NEW S, NEW frames \in Seq(S), NEW stream
  PROVE  /\ OtherStreams(frames, stream) \in Seq(S)
         /\ Elements(OtherStreams(frames, stream)) = {f \in Elements(frames) : f.stream # stream}
         /\ Distinct(frames) => Distinct(OtherStreams(frames, stream))
<1> DEFINE K == CHOOSE F : F = [i \in 0..Len(frames) |-> KeptStep(frames, stream, F, i)]
<1>1. Len(frames) \in Nat
  BY LenProperties
<1>2. K = [i \in 0..Len(frames) |-> KeptStep(frames, stream, K, i)]
  BY <1>1, KeptExists
<1>3. OtherStreams(frames, stream) = K[Len(frames)]
  BY DEF OtherStreams, KeptStep
<1> HIDE DEF K
<1>4. Len(frames) \in 0..Len(frames)
  BY <1>1
<1>5. /\ K[Len(frames)] \in Seq(S)
      /\ Elements(K[Len(frames)]) = {frames[i] : i \in {j \in 1..Len(frames) : frames[j].stream # stream}}
      /\ Distinct(frames) => Distinct(K[Len(frames)])
  BY <1>2, <1>4, KeptLaw
<1>6. {frames[i] : i \in {j \in 1..Len(frames) : frames[j].stream # stream}}
        = {f \in Elements(frames) : f.stream # stream}
  BY DEF Elements
<1> QED BY <1>3, <1>5, <1>6

LEMMA QueuedLaw ==
  ASSUME NEW frames \in Seq(PositionalFrames), NEW frame \in PositionalFrames
  PROVE  /\ Queued(frames, frame) \in Seq(PositionalFrames)
         /\ frame.type # "CANCEL" =>
              /\ Elements(Queued(frames, frame)) = Elements(frames) \cup {frame}
              /\ Distinct(frames) /\ frame \notin Elements(frames) => Distinct(Queued(frames, frame))
         /\ frame.type = "CANCEL" =>
              /\ Elements(Queued(frames, frame))
                   \subseteq {f \in Elements(frames) : f.stream # frame.stream} \cup {frame}
              /\ Request(frame.stream) \in Elements(frames) =>
                   Elements(Queued(frames, frame)) = {f \in Elements(frames) : f.stream # frame.stream}
              /\ Distinct(frames) => Distinct(Queued(frames, frame))
<1> DEFINE others == OtherStreams(frames, frame.stream)
           unsent == \E i \in DOMAIN frames : frames[i] = Request(frame.stream)
<1>1. /\ others \in Seq(PositionalFrames)
      /\ Elements(others) = {f \in Elements(frames) : f.stream # frame.stream}
      /\ Distinct(frames) => Distinct(others)
  BY OtherStreamsLaw
<1>2. Queued(frames, frame) = IF frame.type # "CANCEL" THEN Append(frames, frame)
                              ELSE IF unsent THEN others ELSE Append(others, frame)
  BY DEF Queued
<1>3. unsent <=> Request(frame.stream) \in Elements(frames)
  BY LenProperties DEF Elements
<1> HIDE DEF others, unsent
<1>4. CASE frame.type # "CANCEL"
  BY <1>2, <1>4, AppendElements
<1>5. CASE frame.type = "CANCEL" /\ unsent
  BY <1>1, <1>2, <1>5
<1>6. CASE frame.type = "CANCEL" /\ ~unsent
  <2>1. frame \notin Elements(others)
    BY <1>1
  <2>2. Queued(frames, frame) = Append(others, frame)
    BY <1>2, <1>6
  <2> QED BY <1>1, <1>3, <1>6, <2>1, <2>2, AppendElements
<1> QED BY <1>3, <1>4, <1>5, <1>6

-------------------------------------------------------------------------------
(***************************************************************************)
(* Steps of the requester that give the connection up.                     *)
(***************************************************************************)
LEMMA PrefixRefl == \A s : Len(s) \in Nat => IsPrefixOf(s, s)
BY DEF IsPrefixOf

\* The frames a stream operation leaves to be checked: what the requester's
\* other variables become is up to the caller.
Sends(frame) ==
  /\ Send(frame)
  /\ UNCHANGED <<connection, clientGot, server>>
  /\ nextStreamId' \in 1..(2 * MaxRequests + 1)
  /\ streams' \subseteq StreamIds /\ withdrawn' \subseteq StreamIds

LEMMA LosesTransport ==
  ASSUME Types, NetworkInv, state # "terminated", LoseTransport,
         UNCHANGED <<connection, clientGot, server, up>>,
         pendingFrames' \in Seq(PositionalFrames), nextStreamId' \in 1..(2 * MaxRequests + 1),
         streams' \subseteq StreamIds, withdrawn' \subseteq StreamIds,
         UNCHANGED clientSent \/ \E f \in PositionalFrames : RecordClient(<<f>>)
  PROVE  Types' /\ ClientDrops
<1>1. /\ clientPosition = Len(cLog) /\ IsSuffixOf(cRetained, cLog) /\ Len(cLog) \in Nat
      /\ clientPosition - Len(cRetained) <= sClientPosition
  BY Lengths DEF NetworkInv, PositionInv, PositionsCountFrames
<1>2. /\ cLog' \in Seq(PositionalFrames) /\ cRetained' \in Seq(PositionalFrames)
      /\ clientPosition' \in Nat
      /\ IsPrefixOf(cLog, cLog') /\ clientPosition' = Len(cLog') /\ IsSuffixOf(cRetained', cLog')
      /\ clientPosition' - Len(cRetained') <= sClientPosition
  <2>1. CASE UNCHANGED clientSent
    BY <1>1, <2>1, PrefixRefl DEF clientSent, Types
  <2>2. CASE \E f \in PositionalFrames : RecordClient(<<f>>)
    <3>1. PICK f \in PositionalFrames : RecordClient(<<f>>)
      BY <2>2
    <3>2. <<f>> \in Seq(PositionalFrames) /\ Len(<<f>>) = 1
      OBVIOUS
    <3> DEFINE l == cLog \o <<f>>
               r == cRetained \o <<f>>
    <3>3. l \in Seq(PositionalFrames) /\ Len(l) = Len(cLog) + 1 /\ IsPrefixOf(cLog, l)
      BY <3>2, Extended DEF Types
    <3>4. r \in Seq(PositionalFrames) /\ Len(r) = Len(cRetained) + 1 /\ IsSuffixOf(r, l)
      <4>1. cRetained \in Seq(PositionalFrames) /\ cLog \in Seq(PositionalFrames)
        BY DEF Types
      <4> QED BY <1>1, <3>2, <4>1, SuffixGrows
    <3>5. cLog' = l /\ cRetained' = r /\ clientPosition' = clientPosition + 1
      BY <3>1, <3>2 DEF RecordClient
    <3> HIDE DEF l, r
    <3> QED BY <1>1, <3>3, <3>4, <3>5, Lengths, SMTT(30) DEF Types
  <2> QED BY <2>1, <2>2
<1>3. /\ down' \in [Connections -> Seq(DownFrames)]
      /\ link' \in [Connections -> {"unused", "open", "broken"}]
  BY EmptySeq DEF LoseTransport, Unbind, Broken, Types
<1>4. Types'
  BY <1>2, <1>3, EmptySeq DEF Types, LoseTransport, server, serverSent, serverGot, clientGot
<1>5. ClientDrops
  BY <1>2 DEF ClientDrops, LoseTransport
<1> QED BY <1>4, <1>5

LEMMA TerminatesClient ==
  ASSUME Types, NetworkInv, TerminateClient,
         UNCHANGED <<connection, nextStreamId, withdrawn, clientPosition, cLog, clientGot, server, up>>
  PROVE  Types' /\ ClientDrops
<1>1. /\ clientPosition = Len(cLog) /\ Len(cLog) \in Nat
  BY Lengths DEF NetworkInv, PositionInv, PositionsCountFrames
<1>2. /\ down' \in [Connections -> Seq(DownFrames)]
      /\ link' \in [Connections -> {"unused", "open", "broken"}]
  BY EmptySeq DEF TerminateClient, Unbind, Broken, Types
<1>3. Types'
  BY <1>2, EmptySeq DEF Types, TerminateClient, server, serverSent, serverGot, clientGot
<1>4. ClientDrops
  BY <1>1, PrefixRefl, EmptyIsSuffix DEF ClientDrops, TerminateClient, Types
<1> QED BY <1>3, <1>4

\* The replay after RESUME_OK: what it writes is the run of the log after what
\* the responder has.
LEMMA ReplayFacts ==
  ASSUME Types, NetworkInv, state = "replaying"
  PROVE  /\ ToReplay \in Seq(PositionalFrames)
         /\ IsSuffixOf(ToReplay, cLog) /\ IsRun(ToReplay, resumeOk, cLog)
         /\ resumeOk \in Nat /\ resumeOk <= sClientPosition /\ sClientPosition <= Len(cLog)
         /\ Len(ToReplay) = Len(cLog) - resumeOk
         /\ Open => binding = connection /\ resumeOk = sClientPosition /\ up[connection] = <<>>
<1>1. /\ clientPosition = Len(cLog) /\ IsSuffixOf(cRetained, cLog) /\ sClientPosition <= Len(cLog)
      /\ resumeOk \in (Len(cLog) - Len(cRetained))..sClientPosition
      /\ Bound => resumeOk = sClientPosition
  BY DEF NetworkInv, PositionInv, PositionsCountFrames, IsPrefixOf, DownInv, ReplayingDown, Replayable
<1>2. Len(cLog) \in Nat /\ Len(cRetained) \in Nat /\ Len(cRetained) <= Len(cLog) /\ sClientPosition \in Nat
  BY <1>1, Lengths DEF IsSuffixOf, Types
<1>3. resumeOk \in Nat /\ resumeOk \in (Len(cLog) - Len(cRetained))..Len(cLog) /\ resumeOk <= sClientPosition
  BY <1>1, <1>2
<1>4. /\ ToReplay \in Seq(PositionalFrames) /\ IsSuffixOf(ToReplay, cLog) /\ IsRun(ToReplay, resumeOk, cLog)
      /\ Len(ToReplay) = Len(cLog) - resumeOk
  <2>1. ToReplay = RetainedFrom(cRetained, Len(cLog), resumeOk)
    BY <1>1 DEF ToReplay
  <2>2. cRetained \in Seq(PositionalFrames) /\ cLog \in Seq(PositionalFrames)
    BY DEF Types
  <2> QED BY <1>1, <1>3, <2>1, <2>2, RetainedFromLaw
<1>5. Open => binding = connection /\ Bound
  BY DEF NetworkInv, LinkInv, Bound
<1>6. binding = connection => up[connection] = <<>>
  BY LinkFacts DEF NetworkInv, UpInv, BoundUp, Connections
<1> QED BY <1>1, <1>3, <1>4, <1>5, <1>6

\* Frames recorded behind the replayed ones, and the frames written of them.
LEMMA ReplayedAndFlushed ==
  ASSUME Types, NetworkInv, state = "replaying", NEW flushed \in Seq(PositionalFrames)
  PROVE  /\ ToReplay \o flushed \in Seq(PositionalFrames)
         /\ Len(ToReplay \o flushed) = Len(ToReplay) + Len(flushed)
         /\ cLog \o flushed \in Seq(PositionalFrames)
         /\ Len(cLog \o flushed) = clientPosition + Len(flushed)
         /\ IsPrefixOf(cLog, cLog \o flushed)
         /\ IsSuffixOf(ToReplay \o flushed, cLog \o flushed)
         /\ IsRun(ToReplay \o flushed, resumeOk, cLog \o flushed)
         /\ clientPosition + Len(flushed) - Len(ToReplay \o flushed) = resumeOk
<1> DEFINE l == cLog \o flushed
           r == ToReplay \o flushed
<1>1. clientPosition = Len(cLog) /\ Len(cLog) \in Nat /\ Len(flushed) \in Nat /\ Len(ToReplay) \in Nat
  BY Lengths, LenProperties, ReplayFacts DEF NetworkInv, PositionInv, PositionsCountFrames
<1>2. r \in Seq(PositionalFrames) /\ Len(r) = Len(ToReplay) + Len(flushed) /\ IsSuffixOf(r, l)
  BY ReplayFacts, SuffixGrows DEF Types
<1>3. l \in Seq(PositionalFrames) /\ Len(l) = Len(cLog) + Len(flushed) /\ IsPrefixOf(cLog, l)
  BY <1>1, Extended DEF Types
<1> HIDE DEF l, r
<1>4. Len(r) = Len(l) - resumeOk /\ resumeOk \in Nat /\ Len(l) = clientPosition + Len(flushed)
  <2>1. resumeOk \in Nat /\ Len(ToReplay) = Len(cLog) - resumeOk
    BY ReplayFacts
  <2> QED BY <1>1, <1>2, <1>3, <2>1
<1>5. Len(l) - Len(r) = resumeOk /\ resumeOk + Len(r) = Len(l)
  BY <1>1, <1>3, <1>4
<1>6. IsRun(r, resumeOk, l)
  BY <1>2, <1>5 DEF IsSuffixOf, IsRun
<1>7. clientPosition + Len(flushed) - Len(r) = resumeOk
  BY <1>1, <1>4, <1>5
<1> QED BY <1>2, <1>3, <1>4, <1>6, <1>7 DEF l, r

LEMMA ResumeOverflowsDrops ==
  ASSUME Types, NetworkInv, ResumeOverflows
  PROVE  Types' /\ ClientDrops
<1> DEFINE n == ClientCapacity - Len(ToReplay)
           fits == SubSeq(pendingFrames, 1, n)
           r == ToReplay \o fits
           l == cLog \o fits
<1>1. state = "replaying" /\ Len(ToReplay) + Len(pendingFrames) > ClientCapacity
  BY DEF ResumeOverflows
<1>2. Len(ToReplay) \in Nat /\ Len(pendingFrames) \in Nat /\ ClientCapacity \in Nat
  BY <1>1, ReplayFacts, LenProperties, Lengths, SessionAssumption
<1>3. fits \in Seq(PositionalFrames)
  <2>1. CASE n \in Nat
    <3>1. n \in 0..Len(pendingFrames)
      BY <1>1, <1>2, <2>1
    <3> HIDE DEF n
    <3> QED BY <3>1, CutElements DEF Types
  <2>2. CASE n \notin Nat
    <3>1. n < 1 /\ n \in Int
      BY <1>2, <2>2
    <3> HIDE DEF n
    <3> QED BY <3>1, SubSeqProperties DEF Types
  <2> QED BY <2>1, <2>2
<1> HIDE DEF fits
<1>4. /\ r \in Seq(PositionalFrames) /\ l \in Seq(PositionalFrames)
      /\ Len(l) = clientPosition + Len(fits)
      /\ IsPrefixOf(cLog, l) /\ IsRun(r, resumeOk, l)
      /\ Len(fits) \in Nat
  BY <1>1, <1>3, ReplayedAndFlushed, LenProperties
<1>5. /\ cLog' = l /\ clientPosition' = Len(l) /\ up' = Delivered(up, connection, r)
      /\ TerminateClient
      /\ UNCHANGED <<connection, nextStreamId, withdrawn, clientGot, server>>
  BY <1>4 DEF ResumeOverflows, fits
<1> HIDE DEF l, r
<1>6. r \in Seq(UpFrames)
  BY <1>4, FramesInFlight
<1>7. Types'
  <2>1. /\ down' \in [Connections -> Seq(DownFrames)]
        /\ link' \in [Connections -> {"unused", "open", "broken"}]
    BY <1>5, EmptySeq DEF TerminateClient, Unbind, Broken, Types
  <2>2. up' \in [Connections -> Seq(UpFrames)]
    BY <1>5, <1>6, DeliveredLaw, LinkFacts DEF Types, NetworkInv
  <2>3. clientPosition' \in Nat
    BY <1>4, <1>5, LenProperties
  <2> QED BY <1>4, <1>5, <2>1, <2>2, <2>3, EmptySeq DEF Types, TerminateClient, server, serverSent, serverGot, clientGot
<1>8. up' = up \/ (binding = connection /\ IsRun(r, sClientPosition, cLog') /\ up' = [up EXCEPT ![connection] = r])
  <2>1. CASE Open
    <3>1. binding = connection /\ resumeOk = sClientPosition /\ up[connection] = <<>>
      BY <1>1, <2>1, ReplayFacts
    <3>2. up[connection] \o r = r
      BY <1>6, <3>1, ConcatEmptySeq
    <3> QED BY <1>4, <1>5, <2>1, <3>1, <3>2 DEF Delivered, Open
  <2>2. CASE ~Open
    BY <1>5, <2>2 DEF Delivered, Open
  <2> QED BY <2>1, <2>2
<1>9. ClientDrops
  BY <1>4, <1>5, <1>8, EmptyIsSuffix DEF ClientDrops, TerminateClient
<1> QED BY <1>7, <1>9

LEMMA ResumeWriteFailsDrops ==
  ASSUME Types, NetworkInv, NEW n \in 0..Len(pendingFrames), NEW m \in 0..ClientCapacity,
         ResumeWriteFails(n, m)
  PROVE  Types' /\ ClientDrops
<1> DEFINE recorded == SubSeq(pendingFrames, 1, n)
           left == SubSeq(pendingFrames, n + 1, Len(pendingFrames))
           r == ToReplay \o recorded
           l == cLog \o recorded
           w == SubSeq(r, 1, m)
<1>1. state = "replaying" /\ m <= Len(ToReplay) + n
  BY DEF ResumeWriteFails
<1>2. recorded \in Seq(PositionalFrames) /\ Len(recorded) = n /\ left \in Seq(PositionalFrames)
  BY CutElements DEF Types
<1> HIDE DEF recorded, left
<1>3. /\ r \in Seq(PositionalFrames) /\ Len(r) = Len(ToReplay) + n
      /\ l \in Seq(PositionalFrames) /\ Len(l) = clientPosition + n
      /\ IsPrefixOf(cLog, l) /\ IsSuffixOf(r, l) /\ IsRun(r, resumeOk, l)
      /\ clientPosition + n - Len(r) = resumeOk
  BY <1>1, <1>2, ReplayedAndFlushed
<1>4. /\ cLog' = l /\ clientPosition' = Len(l) /\ cRetained' = r /\ up' = Delivered(up, connection, w)
      /\ pendingFrames' = left /\ LoseTransport
      /\ UNCHANGED <<connection, interactions, clientGot, server>>
  BY <1>3 DEF ResumeWriteFails, recorded, left
<1> HIDE DEF l, r
<1>5. w \in Seq(PositionalFrames) /\ IsRun(w, resumeOk, l)
  <2>1. m \in 0..Len(r) /\ resumeOk \in Nat /\ Len(l) \in Nat /\ Len(r) \in Nat
    BY <1>1, <1>3, ReplayFacts, LenProperties, SessionAssumption
  <2>2. w \in Seq(PositionalFrames) /\ Len(w) = m /\ \A i \in 1..m : w[i] = r[i]
    BY <1>3, <2>1, CutElements
  <2> HIDE DEF w
  <2> QED BY <1>3, <2>1, <2>2 DEF IsRun
<1> HIDE DEF w
<1>6. w \in Seq(UpFrames)
  BY <1>5, FramesInFlight
<1>7. Types'
  <2>1. /\ down' \in [Connections -> Seq(DownFrames)]
        /\ link' \in [Connections -> {"unused", "open", "broken"}]
    BY <1>4, EmptySeq DEF LoseTransport, Unbind, Broken, Types
  <2>2. up' \in [Connections -> Seq(UpFrames)]
    BY <1>4, <1>6, DeliveredLaw, LinkFacts DEF Types, NetworkInv
  <2>3. clientPosition' \in Nat
    BY <1>3, <1>4, LenProperties
  <2> QED BY <1>2, <1>3, <1>4, <2>1, <2>2, <2>3, EmptySeq
          DEF Types, LoseTransport, server, serverSent, serverGot, clientGot, interactions
<1>8. up' = up \/ (binding = connection /\ IsRun(w, sClientPosition, cLog') /\ up' = [up EXCEPT ![connection] = w])
  <2>1. CASE Open
    <3>1. binding = connection /\ resumeOk = sClientPosition /\ up[connection] = <<>>
      BY <1>1, <2>1, ReplayFacts
    <3>2. up[connection] \o w = w
      BY <1>6, <3>1, ConcatEmptySeq
    <3> QED BY <1>4, <1>5, <2>1, <3>1, <3>2 DEF Delivered, Open
  <2>2. CASE ~Open
    BY <1>4, <2>2 DEF Delivered, Open
  <2> QED BY <2>1, <2>2
<1>9. clientPosition' - Len(cRetained') <= sClientPosition
  <2>1. resumeOk <= sClientPosition
    BY <1>1, ReplayFacts
  <2>2. Len(l) - Len(r) = resumeOk
    <3>1. clientPosition \in Nat /\ n \in Nat /\ Len(r) \in Nat /\ Len(l) \in Nat
      BY <1>3, LenProperties DEF Types
    <3> QED BY <1>3, <3>1
  <2>3. clientPosition' - Len(cRetained') = resumeOk
    BY <1>4, <2>2
  <2> QED BY <2>1, <2>3
<1>10. ClientDrops
  BY <1>3, <1>4, <1>5, <1>8, <1>9 DEF ClientDrops, LoseTransport
<1> QED BY <1>7, <1>10

-------------------------------------------------------------------------------
(***************************************************************************)
(* The other steps of the requester.                                       *)
(***************************************************************************)
LEMMA SendWhileSuspendedStep ==
  ASSUME Types, NetworkInv, NEW frame \in PositionalFrames, Sends(frame), SendWhileSuspended(frame)
  PROVE  Types' /\ NetworkInv'
<1>1. Queued(pendingFrames, frame) \in Seq(PositionalFrames)
  BY QueuedLaw DEF Types
<1>2. /\ UNCHANGED <<state, resumeOk, pendingIncomingFrames, clientSent, network, connection, clientGot, server>>
      /\ pendingFrames' = Queued(pendingFrames, frame)
  BY DEF SendWhileSuspended, Sends
<1>3. Types'
  BY <1>1, <1>2 DEF Types, Sends, clientSent, network, clientGot, server, serverSent, serverGot
<1>4. NetworkInv'
  BY <1>2, ZenonT(30) DEF clientSent, network, clientGot, server, serverSent, serverGot,
       NetworkInv, PositionInv, PositionsCountFrames, LinkInv, UpInv, BoundUp, SetupUp, ResumeUp, KeepaliveInv,
       DownInv, ActiveDown, ReplayingDown, HandshakeDown, Replayable, Open, Bound
<1> QED BY <1>3, <1>4

LEMMA SendWrittenStep ==
  ASSUME Types, NetworkInv, NEW frame \in PositionalFrames, Sends(frame), SendWritten(frame)
  PROVE  Types' /\ NetworkInv'
<1> USE DEF NetworkInv
<1> DEFINE l == Append(cLog, frame)
           r == Append(cRetained, frame)
<1>1. /\ state = "active" /\ cLog' = l /\ cRetained' = r /\ clientPosition' = clientPosition + 1
      /\ up' = Delivered(up, connection, <<frame>>)
      /\ UNCHANGED <<state, queues, link, down, connection, clientGot, server>>
  <2>1. /\ cLog \in Seq(PositionalFrames) /\ cRetained \in Seq(PositionalFrames) /\ Len(<<frame>>) = 1
    BY DEF Types
  <2>2. l = cLog \o <<frame>> /\ r = cRetained \o <<frame>>
    BY <2>1, SingleFrame
  <2> HIDE DEF l, r
  <2> QED BY <2>1, <2>2 DEF SendWritten, Sends, RecordClient
<1>2. /\ l \in Seq(PositionalFrames) /\ Len(l) = Len(cLog) + 1 /\ IsPrefixOf(cLog, l)
      /\ r \in Seq(PositionalFrames) /\ Len(r) = Len(cRetained) + 1 /\ IsSuffixOf(r, l)
      /\ clientPosition = Len(cLog) /\ Len(cLog) \in Nat
  <2>1. /\ cLog \in Seq(PositionalFrames) /\ cRetained \in Seq(PositionalFrames) /\ <<frame>> \in Seq(PositionalFrames)
        /\ Len(<<frame>>) = 1 /\ IsSuffixOf(cRetained, cLog)
    BY DEF Types, PositionInv
  <2>2. l = cLog \o <<frame>> /\ r = cRetained \o <<frame>>
    BY <2>1, SingleFrame
  <2> HIDE DEF l, r
  <2>3. l \in Seq(PositionalFrames) /\ Len(l) = Len(cLog) + 1 /\ IsPrefixOf(cLog, l)
    BY <2>1, <2>2, Extended
  <2>4. r \in Seq(PositionalFrames) /\ Len(r) = Len(cRetained) + 1 /\ IsSuffixOf(r, l)
    BY <2>1, <2>2, SuffixGrows
  <2> QED BY <2>3, <2>4, Lengths DEF PositionInv, PositionsCountFrames
<1> HIDE DEF l, r
<1>3. /\ frame \in UpFrames /\ Plain(frame) /\ frame.type \notin {"SETUP", "RESUME"}
      /\ \A k \in Connections : up[k] \in Seq(UpFrames)
      /\ connection \in Connections
  BY FramesInFlight, PlainFrames, PositionalFrame DEF Types
<1>4. /\ up' \in [Connections -> Seq(UpFrames)]
      /\ \A k \in Connections \ {connection} : up'[k] = up[k]
      /\ Open => up'[connection] = Append(up[connection], frame)
      /\ ~Open => up' = up
  <2>1. up \in [Connections -> Seq(UpFrames)]
    BY DEF Types
  <2>2. /\ Delivered(up, connection, <<frame>>) \in [Connections -> Seq(UpFrames)]
        /\ \A j \in Connections \ {connection} : Delivered(up, connection, <<frame>>)[j] = up[j]
        /\ link[connection] = "open" =>
             Delivered(up, connection, <<frame>>)[connection] = Append(up[connection], frame)
        /\ link[connection] # "open" => Delivered(up, connection, <<frame>>) = up
    BY <1>3, <2>1, DeliveredFrame
  <2> QED BY <1>1, <2>2 DEF Open
<1>5. Types'
  <2>1. /\ nextStreamId' \in 1..(2 * MaxRequests + 1)
        /\ streams' \subseteq StreamIds /\ withdrawn' \subseteq StreamIds
    BY DEF Sends
  <2>2. clientPosition' \in Nat /\ cLog' \in Seq(PositionalFrames) /\ cRetained' \in Seq(PositionalFrames)
    BY <1>1, <1>2
  <2> QED BY <1>1, <1>4, <2>1, <2>2 DEF Types, queues, clientGot, server, serverSent, serverGot
<1>6. /\ connection' = connection /\ state' = state /\ link' = link /\ down' = down
      /\ cServerPosition' = cServerPosition /\ cGot' = cGot
      /\ sState' = sState /\ binding' = binding /\ sClientPosition' = sClientPosition
      /\ serverPosition' = serverPosition /\ sRetained' = sRetained /\ sLog' = sLog /\ sGot' = sGot
      /\ resumeOk' = resumeOk /\ pendingIncomingFrames' = pendingIncomingFrames
  BY <1>1 DEF queues, clientGot, server, serverSent, serverGot
<1>7. PositionInv'
  <2>1. IsPrefixOf(sGot, l)
    BY <1>2, PrefixGrows DEF Types, PositionInv
  <2>2. (clientPosition + 1) - Len(r) <= sClientPosition
    BY <1>1, <1>2, Lengths DEF PositionInv, Types
  <2> QED BY <1>1, <1>2, <1>6, <2>1, <2>2 DEF PositionInv, PositionsCountFrames
<1>8. Open => Bound \/ (sState = "listening" /\ connection = 1 /\ up[1] # <<>>)
  BY <1>1 DEF LinkInv, Bound
<1>9. ASSUME NEW q \in Seq(UpFrames), NEW n \in Nat, Flow(q, n, cLog), NoError(q), Complete(q, n, cLog)
      PROVE  /\ Flow(Append(q, frame), n, l) /\ NoError(Append(q, frame))
             /\ Complete(Append(q, frame), n, l)
  BY <1>3, <1>9, FlowAppend DEF Types, l
<1>10. \A q \in Seq(UpFrames), n \in Nat : Flow(q, n, cLog) => Flow(q, n, l)
  BY <1>2, FlowLogGrows DEF Types
<1>11. LinkInv'
  <2>1. Open => up'[connection] # <<>>
    BY <1>3, <1>4, AppendProperties, EmptySeq
  <2>2. \A k \in Connections : k > connection => up'[k] = <<>>
    <3>1. \A k \in Connections : k > connection => k # connection
      BY LinkFacts DEF Connections
    <3> QED BY <1>4, <3>1 DEF LinkInv
  <2> QED BY <1>6, <1>8, <2>1, <2>2, LinkFacts DEF LinkInv, Open
<1>12. BoundUp'
  <2> SUFFICES ASSUME binding # 0
               PROVE  /\ Flow(up'[binding], sClientPosition, l) /\ NoError(up'[binding])
                      /\ Bound => Complete(up'[binding], sClientPosition, l)
    BY <1>1, <1>6 DEF BoundUp, Bound, Open
  <2>1. /\ binding \in Connections /\ Flow(up[binding], sClientPosition, cLog) /\ NoError(up[binding])
        /\ Bound => Complete(up[binding], sClientPosition, cLog)
    BY <1>1, LinkFacts DEF UpInv, BoundUp
  <2>2. CASE Bound
    <3>1. up'[binding] = Append(up[binding], frame)
      BY <1>4, <2>2, LinkFacts
    <3> QED BY <1>3, <1>9, <2>1, <2>2, <3>1 DEF Types
  <2>3. CASE ~Bound
    <3>1. up'[binding] = up[binding]
      BY <1>4, <2>1, <2>3 DEF Bound
    <3> QED BY <1>3, <1>10, <2>1, <2>3, <3>1 DEF Types
  <2> QED BY <2>2, <2>3
<1>13. UpInv'
  <2> SUFFICES ASSUME NEW k \in Connections, k # binding, up'[k] # <<>>
               PROVE  SetupUp(k)' \/ ResumeUp(k)'
    BY <1>6, <1>12 DEF UpInv
  <2>1. CASE up'[k] = up[k]
    <3>1. SetupUp(k) \/ ResumeUp(k)
      BY <2>1 DEF UpInv
    <3>2. CASE SetupUp(k)
      <4>1. Tail(up[k]) \in Seq(UpFrames)
        BY <1>3, <2>1, HeadTailProperties
      <4>2. ~(connection = 1 /\ Open)
        <5> SUFFICES ASSUME connection = 1, Open PROVE FALSE
          OBVIOUS
        <5>1. up'[k] = Append(up[k], frame)
          BY <1>4, <3>2 DEF SetupUp
        <5> QED BY <1>3, <2>1, <5>1, AppendProperties, LenProperties
      <4> QED BY <1>1, <1>6, <1>10, <2>1, <3>2, <4>1, <4>2 DEF SetupUp, Open
    <3>3. CASE ResumeUp(k)
      BY <1>1, <1>6, <2>1, <3>3 DEF ResumeUp
    <3> QED BY <3>1, <3>2, <3>3
  <2>2. CASE up'[k] # up[k]
    <3>1. k = connection /\ Open /\ up'[k] = Append(up[k], frame)
      BY <1>4, <2>2
    <3>2. sState = "listening" /\ connection = 1 /\ up[k] # <<>>
      BY <1>8, <3>1, LinkFacts
    <3>3. SetupUp(k)
      BY <1>1, <3>1, <3>2 DEF UpInv, ResumeUp
    <3>4. /\ Tail(up[k]) \in Seq(UpFrames) /\ Head(up'[k]) = Head(up[k])
          /\ Tail(up'[k]) = Append(Tail(up[k]), frame)
      BY <1>3, <3>1, <3>2, HeadTailProperties, HeadTailAppend
    <3> QED BY <1>1, <1>6, <1>9, <3>1, <3>2, <3>3, <3>4 DEF SetupUp, Open
  <2> QED BY <2>1, <2>2
<1>14. KeepaliveInv'
  <2>1. \A k \in Connections : \A i \in 1..Len(up'[k]) :
          IsKeepalive(up'[k][i]) => i \in 1..Len(up[k]) /\ up'[k][i] = up[k][i]
    <3> SUFFICES ASSUME NEW k \in Connections, NEW i \in 1..Len(up'[k]), IsKeepalive(up'[k][i]),
                        up'[k] # up[k]
                 PROVE  i \in 1..Len(up[k]) /\ up'[k][i] = up[k][i]
      OBVIOUS
    <3>1. up'[k] = Append(up[k], frame)
      BY <1>4
    <3> QED BY <1>3, <3>1, AppendProperties, LenProperties DEF Plain
  <2> QED BY <1>3, <1>6, <2>1 DEF KeepaliveInv
<1>15. DownInv'
  BY <1>1, <1>6 DEF DownInv, ActiveDown, ReplayingDown, HandshakeDown, Bound, Open
<1> QED BY <1>5, <1>7, <1>11, <1>13, <1>14, <1>15

LEMMA SendKeepaliveStep ==
  ASSUME Types, NetworkInv, SendKeepalive
  PROVE  Types' /\ NetworkInv'
<1> USE DEF NetworkInv
<1> DEFINE frame == Keepalive(TRUE, cServerPosition)
<1>1. /\ state = "active" /\ Open /\ up' = Delivered(up, connection, <<frame>>)
      /\ UNCHANGED <<client, server, link, down>>
  BY DEF SendKeepalive, Open
<1>2. /\ frame \in UpFrames /\ IsKeepalive(frame) /\ ~IsError(frame) /\ frame.position = cServerPosition
      /\ \A k \in Connections : up[k] \in Seq(UpFrames)
      /\ connection \in Connections /\ up \in [Connections -> Seq(UpFrames)]
  BY KeepaliveFrames DEF Types
<1>3. /\ \A i \in 1..Len(up[connection]) : ~IsKeepalive(up[connection][i])
      /\ \A i \in 1..Len(down[connection]) : ~IsKeepalive(down[connection][i])
  BY <1>2, LenProperties DEF SendKeepalive, NoKeepalive, IsKeepalive, Types
<1> HIDE DEF frame
<1>4. /\ up' \in [Connections -> Seq(UpFrames)]
      /\ \A k \in Connections \ {connection} : up'[k] = up[k]
      /\ up'[connection] = Append(up[connection], frame)
  <2>1. frame \in UpFrames /\ connection \in Connections /\ up \in [Connections -> Seq(UpFrames)]
    BY <1>2
  <2>2. /\ Delivered(up, connection, <<frame>>) \in [Connections -> Seq(UpFrames)]
        /\ \A j \in Connections \ {connection} : Delivered(up, connection, <<frame>>)[j] = up[j]
        /\ link[connection] = "open" =>
             Delivered(up, connection, <<frame>>)[connection] = Append(up[connection], frame)
    BY <2>1, DeliveredFrame
  <2> QED BY <1>1, <2>2 DEF Open
<1>5. Types'
  BY <1>1, <1>4 DEF Types, client, interactions, clientSent, queues, clientGot, server, serverSent, serverGot
<1>6. /\ connection' = connection /\ state' = state /\ link' = link /\ down' = down
      /\ clientPosition' = clientPosition /\ cRetained' = cRetained /\ cLog' = cLog
      /\ cServerPosition' = cServerPosition /\ cGot' = cGot
      /\ sState' = sState /\ binding' = binding /\ sClientPosition' = sClientPosition
      /\ serverPosition' = serverPosition /\ sRetained' = sRetained /\ sLog' = sLog /\ sGot' = sGot
      /\ resumeOk' = resumeOk /\ pendingIncomingFrames' = pendingIncomingFrames
  BY <1>1 DEF client, clientSent, queues, clientGot, server, serverSent, serverGot
<1>7. PositionInv'
  BY <1>6 DEF PositionInv, PositionsCountFrames
<1>8. Bound \/ (sState = "listening" /\ connection = 1 /\ up[1] # <<>>)
  BY <1>1 DEF LinkInv, Bound
<1>9. ASSUME NEW q \in Seq(UpFrames), NEW n \in Nat, Flow(q, n, cLog), NoError(q), Complete(q, n, cLog),
             \A i \in 1..Len(q) : ~IsKeepalive(q[i])
      PROVE  /\ Flow(Append(q, frame), n, cLog) /\ NoError(Append(q, frame))
             /\ Complete(Append(q, frame), n, cLog)
  <2>1. cLog \in Seq(PositionalFrames)
    BY DEF Types
  <2> QED BY <1>2, <1>9, <2>1, FlowAppendControl
<1>10. LinkInv'
  <2>1. up'[connection] # <<>>
    BY <1>2, <1>4, AppendProperties, EmptySeq
  <2>2. \A k \in Connections : k > connection => up'[k] = <<>>
    <3>1. \A k \in Connections : k > connection => k # connection
      BY LinkFacts DEF Connections
    <3> QED BY <1>4, <3>1 DEF LinkInv
  <2> QED BY <1>6, <1>8, <2>1, <2>2, LinkFacts DEF LinkInv, Open
<1>11. BoundUp'
  <2> SUFFICES ASSUME binding # 0
               PROVE  /\ Flow(up'[binding], sClientPosition, cLog) /\ NoError(up'[binding])
                      /\ Bound => Complete(up'[binding], sClientPosition, cLog)
    BY <1>1, <1>6 DEF BoundUp, Bound, Open
  <2>1. /\ binding \in Connections /\ Flow(up[binding], sClientPosition, cLog) /\ NoError(up[binding])
        /\ Bound => Complete(up[binding], sClientPosition, cLog)
    BY <1>1, LinkFacts DEF UpInv, BoundUp
  <2>2. CASE Bound
    <3>1. up'[binding] = Append(up[binding], frame) /\ binding = connection
      BY <1>4, <2>2, LinkFacts
    <3> QED BY <1>2, <1>3, <1>9, <2>1, <2>2, <3>1 DEF Types
  <2>3. CASE ~Bound
    <3>1. up'[binding] = up[binding]
      BY <1>1, <1>4, <2>1, <2>3 DEF Bound
    <3> QED BY <2>1, <2>3, <3>1
  <2> QED BY <2>2, <2>3
<1>12. UpInv'
  <2> SUFFICES ASSUME NEW k \in Connections, k # binding, up'[k] # <<>>
               PROVE  SetupUp(k)' \/ ResumeUp(k)'
    BY <1>6, <1>11 DEF UpInv
  <2>1. CASE k # connection
    <3>1. (SetupUp(k) \/ ResumeUp(k)) /\ up'[k] = up[k]
      BY <1>4, <2>1 DEF UpInv
    <3> QED BY <1>6, <2>1, <3>1 DEF SetupUp, ResumeUp, Open
  <2>2. CASE k = connection
    <3>1. sState = "listening" /\ connection = 1 /\ up[k] # <<>>
      BY <1>8, <2>2, LinkFacts
    <3>2. SetupUp(k)
      BY <1>1, <2>2, <3>1 DEF UpInv, ResumeUp
    <3>3. /\ Tail(up[k]) \in Seq(UpFrames) /\ Head(up'[k]) = Head(up[k])
          /\ Tail(up'[k]) = Append(Tail(up[k]), frame)
      <4>1. up[k] \in Seq(UpFrames) /\ up[k] # <<>> /\ frame \in UpFrames /\ up'[k] = Append(up[k], frame)
        BY <1>2, <1>4, <2>2, <3>1
      <4> QED BY <4>1, HeadTailProperties, HeadTailAppend
    <3>4. \A i \in 1..Len(Tail(up[k])) : ~IsKeepalive(Tail(up[k])[i])
      <4>1. \A i \in 1..Len(Tail(up[k])) : Tail(up[k])[i] = up[k][i + 1] /\ i + 1 \in 1..Len(up[k])
        BY <1>2, <3>1, HeadTailProperties, LenProperties
      <4> QED BY <1>3, <2>2, <4>1
    <3> QED BY <1>1, <1>6, <1>9, <2>2, <3>1, <3>2, <3>3, <3>4 DEF SetupUp, Open
  <2> QED BY <2>1, <2>2
<1>13. KeepaliveInv'
  <2>1. \A k \in Connections : \A i \in 1..Len(up'[k]) :
          \/ i \in 1..Len(up[k]) /\ up'[k][i] = up[k][i]
          \/ up'[k][i] = frame
    <3> SUFFICES ASSUME NEW k \in Connections, NEW i \in 1..Len(up'[k]), up'[k] # up[k]
                 PROVE  \/ i \in 1..Len(up[k]) /\ up'[k][i] = up[k][i]
                        \/ up'[k][i] = frame
      OBVIOUS
    <3>1. up'[k] = Append(up[k], frame)
      BY <1>4
    <3> QED BY <1>2, <3>1, AppendProperties, LenProperties
  <2>2. \A k \in Connections : \A i \in 1..Len(up'[k]) :
          IsKeepalive(up'[k][i]) => up'[k][i].position <= cServerPosition
    <3> SUFFICES ASSUME NEW k \in Connections, NEW i \in 1..Len(up'[k]), IsKeepalive(up'[k][i])
                 PROVE  up'[k][i].position <= cServerPosition
      OBVIOUS
    <3>1. cServerPosition <= cServerPosition
      BY DEF Types
    <3> QED BY <1>2, <2>1, <3>1 DEF KeepaliveInv
  <2> QED BY <1>3, <1>6, <2>2 DEF KeepaliveInv
<1>14. DownInv'
  BY <1>1, <1>6 DEF DownInv, ActiveDown, ReplayingDown, HandshakeDown, Bound, Open
<1> QED BY <1>5, <1>7, <1>10, <1>12, <1>13, <1>14

LEMMA OpenResumeStep ==
  ASSUME Types, NetworkInv, OpenResume
  PROVE  Types' /\ NetworkInv'
<1> USE DEF NetworkInv
<1> DEFINE new == connection + 1
           frame == Resume(cServerPosition, clientPosition - Len(cRetained))
<1>1. /\ state = "lost" /\ connection < MaxConnections /\ connection' = new /\ state' = "handshake"
      /\ link' = [link EXCEPT ![new] = "open"] /\ up' = [up EXCEPT ![new] = <<frame>>]
      /\ UNCHANGED <<queues, interactions, clientSent, clientGot, server, down>>
  BY DEF OpenResume
<1>2. /\ new \in Connections /\ connection \in Connections /\ new \in Nat /\ connection \in Nat
      /\ \A k \in Connections : k \in Nat
  BY <1>1, LinkFacts DEF Connections
<1>3. /\ clientPosition - Len(cRetained) \in Nat
      /\ frame \in UpFrames /\ frame.type = "RESUME" /\ frame.received = cServerPosition
      /\ frame.first = clientPosition - Len(cRetained)
  <2>1. clientPosition - Len(cRetained) \in Nat
    BY Lengths DEF PositionInv, PositionsCountFrames, IsSuffixOf
  <2>2. cServerPosition \in Nat
    BY DEF Types
  <2> QED BY <2>1, <2>2, ResumeFrames
<1> HIDE DEF frame
<1>4. /\ up' \in [Connections -> Seq(UpFrames)] /\ up'[new] = <<frame>>
      /\ \A k \in Connections \ {new} : up'[k] = up[k] /\ link'[k] = link[k]
      /\ link'[new] = "open" /\ link' \in [Connections -> {"unused", "open", "broken"}]
      /\ <<frame>> \in Seq(UpFrames) /\ Len(<<frame>>) = 1 /\ Head(<<frame>>) = frame
  <2>1. /\ <<frame>> \in Seq(UpFrames) /\ Len(<<frame>>) = 1 /\ Head(<<frame>>) = frame
    BY <1>3
  <2>2. /\ up \in [Connections -> Seq(UpFrames)]
        /\ link \in [Connections -> {"unused", "open", "broken"}]
    BY DEF Types
  <2>3. /\ up' \in [Connections -> Seq(UpFrames)] /\ up'[new] = <<frame>>
        /\ \A k \in Connections \ {new} : up'[k] = up[k]
    BY <1>1, <1>2, <2>1, <2>2
  <2>4. /\ link'[new] = "open" /\ link' \in [Connections -> {"unused", "open", "broken"}]
        /\ \A k \in Connections \ {new} : link'[k] = link[k]
    BY <1>1, <1>2, <2>2
  <2> QED BY <2>1, <2>3, <2>4
<1>5. Types'
  BY <1>1, <1>2, <1>4 DEF Types, interactions, clientSent, queues, clientGot, server, serverSent, serverGot
<1>6. /\ down' = down
      /\ clientPosition' = clientPosition /\ cRetained' = cRetained /\ cLog' = cLog
      /\ cServerPosition' = cServerPosition /\ cGot' = cGot
      /\ sState' = sState /\ binding' = binding /\ sClientPosition' = sClientPosition
      /\ serverPosition' = serverPosition /\ sRetained' = sRetained /\ sLog' = sLog /\ sGot' = sGot
      /\ resumeOk' = resumeOk /\ pendingIncomingFrames' = pendingIncomingFrames
  BY <1>1 DEF clientSent, queues, clientGot, server, serverSent, serverGot
<1>7. PositionInv'
  BY <1>1, <1>6 DEF PositionInv, PositionsCountFrames
<1>8. /\ ~Open /\ down[connection] = <<>> /\ link[connection] = "broken" /\ down[new] = <<>>
      /\ binding # new /\ binding <= connection /\ binding \in Nat
  <2>1. ~Open /\ down[connection] = <<>> /\ link[connection] = "broken"
    BY <1>1, LinkFacts DEF LinkInv
  <2>2. new > connection
    BY <1>2
  <2>3. binding <= connection /\ binding \in Nat
    BY <1>2 DEF LinkInv, Types
  <2> QED BY <1>2, <2>1, <2>2, <2>3 DEF LinkInv
<1>9. LinkInv'
  <2>1. ASSUME NEW k \in Connections
        PROVE  /\ k > new => link'[k] = "unused" /\ up'[k] = <<>> /\ down[k] = <<>>
               /\ k < new => link'[k] = "broken" /\ down[k] = <<>>
    <3>1. k > new => k > connection /\ k # new
      BY <1>2
    <3>2. k < new => (k < connection \/ k = connection) /\ k # new
      BY <1>2
    <3> QED BY <1>4, <1>8, <3>1, <3>2 DEF LinkInv
  <2>2. binding <= new
    BY <1>2, <1>8
  <2> QED BY <1>1, <1>4, <1>6, <2>1, <2>2 DEF LinkInv, Open
<1>10. ~Bound'
  BY <1>1, <1>6, <1>8 DEF Bound
<1>11. BoundUp'
  <2> SUFFICES ASSUME binding # 0 PROVE BoundUp'
    BY <1>6 DEF BoundUp
  <2>1. binding \in Connections /\ up'[binding] = up[binding]
    BY <1>4, <1>8, LinkFacts
  <2> QED BY <1>1, <1>6, <1>8, <1>10, <2>1 DEF UpInv, BoundUp
<1>12. UpInv'
  <2> SUFFICES ASSUME NEW k \in Connections, k # binding, up'[k] # <<>>
               PROVE  SetupUp(k)' \/ ResumeUp(k)'
    BY <1>6, <1>11 DEF UpInv
  <2>1. CASE k = new
    <3>1. cServerPosition <= cServerPosition /\ clientPosition - Len(cRetained) <= sClientPosition
      BY <1>1 DEF Types, PositionInv
    <3> QED BY <1>1, <1>3, <1>4, <1>6, <1>8, <2>1, <3>1 DEF ResumeUp
  <2>2. CASE k # new
    <3>1. (SetupUp(k) \/ ResumeUp(k)) /\ up'[k] = up[k]
      BY <1>4, <2>2 DEF UpInv
    <3>2. new # 1
      BY <1>2 DEF Connections
    <3> QED BY <1>1, <1>6, <2>2, <3>1, <3>2 DEF SetupUp, ResumeUp
  <2> QED BY <2>1, <2>2
<1>13. KeepaliveInv'
  <2>1. \A i \in 1..Len(up'[new]) : ~IsKeepalive(up'[new][i])
    BY <1>3, <1>4 DEF IsKeepalive
  <2>2. \A k \in Connections : \A i \in 1..Len(up'[k]) :
          IsKeepalive(up'[k][i]) => up'[k][i].position <= cServerPosition
    BY <1>4, <2>1 DEF KeepaliveInv
  <2> QED BY <1>1, <1>2, <1>6, <2>1, <2>2 DEF KeepaliveInv
<1>14. DownInv'
  BY <1>1, <1>6, <1>8, <1>10 DEF DownInv, ActiveDown, ReplayingDown, HandshakeDown
<1> QED BY <1>5, <1>7, <1>9, <1>12, <1>13, <1>14

\* A frame is taken off the requester's connection.
LEMMA ConsumeFacts ==
  ASSUME Types, NetworkInv, ConsumeIncoming
  PROVE  /\ down[connection] # <<>> /\ down[connection] \in Seq(DownFrames)
         /\ Incoming \in DownFrames /\ Incoming = down[connection][1]
         /\ down' \in [Connections -> Seq(DownFrames)]
         /\ down'[connection] = Tail(down[connection])
         /\ \A k \in Connections \ {connection} : down'[k] = down[k]
         /\ Len(down[connection]) \in Nat /\ Len(down[connection]) >= 1
         /\ Len(down'[connection]) = Len(down[connection]) - 1
         /\ \A i \in 1..Len(down'[connection]) :
              down'[connection][i] = down[connection][i + 1] /\ i + 1 \in 1..Len(down[connection])
<1>1. /\ down[connection] # <<>> /\ down[connection] \in Seq(DownFrames) /\ connection \in Connections
      /\ down' = [down EXCEPT ![connection] = Tail(down[connection])]
  BY DEF Types, ConsumeIncoming, HasIncoming
<1>2. /\ Tail(down[connection]) \in Seq(DownFrames) /\ Incoming \in DownFrames
      /\ Incoming = down[connection][1]
      /\ Len(down[connection]) \in Nat /\ Len(down[connection]) >= 1
      /\ Len(Tail(down[connection])) = Len(down[connection]) - 1
      /\ \A i \in 1..Len(Tail(down[connection])) : Tail(down[connection])[i] = down[connection][i + 1]
  BY <1>1, HeadTailProperties, LenProperties, EmptySeq DEF Incoming
<1>3. down'[connection] = Tail(down[connection])
  BY <1>1 DEF Types
<1>4. \A k \in Connections \ {connection} : down'[k] = down[k]
  BY <1>1 DEF Types
<1>5. down' \in [Connections -> Seq(DownFrames)]
  BY <1>1, <1>2 DEF Types
<1>6. \A i \in 1..Len(down'[connection]) : i + 1 \in 1..Len(down[connection])
  BY <1>2, <1>3
<1> QED BY <1>1, <1>2, <1>3, <1>4, <1>5, <1>6

\* KeepaliveInv survives it, when the requester's position does not go back.
LEMMA ConsumeKeepalives ==
  ASSUME Types, Types', NetworkInv, ConsumeIncoming, UNCHANGED <<connection, up, sClientPosition>>,
         cServerPosition' >= cServerPosition
  PROVE  KeepaliveInv'
<1>1. \A k \in Connections : \A j \in 1..Len(down'[k]) :
        \E i \in 1..Len(down[k]) : down'[k][j] = down[k][i]
  <2> SUFFICES ASSUME NEW k \in Connections, NEW j \in 1..Len(down'[k])
               PROVE  \E i \in 1..Len(down[k]) : down'[k][j] = down[k][i]
    OBVIOUS
  <2>1. CASE k = connection
    <3>1. j + 1 \in 1..Len(down[k]) /\ down'[k][j] = down[k][j + 1]
      BY <2>1, ConsumeFacts
    <3> QED BY <3>1
  <2>2. CASE k # connection
    <3>1. down'[k] = down[k]
      BY <2>2, ConsumeFacts
    <3> QED BY <3>1
  <2> QED BY <2>1, <2>2
<1>2. connection \in Connections
  BY DEF Types
<1>3. \A k \in Connections : \A i \in 1..Len(up[k]) :
        IsKeepalive(up[k][i]) => up[k][i].position <= cServerPosition'
  <2> SUFFICES ASSUME NEW k \in Connections, NEW i \in 1..Len(up[k]), IsKeepalive(up[k][i])
               PROVE  up[k][i].position <= cServerPosition'
    OBVIOUS
  <2>1. up[k][i].position <= cServerPosition
    BY DEF NetworkInv, KeepaliveInv
  <2>2. up[k][i] \in UpFrames
    BY ElementOfSeq, LenProperties DEF Types
  <2>3. up[k][i].position \in Nat
    BY <2>2, UpFrame DEF IsKeepalive
  <2>4. \A n \in Nat : n <= cServerPosition => n <= cServerPosition'
    BY DEF Types
  <2> QED BY <2>1, <2>3, <2>4
<1>4. \A i \in 1..Len(up[connection]), j \in 1..Len(down'[connection]) :
        ~(IsKeepalive(up[connection][i]) /\ IsKeepalive(down'[connection][j]))
  BY <1>1, <1>2 DEF NetworkInv, KeepaliveInv
<1>5. \A k \in Connections : \A j \in 1..Len(down'[k]) :
        IsKeepalive(down'[k][j]) => down'[k][j].position <= sClientPosition
  BY <1>1 DEF NetworkInv, KeepaliveInv
<1> QED BY <1>3, <1>4, <1>5 DEF KeepaliveInv

LEMMA ReceiveResumeOkStep ==
  ASSUME Types, NetworkInv, ReceiveResumeOk
  PROVE  Types' /\ NetworkInv'
<1> USE DEF NetworkInv
<1>1. /\ state = "handshake" /\ Incoming.type = "RESUME_OK" /\ state' = "replaying"
      /\ resumeOk' = Incoming.position /\ ConsumeIncoming
      /\ UNCHANGED <<connection, pendingFrames, pendingIncomingFrames, interactions,
                     clientSent, clientGot, server, link, up>>
  BY DEF ReceiveResumeOk
<1>2. /\ link' = link /\ up' = up /\ connection' = connection
      /\ clientPosition' = clientPosition /\ cRetained' = cRetained /\ cLog' = cLog
      /\ cServerPosition' = cServerPosition /\ cGot' = cGot
      /\ sState' = sState /\ binding' = binding /\ sClientPosition' = sClientPosition
      /\ serverPosition' = serverPosition /\ sRetained' = sRetained /\ sLog' = sLog /\ sGot' = sGot
      /\ pendingIncomingFrames' = pendingIncomingFrames
  BY <1>1 DEF clientSent, clientGot, server, serverSent, serverGot
<1>3. resumeOk' \in Nat
  BY <1>1, ConsumeFacts, DownFrame
<1>4. Types'
  <2>1. down' \in [Connections -> Seq(DownFrames)]
    BY <1>1, ConsumeFacts
  <2> QED BY <1>1, <1>3, <2>1 DEF Types, interactions, clientSent, clientGot, server, serverSent, serverGot
<1>5. /\ Replayable(resumeOk')
      /\ IsRun(down'[connection], cServerPosition, sLog)
      /\ Open => Bound
      /\ Bound => cServerPosition + Len(down'[connection]) = Len(sLog)
      /\ pendingIncomingFrames = <<>>
  BY <1>1, ConsumeFacts DEF DownInv, HandshakeDown, Incoming
<1>6. PositionInv'
  BY <1>1, <1>2 DEF PositionInv, PositionsCountFrames
<1>7. LinkInv'
  <2>1. \A k \in Connections : down[k] = <<>> => down'[k] = <<>>
    BY <1>1, ConsumeFacts
  <2> QED BY <1>1, <1>2, <1>5, <2>1 DEF LinkInv, Open, Bound
<1>8. down[connection] # <<>>
  BY <1>1, ConsumeFacts
<1>9. UpInv'
  <2>1. BoundUp'
    BY <1>1, <1>2 DEF UpInv, BoundUp, Bound, Open
  <2> SUFFICES ASSUME NEW k \in Connections, k # binding, up[k] # <<>>
               PROVE  SetupUp(k)' \/ ResumeUp(k)'
    BY <1>2, <2>1 DEF UpInv
  <2>2. SetupUp(k) \/ ResumeUp(k)
    BY DEF UpInv
  <2> QED BY <1>1, <1>2, <1>8, <2>2 DEF SetupUp, ResumeUp, Open
<1>10. KeepaliveInv'
  <2>1. cServerPosition' >= cServerPosition
    BY <1>2 DEF Types
  <2> QED BY <1>1, <1>2, <1>4, <2>1, ConsumeKeepalives
<1>11. DownInv'
  <2>1. /\ resumeOk' \in (clientPosition - Len(cRetained))..sClientPosition
        /\ Bound => resumeOk' = sClientPosition
    BY <1>5 DEF Replayable
  <2>2. /\ IsRun(<<>>, cServerPosition, sLog)
        /\ IsRun(down'[connection], cServerPosition + Len(<<>>), sLog)
        /\ cServerPosition + Len(<<>>) = cServerPosition
    <3>1. cServerPosition + Len(<<>>) = cServerPosition
      BY DEF Types
    <3>2. cServerPosition \in 0..Len(sLog)
      BY Lengths DEF PositionInv, PositionsCountFrames, IsPrefixOf, Types
    <3>3. IsRun(<<>>, cServerPosition, sLog)
      BY <3>2, EmptyIsSuffix DEF Types
    <3> QED BY <1>5, <3>1, <3>3
  <2>3. Bound' <=> Bound
    BY <1>2 DEF Bound, Open
  <2>4. ReplayingDown'
    <3>1. /\ pendingIncomingFrames' = <<>>
          /\ Bound => cServerPosition + Len(<<>>) + Len(down'[connection]) = Len(sLog)
      BY <1>2, <1>5, <2>2
    <3> QED BY <1>1, <1>2, <2>1, <2>2, <2>3, <3>1 DEF ReplayingDown, Replayable
  <2> QED BY <1>1, <1>2, <2>4 DEF DownInv, ActiveDown, HandshakeDown
<1> QED BY <1>4, <1>6, <1>7, <1>9, <1>10, <1>11

LEMMA BufferIncomingStep ==
  ASSUME Types, NetworkInv, BufferIncoming
  PROVE  Types' /\ NetworkInv'
<1> USE DEF NetworkInv
<1> DEFINE p == Append(pendingIncomingFrames, Incoming)
           n == Len(pendingIncomingFrames)
<1>1. /\ state = "replaying" /\ pendingIncomingFrames' = p /\ ConsumeIncoming
      /\ UNCHANGED <<state, connection, pendingFrames, resumeOk, interactions,
                     clientSent, clientGot, server, link, up>>
  BY DEF BufferIncoming
<1>2. /\ state' = state /\ link' = link /\ up' = up /\ connection' = connection /\ resumeOk' = resumeOk
      /\ clientPosition' = clientPosition /\ cRetained' = cRetained /\ cLog' = cLog
      /\ cServerPosition' = cServerPosition /\ cGot' = cGot
      /\ sState' = sState /\ binding' = binding /\ sClientPosition' = sClientPosition
      /\ serverPosition' = serverPosition /\ sRetained' = sRetained /\ sLog' = sLog /\ sGot' = sGot
  BY <1>1 DEF clientSent, clientGot, server, serverSent, serverGot
<1>3. /\ Replayable(resumeOk)
      /\ IsRun(pendingIncomingFrames, cServerPosition, sLog)
      /\ IsRun(down[connection], cServerPosition + n, sLog)
      /\ Bound => cServerPosition + n + Len(down[connection]) = Len(sLog)
  BY <1>1 DEF DownInv, ReplayingDown
<1>4. /\ n \in Nat /\ cServerPosition \in Nat /\ Len(sLog) \in Nat
      /\ pendingIncomingFrames \in Seq(Answers) /\ sLog \in Seq(Answers)
  BY Lengths DEF Types
<1>5. Incoming = sLog[cServerPosition + n + 1] /\ cServerPosition + n + 1 \in 1..Len(sLog)
  <2>1. Incoming = down[connection][1] /\ Len(down[connection]) \in Nat /\ Len(down[connection]) >= 1
    BY <1>1, ConsumeFacts
  <2>2. 1 \in 1..Len(down[connection])
    BY <2>1
  <2>3. Incoming = sLog[(cServerPosition + n) + 1] /\ cServerPosition + n + Len(down[connection]) <= Len(sLog)
    BY <1>3, <2>1, <2>2 DEF IsRun
  <2>4. cServerPosition + n + 1 \in 1..Len(sLog)
    <3>1. \A x \in Nat : x >= 1 /\ cServerPosition + n + x <= Len(sLog)
                          => cServerPosition + n + 1 \in 1..Len(sLog)
      BY <1>4
    <3> QED BY <2>1, <2>3, <3>1
  <2> QED BY <2>3, <2>4
<1>6. Incoming \in Answers
  BY <1>4, <1>5, ElementOfSeq
<1>7. /\ p \in Seq(Answers) /\ Len(p) = n + 1 /\ \A i \in 1..n : p[i] = pendingIncomingFrames[i]
      /\ p[n + 1] = Incoming
  BY <1>4, <1>6, AppendProperties
<1>8. Types'
  <2>1. down' \in [Connections -> Seq(DownFrames)]
    BY <1>1, ConsumeFacts
  <2> QED BY <1>1, <1>7, <2>1 DEF Types, interactions, clientSent, clientGot, server, serverSent, serverGot
<1> HIDE DEF p
<1>9. PositionInv'
  BY <1>2 DEF PositionInv, PositionsCountFrames
<1>10. LinkInv'
  <2>1. \A k \in Connections : down[k] = <<>> => down'[k] = <<>>
    BY <1>1, ConsumeFacts
  <2> QED BY <1>1, <1>2, <2>1 DEF LinkInv, Open, Bound
<1>11. UpInv'
  BY <1>1, <1>2 DEF UpInv, BoundUp, SetupUp, ResumeUp, Bound, Open
<1>12. KeepaliveInv'
  <2>1. cServerPosition' >= cServerPosition
    BY <1>2 DEF Types
  <2> QED BY <1>1, <1>2, <1>8, <2>1, ConsumeKeepalives
<1>13. DownInv'
  <2>1. Replayable(resumeOk)'
    BY <1>2, <1>3 DEF Replayable, Bound, Open
  <2>2. IsRun(p, cServerPosition, sLog)
    <3>1. cServerPosition + Len(p) <= Len(sLog)
      BY <1>4, <1>5, <1>7
    <3>2. \A i \in 1..(n + 1) : p[i] = sLog[cServerPosition + i]
      <4> SUFFICES ASSUME NEW i \in 1..(n + 1) PROVE p[i] = sLog[cServerPosition + i]
        OBVIOUS
      <4>1. CASE i = n + 1
        <5>1. cServerPosition + i = cServerPosition + n + 1
          BY <1>4, <4>1
        <5> QED BY <1>5, <1>7, <4>1, <5>1
      <4>2. CASE i \in 1..n
        BY <1>3, <1>7, <4>2 DEF IsRun
      <4> QED BY <1>4, <4>1, <4>2
    <3> QED BY <1>7, <3>1, <3>2 DEF IsRun
  <2>3. IsRun(down'[connection], cServerPosition + Len(p), sLog)
    <3> DEFINE d == down[connection]
               e == down'[connection]
               m == cServerPosition + n
    <3>1. /\ Len(d) \in Nat /\ Len(d) >= 1 /\ Len(e) = Len(d) - 1
          /\ \A i \in 1..Len(e) : e[i] = d[i + 1] /\ i + 1 \in 1..Len(d)
      BY <1>1, ConsumeFacts
    <3>2. m + Len(d) <= Len(sLog) /\ \A i \in 1..Len(d) : d[i] = sLog[m + i]
      BY <1>3 DEF IsRun
    <3>3. m \in Nat /\ cServerPosition + Len(p) = m + 1
      BY <1>4, <1>7
    <3> HIDE DEF d, e, m
    <3>4. m + 1 + Len(e) <= Len(sLog)
      BY <1>4, <3>1, <3>2, <3>3
    <3>5. \A i \in 1..Len(e) : e[i] = sLog[m + 1 + i]
      <4> SUFFICES ASSUME NEW i \in 1..Len(e) PROVE e[i] = sLog[m + 1 + i]
        OBVIOUS
      <4>1. e[i] = sLog[m + (i + 1)]
        BY <3>1, <3>2
      <4>2. m + (i + 1) = m + 1 + i
        BY <3>3
      <4> QED BY <4>1, <4>2
    <3>6. IsRun(e, m + 1, sLog)
      BY <3>4, <3>5 DEF IsRun
    <3> QED BY <3>3, <3>6 DEF e
  <2>4. Bound => cServerPosition + Len(p) + Len(down'[connection]) = Len(sLog)
    <3>1. Len(down'[connection]) = Len(down[connection]) - 1 /\ Len(down[connection]) \in Nat
      BY <1>1, ConsumeFacts
    <3>2. \A x \in Nat : cServerPosition + n + x = Len(sLog) => cServerPosition + (n + 1) + (x - 1) = Len(sLog)
      BY <1>4
    <3>3. Bound => cServerPosition + (n + 1) + (Len(down[connection]) - 1) = Len(sLog)
      BY <1>3, <3>1, <3>2
    <3> QED BY <1>7, <3>1, <3>3
  <2>5. Bound' <=> Bound
    BY <1>2 DEF Bound, Open
  <2>6. ReplayingDown'
    BY <1>1, <1>2, <2>1, <2>2, <2>3, <2>4, <2>5 DEF ReplayingDown
  <2> QED BY <1>1, <1>2, <2>6 DEF DownInv, ActiveDown, HandshakeDown
<1> QED BY <1>8, <1>9, <1>10, <1>11, <1>12, <1>13

\* Frames dispatched by the requester: answers, in the order of the log.
LEMMA ReceiveAnswerStep ==
  ASSUME Types, NetworkInv, ReceiveAnswer
  PROVE  Types' /\ NetworkInv'
<1> USE DEF NetworkInv
<1>1. /\ state = "active" /\ Incoming.type = "PAYLOAD" /\ ConsumeIncoming
      /\ cServerPosition' = cServerPosition + 1 /\ cGot' = Append(cGot, Incoming)
      /\ streams' = streams \ {Incoming.stream}
      /\ UNCHANGED <<state, connection, queues, nextStreamId, withdrawn, clientSent,
                     server, link, up>>
  <2>1. Len(<<Incoming>>) = 1 /\ DOMAIN <<Incoming>> = {1} /\ <<Incoming>>[1] = Incoming
    OBVIOUS
  <2>2. ConsumeIncoming /\ Incoming.type = "PAYLOAD" /\ DispatchAnswers(<<Incoming>>)
    BY DEF ReceiveAnswer
  <2>3. cGot \o <<Incoming>> = Append(cGot, Incoming)
    <3>1. Incoming \in Answers /\ cGot \in Seq(Answers)
      BY <2>2, ConsumeFacts, DownFrame DEF Types
    <3> QED BY <3>1, SingleFrame
  <2> QED BY <2>1, <2>2, <2>3 DEF ReceiveAnswer, DispatchAnswers
<1>2. /\ state' = state /\ link' = link /\ up' = up /\ connection' = connection /\ resumeOk' = resumeOk
      /\ clientPosition' = clientPosition /\ cRetained' = cRetained /\ cLog' = cLog
      /\ pendingIncomingFrames' = pendingIncomingFrames
      /\ sState' = sState /\ binding' = binding /\ sClientPosition' = sClientPosition
      /\ serverPosition' = serverPosition /\ sRetained' = sRetained /\ sLog' = sLog /\ sGot' = sGot
  BY <1>1 DEF clientSent, queues, server, serverSent, serverGot
<1>3. Incoming \in Answers /\ Plain(Incoming)
  BY <1>1, ConsumeFacts, DownFrame, PlainFrames
<1>4. Types'
  <2>1. down' \in [Connections -> Seq(DownFrames)] /\ Append(cGot, Incoming) \in Seq(Answers)
        /\ cServerPosition + 1 \in Nat
    BY <1>1, <1>3, ConsumeFacts, AppendProperties DEF Types
  <2> QED BY <1>1, <2>1 DEF Types, clientSent, queues, server, serverSent, serverGot
<1>5. /\ cServerPosition + 1 <= Len(sLog) /\ Incoming = sLog[cServerPosition + 1]
      /\ Flow(down'[connection], cServerPosition + 1, sLog)
      /\ Bound => Complete(down'[connection], cServerPosition + 1, sLog)
      /\ Open => NoError(down'[connection])
  <2>1. /\ Flow(down[connection], cServerPosition, sLog)
        /\ Open => NoError(down[connection])
        /\ Bound => Complete(down[connection], cServerPosition, sLog)
    BY <1>1 DEF DownInv, ActiveDown
  <2>2. /\ down[connection] \in Seq(DownFrames) /\ down[connection] # <<>>
        /\ Head(down[connection]) = Incoming /\ down'[connection] = Tail(down[connection])
        /\ cServerPosition \in Nat /\ sLog \in Seq(Answers)
    BY <1>1, ConsumeFacts DEF Types, Incoming
  <2> QED BY <1>3, <2>1, <2>2, FlowTail
<1>6. PositionInv'
  <2>1. /\ cServerPosition = Len(cGot) /\ IsPrefixOf(cGot, sLog) /\ cGot \in Seq(Answers) /\ sLog \in Seq(Answers)
        /\ Len(cGot) \in Nat /\ Len(sLog) \in Nat
    BY Lengths DEF PositionInv, PositionsCountFrames, Types
  <2>2. /\ Len(Append(cGot, Incoming)) = cServerPosition + 1
        /\ IsPrefixOf(Append(cGot, Incoming), sLog)
    <3>1. /\ Len(Append(cGot, Incoming)) = Len(cGot) + 1
          /\ \A i \in 1..Len(cGot) : Append(cGot, Incoming)[i] = cGot[i]
          /\ Append(cGot, Incoming)[Len(cGot) + 1] = Incoming
      BY <1>3, <2>1, AppendProperties
    <3> QED BY <1>5, <2>1, <3>1 DEF IsPrefixOf
  <2>3. sState # "terminated" => serverPosition - Len(sRetained) <= cServerPosition + 1
    BY Lengths DEF PositionInv, Types
  <2> QED BY <1>1, <1>2, <2>2, <2>3 DEF PositionInv, PositionsCountFrames
<1>7. LinkInv'
  <2>1. \A k \in Connections : down[k] = <<>> => down'[k] = <<>>
    BY <1>1, ConsumeFacts
  <2> QED BY <1>1, <1>2, <2>1 DEF LinkInv, Open, Bound
<1>8. UpInv'
  <2>1. BoundUp'
    BY <1>1, <1>2 DEF UpInv, BoundUp, Bound, Open
  <2> SUFFICES ASSUME NEW k \in Connections, k # binding, up[k] # <<>>
               PROVE  SetupUp(k)' \/ ResumeUp(k)'
    BY <1>2, <2>1 DEF UpInv
  <2>2. CASE SetupUp(k)
    BY <1>2, <2>2 DEF SetupUp, Open
  <2>3. CASE ResumeUp(k)
    <3>1. Head(up[k]).received <= cServerPosition + 1
      <4>1. Head(up[k]) \in UpFrames
        BY HeadTailProperties DEF Types
      <4>2. Head(up[k]).received \in Nat /\ Head(up[k]).received <= cServerPosition
        BY <2>3, <4>1, UpFrame DEF ResumeUp
      <4>3. \A n \in Nat : n <= cServerPosition => n <= cServerPosition + 1
        BY DEF Types
      <4> QED BY <4>2, <4>3
    <3> QED BY <1>1, <1>2, <2>3, <3>1 DEF ResumeUp
  <2> QED BY <2>2, <2>3 DEF UpInv
<1>9. KeepaliveInv'
  <2>1. cServerPosition' >= cServerPosition
    BY <1>1 DEF Types
  <2> QED BY <1>1, <1>2, <1>4, <2>1, ConsumeKeepalives
<1>10. DownInv'
  BY <1>1, <1>2, <1>5 DEF DownInv, ActiveDown, ReplayingDown, HandshakeDown, Bound, Open
<1> QED BY <1>4, <1>6, <1>7, <1>8, <1>9, <1>10

LEMMA ReceiveKeepaliveStep ==
  ASSUME Types, NetworkInv, ReceiveKeepalive
  PROVE  Types' /\ NetworkInv'
<1> USE DEF NetworkInv
<1>1. /\ state = "active" /\ IsKeepalive(Incoming) /\ ConsumeIncoming
      /\ cRetained' = Acknowledged(cRetained, clientPosition, Incoming.position)
      /\ UNCHANGED <<state, connection, queues, interactions, clientPosition, cLog, clientGot,
                     server, link, up>>
  BY DEF ReceiveKeepalive, IsKeepalive
<1>2. /\ state' = state /\ link' = link /\ up' = up /\ connection' = connection /\ resumeOk' = resumeOk
      /\ clientPosition' = clientPosition /\ cLog' = cLog
      /\ cServerPosition' = cServerPosition /\ cGot' = cGot
      /\ pendingIncomingFrames' = pendingIncomingFrames
      /\ sState' = sState /\ binding' = binding /\ sClientPosition' = sClientPosition
      /\ serverPosition' = serverPosition /\ sRetained' = sRetained /\ sLog' = sLog /\ sGot' = sGot
  BY <1>1 DEF clientGot, queues, server, serverSent, serverGot
<1>3. Incoming.position \in Nat /\ Incoming.position <= sClientPosition
  <2>1. Incoming.position \in Nat
    BY <1>1, ConsumeFacts, DownFrame DEF IsKeepalive
  <2>2. connection \in Connections /\ 1 \in 1..Len(down[connection]) /\ Incoming = down[connection][1]
    BY <1>1, ConsumeFacts DEF Types
  <2> QED BY <1>1, <2>1, <2>2 DEF KeepaliveInv
<1>4. /\ clientPosition = Len(cLog) /\ IsSuffixOf(cRetained, cLog) /\ sClientPosition <= Len(cLog)
      /\ clientPosition - Len(cRetained) <= sClientPosition
      /\ cLog \in Seq(PositionalFrames) /\ cRetained \in Seq(PositionalFrames)
      /\ Len(cLog) \in Nat /\ sClientPosition \in Nat
  BY <1>1, Lengths DEF PositionInv, PositionsCountFrames, IsPrefixOf, Types
<1>5. /\ cRetained' \in Seq(PositionalFrames) /\ IsSuffixOf(cRetained', cLog)
      /\ clientPosition - Len(cRetained') \in {clientPosition - Len(cRetained), Incoming.position}
  <2> DEFINE q == Incoming.position
  <2>1. q \in Nat /\ q <= Len(cLog)
    BY <1>3, <1>4
  <2>2. cRetained' = Acknowledged(cRetained, Len(cLog), q)
    BY <1>1, <1>4
  <2> HIDE DEF q
  <2>3. /\ Acknowledged(cRetained, Len(cLog), q) \in Seq(PositionalFrames)
        /\ IsSuffixOf(Acknowledged(cRetained, Len(cLog), q), cLog)
        /\ Len(cLog) - Len(Acknowledged(cRetained, Len(cLog), q)) \in {Len(cLog) - Len(cRetained), q}
    BY <1>4, <2>1, AcknowledgedLaw
  <2> QED BY <1>4, <2>2, <2>3 DEF q
<1>6. clientPosition - Len(cRetained') <= sClientPosition
  BY <1>3, <1>4, <1>5
<1>7. Types'
  <2>1. down' \in [Connections -> Seq(DownFrames)]
    BY <1>1, ConsumeFacts
  <2> QED BY <1>1, <1>5, <2>1 DEF Types, clientGot, queues, interactions, server, serverSent, serverGot
<1>8. PositionInv'
  BY <1>1, <1>2, <1>5, <1>6 DEF PositionInv, PositionsCountFrames
<1>9. LinkInv'
  <2>1. \A k \in Connections : down[k] = <<>> => down'[k] = <<>>
    BY <1>1, ConsumeFacts
  <2> QED BY <1>1, <1>2, <2>1 DEF LinkInv, Open, Bound
<1>10. UpInv'
  BY <1>1, <1>2 DEF UpInv, BoundUp, SetupUp, ResumeUp, Bound, Open
<1>11. KeepaliveInv'
  <2>1. cServerPosition' >= cServerPosition
    BY <1>2 DEF Types
  <2> QED BY <1>1, <1>2, <1>7, <2>1, ConsumeKeepalives
<1>12. DownInv'
  <2>1. /\ Flow(down'[connection], cServerPosition, sLog)
        /\ Bound => Complete(down'[connection], cServerPosition, sLog)
        /\ Open => NoError(down'[connection])
    <3>1. /\ Flow(down[connection], cServerPosition, sLog)
          /\ Open => NoError(down[connection])
          /\ Bound => Complete(down[connection], cServerPosition, sLog)
      BY <1>1 DEF DownInv, ActiveDown
    <3>2. /\ down[connection] \in Seq(DownFrames) /\ down[connection] # <<>>
          /\ Head(down[connection]) = Incoming /\ down'[connection] = Tail(down[connection])
          /\ cServerPosition \in Nat /\ sLog \in Seq(Answers)
      BY <1>1, ConsumeFacts DEF Types, Incoming
    <3> QED BY <1>1, <3>1, <3>2, FlowTail
  <2> QED BY <1>1, <1>2, <2>1 DEF DownInv, ActiveDown, ReplayingDown, HandshakeDown, Bound, Open
<1> QED BY <1>7, <1>8, <1>9, <1>10, <1>11, <1>12

LEMMA FinishResumeStep ==
  ASSUME Types, NetworkInv, FinishResume
  PROVE  Types' /\ NetworkInv'
<1> USE DEF NetworkInv
<1> DEFINE r == ToReplay \o pendingFrames
           l == cLog \o pendingFrames
           g == cGot \o pendingIncomingFrames
           n == Len(pendingIncomingFrames)
<1>1. /\ state = "replaying" /\ state' = "active" /\ resumeOk' = NoPosition
      /\ cRetained' = r /\ clientPosition' = clientPosition + Len(pendingFrames) /\ cLog' = l
      /\ up' = Delivered(up, connection, r)
      /\ cServerPosition' = cServerPosition + n /\ cGot' = g /\ streams' \subseteq streams
      /\ pendingFrames' = <<>> /\ pendingIncomingFrames' = <<>>
      /\ UNCHANGED <<connection, nextStreamId, withdrawn, server, link, down>>
  BY DEF FinishResume, DispatchAnswers
<1>2. /\ r \in Seq(PositionalFrames) /\ l \in Seq(PositionalFrames)
      /\ Len(l) = clientPosition + Len(pendingFrames)
      /\ IsPrefixOf(cLog, l) /\ IsSuffixOf(r, l) /\ IsRun(r, resumeOk, l)
      /\ clientPosition + Len(pendingFrames) - Len(r) = resumeOk
      /\ Len(r) \in Nat /\ resumeOk + Len(r) = Len(l)
  <2>1. pendingFrames \in Seq(PositionalFrames)
    BY DEF Types
  <2>2. /\ r \in Seq(PositionalFrames) /\ l \in Seq(PositionalFrames)
        /\ Len(l) = clientPosition + Len(pendingFrames)
        /\ IsPrefixOf(cLog, l) /\ IsSuffixOf(r, l) /\ IsRun(r, resumeOk, l)
        /\ clientPosition + Len(pendingFrames) - Len(r) = resumeOk
    BY <1>1, <2>1, ReplayedAndFlushed
  <2> HIDE DEF r, l
  <2>3. Len(r) \in Nat /\ Len(l) \in Nat /\ clientPosition \in Nat /\ Len(pendingFrames) \in Nat
    BY <2>1, <2>2, LenProperties DEF Types
  <2> QED BY <2>2, <2>3
<1>3. /\ resumeOk \in Nat /\ resumeOk <= sClientPosition
      /\ Open => binding = connection /\ resumeOk = sClientPosition /\ up[connection] = <<>>
  BY <1>1, ReplayFacts
<1>4. /\ g \in Seq(Answers) /\ Len(g) = cServerPosition + n /\ IsPrefixOf(g, sLog)
      /\ n \in Nat /\ cServerPosition \in Nat
  <2>1. /\ IsPrefixOf(cGot, sLog) /\ IsRun(pendingIncomingFrames, cServerPosition, sLog)
        /\ cServerPosition = Len(cGot) /\ cGot \in Seq(Answers) /\ sLog \in Seq(Answers)
        /\ pendingIncomingFrames \in Seq(Answers)
    BY <1>1 DEF PositionInv, PositionsCountFrames, DownInv, ReplayingDown, Types
  <2>2. IsRun(pendingIncomingFrames, Len(cGot), sLog)
    BY <2>1
  <2> QED BY <2>1, <2>2, RunAfterPrefix, LenProperties
<1> HIDE DEF r, l, g
<1>5. /\ link' = link /\ down' = down /\ connection' = connection
      /\ sState' = sState /\ binding' = binding /\ sClientPosition' = sClientPosition
      /\ serverPosition' = serverPosition /\ sRetained' = sRetained /\ sLog' = sLog /\ sGot' = sGot
  BY <1>1 DEF server, serverSent, serverGot
<1>6. /\ connection \in Connections /\ r \in Seq(UpFrames) /\ up \in [Connections -> Seq(UpFrames)]
      /\ down \in [Connections -> Seq(DownFrames)]
  <2>1. r \in Seq(PositionalFrames)
    BY <1>2
  <2>2. r \in Seq(UpFrames)
    BY <2>1, FramesInFlight, SeqMonotonic
  <2> QED BY <2>2 DEF Types
<1>7. /\ up' \in [Connections -> Seq(UpFrames)]
      /\ \A k \in Connections \ {connection} : up'[k] = up[k]
      /\ Open => up'[connection] = r
      /\ ~Open => up' = up
  <2>1. /\ Delivered(up, connection, r) \in [Connections -> Seq(UpFrames)]
        /\ \A j \in Connections \ {connection} : Delivered(up, connection, r)[j] = up[j]
        /\ link[connection] = "open" => Delivered(up, connection, r)[connection] = up[connection] \o r
        /\ link[connection] # "open" => Delivered(up, connection, r) = up
    <3>1. connection \in Connections /\ r \in Seq(UpFrames)
      BY <1>6
    <3>2. up \in [Connections -> Seq(UpFrames)]
      BY <1>6
    <3>3. up[connection] \o r \in Seq(UpFrames)
      BY <3>1, <3>2, ConcatProperties
    <3> QED BY <3>1, <3>2, <3>3 DEF Delivered
  <2>2. Open => up[connection] \o r = r
    BY <1>3, <1>6, ConcatEmptySeq
  <2> QED BY <1>1, <2>1, <2>2 DEF Open
<1>8. Types'
  <2>1. /\ clientPosition' \in Nat /\ cServerPosition' \in Nat
        /\ cRetained' \in Seq(PositionalFrames) /\ cLog' \in Seq(PositionalFrames) /\ cGot' \in Seq(Answers)
        /\ streams' \subseteq StreamIds
    BY <1>1, <1>2, <1>4, LenProperties DEF Types
  <2> QED BY <1>1, <1>7, <2>1, EmptySeq DEF Types, server, serverSent, serverGot
<1>9. PositionInv'
  <2>1. IsPrefixOf(sGot, l)
    BY <1>2, PrefixGrows DEF Types, PositionInv
  <2>2. clientPosition' - Len(cRetained') <= sClientPosition
    BY <1>1, <1>2, <1>3
  <2>3. sState # "terminated" => serverPosition - Len(sRetained) <= cServerPosition'
    BY <1>1, <1>4, Lengths DEF PositionInv, Types
  <2> QED BY <1>1, <1>2, <1>4, <1>5, <2>1, <2>2, <2>3 DEF PositionInv, PositionsCountFrames
<1>10. LinkInv'
  <2>1. \A k \in Connections : k > connection => up'[k] = <<>>
    <3>1. \A k \in Connections : k > connection => k # connection
      BY LinkFacts DEF Connections
    <3> QED BY <1>7, <3>1 DEF LinkInv
  <2>2. Open => binding = connection
    BY <1>3
  <2> QED BY <1>1, <1>5, <2>1, <2>2 DEF LinkInv, Open
<1>11. BoundUp'
  <2> SUFFICES ASSUME binding # 0
               PROVE  /\ Flow(up'[binding], sClientPosition, l) /\ NoError(up'[binding])
                      /\ Bound => Complete(up'[binding], sClientPosition, l)
    BY <1>1, <1>5 DEF BoundUp, Bound, Open
  <2>1. /\ binding \in Connections /\ Flow(up[binding], sClientPosition, cLog) /\ NoError(up[binding])
    BY LinkFacts DEF UpInv, BoundUp
  <2>2. CASE Bound
    <3>1. up'[binding] = r /\ IsRun(r, sClientPosition, l) /\ sClientPosition + Len(r) = Len(l)
          /\ sClientPosition \in Nat
      BY <1>2, <1>3, <1>7, <2>2, LinkFacts
    <3> QED BY <1>2, <3>1, FlowRun, PlainFrames
  <2>3. CASE ~Bound
    <3>1. up'[binding] = up[binding] /\ up[binding] \in Seq(UpFrames)
      BY <1>3, <1>6, <1>7, <2>1, <2>3 DEF Bound
    <3>2. Flow(up[binding], sClientPosition, l)
      BY <1>2, <2>1, <3>1, FlowLogGrows DEF Types
    <3> QED BY <2>1, <2>3, <3>1, <3>2
  <2> QED BY <2>2, <2>3
<1>12. UpInv'
  <2> SUFFICES ASSUME NEW k \in Connections, k # binding, up'[k] # <<>>
               PROVE  SetupUp(k)' \/ ResumeUp(k)'
    BY <1>5, <1>11 DEF UpInv
  <2>1. k # connection \/ ~Open
    BY <1>3
  <2>2. up'[k] = up[k]
    BY <1>7, <2>1
  <2>3. SetupUp(k) \/ ResumeUp(k)
    BY <2>2 DEF UpInv
  <2>4. CASE SetupUp(k)
    <3>1. Tail(up[k]) \in Seq(UpFrames)
      BY <1>6, <2>2, HeadTailProperties
    <3>2. Flow(Tail(up[k]), 0, l)
      BY <1>2, <2>4, <3>1, FlowLogGrows DEF SetupUp, Types
    <3> QED BY <1>1, <1>5, <2>2, <2>4, <3>2 DEF SetupUp
  <2>5. CASE ResumeUp(k)
    <3>1. k # connection
      BY <1>1, <2>5 DEF ResumeUp
    <3>2. Head(up[k]).received <= cServerPosition'
      <4>1. Head(up[k]) \in UpFrames
        BY <1>6, <2>2, HeadTailProperties
      <4>2. Head(up[k]).received \in Nat /\ Head(up[k]).received <= cServerPosition
        BY <2>5, <4>1, UpFrame DEF ResumeUp
      <4>3. \A m \in Nat : m <= cServerPosition => m <= cServerPosition + n
        BY <1>4
      <4> QED BY <1>1, <4>2, <4>3
    <3> QED BY <1>5, <2>2, <2>5, <3>1, <3>2 DEF ResumeUp
  <2> QED BY <2>3, <2>4, <2>5
<1>13. KeepaliveInv'
  <2>1. \A i \in 1..Len(r) : ~IsKeepalive(r[i])
    BY <1>2, <1>3, FlowRun, PlainFrames
  <2>2. \A k \in Connections : \A i \in 1..Len(up'[k]) :
          IsKeepalive(up'[k][i]) => up'[k] = up[k]
    BY <1>7, <2>1
  <2>3. \A k \in Connections : \A i \in 1..Len(up'[k]) :
          IsKeepalive(up'[k][i]) => up'[k][i].position <= cServerPosition'
    <3> SUFFICES ASSUME NEW k \in Connections, NEW i \in 1..Len(up'[k]), IsKeepalive(up'[k][i])
                 PROVE  up'[k][i].position <= cServerPosition'
      OBVIOUS
    <3>1. up'[k] = up[k] /\ up[k][i].position <= cServerPosition
      BY <2>2 DEF KeepaliveInv
    <3>2. up[k][i] \in UpFrames
      BY <1>6, <3>1, ElementOfSeq, LenProperties
    <3>3. up[k][i].position \in Nat
      BY <3>1, <3>2, UpFrame DEF IsKeepalive
    <3>4. \A m \in Nat : m <= cServerPosition => m <= cServerPosition + n
      BY <1>4
    <3> QED BY <1>1, <3>1, <3>3, <3>4
  <2>4. \A i \in 1..Len(up'[connection]), j \in 1..Len(down[connection]) :
          ~(IsKeepalive(up'[connection][i]) /\ IsKeepalive(down[connection][j]))
    BY <1>6, <2>2 DEF KeepaliveInv
  <2> QED BY <1>5, <2>3, <2>4 DEF KeepaliveInv
<1>14. DownInv'
  <2> DEFINE d == down[connection]
             m == cServerPosition + n
  <2>1. /\ d \in Seq(DownFrames) /\ m \in Nat /\ Len(d) \in Nat /\ IsRun(d, m, sLog)
        /\ Bound => m + Len(d) = Len(sLog)
    BY <1>1, <1>4, <1>6, LenProperties DEF DownInv, ReplayingDown
  <2> HIDE DEF d, m
  <2>2. d \in Seq(Answers)
    <3>1. \A i \in 1..Len(d) : m + i \in 1..Len(sLog) /\ d[i] = sLog[m + i]
      BY <2>1, Lengths DEF IsRun
    <3>2. \A i \in 1..Len(d) : d[i] \in Answers
      BY <3>1, ElementOfSeq DEF Types
    <3> QED BY <2>1, <3>2, LenProperties
  <2>3. /\ Flow(d, m, sLog) /\ NoError(d)
        /\ Complete(d, m, sLog) <=> m + Len(d) = Len(sLog)
    BY <2>1, <2>2, FlowRun, PlainFrames DEF Types
  <2>4. ActiveDown'
    BY <1>1, <1>5, <2>1, <2>3 DEF ActiveDown, Bound, Open, d, m
  <2> QED BY <1>1, <2>4 DEF DownInv, ReplayingDown, HandshakeDown
<1> QED BY <1>8, <1>9, <1>10, <1>12, <1>13, <1>14

-------------------------------------------------------------------------------
(***************************************************************************)
(* Steps of the responder.                                                 *)
(***************************************************************************)
\* What the responder finds at the head of its connection.
LEMMA ServerIncoming ==
  ASSUME Types, NetworkInv, HasSIncoming
  PROVE  /\ sState = "active" /\ binding \in Connections /\ binding # 0
         /\ up[binding] # <<>> /\ up[binding] \in Seq(UpFrames)
         /\ SIncoming \in UpFrames /\ SIncoming = up[binding][1] /\ SIncoming = Head(up[binding])
         /\ Tail(up[binding]) \in Seq(UpFrames)
         /\ Len(up[binding]) \in Nat /\ 1 \in 1..Len(up[binding])
         /\ Len(Tail(up[binding])) = Len(up[binding]) - 1
         /\ \A i \in 1..Len(Tail(up[binding])) :
              Tail(up[binding])[i] = up[binding][i + 1] /\ i + 1 \in 1..Len(up[binding])
         /\ Flow(up[binding], sClientPosition, cLog) /\ NoError(up[binding])
         /\ Bound => state = "active" /\ Complete(up[binding], sClientPosition, cLog)
         /\ binding = connection => state \notin {"handshake", "replaying"}
<1> USE DEF NetworkInv
<1>1. /\ sState = "active" /\ up[binding] # <<>>
      /\ binding # 0 /\ binding \in Connections
  BY LinkFacts DEF HasSIncoming, LinkInv
<1>2. up[binding] \in Seq(UpFrames)
  BY <1>1 DEF Types
<1>3. /\ SIncoming \in UpFrames /\ SIncoming = up[binding][1] /\ SIncoming = Head(up[binding])
      /\ Tail(up[binding]) \in Seq(UpFrames)
      /\ Len(up[binding]) \in Nat /\ 1 \in 1..Len(up[binding])
      /\ Len(Tail(up[binding])) = Len(up[binding]) - 1
      /\ \A i \in 1..Len(Tail(up[binding])) : Tail(up[binding])[i] = up[binding][i + 1]
  BY <1>1, <1>2, HeadTailProperties, LenProperties, EmptySeq DEF SIncoming
<1>4. \A i \in 1..Len(Tail(up[binding])) : i + 1 \in 1..Len(up[binding])
  BY <1>3
<1>5. /\ Flow(up[binding], sClientPosition, cLog) /\ NoError(up[binding])
      /\ binding = connection => state \notin {"handshake", "replaying"}
      /\ Bound /\ state = "active" => Complete(up[binding], sClientPosition, cLog)
  BY <1>1 DEF UpInv, BoundUp
<1>6. Bound => state = "active"
  BY <1>5, LinkFacts
<1> QED BY <1>1, <1>2, <1>3, <1>4, <1>5, <1>6

\* A request or a CANCEL there is the next frame of the requester's log.
LEMMA ServerTakesNext ==
  ASSUME Types, NetworkInv, HasSIncoming, SIncoming.type # "KEEPALIVE"
  PROVE  /\ SIncoming \in PositionalFrames /\ Plain(SIncoming)
         /\ sClientPosition + 1 <= Len(cLog) /\ SIncoming = cLog[sClientPosition + 1]
         /\ Flow(Tail(up[binding]), sClientPosition + 1, cLog) /\ NoError(Tail(up[binding]))
         /\ Bound => Complete(Tail(up[binding]), sClientPosition + 1, cLog)
         /\ Append(sGot, SIncoming) \in Seq(PositionalFrames)
         /\ Len(Append(sGot, SIncoming)) = sClientPosition + 1
         /\ IsPrefixOf(Append(sGot, SIncoming), cLog)
<1>1. Plain(SIncoming)
  BY ServerIncoming DEF Plain, IsKeepalive, NoError
<1>2. sClientPosition \in Nat /\ cLog \in Seq(PositionalFrames) /\ sGot \in Seq(PositionalFrames)
  BY DEF Types
<1>3. /\ sClientPosition + 1 <= Len(cLog) /\ SIncoming = cLog[sClientPosition + 1]
      /\ Flow(Tail(up[binding]), sClientPosition + 1, cLog) /\ NoError(Tail(up[binding]))
      /\ Bound => Complete(Tail(up[binding]), sClientPosition + 1, cLog)
  BY <1>1, <1>2, ServerIncoming, FlowTail
<1>4. SIncoming \in PositionalFrames
  <2>1. sClientPosition + 1 \in 1..Len(cLog)
    BY <1>2, <1>3, Lengths
  <2> QED BY <1>2, <1>3, <2>1, ElementOfSeq
<1>5. /\ Append(sGot, SIncoming) \in Seq(PositionalFrames)
      /\ Len(Append(sGot, SIncoming)) = Len(sGot) + 1
      /\ \A i \in 1..Len(sGot) : Append(sGot, SIncoming)[i] = sGot[i]
      /\ Append(sGot, SIncoming)[Len(sGot) + 1] = SIncoming
  BY <1>2, <1>4, AppendProperties
<1>6. Len(sGot) = sClientPosition /\ IsPrefixOf(sGot, cLog)
  BY DEF NetworkInv, PositionInv, PositionsCountFrames
<1>7. IsPrefixOf(Append(sGot, SIncoming), cLog)
  BY <1>2, <1>3, <1>5, <1>6 DEF IsPrefixOf
<1> QED BY <1>1, <1>3, <1>4, <1>5, <1>6, <1>7

\* The responder takes a frame and counts it.
ServerTakes ==
  /\ ConsumeSIncoming /\ SIncoming.type # "KEEPALIVE"
  /\ DispatchRequesterFrame(SIncoming)
  /\ UNCHANGED <<sState, binding, serverSent, client, link, down>>

LEMMA ServerTakesStep ==
  ASSUME Types, Types', NetworkInv, ServerTakes
  PROVE  NetworkInv'
<1> USE DEF NetworkInv
<1>1. /\ HasSIncoming /\ SIncoming.type # "KEEPALIVE"
      /\ up' = [up EXCEPT ![binding] = Tail(up[binding])]
      /\ sClientPosition' = sClientPosition + 1 /\ sGot' = Append(sGot, SIncoming)
  BY DEF ServerTakes, ConsumeSIncoming, DispatchRequesterFrame
<1>2. /\ state' = state /\ link' = link /\ down' = down /\ connection' = connection /\ resumeOk' = resumeOk
      /\ clientPosition' = clientPosition /\ cRetained' = cRetained /\ cLog' = cLog
      /\ cServerPosition' = cServerPosition /\ cGot' = cGot
      /\ pendingIncomingFrames' = pendingIncomingFrames
      /\ sState' = sState /\ binding' = binding
      /\ serverPosition' = serverPosition /\ sRetained' = sRetained /\ sLog' = sLog
  BY DEF ServerTakes, clientSent, clientGot, queues, client, serverSent
<1>3. /\ up'[binding] = Tail(up[binding])
      /\ \A k \in Connections \ {binding} : up'[k] = up[k]
      /\ binding \in Connections /\ sState = "active"
  BY <1>1, ServerIncoming DEF Types
<1>4. PositionInv'
  <2>1. state # "terminated" => clientPosition - Len(cRetained) <= sClientPosition + 1
    BY Lengths DEF PositionInv, Types
  <2> QED BY <1>1, <1>2, <2>1, ServerTakesNext DEF PositionInv, PositionsCountFrames
<1>5. LinkInv'
  <2>1. \A k \in Connections : k > connection => up'[k] = <<>>
    <3>1. \A k \in Connections : k > connection => k # binding
      BY <1>1, ServerIncoming, LinkFacts DEF Connections
    <3> QED BY <1>3, <3>1 DEF LinkInv
  <2> QED BY <1>2, <1>3, <2>1 DEF LinkInv, Open
<1>6. BoundUp'
  BY <1>1, <1>2, <1>3, ServerTakesNext, ServerIncoming DEF BoundUp, Bound, Open
<1>7. UpInv'
  <2> SUFFICES ASSUME NEW k \in Connections, k # binding, up'[k] # <<>>
               PROVE  SetupUp(k)' \/ ResumeUp(k)'
    BY <1>2, <1>6 DEF UpInv
  <2>1. up'[k] = up[k] /\ ResumeUp(k)
    BY <1>3 DEF UpInv, SetupUp
  <2>2. Head(up[k]).first <= sClientPosition'
    <3>1. sClientPosition \in Nat
      BY DEF Types
    <3>2. Head(up[k]).first \in Nat /\ Head(up[k]).first <= sClientPosition
      BY <2>1, ResumePositions DEF ResumeUp
    <3> QED BY <1>1, <3>1, <3>2
  <2> QED BY <1>2, <2>1, <2>2 DEF ResumeUp
<1>8. KeepaliveInv'
  <2>1. \A k \in Connections : \A j \in 1..Len(up'[k]) :
          \E i \in 1..Len(up[k]) : up'[k][j] = up[k][i]
    <3> SUFFICES ASSUME NEW k \in Connections, NEW j \in 1..Len(up'[k])
                 PROVE  \E i \in 1..Len(up[k]) : up'[k][j] = up[k][i]
      OBVIOUS
    <3>1. CASE k = binding
      <4>1. j + 1 \in 1..Len(up[k]) /\ up'[k][j] = up[k][j + 1]
        BY <1>1, <1>3, <3>1, ServerIncoming
      <4> QED BY <4>1
    <3>2. CASE k # binding
      BY <1>3, <3>2
    <3> QED BY <3>1, <3>2
  <2>2. connection \in Connections
    BY DEF Types
  <2>3. \A k \in Connections : \A i \in 1..Len(down[k]) :
          IsKeepalive(down[k][i]) => down[k][i].position <= sClientPosition + 1
    <3> SUFFICES ASSUME NEW k \in Connections, NEW i \in 1..Len(down[k]), IsKeepalive(down[k][i])
                 PROVE  down[k][i].position <= sClientPosition + 1
      OBVIOUS
    <3>1. down[k][i].position <= sClientPosition
      BY DEF KeepaliveInv
    <3>2. down[k][i] \in DownFrames
      BY ElementOfSeq, LenProperties DEF Types
    <3>3. down[k][i].position \in Nat
      BY <3>2, DownFrame DEF IsKeepalive
    <3>4. \A n \in Nat : n <= sClientPosition => n <= sClientPosition + 1
      BY DEF Types
    <3> QED BY <3>1, <3>3, <3>4
  <2>4. \A k \in Connections : \A i \in 1..Len(up'[k]) :
          IsKeepalive(up'[k][i]) => up'[k][i].position <= cServerPosition
    BY <2>1 DEF KeepaliveInv
  <2>5. \A i \in 1..Len(up'[connection]), j \in 1..Len(down[connection]) :
          ~(IsKeepalive(up'[connection][i]) /\ IsKeepalive(down[connection][j]))
    BY <2>1, <2>2 DEF KeepaliveInv
  <2> QED BY <1>1, <1>2, <2>3, <2>4, <2>5 DEF KeepaliveInv
<1>9. DownInv'
  <2>1. Bound => state = "active"
    BY <1>1, ServerIncoming
  <2>2. \A q \in Nat : Replayable(q) /\ state # "active" => Replayable(q)'
    BY <1>1, <1>2, <2>1, Lengths DEF Replayable, Types, Bound, Open
  <2>3. ActiveDown'
    BY <1>2 DEF DownInv, ActiveDown, Bound, Open
  <2>4. ReplayingDown'
    <3> SUFFICES ASSUME state = "replaying" PROVE ReplayingDown'
      BY <1>2 DEF ReplayingDown
    <3>1. Replayable(resumeOk) /\ resumeOk \in Nat
      BY ReplayFacts DEF DownInv, ReplayingDown
    <3>2. Replayable(resumeOk)'
      BY <1>2, <2>2, <3>1 DEF Replayable, Bound, Open
    <3> QED BY <1>2, <3>2 DEF DownInv, ReplayingDown, Bound, Open
  <2>5. HandshakeDown'
    <3> SUFFICES ASSUME state = "handshake", down[connection] # <<>> PROVE HandshakeDown'
      BY <1>2, <2>1 DEF HandshakeDown, Bound, Open
    <3>1. Head(down[connection]) \in DownFrames
      BY HeadTailProperties DEF Types
    <3>2. Head(down[connection]).type = "RESUME_OK" => Head(down[connection]).position \in Nat
      BY <3>1, DownFrame
    <3> QED BY <1>2, <2>1, <2>2, <3>2 DEF DownInv, HandshakeDown, Bound, Open
  <2> QED BY <1>2, <2>3, <2>4, <2>5 DEF DownInv
<1> QED BY <1>4, <1>5, <1>7, <1>8, <1>9

LEMMA ServerKeepaliveStep ==
  ASSUME Types, NetworkInv, ServerKeepalive
  PROVE  Types' /\ NetworkInv'
<1> USE DEF NetworkInv
<1> DEFINE frame == Keepalive(FALSE, sClientPosition)
           q == SIncoming.position
<1>1. /\ HasSIncoming /\ IsKeepalive(SIncoming)
      /\ up' = [up EXCEPT ![binding] = Tail(up[binding])]
      /\ sRetained' = Acknowledged(sRetained, serverPosition, q)
      /\ down' = Delivered(down, binding, <<frame>>)
      /\ UNCHANGED <<sState, binding, sNextStreamId, sCapacity, sStreams, serverPosition, sLog,
                     serverGot, client, link>>
  BY DEF ServerKeepalive, ConsumeSIncoming, IsKeepalive
<1>2. /\ state' = state /\ link' = link /\ connection' = connection /\ resumeOk' = resumeOk
      /\ clientPosition' = clientPosition /\ cRetained' = cRetained /\ cLog' = cLog
      /\ cServerPosition' = cServerPosition /\ cGot' = cGot
      /\ pendingIncomingFrames' = pendingIncomingFrames
      /\ sState' = sState /\ binding' = binding /\ sClientPosition' = sClientPosition /\ sGot' = sGot
      /\ serverPosition' = serverPosition /\ sLog' = sLog
  BY <1>1 DEF clientSent, clientGot, queues, client, serverGot
<1>3. /\ up'[binding] = Tail(up[binding]) /\ binding \in Connections
      /\ \A k \in Connections \ {binding} : up'[k] = up[k]
      /\ up' \in [Connections -> Seq(UpFrames)]
      /\ connection \in Connections /\ sState = "active"
  BY <1>1, ServerIncoming DEF Types
<1>4. q \in Nat /\ q <= cServerPosition
  <2>1. q \in Nat
    BY <1>1, ServerIncoming, UpFrame DEF IsKeepalive
  <2>2. SIncoming = up[binding][1] /\ 1 \in 1..Len(up[binding])
    BY <1>1, ServerIncoming
  <2> QED BY <1>1, <1>3, <2>1, <2>2 DEF KeepaliveInv
<1>5. /\ frame \in DownFrames /\ IsKeepalive(frame) /\ ~IsError(frame) /\ frame.position = sClientPosition
  BY KeepaliveFrames DEF Types
<1> HIDE DEF frame
<1>6. /\ down' \in [Connections -> Seq(DownFrames)]
      /\ Bound => /\ down'[connection] = Append(down[connection], frame)
                  /\ \A k \in Connections \ {connection} : down'[k] = down[k]
      /\ ~Bound => down' = down
  <2>1. down \in [Connections -> Seq(DownFrames)] /\ binding \in Connections /\ frame \in DownFrames
    BY <1>3, <1>5 DEF Types
  <2>2. /\ Delivered(down, binding, <<frame>>) \in [Connections -> Seq(DownFrames)]
        /\ \A j \in Connections \ {binding} : Delivered(down, binding, <<frame>>)[j] = down[j]
        /\ link[binding] = "open" => Delivered(down, binding, <<frame>>)[binding] = Append(down[binding], frame)
        /\ link[binding] # "open" => Delivered(down, binding, <<frame>>) = down
    BY <2>1, DeliveredFrame
  <2>3. Bound <=> link[binding] = "open"
    BY <1>3, LinkFacts DEF Bound, Open
  <2>4. Bound => binding = connection
    BY DEF Bound
  <2> QED BY <1>1, <2>2, <2>3, <2>4
<1>7. /\ serverPosition = Len(sLog) /\ IsSuffixOf(sRetained, sLog) /\ cServerPosition <= Len(sLog)
      /\ serverPosition - Len(sRetained) <= cServerPosition
      /\ sLog \in Seq(Answers) /\ sRetained \in Seq(Answers)
      /\ Len(sLog) \in Nat /\ cServerPosition \in Nat
  BY <1>3, Lengths DEF PositionInv, PositionsCountFrames, IsPrefixOf, Types
<1>8. /\ sRetained' \in Seq(Answers) /\ IsSuffixOf(sRetained', sLog)
      /\ serverPosition - Len(sRetained') \in {serverPosition - Len(sRetained), q}
  <2>1. q \in Nat /\ q <= Len(sLog)
    BY <1>4, <1>7
  <2>2. sRetained' = Acknowledged(sRetained, Len(sLog), q)
    BY <1>1, <1>7
  <2> HIDE DEF q
  <2>3. /\ Acknowledged(sRetained, Len(sLog), q) \in Seq(Answers)
        /\ IsSuffixOf(Acknowledged(sRetained, Len(sLog), q), sLog)
        /\ Len(sLog) - Len(Acknowledged(sRetained, Len(sLog), q)) \in {Len(sLog) - Len(sRetained), q}
    BY <1>7, <2>1, AcknowledgedLaw
  <2> QED BY <1>7, <2>2, <2>3 DEF q
<1> HIDE DEF q
<1>9. serverPosition - Len(sRetained') <= cServerPosition
  BY <1>4, <1>7, <1>8
<1>10. Types'
  BY <1>1, <1>3, <1>6, <1>8 DEF Types, client, clientSent, clientGot, queues, interactions, serverGot
<1>11. PositionInv'
  BY <1>2, <1>8, <1>9 DEF PositionInv, PositionsCountFrames
<1>12. Bound => /\ state = "active" /\ binding = connection
                /\ \A i \in 1..Len(down[connection]) : ~IsKeepalive(down[connection][i])
  <2> SUFFICES ASSUME Bound
               PROVE  /\ state = "active" /\ binding = connection
                      /\ \A i \in 1..Len(down[connection]) : ~IsKeepalive(down[connection][i])
    OBVIOUS
  <2>1. state = "active" /\ binding = connection /\ SIncoming = up[binding][1] /\ 1 \in 1..Len(up[binding])
    BY <1>1, ServerIncoming DEF Bound
  <2>2. 1 \in 1..Len(up[connection]) /\ IsKeepalive(up[connection][1])
    BY <1>1, <2>1
  <2> QED BY <2>1, <2>2 DEF KeepaliveInv
<1>13. LinkInv'
  <2>1. \A k \in Connections : k > connection => up'[k] = <<>> /\ down'[k] = <<>>
    <3>1. \A k \in Connections : k > connection => k # binding /\ k # connection
      BY <1>1, ServerIncoming, LinkFacts DEF Connections
    <3> QED BY <1>3, <1>6, <3>1 DEF LinkInv
  <2>2. \A k \in Connections : k < connection => down'[k] = <<>>
    <3>1. \A k \in Connections : k < connection => k # connection
      BY LinkFacts DEF Connections
    <3> QED BY <1>6, <3>1 DEF LinkInv
  <2>3. state \in {"lost", "terminated"} => down'[connection] = <<>>
    BY <1>6, <1>12 DEF LinkInv
  <2> QED BY <1>2, <1>3, <2>1, <2>2, <2>3 DEF LinkInv, Open
<1>14. /\ Flow(Tail(up[binding]), sClientPosition, cLog) /\ NoError(Tail(up[binding]))
       /\ Bound => Complete(Tail(up[binding]), sClientPosition, cLog)
       /\ \A i \in 1..Len(Tail(up[binding])) : ~IsKeepalive(Tail(up[binding])[i])
  <2>1. /\ up[binding] \in Seq(UpFrames) /\ up[binding] # <<>> /\ IsKeepalive(Head(up[binding]))
        /\ Flow(up[binding], sClientPosition, cLog) /\ NoError(up[binding])
        /\ Bound => Complete(up[binding], sClientPosition, cLog)
    BY <1>1, ServerIncoming
  <2>2. sClientPosition \in Nat /\ cLog \in Seq(PositionalFrames)
    BY DEF Types
  <2> QED BY <2>1, <2>2, FlowTail
<1>15. BoundUp'
  <2>1. Bound' <=> Bound
    BY <1>2 DEF Bound, Open
  <2>2. binding = connection => state \notin {"handshake", "replaying"}
    BY <1>1, ServerIncoming
  <2> QED BY <1>2, <1>3, <1>14, <2>1, <2>2 DEF BoundUp
<1>16. UpInv'
  <2> SUFFICES ASSUME NEW k \in Connections, k # binding, up'[k] # <<>>
               PROVE  SetupUp(k)' \/ ResumeUp(k)'
    BY <1>2, <1>15 DEF UpInv
  <2>1. up'[k] = up[k] /\ ResumeUp(k)
    BY <1>3 DEF UpInv, SetupUp
  <2>2. state = "handshake" => down'[connection] = down[connection]
    BY <1>6, <1>12
  <2> QED BY <1>2, <2>1, <2>2 DEF ResumeUp
<1>17. KeepaliveInv'
  <2>1. \A k \in Connections : \A i \in 1..Len(up'[k]) :
          IsKeepalive(up'[k][i]) => up'[k] = up[k] /\ k # binding
    BY <1>3, <1>14
  <2>2. \A k \in Connections : \A i \in 1..Len(up'[k]) :
          IsKeepalive(up'[k][i]) => up'[k][i].position <= cServerPosition
    BY <2>1 DEF KeepaliveInv
  <2>3. \A k \in Connections : \A i \in 1..Len(down'[k]) :
          \/ i \in 1..Len(down[k]) /\ down'[k][i] = down[k][i]
          \/ down'[k][i] = frame /\ Bound /\ k = connection
    <3> SUFFICES ASSUME NEW k \in Connections, NEW i \in 1..Len(down'[k]), down'[k] # down[k]
                 PROVE  \/ i \in 1..Len(down[k]) /\ down'[k][i] = down[k][i]
                        \/ down'[k][i] = frame /\ Bound /\ k = connection
      OBVIOUS
    <3>1. Bound /\ k = connection /\ down'[k] = Append(down[k], frame) /\ down[k] \in Seq(DownFrames)
      BY <1>6 DEF Types
    <3> QED BY <1>5, <3>1, AppendProperties, LenProperties
  <2>4. \A k \in Connections : \A i \in 1..Len(down'[k]) :
          IsKeepalive(down'[k][i]) => down'[k][i].position <= sClientPosition
    <3>1. sClientPosition <= sClientPosition
      BY DEF Types
    <3> QED BY <1>5, <2>3, <3>1 DEF KeepaliveInv
  <2>5. \A i \in 1..Len(up'[connection]), j \in 1..Len(down'[connection]) :
          ~(IsKeepalive(up'[connection][i]) /\ IsKeepalive(down'[connection][j]))
    <3> SUFFICES ASSUME NEW i \in 1..Len(up'[connection]), NEW j \in 1..Len(down'[connection]),
                        IsKeepalive(up'[connection][i]), IsKeepalive(down'[connection][j])
                 PROVE  FALSE
      OBVIOUS
    <3>1. up'[connection] = up[connection] /\ connection # binding
      BY <1>3, <2>1
    <3>2. j \in 1..Len(down[connection]) /\ down'[connection][j] = down[connection][j]
      BY <1>3, <1>12, <2>3, <3>1
    <3> QED BY <3>1, <3>2 DEF KeepaliveInv
  <2> QED BY <1>2, <2>2, <2>4, <2>5 DEF KeepaliveInv
<1>18. DownInv'
  <2>1. ActiveDown'
    <3> SUFFICES ASSUME state = "active"
                 PROVE  /\ Flow(down'[connection], cServerPosition, sLog)
                        /\ Open => NoError(down'[connection])
                        /\ Bound => Complete(down'[connection], cServerPosition, sLog)
      BY <1>2 DEF ActiveDown, Bound, Open
    <3>1. /\ Flow(down[connection], cServerPosition, sLog)
          /\ Open => NoError(down[connection])
          /\ Bound => Complete(down[connection], cServerPosition, sLog)
          /\ down[connection] \in Seq(DownFrames)
      BY <1>3 DEF DownInv, ActiveDown, Types
    <3>2. CASE Bound
      <4>1. Open /\ NoError(down[connection])
        BY <3>1, <3>2 DEF Bound
      <4>2. /\ Flow(Append(down[connection], frame), cServerPosition, sLog)
            /\ NoError(Append(down[connection], frame))
            /\ Complete(Append(down[connection], frame), cServerPosition, sLog)
        BY <1>5, <1>7, <1>12, <3>1, <3>2, <4>1, FlowAppendControl
      <4> QED BY <1>6, <3>2, <4>2
    <3>3. CASE ~Bound
      BY <1>6, <3>1, <3>3
    <3> QED BY <3>2, <3>3
  <2>2. state # "active" => down' = down /\ ~Bound
    BY <1>6, <1>12
  <2>3. ReplayingDown'
    BY <1>2, <2>2 DEF DownInv, ReplayingDown, Replayable, Bound, Open
  <2>4. HandshakeDown'
    BY <1>2, <2>2 DEF DownInv, HandshakeDown, Replayable, Bound, Open
  <2> QED BY <1>2, <2>1, <2>3, <2>4 DEF DownInv
<1> QED BY <1>10, <1>11, <1>13, <1>16, <1>17, <1>18

\* The requester's variables, which no step of the responder changes.
LEMMA ClientUnchanged ==
  ASSUME UNCHANGED client
  PROVE  /\ state' = state /\ connection' = connection /\ resumeOk' = resumeOk
         /\ clientPosition' = clientPosition /\ cRetained' = cRetained /\ cLog' = cLog
         /\ cServerPosition' = cServerPosition /\ cGot' = cGot
         /\ pendingIncomingFrames' = pendingIncomingFrames /\ pendingFrames' = pendingFrames
         /\ nextStreamId' = nextStreamId /\ streams' = streams /\ withdrawn' = withdrawn
BY DEF client, queues, interactions, clientSent, clientGot

\* A first frame, and what taking it leaves.
LEMMA FirstFrameFacts ==
  ASSUME Types, NetworkInv, NEW k \in Connections, NEW type, FirstFrame(k, type)
  PROVE  /\ up[k] \in Seq(UpFrames) /\ up[k] # <<>> /\ Head(up[k]).type = type /\ Head(up[k]) \in UpFrames
         /\ up' \in [Connections -> Seq(UpFrames)]
         /\ up'[k] = Tail(up[k]) /\ \A j \in Connections \ {k} : up'[j] = up[j]
         /\ Len(up[k]) = 1 => up'[k] = <<>>
         /\ k <= connection /\ connection \in Connections
         /\ \A j \in Connections : \A i \in 1..Len(up'[j]) :
              \E h \in 1..Len(up[j]) : up'[j][i] = up[j][h]
<1>1. /\ up[k] \in Seq(UpFrames) /\ up[k] # <<>> /\ Head(up[k]).type = type
      /\ up' = [up EXCEPT ![k] = Tail(up[k])]
  BY DEF FirstFrame, Types
<1>2. /\ Head(up[k]) \in UpFrames /\ Tail(up[k]) \in Seq(UpFrames)
      /\ Len(Tail(up[k])) = Len(up[k]) - 1 /\ Len(up[k]) \in Nat
      /\ \A i \in 1..Len(Tail(up[k])) : Tail(up[k])[i] = up[k][i + 1]
  BY <1>1, HeadTailProperties, LenProperties
<1>3. /\ up' \in [Connections -> Seq(UpFrames)]
      /\ up'[k] = Tail(up[k]) /\ \A j \in Connections \ {k} : up'[j] = up[j]
  BY <1>1, <1>2 DEF Types
<1>4. Len(up[k]) = 1 => up'[k] = <<>>
  BY <1>2, <1>3, EmptySeq
<1>5. k <= connection /\ connection \in Connections
  BY <1>1, LinkFacts DEF NetworkInv
<1>6. ASSUME NEW j \in Connections, NEW i \in 1..Len(up'[j])
      PROVE  \E h \in 1..Len(up[j]) : up'[j][i] = up[j][h]
  <2>1. CASE j = k
    <3>1. i + 1 \in 1..Len(up[j]) /\ up'[j][i] = up[j][i + 1]
      BY <1>2, <1>3, <2>1, SMTT(30)
    <3> QED BY <3>1
  <2>2. CASE j # k
    BY <1>3, <2>2
  <2> QED BY <2>1, <2>2
<1> QED BY <1>1, <1>2, <1>3, <1>4, <1>5, <1>6

\* A RESUME is read from a connection the responder is not bound to.
LEMMA ResumeFacts ==
  ASSUME Types, NetworkInv, NEW k \in Connections, up[k] # <<>>, Head(up[k]).type = "RESUME"
  PROVE  /\ k # binding /\ ResumeUp(k)
         /\ Head(up[k]).received \in Nat /\ Head(up[k]).received <= cServerPosition
         /\ link[k] = "open" =>
              /\ k = connection /\ state = "handshake" /\ down[k] = <<>>
              /\ Head(up[k]).received = cServerPosition
<1> USE DEF NetworkInv
<1>1. /\ up[k] \in Seq(UpFrames) /\ Head(up[k]) \in UpFrames /\ Head(up[k]) = up[k][1]
      /\ 1 \in 1..Len(up[k]) /\ k # 0
  <2>1. up[k] \in Seq(UpFrames)
    BY DEF Types
  <2>0. k # 0
    BY DEF Connections
  <2>2. Head(up[k]) \in UpFrames /\ Head(up[k]) = up[k][1] /\ Len(up[k]) \in Nat
    BY <2>1, HeadTailProperties, LenProperties
  <2>3. Len(up[k]) # 0
    BY <2>1, EmptySeq
  <2> QED BY <2>0, <2>1, <2>2, <2>3
<1>2. k # binding
  <2> SUFFICES ASSUME k = binding PROVE FALSE
    OBVIOUS
  <2>1. Flow(up[k], sClientPosition, cLog) /\ NoError(up[k])
    BY <1>1 DEF UpInv, BoundUp
  <2>2. Plain(Head(up[k]))
    BY DEF Plain, IsKeepalive, IsError
  <2>3. Head(up[k]) = cLog[sClientPosition + 1] /\ sClientPosition + 1 <= Len(cLog)
        /\ sClientPosition \in Nat
    BY <1>1, <2>1, <2>2, FlowTail DEF Types
  <2>4. cLog[sClientPosition + 1] \in PositionalFrames
    <3>1. sClientPosition + 1 \in 1..Len(cLog)
      BY <2>3, Lengths
    <3> QED BY <3>1, ElementOfSeq DEF Types
  <2> QED BY <2>3, <2>4, PositionalFrame
<1>3. ResumeUp(k)
  BY <1>2 DEF UpInv, SetupUp
<1>4. Head(up[k]).received \in Nat /\ Head(up[k]).received <= cServerPosition
  BY <1>1, <1>3, UpFrame DEF ResumeUp
<1>5. ASSUME link[k] = "open"
      PROVE  k = connection /\ state = "handshake" /\ down[k] = <<>> /\ Head(up[k]).received = cServerPosition
  <2>1. k = connection /\ Open
    BY <1>5, LinkFacts DEF Open
  <2>2. state = "handshake"
    BY <1>3, <2>1 DEF ResumeUp, LinkInv
  <2> QED BY <1>3, <2>1, <2>2 DEF ResumeUp
<1> QED BY <1>2, <1>3, <1>4, <1>5

LEMMA AcceptSetupStep ==
  ASSUME Types, NetworkInv, AnswerInv, NEW k \in Connections, AcceptSetup(k)
  PROVE  Types' /\ NetworkInv'
<1> USE DEF NetworkInv
<1>1. /\ FirstFrame(k, "SETUP") /\ sState = "listening" /\ sState' = "active" /\ binding' = k
      /\ UNCHANGED <<sNextStreamId, sCapacity, sStreams, serverSent, serverGot, client, link, down>>
  BY DEF AcceptSetup
<1>2. /\ link' = link /\ down' = down /\ sClientPosition' = sClientPosition /\ sGot' = sGot
      /\ serverPosition' = serverPosition /\ sRetained' = sRetained /\ sLog' = sLog
      /\ state' = state /\ connection' = connection /\ resumeOk' = resumeOk
      /\ clientPosition' = clientPosition /\ cRetained' = cRetained /\ cLog' = cLog
      /\ cServerPosition' = cServerPosition /\ cGot' = cGot
      /\ pendingIncomingFrames' = pendingIncomingFrames
  BY <1>1, ClientUnchanged DEF serverSent, serverGot
<1>3. /\ binding = 0 /\ k # 0 /\ SetupUp(k) /\ k = 1 /\ k <= connection
  <2>1. binding = 0 /\ k # 0 /\ k <= connection
    BY <1>1, FirstFrameFacts DEF LinkInv, Connections
  <2>2. SetupUp(k)
    BY <1>1, <2>1, FirstFrameFacts DEF UpInv, ResumeUp
  <2> QED BY <2>1, <2>2 DEF SetupUp
<1>4. /\ sClientPosition = 0 /\ sLog = <<>> /\ cServerPosition = 0 /\ Len(sLog) = 0
  <2>1. sLog = <<>> /\ sGot = <<>>
    BY <1>1 DEF AnswerInv
  <2>2. Len(cGot) \in Nat /\ Len(cGot) <= 0
    BY <2>1, Lengths, EmptySeq DEF PositionInv, IsPrefixOf
  <2> QED BY <2>1, <2>2, EmptySeq DEF PositionInv, PositionsCountFrames
<1>5. Types'
  BY <1>1, FirstFrameFacts DEF Types, client, clientSent, clientGot, queues, interactions, serverSent, serverGot
<1>6. PositionInv'
  BY <1>1, <1>2 DEF PositionInv, PositionsCountFrames
<1>7. LinkInv'
  <2>1. \A j \in Connections : j > connection => up'[j] = <<>>
    <3>1. \A j \in Connections : j > connection => j # k
      BY <1>3, LinkFacts DEF Connections
    <3> QED BY <1>1, <3>1, FirstFrameFacts DEF LinkInv
  <2>2. Open /\ state \in {"active", "replaying"} => k = connection
    BY <1>1, <1>3 DEF LinkInv
  <2> QED BY <1>1, <1>2, <1>3, <2>1, <2>2 DEF LinkInv, Open
<1>8. BoundUp'
  BY <1>1, <1>2, <1>3, <1>4, FirstFrameFacts DEF BoundUp, SetupUp, Bound, Open
<1>9. UpInv'
  <2> SUFFICES ASSUME NEW j \in Connections, j # k, up'[j] # <<>>
               PROVE  SetupUp(j)' \/ ResumeUp(j)'
    BY <1>1, <1>8 DEF UpInv
  <2>1. up'[j] = up[j] /\ j # 1 /\ j # 0
    BY <1>1, <1>3, FirstFrameFacts DEF Connections
  <2>2. ResumeUp(j)
    BY <1>3, <2>1 DEF UpInv, SetupUp
  <2> QED BY <1>2, <2>1, <2>2 DEF ResumeUp
<1>10. KeepaliveInv'
  <2>1. \A j \in Connections : \A i \in 1..Len(up'[j]) :
          \E h \in 1..Len(up[j]) : up'[j][i] = up[j][h]
    BY <1>1, FirstFrameFacts
  <2>2. \A i \in 1..Len(up'[connection]), j \in 1..Len(down[connection]) :
          ~(IsKeepalive(up'[connection][i]) /\ IsKeepalive(down[connection][j]))
    <3>1. connection \in Connections
      BY DEF Types
    <3> QED BY <2>1, <3>1 DEF KeepaliveInv
  <2>3. \A j \in Connections : \A i \in 1..Len(up'[j]) :
          IsKeepalive(up'[j][i]) => up'[j][i].position <= cServerPosition
    BY <2>1 DEF KeepaliveInv
  <2>4. \A j \in Connections : \A i \in 1..Len(down[j]) :
          IsKeepalive(down[j][i]) => down[j][i].position <= sClientPosition
    BY DEF KeepaliveInv
  <2> QED BY <1>2, <2>2, <2>3, <2>4 DEF KeepaliveInv
<1>11. DownInv'
  <2>1. Bound' => connection = 1 /\ state \notin {"handshake", "replaying"}
    BY <1>1, <1>2, <1>3 DEF Bound, SetupUp
  <2>2. state = "active" /\ Open => Complete(down[connection], 0, sLog)
    <3> SUFFICES ASSUME state = "active", Open PROVE Complete(down[connection], 0, sLog)
      OBVIOUS
    <3> DEFINE d == down[connection]
    <3>1. /\ Flow(d, 0, sLog) /\ NoError(d) /\ Len(d) \in Nat
      BY <1>4, Lengths, LinkFacts DEF DownInv, ActiveDown
    <3> HIDE DEF d
    <3>2. \A i \in 1..Len(d) : IsKeepalive(d[i])
      BY <1>4, <3>1 DEF Flow, NoError
    <3>3. \A i, j \in 1..Len(d) : i = j
      BY <3>1, <3>2 DEF Flow
    <3>4. CASE Len(d) = 0
      <4>1. Echoes(d, Len(d)) = 0
        BY <3>4 DEF Echoes
      <4>2. 0 + Len(d) - Echoes(d, Len(d)) = 0
        BY <3>4, <4>1
      <4> QED BY <1>4, <4>2 DEF Complete, d
    <3>5. CASE Len(d) # 0
      <4>1. 1 \in 1..Len(d) /\ Len(d) \in 1..Len(d)
        BY <3>1, <3>5
      <4>2. Len(d) = 1 /\ IsKeepalive(d[1])
        BY <3>2, <3>3, <4>1
      <4>3. Echoes(d, Len(d)) = 1
        BY <4>1, <4>2 DEF Echoes
      <4>4. 0 + Len(d) - Echoes(d, Len(d)) = 0
        BY <4>2, <4>3
      <4> QED BY <1>4, <4>4 DEF Complete, d
    <3> QED BY <3>4, <3>5
  <2>3. ActiveDown'
    BY <1>1, <1>2, <1>4, <2>1, <2>2 DEF DownInv, ActiveDown, Bound, Open
  <2>4. ReplayingDown'
    BY <1>2, <2>1 DEF DownInv, ReplayingDown, Replayable
  <2>5. HandshakeDown'
    <3>1. ~Bound
      BY <1>3, FirstFrameFacts DEF Bound, Connections, LinkInv
    <3> QED BY <1>2, <2>1, <3>1 DEF DownInv, HandshakeDown, Replayable, Open
  <2> QED BY <1>2, <2>3, <2>4, <2>5 DEF DownInv
<1> QED BY <1>5, <1>6, <1>7, <1>9, <1>10, <1>11

\* REJECTED_RESUME answers a RESUME and closes the connection it came on.
LEMMA RefuseResumeStep ==
  ASSUME Types, NetworkInv, NEW k \in Connections, RefuseResume(k)
  PROVE  Types' /\ NetworkInv'
<1> USE DEF NetworkInv
<1>1. /\ FirstFrame(k, "RESUME") /\ down' = Delivered(down, k, <<Rejected>>) /\ link' = Broken(k)
      /\ UNCHANGED <<sState, binding, sNextStreamId, sCapacity, sStreams, serverSent, serverGot, client>>
  BY DEF RefuseResume
<1>2. /\ sState' = sState /\ binding' = binding /\ sClientPosition' = sClientPosition /\ sGot' = sGot
      /\ serverPosition' = serverPosition /\ sRetained' = sRetained /\ sLog' = sLog
      /\ state' = state /\ connection' = connection /\ resumeOk' = resumeOk
      /\ clientPosition' = clientPosition /\ cRetained' = cRetained /\ cLog' = cLog
      /\ cServerPosition' = cServerPosition /\ cGot' = cGot
      /\ pendingIncomingFrames' = pendingIncomingFrames
  BY <1>1, ClientUnchanged DEF serverSent, serverGot
<1>3. up[k] # <<>> /\ Head(up[k]).type = "RESUME"
  BY <1>1, FirstFrameFacts
<1>4. /\ k # binding /\ ResumeUp(k) /\ Len(up[k]) = 1
      /\ link[k] = "open" => k = connection /\ state = "handshake" /\ down[k] = <<>>
  BY <1>3, ResumeFacts DEF ResumeUp
<1>5. /\ up' \in [Connections -> Seq(UpFrames)] /\ up'[k] = <<>>
      /\ \A j \in Connections \ {k} : up'[j] = up[j]
      /\ k <= connection /\ connection \in Connections
  BY <1>1, <1>4, FirstFrameFacts
<1>6. /\ link' \in [Connections -> {"unused", "open", "broken"}] /\ link'[k] = "broken"
      /\ \A j \in Connections \ {k} : link'[j] = link[j]
  BY <1>1 DEF Broken, Types
<1>7. /\ down' \in [Connections -> Seq(DownFrames)]
      /\ link[k] = "open" => /\ down'[k] = <<Rejected>>
                             /\ \A j \in Connections \ {k} : down'[j] = down[j]
      /\ link[k] # "open" => down' = down
  <2>1. down \in [Connections -> Seq(DownFrames)] /\ Rejected \in DownFrames
    BY ControlFrames DEF Types
  <2>2. /\ Delivered(down, k, <<Rejected>>) \in [Connections -> Seq(DownFrames)]
        /\ \A j \in Connections \ {k} : Delivered(down, k, <<Rejected>>)[j] = down[j]
        /\ link[k] = "open" => Delivered(down, k, <<Rejected>>)[k] = Append(down[k], Rejected)
        /\ link[k] # "open" => Delivered(down, k, <<Rejected>>) = down
    BY <2>1, DeliveredFrame
  <2> QED BY <1>1, <1>4, <2>2
<1>8. Types'
  BY <1>1, <1>5, <1>6, <1>7 DEF Types, client, clientSent, clientGot, queues, interactions, serverSent, serverGot
<1>9. PositionInv'
  BY <1>2 DEF PositionInv, PositionsCountFrames
<1>10. link[k] = "open" => ~Open'
  BY <1>2, <1>4, <1>6 DEF Open
<1>12. Open' => Open
  BY <1>2, <1>5, <1>6 DEF Open
<1>13. LinkInv'
  <2>1. \A j \in Connections : j > connection => j # k
    BY <1>5, LinkFacts DEF Connections
  <2>2. \A j \in Connections : j > connection => link'[j] = "unused" /\ up'[j] = <<>> /\ down'[j] = <<>>
    BY <1>5, <1>6, <1>7, <2>1 DEF LinkInv
  <2>3. \A j \in Connections : j < connection => link'[j] = "broken" /\ down'[j] = <<>>
    <3>1. \A j \in Connections : j < connection => j # connection
      BY LinkFacts DEF Connections
    <3> QED BY <1>4, <1>6, <1>7, <3>1 DEF LinkInv
  <2>4. link'[connection] # "unused"
    BY <1>5, <1>6 DEF LinkInv
  <2>5. state \in {"lost", "terminated"} => ~Open' /\ down'[connection] = <<>>
    BY <1>4, <1>7, <1>12 DEF LinkInv
  <2>6. Open' => up'[1] = up[1] \/ k = 1
    BY <1>5, LinkFacts DEF Connections
  <2>7. Open' /\ state \in {"active", "replaying"} =>
          \/ binding = connection
          \/ sState = "listening" /\ connection = 1 /\ state = "active" /\ up'[1] # <<>>
    <3> SUFFICES ASSUME Open', state \in {"active", "replaying"}, binding # connection
                 PROVE  sState = "listening" /\ connection = 1 /\ state = "active" /\ up'[1] # <<>>
      OBVIOUS
    <3>1. sState = "listening" /\ connection = 1 /\ state = "active" /\ up[1] # <<>>
      BY <1>12 DEF LinkInv
    <3>2. k # 1
      BY <1>4, <3>1 DEF ResumeUp
    <3> QED BY <1>5, <3>1, <3>2
  <2> QED BY <1>2, <2>2, <2>3, <2>4, <2>5, <2>7 DEF LinkInv, Open
<1>14. Bound' => Bound
  BY <1>2, <1>12 DEF Bound
<1>15. UpInv'
  <2>1. BoundUp'
    <3>1. binding # 0 => binding \in Connections
      BY DEF Types
    <3>2. binding # 0 => up'[binding] = up[binding]
      BY <1>4, <1>5, <3>1
    <3> QED BY <1>2, <1>14, <3>2 DEF UpInv, BoundUp
  <2>2. ASSUME NEW j \in Connections, j # binding, up'[j] # <<>>
        PROVE  SetupUp(j)' \/ ResumeUp(j)'
    <3>1. j # k /\ up'[j] = up[j] /\ (SetupUp(j) \/ ResumeUp(j))
      BY <1>5, <2>2 DEF UpInv
    <3>2. SetupUp(j) => SetupUp(j)'
      BY <1>2, <1>12, <3>1 DEF SetupUp
    <3>3. ResumeUp(j) => ResumeUp(j)'
      BY <1>2, <1>4, <1>7, <3>1 DEF ResumeUp
    <3> QED BY <3>1, <3>2, <3>3
  <2> QED BY <1>2, <2>1, <2>2 DEF UpInv
<1>16. KeepaliveInv'
  <2>1. \A j \in Connections : \A i \in 1..Len(up'[j]) : up'[j] = up[j]
    BY <1>5, EmptySeq
  <2>2. \A j \in Connections : \A i \in 1..Len(down'[j]) :
          IsKeepalive(down'[j][i]) => down'[j] = down[j]
    <3> SUFFICES ASSUME NEW j \in Connections, NEW i \in 1..Len(down'[j]), down'[j] # down[j]
                 PROVE  ~IsKeepalive(down'[j][i])
      OBVIOUS
    <3>1. down'[j] = <<Rejected>>
      BY <1>7
    <3>2. down'[j][i] = Rejected
      BY <3>1
    <3> QED BY <3>2, ControlFrames DEF IsKeepalive
  <2>3. connection \in Connections
    BY <1>5
  <2> QED BY <1>2, <2>1, <2>2, <2>3 DEF KeepaliveInv
<1>17. DownInv'
  <2>1. state # "handshake" => down'[connection] = down[connection]
    BY <1>4, <1>5, <1>7
  <2>2. ActiveDown'
    BY <1>2, <1>12, <1>14, <2>1 DEF DownInv, ActiveDown
  <2>3. ReplayingDown'
    BY <1>2, <1>14, <2>1 DEF DownInv, ReplayingDown, Replayable
  <2>4. HandshakeDown'
    <3>1. CASE link[k] = "open"
      <4>1. down'[connection] = <<Rejected>>
        BY <1>4, <1>7, <3>1
      <4>2. Len(down'[connection]) = 1 /\ Head(down'[connection]) = Rejected
        BY <4>1
      <4> QED BY <1>2, <1>10, <3>1, <4>1, <4>2, ControlFrames DEF HandshakeDown, Bound
    <3>2. CASE link[k] # "open"
      BY <1>2, <1>7, <1>12, <1>14, <3>2 DEF DownInv, HandshakeDown, Replayable, Bound, Open
    <3> QED BY <3>1, <3>2
  <2> QED BY <1>2, <2>2, <2>3, <2>4 DEF DownInv
<1> QED BY <1>8, <1>9, <1>13, <1>15, <1>16, <1>17

LEMMA BreakStep ==
  ASSUME Types, NetworkInv, NEW k \in Connections, Break(k)
  PROVE  Types' /\ NetworkInv'
<1> USE DEF NetworkInv
<1>1. link[k] = "open" /\ link' = Broken(k) /\ UNCHANGED <<client, server, up, down>>
  BY DEF Break
<1>2. /\ up' = up /\ down' = down
      /\ sState' = sState /\ binding' = binding /\ sClientPosition' = sClientPosition /\ sGot' = sGot
      /\ serverPosition' = serverPosition /\ sRetained' = sRetained /\ sLog' = sLog
      /\ state' = state /\ connection' = connection /\ resumeOk' = resumeOk
      /\ clientPosition' = clientPosition /\ cRetained' = cRetained /\ cLog' = cLog
      /\ cServerPosition' = cServerPosition /\ cGot' = cGot
      /\ pendingIncomingFrames' = pendingIncomingFrames
  BY <1>1, ClientUnchanged DEF server, serverSent, serverGot
<1>3. k = connection /\ connection \in Connections
  BY <1>1, LinkFacts
<1>4. /\ link' \in [Connections -> {"unused", "open", "broken"}] /\ link'[connection] = "broken"
      /\ \A j \in Connections \ {connection} : link'[j] = link[j]
  BY <1>1, <1>3 DEF Broken, Types
<1>5. ~Open' /\ ~Bound'
  BY <1>2, <1>4 DEF Open, Bound
<1>6. Types'
  BY <1>1, <1>4 DEF Types, client, clientSent, clientGot, queues, interactions, server, serverSent, serverGot
<1>7. PositionInv'
  BY <1>2 DEF PositionInv, PositionsCountFrames
<1>8. LinkInv'
  <2>1. \A j \in Connections : j > connection \/ j < connection => j # connection
    BY LinkFacts DEF Connections
  <2> QED BY <1>2, <1>4, <1>5, <2>1 DEF LinkInv
<1>9. UpInv'
  BY <1>2, <1>5 DEF UpInv, BoundUp, SetupUp, ResumeUp
<1>10. KeepaliveInv'
  BY <1>2 DEF KeepaliveInv
<1>11. DownInv'
  BY <1>2, <1>5 DEF DownInv, ActiveDown, ReplayingDown, HandshakeDown, Replayable
<1> QED BY <1>6, <1>7, <1>8, <1>9, <1>10, <1>11

(***************************************************************************)
(* A RESUME the responder accepts: its session is suspended, and what it   *)
(* replays is the run of its log after the position the requester named.   *)
(***************************************************************************)
Replayed(k) == RetainedFrom(sRetained, serverPosition, Head(up[k]).received)

LEMMA AcceptableFacts ==
  ASSUME Types, NetworkInv, NEW k \in Connections, up[k] # <<>>, Head(up[k]).type = "RESUME",
         RefusalReasons(Head(up[k])) = {}
  PROVE  /\ sState = "suspended" /\ binding = 0
         /\ Replayed(k) \in Seq(Answers) /\ IsSuffixOf(Replayed(k), sLog)
         /\ IsRun(Replayed(k), Head(up[k]).received, sLog)
         /\ Len(Replayed(k)) = Len(sLog) - Head(up[k]).received
         /\ serverPosition - Len(Replayed(k)) <= cServerPosition
<1> USE DEF NetworkInv
<1> DEFINE p == Head(up[k]).received
<1>1. sState = "suspended"
  BY DEF RefusalReasons, Types
<1>2. binding = 0
  BY <1>1 DEF LinkInv
<1>3. p \in Nat /\ p <= cServerPosition
  BY ResumeFacts
<1>4. "server position" \notin RefusalReasons(Head(up[k]))
  OBVIOUS
<1>5. p \in (serverPosition - Len(sRetained))..serverPosition
  BY <1>1, <1>4 DEF RefusalReasons
<1>6. /\ sLog \in Seq(Answers) /\ sRetained \in Seq(Answers) /\ IsSuffixOf(sRetained, sLog)
      /\ serverPosition = Len(sLog) /\ Len(sLog) \in Nat /\ cServerPosition \in Nat
  BY Lengths DEF Types, PositionInv, PositionsCountFrames
<1>7. Replayed(k) = RetainedFrom(sRetained, Len(sLog), p)
  BY <1>6 DEF Replayed
<1> HIDE DEF p
<1>8. p \in (Len(sLog) - Len(sRetained))..Len(sLog)
  BY <1>5, <1>6
<1>9. /\ Replayed(k) \in Seq(Answers) /\ IsSuffixOf(Replayed(k), sLog)
      /\ IsRun(Replayed(k), p, sLog) /\ Len(Replayed(k)) = Len(sLog) - p
  BY <1>6, <1>7, <1>8, RetainedFromLaw
<1>10. serverPosition - Len(Replayed(k)) <= cServerPosition
  BY <1>3, <1>6, <1>9
<1> QED BY <1>1, <1>2, <1>9, <1>10 DEF p

\* RESUME_OK and a run of answers, as far as they have been written.
ResumedWith(queue, position, n, log) ==
  \/ queue = <<>>
  \/ /\ queue # <<>> /\ Head(queue) = ResumeOk(position)
     /\ IsRun(Tail(queue), n, log)

LEMMA ResumeWrites ==
  ASSUME NEW log \in Seq(Answers), NEW r \in Seq(Answers), NEW n \in Nat, NEW p \in Nat,
         IsRun(r, n, log), NEW m \in 0..(Len(r) + 1)
  PROVE  LET w == <<ResumeOk(p)>> \o r
         IN /\ w \in Seq(DownFrames) /\ Len(w) = Len(r) + 1
            /\ w # <<>> /\ Head(w) = ResumeOk(p) /\ Tail(w) = r
            /\ \A i \in 1..Len(w) : ~IsKeepalive(w[i])
            /\ SubSeq(w, 1, m) \in Seq(DownFrames)
            /\ ResumedWith(SubSeq(w, 1, m), p, n, log)
            /\ \A i \in 1..Len(SubSeq(w, 1, m)) : ~IsKeepalive(SubSeq(w, 1, m)[i])
<1> DEFINE ok == ResumeOk(p)
           w == <<ok>> \o r
           s == SubSeq(w, 1, m)
<1>1. ok \in DownFrames /\ ~IsKeepalive(ok)
  BY ResumeFrames DEF IsKeepalive
<1>2. r \in Seq(DownFrames) /\ Len(r) \in Nat /\ \A i \in 1..Len(r) : r[i] \in Answers
  BY FramesInFlight, LenProperties, ElementOfSeq
<1>3. \A i \in 1..Len(r) : ~IsKeepalive(r[i])
  BY <1>2, PlainFrames DEF Plain
<1> HIDE DEF ok
<1>4. /\ w \in Seq(DownFrames) /\ Len(w) = Len(r) + 1
      /\ w[1] = ok /\ \A i \in 1..Len(r) : w[i + 1] = r[i]
  <2>1. <<ok>> \in Seq(DownFrames) /\ Len(<<ok>>) = 1 /\ <<ok>>[1] = ok
    BY <1>1, SingleFrame, EmptySeq
  <2>2. /\ w \in Seq(DownFrames) /\ Len(w) = Len(<<ok>>) + Len(r)
        /\ \A i \in 1..Len(w) : w[i] = IF i <= Len(<<ok>>) THEN <<ok>>[i] ELSE r[i - Len(<<ok>>)]
    BY <1>2, <2>1, ConcatProperties
  <2>3. \A i \in 1..Len(r) : i + 1 \in 1..(Len(r) + 1) /\ ~(i + 1 <= 1) /\ (i + 1) - 1 = i
    BY <1>2
  <2>4. 1 \in 1..(Len(r) + 1)
    BY <1>2
  <2> HIDE DEF w
  <2> QED BY <1>2, <2>1, <2>2, <2>3, <2>4
<1>5. \A i \in 1..Len(w) : ~IsKeepalive(w[i])
  <2> HIDE DEF w
  <2> SUFFICES ASSUME NEW i \in 1..Len(w) PROVE ~IsKeepalive(w[i])
    OBVIOUS
  <2>1. CASE i = 1
    BY <1>1, <1>4, <2>1
  <2>2. CASE i # 1
    <3>1. i - 1 \in 1..Len(r) /\ (i - 1) + 1 = i
      BY <1>2, <1>4, <2>2
    <3> QED BY <1>3, <1>4, <3>1
  <2> QED BY <2>1, <2>2
<1>6. w # <<>> /\ Head(w) = ok /\ Tail(w) = r
  <2> HIDE DEF w
  <2>1. w # <<>>
    BY <1>2, <1>4, EmptySeq
  <2>2. /\ Head(w) = w[1] /\ Tail(w) \in Seq(DownFrames) /\ Len(Tail(w)) = Len(w) - 1
        /\ \A i \in 1..Len(Tail(w)) : Tail(w)[i] = w[i + 1]
    BY <1>4, <2>1, HeadTailProperties
  <2>3. Len(Tail(w)) = Len(r)
    BY <1>2, <1>4, <2>2
  <2>4. Tail(w) = r
    BY <1>2, <1>4, <2>2, <2>3, SeqEqual
  <2> QED BY <1>4, <2>1, <2>2, <2>4
<1>7. /\ s \in Seq(DownFrames) /\ Len(s) = m
      /\ \A i \in 1..m : s[i] = w[i]
  <2> HIDE DEF w
  <2>1. 1 \in 1..(Len(w) + 1) /\ m \in 0..Len(w) /\ m \in 0..(Len(r) + 1) /\ m \in Int
    BY <1>2, <1>4
  <2>2. /\ s \in Seq(DownFrames) /\ Len(s) = IF 1 <= m THEN m - 1 + 1 ELSE 0
        /\ \A i \in 1..(m - 1 + 1) : s[i] = w[1 + i - 1]
    BY <1>4, <2>1, SubSeqProperties
  <2> QED BY <2>1, <2>2
<1>8. \A i \in 1..Len(s) : ~IsKeepalive(s[i])
  <2> HIDE DEF w, s
  <2> QED BY <1>2, <1>4, <1>5, <1>7
<1>9. ResumedWith(s, p, n, log)
  <2> HIDE DEF w, s
  <2>1. CASE m = 0
    BY <1>7, <2>1, EmptySeq DEF ResumedWith
  <2>2. CASE m # 0
    <3>1. s # <<>> /\ 1 \in 1..m /\ m \in Nat
      BY <1>2, <1>7, <2>2, EmptySeq
    <3>2. /\ Head(s) = s[1] /\ Len(Tail(s)) = Len(s) - 1
          /\ \A i \in 1..Len(Tail(s)) : Tail(s)[i] = s[i + 1]
      BY <1>7, <3>1, HeadTailProperties
    <3>3. Head(s) = ok
      BY <1>4, <1>7, <3>1, <3>2
    <3>4. ASSUME NEW i \in 1..Len(Tail(s)) PROVE Tail(s)[i] = log[n + i]
      <4>1. i + 1 \in 1..m /\ i \in 1..Len(r)
        BY <1>2, <1>7, <3>1, <3>2
      <4> QED BY <1>4, <1>7, <3>2, <4>1 DEF IsRun
    <3>5. n + Len(Tail(s)) <= Len(log)
      <4>1. Len(Tail(s)) <= Len(r) /\ Len(Tail(s)) \in Nat /\ Len(log) \in Nat
        BY <1>2, <1>7, <3>1, <3>2, LenProperties
      <4> QED BY <1>2, <4>1 DEF IsRun
    <3> QED BY <3>1, <3>3, <3>4, <3>5 DEF ResumedWith, IsRun, ok
  <2> QED BY <2>1, <2>2
<1> QED BY <1>4, <1>5, <1>6, <1>7, <1>8, <1>9 DEF ok

\* What acceptResume and resume do of it, completely or up to a failed write.
ResumeTaken(k, queue) ==
  /\ up[k] # <<>> /\ Head(up[k]).type = "RESUME" /\ RefusalReasons(Head(up[k])) = {}
  /\ up'[k] = <<>> /\ \A j \in Connections \ {k} : up'[j] = up[j]
  /\ down' = Delivered(down, k, queue)
  /\ queue \in Seq(DownFrames) /\ \A i \in 1..Len(queue) : ~IsKeepalive(queue[i])
  /\ ResumedWith(queue, sClientPosition, Head(up[k]).received, sLog)
  /\ \/ /\ sState' = "active" /\ binding' = k /\ link' = link
        /\ queue # <<>> /\ Head(up[k]).received + Len(Tail(queue)) = Len(sLog)
     \/ /\ sState' = sState /\ binding' = binding /\ link' = Broken(k)
  /\ sRetained' \in {sRetained, Replayed(k)}
  /\ UNCHANGED <<sNextStreamId, sCapacity, sStreams, serverPosition, sLog, serverGot, client>>

LEMMA ResumeTakenStep ==
  ASSUME Types, NetworkInv, NEW k \in Connections, NEW queue, ResumeTaken(k, queue),
         up' \in [Connections -> Seq(UpFrames)]
  PROVE  Types' /\ NetworkInv'
<1> USE DEF NetworkInv
<1>1. /\ serverPosition' = serverPosition /\ sLog' = sLog
      /\ sClientPosition' = sClientPosition /\ sGot' = sGot
      /\ state' = state /\ connection' = connection /\ resumeOk' = resumeOk
      /\ clientPosition' = clientPosition /\ cRetained' = cRetained /\ cLog' = cLog
      /\ cServerPosition' = cServerPosition /\ cGot' = cGot
      /\ pendingIncomingFrames' = pendingIncomingFrames
  BY ClientUnchanged DEF ResumeTaken, serverGot
<1>2. /\ up[k] # <<>> /\ Head(up[k]).type = "RESUME" /\ RefusalReasons(Head(up[k])) = {}
      /\ up'[k] = <<>> /\ \A j \in Connections \ {k} : up'[j] = up[j]
  BY DEF ResumeTaken
<1>3. /\ k # binding /\ ResumeUp(k) /\ sState = "suspended" /\ binding = 0
      /\ link[k] = "open" => /\ k = connection /\ state = "handshake" /\ down[k] = <<>>
                             /\ Head(up[k]).received = cServerPosition
  BY <1>2, ResumeFacts, AcceptableFacts
<1>4. /\ connection \in Connections /\ MaxConnections \in Nat /\ k # 0 /\ k <= connection
  BY <1>2, LinkFacts DEF Connections
<1>5. /\ down' \in [Connections -> Seq(DownFrames)]
      /\ \A j \in Connections \ {k} : down'[j] = down[j]
      /\ link[k] = "open" => down'[k] = queue
      /\ link[k] # "open" => down' = down
  <2>1. down \in [Connections -> Seq(DownFrames)] /\ queue \in Seq(DownFrames)
    BY DEF Types, ResumeTaken
  <2>2. /\ Delivered(down, k, queue) \in [Connections -> Seq(DownFrames)]
        /\ \A j \in Connections \ {k} : Delivered(down, k, queue)[j] = down[j]
        /\ link[k] = "open" => Delivered(down, k, queue)[k] = down[k] \o queue
        /\ link[k] # "open" => Delivered(down, k, queue) = down
    <3>1. down[k] \o queue \in Seq(DownFrames)
      BY <2>1, ConcatProperties
    <3> QED BY <2>1, <3>1 DEF Delivered
  <2>3. <<>> \o queue = queue
    BY <2>1, ConcatEmptySeq
  <2> QED BY <1>3, <2>2, <2>3 DEF ResumeTaken
<1>6. /\ link' \in [Connections -> {"unused", "open", "broken"}]
      /\ \A j \in Connections \ {k} : link'[j] = link[j]
      /\ link'[k] \in {link[k], "broken"}
  BY DEF ResumeTaken, Broken, Types
<1>7. \/ /\ sState' = "active" /\ binding' = k /\ link' = link
         /\ queue # <<>> /\ Head(up[k]).received + Len(Tail(queue)) = Len(sLog)
      \/ /\ sState' = "suspended" /\ binding' = 0 /\ link'[k] = "broken"
  BY <1>3 DEF ResumeTaken, Broken, Types
<1>8. /\ Open' => Open
      /\ Bound' => Open /\ k = connection /\ link[k] = "open"
      /\ Open /\ k = connection => link[k] = "open"
      /\ Open' /\ k = connection => Bound'
      /\ ~Bound
  <2>1. link'[connection] = "open" => link[connection] = "open"
    BY <1>4, <1>6
  <2>2. Open' => Open
    BY <1>1, <2>1 DEF Open
  <2>3. ~Bound
    BY <1>3, <1>4 DEF Bound, Connections
  <2>4. Open /\ k = connection => link[k] = "open"
    BY DEF Open
  <2>5. Bound' => Open /\ k = connection /\ link[k] = "open"
    <3>1. binding' = connection => k = connection /\ link' = link
      BY <1>4, <1>7 DEF Connections
    <3> QED BY <1>1, <2>2, <3>1 DEF Bound, Open
  <2>6. Open' /\ k = connection => Bound'
    <3>1. Open' /\ k = connection => link'[k] = "open"
      BY <1>1 DEF Open
    <3>2. Open' /\ k = connection => binding' = connection
      BY <1>7, <3>1
    <3> QED BY <1>1, <3>2 DEF Bound
  <2> QED BY <2>2, <2>3, <2>4, <2>5, <2>6
<1>9. /\ sRetained' \in Seq(Answers) /\ IsSuffixOf(sRetained', sLog)
      /\ serverPosition - Len(sRetained') <= cServerPosition
  <2>1. /\ sRetained \in Seq(Answers) /\ IsSuffixOf(sRetained, sLog)
        /\ serverPosition - Len(sRetained) <= cServerPosition
    BY <1>3 DEF Types, PositionInv
  <2>2. /\ Replayed(k) \in Seq(Answers) /\ IsSuffixOf(Replayed(k), sLog)
        /\ serverPosition - Len(Replayed(k)) <= cServerPosition
    BY <1>2, AcceptableFacts
  <2> QED BY <2>1, <2>2 DEF ResumeTaken
<1>10. binding' \in Connections \cup {0} /\ sState' \in {"active", "suspended"}
  BY <1>7
<1>11. Types'
  BY <1>5, <1>6, <1>9, <1>10 DEF ResumeTaken, Types, client, clientSent, clientGot, queues, interactions, serverGot
<1>12. PositionInv'
  BY <1>1, <1>9 DEF PositionInv, PositionsCountFrames
<1>13. LinkInv'
  <2>1. \A j \in Connections : j > connection => j # k
    BY <1>4, LinkFacts DEF Connections
  <2>2. \A j \in Connections : j > connection => link'[j] = "unused" /\ up'[j] = <<>> /\ down'[j] = <<>>
    BY <1>2, <1>5, <1>6, <2>1 DEF LinkInv
  <2>3. \A j \in Connections : j < connection => link'[j] = "broken" /\ down'[j] = <<>>
    <3>1. \A j \in Connections : j < connection => j # connection
      BY LinkFacts DEF Connections
    <3> QED BY <1>3, <1>5, <1>6, <3>1 DEF LinkInv
  <2>4. link'[connection] # "unused"
    BY <1>4, <1>6 DEF LinkInv
  <2>5. state \in {"lost", "terminated"} => ~Open' /\ down'[connection] = <<>>
    BY <1>3, <1>4, <1>5, <1>8 DEF LinkInv
  <2>6. binding' # 0 <=> sState' = "active"
    BY <1>4, <1>7
  <2>7. binding' <= connection
    <3>1. 0 <= connection
      BY <1>4 DEF Connections
    <3> QED BY <1>4, <1>7, <3>1
  <2>8. Open => state \notin {"active", "replaying"}
    <3>1. connection # 0
      BY <1>4 DEF Connections
    <3> QED BY <1>3, <3>1 DEF LinkInv
  <2> QED BY <1>1, <1>8, <2>2, <2>3, <2>4, <2>5, <2>6, <2>7, <2>8 DEF LinkInv, Open
<1>14. UpInv'
  <2>1. BoundUp'
    <3> SUFFICES ASSUME binding' # 0
                 PROVE  /\ Flow(up'[k], sClientPosition, cLog) /\ NoError(up'[k])
                        /\ Bound' => state # "active"
      BY <1>1, <1>2, <1>7 DEF BoundUp
    <3>1. Flow(up'[k], sClientPosition, cLog) /\ NoError(up'[k])
      BY <1>2, FlowEmpty DEF Types
    <3> QED BY <1>3, <1>8, <3>1
  <2>2. ASSUME NEW j \in Connections, j # binding', up'[j] # <<>>
        PROVE  ResumeUp(j)'
    <3>1. j # k /\ up'[j] = up[j] /\ j # 0
      BY <1>2, <2>2 DEF Connections
    <3>2. ResumeUp(j)
      BY <1>3, <2>2, <3>1 DEF UpInv, SetupUp
    <3> QED BY <1>1, <1>5, <3>1, <3>2 DEF ResumeUp
  <2> QED BY <2>1, <2>2 DEF UpInv
<1>15. KeepaliveInv'
  <2>1. \A j \in Connections : \A i \in 1..Len(up'[j]) : up'[j] = up[j]
    BY <1>2, EmptySeq
  <2>2. \A j \in Connections : \A i \in 1..Len(down'[j]) :
          IsKeepalive(down'[j][i]) => down'[j] = down[j]
    BY <1>5 DEF ResumeTaken
  <2> QED BY <1>1, <1>4, <2>1, <2>2 DEF KeepaliveInv
<1>16. state # "handshake" => down'[connection] = down[connection] /\ ~Bound'
  BY <1>3, <1>4, <1>5, <1>8
<1>17. DownInv'
  <2>1. ActiveDown'
    BY <1>1, <1>8, <1>16 DEF DownInv, ActiveDown
  <2>2. ReplayingDown'
    BY <1>1, <1>8, <1>16 DEF DownInv, ReplayingDown, Replayable
  <2>3. HandshakeDown'
    <3> SUFFICES ASSUME state = "handshake" PROVE HandshakeDown'
      BY <1>1 DEF HandshakeDown
    <3>1. CASE link[k] = "open"
      <4>1. /\ k = connection /\ Head(up[k]).received = cServerPosition /\ down'[connection] = queue
            /\ queue \in Seq(DownFrames)
            /\ ResumedWith(queue, sClientPosition, cServerPosition, sLog)
            /\ Bound' => queue # <<>> /\ cServerPosition + Len(Tail(queue)) = Len(sLog)
            /\ Open' => Bound'
        <5>1. k = connection /\ Head(up[k]).received = cServerPosition /\ down'[connection] = queue
          BY <1>3, <1>5, <3>1
        <5>2. Bound' => binding' # 0
          BY <1>1, <1>4 DEF Bound, Connections
        <5>3. /\ queue \in Seq(DownFrames)
              /\ ResumedWith(queue, sClientPosition, Head(up[k]).received, sLog)
          BY DEF ResumeTaken
        <5> QED BY <1>7, <1>8, <5>1, <5>2, <5>3
      <4>2. sClientPosition \in (clientPosition - Len(cRetained))..sClientPosition
        BY Lengths DEF PositionInv, Types
      <4>3. /\ ResumeOk(sClientPosition).type = "RESUME_OK"
            /\ ResumeOk(sClientPosition).position = sClientPosition
        BY ResumeFrames DEF Types
      <4>4. Replayable(sClientPosition)'
        BY <1>1, <4>2 DEF Replayable
      <4> HIDE DEF NetworkInv
      <4> QED BY <1>1, <4>1, <4>3, <4>4 DEF HandshakeDown, ResumedWith, Replayable
    <3>2. CASE link[k] # "open"
      <4>1. down' = down /\ ~Bound' /\ (Open' => Open)
        BY <1>5, <1>8, <3>2
      <4> QED BY <1>1, <1>8, <4>1 DEF DownInv, HandshakeDown, Replayable
    <3> QED BY <3>1, <3>2
  <2> QED BY <1>1, <2>1, <2>2, <2>3 DEF DownInv
<1> QED BY <1>11, <1>12, <1>13, <1>14, <1>15, <1>17

LEMMA AcceptResumeStep ==
  ASSUME Types, NetworkInv, NEW k \in Connections, AcceptResume(k)
  PROVE  Types' /\ NetworkInv'
<1> DEFINE w == <<ResumeOk(sClientPosition)>> \o Replayed(k)
<1>1. /\ FirstFrame(k, "RESUME") /\ RefusalReasons(Head(up[k])) = {}
      /\ sState' = "active" /\ binding' = k /\ sRetained' = Replayed(k)
      /\ down' = Delivered(down, k, w)
      /\ UNCHANGED <<sNextStreamId, sCapacity, sStreams, serverPosition, sLog, serverGot, client, link>>
  BY DEF AcceptResume, Replayed
<1>2. up[k] # <<>> /\ Head(up[k]).type = "RESUME"
  BY <1>1, FirstFrameFacts
<1>3. Len(up[k]) = 1
  BY <1>2, ResumeFacts DEF ResumeUp
<1>4. /\ up' \in [Connections -> Seq(UpFrames)] /\ up'[k] = <<>>
      /\ \A j \in Connections \ {k} : up'[j] = up[j]
  BY <1>1, <1>3, FirstFrameFacts
<1>5. /\ Replayed(k) \in Seq(Answers) /\ IsRun(Replayed(k), Head(up[k]).received, sLog)
      /\ Len(Replayed(k)) = Len(sLog) - Head(up[k]).received
      /\ Head(up[k]).received \in Nat
  BY <1>1, <1>2, AcceptableFacts, ResumeFacts
<1>6. sLog \in Seq(Answers) /\ sClientPosition \in Nat /\ Len(sLog) \in Nat /\ Len(Replayed(k)) \in Nat
  BY <1>5, Lengths, LenProperties DEF Types
<1>7. 0 \in 0..(Len(Replayed(k)) + 1)
  BY <1>6
<1>8. /\ w \in Seq(DownFrames)
      /\ w # <<>> /\ Head(w) = ResumeOk(sClientPosition) /\ Tail(w) = Replayed(k)
      /\ \A i \in 1..Len(w) : ~IsKeepalive(w[i])
  BY <1>5, <1>6, <1>7, ResumeWrites, ZenonT(30)
<1> HIDE DEF w
<1>9. Head(up[k]).received + Len(Tail(w)) = Len(sLog)
  BY <1>5, <1>6, <1>8, SMTT(30)
<1>10. ResumedWith(w, sClientPosition, Head(up[k]).received, sLog)
  BY <1>5, <1>8 DEF ResumedWith
<1>11. ResumeTaken(k, w)
  BY <1>1, <1>2, <1>4, <1>8, <1>9, <1>10 DEF ResumeTaken
<1> QED BY <1>4, <1>11, ResumeTakenStep

LEMMA AcceptResumeThrowsStep ==
  ASSUME Types, NetworkInv, NEW k \in Connections, NEW m \in 0..(sCapacity + 1), AcceptResumeThrows(k, m)
  PROVE  Types' /\ NetworkInv'
<1> DEFINE w == <<ResumeOk(sClientPosition)>> \o Replayed(k)
           s == SubSeq(w, 1, m)
<1>1. /\ up[k] # <<>> /\ Head(up[k]).type = "RESUME" /\ RefusalReasons(Head(up[k])) = {}
      /\ m <= Len(w) /\ down' = Delivered(down, k, s)
      /\ sRetained' \in {sRetained, Replayed(k)}
      /\ up' = [up EXCEPT ![k] = <<>>] /\ link' = Broken(k)
      /\ UNCHANGED <<sState, binding, sNextStreamId, sCapacity, sStreams, serverPosition, sLog, serverGot,
                     client>>
  BY DEF AcceptResumeThrows, Replayed, Unbind
<1>2. /\ up' \in [Connections -> Seq(UpFrames)] /\ up'[k] = <<>>
      /\ \A j \in Connections \ {k} : up'[j] = up[j]
  BY <1>1, EmptySeq DEF Types
<1>3. /\ Replayed(k) \in Seq(Answers) /\ IsRun(Replayed(k), Head(up[k]).received, sLog)
      /\ Head(up[k]).received \in Nat
  BY <1>1, AcceptableFacts, ResumeFacts
<1>4. sLog \in Seq(Answers) /\ sClientPosition \in Nat /\ Len(Replayed(k)) \in Nat /\ m \in Nat
  BY <1>3, LenProperties DEF Types
<1>5. Len(w) = Len(Replayed(k)) + 1
  <2>1. 0 \in 0..(Len(Replayed(k)) + 1)
    BY <1>4
  <2> QED BY <1>3, <1>4, <2>1, ResumeWrites
<1>6. m \in 0..(Len(Replayed(k)) + 1)
  BY <1>1, <1>4, <1>5
<1>7. /\ s \in Seq(DownFrames)
      /\ ResumedWith(s, sClientPosition, Head(up[k]).received, sLog)
      /\ \A i \in 1..Len(s) : ~IsKeepalive(s[i])
  BY <1>3, <1>4, <1>6, ResumeWrites
<1> HIDE DEF s, w
<1>8. ResumeTaken(k, s)
  BY <1>1, <1>2, <1>7 DEF ResumeTaken
<1> QED BY <1>2, <1>8, ResumeTakenStep

\* An answer joins the responder's log and what it retains.
LEMMA RecordAnswerFacts ==
  ASSUME Types, NetworkInv, NEW id \in StreamIds, RecordAnswer(id)
  PROVE  /\ Response(id) \in Answers
         /\ sLog' = Append(sLog, Response(id)) /\ sLog' \in Seq(Answers) /\ IsPrefixOf(sLog, sLog')
         /\ sRetained' \in Seq(Answers) /\ IsSuffixOf(sRetained', sLog')
         /\ serverPosition' = Len(sLog') /\ serverPosition' \in Nat
         /\ serverPosition' - Len(sRetained') = serverPosition - Len(sRetained)
         /\ sStreams' \subseteq StreamIds
<1> DEFINE f == Response(id)
<1>1. /\ sLog' = Append(sLog, f) /\ sRetained' = Append(sRetained, f)
      /\ serverPosition' = serverPosition + 1 /\ sStreams' \subseteq StreamIds
  BY DEF RecordAnswer, Types
<1>2. f \in Answers
  BY StreamFrames
<1> HIDE DEF f
<1>3. sLog \in Seq(Answers) /\ sRetained \in Seq(Answers) /\ <<f>> \in Seq(Answers) /\ Len(<<f>>) = 1
  BY <1>2 DEF Types
<1>4. sLog' = sLog \o <<f>> /\ sRetained' = sRetained \o <<f>>
  BY <1>1, <1>2, <1>3, SingleFrame
<1>5. /\ Len(sLog) \in Nat /\ Len(sRetained) \in Nat
      /\ serverPosition = Len(sLog) /\ IsSuffixOf(sRetained, sLog)
  BY Lengths DEF NetworkInv, PositionInv, PositionsCountFrames
<1>6. sLog' \in Seq(Answers) /\ Len(sLog') = Len(sLog) + 1 /\ IsPrefixOf(sLog, sLog')
  BY <1>3, <1>4, Extended
<1>7. sRetained' \in Seq(Answers) /\ Len(sRetained') = Len(sRetained) + 1 /\ IsSuffixOf(sRetained', sLog')
  BY <1>3, <1>4, <1>5, SuffixGrows
<1> QED BY <1>1, <1>2, <1>5, <1>6, <1>7 DEF f

\* The steps after which the responder has no connection.
ServerGivesUp ==
  \/ ServerRefusesStreamId \/ ServerKeepaliveThrows
  \/ \E id \in sStreams : ServerAnswerThrows(id)
  \/ ServerBufferOverflows \/ ServerLosesTransport \/ ServerExpires

\* A lost transport, and the end of the session, in terms of the types.
LEMMA ServerUnbinds ==
  ASSUME Types, NetworkInv, TransportLost \/ TerminateServer, TransportLost => binding # 0
  PROVE  /\ sState' \in {"suspended", "terminated"} /\ binding' = 0
         /\ IF binding = 0 THEN UNCHANGED <<up, link>> ELSE Unbind(up, up', binding)
         /\ up' \in [Connections -> Seq(UpFrames)]
         /\ link' \in [Connections -> {"unused", "open", "broken"}]
<1>1. /\ sState' \in {"suspended", "terminated"} /\ binding' = 0
      /\ IF binding = 0 THEN UNCHANGED <<up, link>> ELSE Unbind(up, up', binding)
  BY DEF TransportLost, TerminateServer
<1>2. /\ up' \in [Connections -> Seq(UpFrames)]
      /\ link' \in [Connections -> {"unused", "open", "broken"}]
  <2>1. /\ up \in [Connections -> Seq(UpFrames)] /\ <<>> \in Seq(UpFrames)
        /\ link \in [Connections -> {"unused", "open", "broken"}]
    BY EmptySeq DEF Types
  <2>2. binding # 0 => /\ up' = [up EXCEPT ![binding] = <<>>]
                       /\ link' = [link EXCEPT ![binding] = "broken"]
    BY <1>1 DEF Unbind, Broken
  <2>3. binding = 0 => up' = up /\ link' = link
    BY <1>1
  <2> QED BY <2>1, <2>2, <2>3
<1> QED BY <1>1, <1>2

LEMMA ServerGivesUpDrops ==
  ASSUME Types, NetworkInv, AnswerInv, ServerGivesUp
  PROVE  Types' /\ ServerDrops
<1>1. /\ serverPosition = Len(sLog) /\ sClientPosition = Len(sGot) /\ sClientPosition \in Nat
      /\ IsPrefixOf(sGot, cLog) /\ IsPrefixOf(sLog, sLog) /\ IsPrefixOf(sGot, sGot)
      /\ IsSuffixOf(sRetained, sLog) /\ IsSuffixOf(<<>>, sLog)
      /\ sState # "terminated" => serverPosition - Len(sRetained) <= cServerPosition
      /\ sClientPosition >= sClientPosition
  BY Lengths, PrefixRefl, EmptyIsSuffix DEF NetworkInv, PositionInv, PositionsCountFrames, Types
<1>2. <<>> \in Seq(Answers) /\ {} \subseteq StreamIds
  BY EmptySeq
<1>3. binding # 0 <=> sState = "active"
  BY DEF NetworkInv, LinkInv
<1>4. CASE ServerRefusesStreamId
  <2>1. /\ HasSIncoming /\ SIncoming.type # "KEEPALIVE" /\ TerminateServer
        /\ sClientPosition' = sClientPosition + 1 /\ sGot' = Append(sGot, SIncoming)
        /\ down' = Delivered(down, binding, <<ConnectionError>>)
        /\ UNCHANGED <<sNextStreamId, sCapacity, serverPosition, sLog, client>>
    BY <1>4 DEF ServerRefusesStreamId, DispatchRequesterFrame
  <2>2. /\ sGot' \in Seq(PositionalFrames) /\ Len(sGot') = sClientPosition + 1 /\ IsPrefixOf(sGot', cLog)
        /\ binding # 0 /\ up[binding] # <<>> /\ sState # "listening"
    BY <2>1, ServerTakesNext, ServerIncoming
  <2>3. down' \in [Connections -> Seq(DownFrames)]
    <3>1. down \in [Connections -> Seq(DownFrames)] /\ binding \in Connections /\ ConnectionError \in DownFrames
      BY <2>1, ServerIncoming, ControlFrames DEF Types
    <3>2. Append(down[binding], ConnectionError) \in Seq(DownFrames)
      BY <3>1, AppendProperties
    <3>3. down[binding] \o <<ConnectionError>> = Append(down[binding], ConnectionError)
      BY <3>1, SingleFrame
    <3> QED BY <2>1, <3>1, <3>2, <3>3 DEF Delivered
  <2>4. /\ sState' \in {"suspended", "terminated"} /\ binding' = 0
        /\ IF binding = 0 THEN UNCHANGED <<up, link>> ELSE Unbind(up, up', binding)
        /\ up' \in [Connections -> Seq(UpFrames)]
        /\ link' \in [Connections -> {"unused", "open", "broken"}]
    BY <2>1, ServerUnbinds DEF TransportLost, TerminateServer
  <2>5. sState' = "terminated" /\ sRetained' = <<>> /\ sStreams' = {}
    BY <2>1 DEF TerminateServer
  <2>6. sClientPosition' \in Nat /\ sClientPosition' >= sClientPosition
    BY <1>1, <2>1
  <2>7. Types'
    BY <1>2, <2>1, <2>2, <2>3, <2>4, <2>5, <2>6 DEF Types, client, clientSent, clientGot, queues, interactions
  <2>8. ServerDrops
    BY <1>1, <2>1, <2>2, <2>4, <2>5, <2>6 DEF ServerDrops
  <2> QED BY <2>7, <2>8
<1>5. CASE \E id \in sStreams : ServerAnswerThrows(id)
  <2>1. PICK id \in StreamIds : RecordAnswer(id) /\ TransportLost /\ sState = "active" /\ down' = down
    BY <1>5 DEF ServerAnswerThrows, Types
  <2>2. /\ sLog' \in Seq(Answers) /\ IsPrefixOf(sLog, sLog')
        /\ sRetained' \in Seq(Answers) /\ IsSuffixOf(sRetained', sLog')
        /\ serverPosition' = Len(sLog') /\ serverPosition' \in Nat
        /\ serverPosition' - Len(sRetained') = serverPosition - Len(sRetained)
        /\ sStreams' \subseteq StreamIds
    BY <2>1, RecordAnswerFacts
  <2>3. /\ sState' \in {"suspended", "terminated"} /\ binding' = 0
        /\ IF binding = 0 THEN UNCHANGED <<up, link>> ELSE Unbind(up, up', binding)
        /\ up' \in [Connections -> Seq(UpFrames)]
        /\ link' \in [Connections -> {"unused", "open", "broken"}]
    BY <1>3, <2>1, ServerUnbinds
  <2>4. /\ UNCHANGED <<sNextStreamId, sCapacity, serverGot, client>>
    BY <2>1 DEF RecordAnswer
  <2>5. Types'
    BY <2>1, <2>2, <2>3, <2>4 DEF Types, client, clientSent, clientGot, queues, interactions, serverGot
  <2>6. ServerDrops
    BY <1>1, <2>1, <2>2, <2>3, <2>4 DEF ServerDrops, serverGot
  <2> QED BY <2>5, <2>6
<1>6. CASE ServerKeepaliveThrows \/ ServerBufferOverflows \/ ServerExpires
  <2>1. /\ TerminateServer
        /\ UNCHANGED <<sNextStreamId, sCapacity, serverPosition, sLog, serverGot, client, down>>
    BY <1>6 DEF ServerKeepaliveThrows, ServerBufferOverflows, ServerExpires
  <2>2. sState # "listening"
    BY <1>6 DEF ServerKeepaliveThrows, ServerBufferOverflows, ServerExpires, HasSIncoming, AnswerInv
  <2>3. /\ sState' \in {"suspended", "terminated"} /\ binding' = 0
        /\ IF binding = 0 THEN UNCHANGED <<up, link>> ELSE Unbind(up, up', binding)
        /\ up' \in [Connections -> Seq(UpFrames)]
        /\ link' \in [Connections -> {"unused", "open", "broken"}]
    BY <2>1, ServerUnbinds DEF TransportLost, TerminateServer
  <2>4. sState' = "terminated" /\ sRetained' = <<>> /\ sStreams' = {}
    BY <2>1 DEF TerminateServer
  <2>5. Types'
    BY <1>2, <2>1, <2>3, <2>4 DEF Types, client, clientSent, clientGot, queues, interactions, serverGot
  <2>6. ServerDrops
    BY <1>1, <2>1, <2>2, <2>3, <2>4 DEF ServerDrops, serverGot
  <2> QED BY <2>5, <2>6
<1>7. CASE ServerLosesTransport
  <2>1. /\ TransportLost /\ sState = "active"
        /\ UNCHANGED <<sNextStreamId, sCapacity, sStreams, serverSent, serverGot, client, down>>
    BY <1>7 DEF ServerLosesTransport
  <2>2. /\ sState' \in {"suspended", "terminated"} /\ binding' = 0
        /\ IF binding = 0 THEN UNCHANGED <<up, link>> ELSE Unbind(up, up', binding)
        /\ up' \in [Connections -> Seq(UpFrames)]
        /\ link' \in [Connections -> {"unused", "open", "broken"}]
    BY <1>3, <2>1, ServerUnbinds
  <2>3. Types'
    BY <2>1, <2>2 DEF Types, client, clientSent, clientGot, queues, interactions, serverGot, serverSent
  <2>4. ServerDrops
    BY <1>1, <2>1, <2>2 DEF ServerDrops, serverGot, serverSent
  <2> QED BY <2>3, <2>4
<1> QED BY <1>4, <1>5, <1>6, <1>7 DEF ServerGivesUp

LEMMA RunAppend ==
  ASSUME NEW S, NEW log \in Seq(S), NEW f \in S, NEW Q, NEW s \in Seq(Q), f \in Q, NEW n \in Nat,
         IsRun(s, n, log), n + Len(s) = Len(log)
  PROVE  /\ IsRun(Append(s, f), n, Append(log, f))
         /\ n + Len(Append(s, f)) = Len(Append(log, f))
<1>1. /\ Len(s) \in Nat /\ Len(log) \in Nat
      /\ Len(Append(s, f)) = Len(s) + 1 /\ Len(Append(log, f)) = Len(log) + 1
      /\ \A i \in 1..Len(s) : Append(s, f)[i] = s[i]
      /\ Append(s, f)[Len(s) + 1] = f
      /\ \A i \in 1..Len(log) : Append(log, f)[i] = log[i]
      /\ Append(log, f)[Len(log) + 1] = f
  BY LenProperties, AppendProperties
<1>2. ASSUME NEW i \in 1..(Len(s) + 1) PROVE Append(s, f)[i] = Append(log, f)[n + i]
  <2>1. CASE i = Len(s) + 1
    <3>1. n + i = Len(log) + 1
      BY <1>1, <2>1
    <3> QED BY <1>1, <2>1, <3>1
  <2>2. CASE i # Len(s) + 1
    <3>1. i \in 1..Len(s) /\ n + i \in 1..Len(log)
      BY <1>1, <2>2
    <3> QED BY <1>1, <3>1 DEF IsRun
  <2> QED BY <2>1, <2>2
<1> QED BY <1>1, <1>2 DEF IsRun

LEMMA AppendBehindHead ==
  ASSUME NEW Q, NEW s \in Seq(Q), s # <<>>, NEW f \in Q
  PROVE  /\ Append(s, f) # <<>> /\ Head(Append(s, f)) = Head(s)
         /\ Tail(Append(s, f)) = Append(Tail(s), f) /\ Tail(s) \in Seq(Q)
<1>1. /\ Append(s, f) \in Seq(Q) /\ Len(Append(s, f)) = Len(s) + 1 /\ Len(s) \in Nat /\ Len(s) # 0
      /\ \A i \in 1..Len(s) : Append(s, f)[i] = s[i]
      /\ Append(s, f)[Len(s) + 1] = f
  BY LenProperties, AppendProperties, EmptySeq
<1>2. Append(s, f) # <<>>
  BY <1>1, EmptySeq
<1>3. /\ Head(s) = s[1] /\ Tail(s) \in Seq(Q) /\ Len(Tail(s)) = Len(s) - 1
      /\ \A i \in 1..Len(Tail(s)) : Tail(s)[i] = s[i + 1]
  BY HeadTailProperties
<1> DEFINE a == Append(s, f)
<1>4. /\ Head(a) = a[1] /\ Tail(a) \in Seq(Q) /\ Len(Tail(a)) = Len(a) - 1
      /\ \A i \in 1..Len(Tail(a)) : Tail(a)[i] = a[i + 1]
  BY <1>1, <1>2, HeadTailProperties
<1>5. /\ Append(Tail(s), f) \in Seq(Q) /\ Len(Append(Tail(s), f)) = Len(Tail(s)) + 1
      /\ \A i \in 1..Len(Tail(s)) : Append(Tail(s), f)[i] = Tail(s)[i]
      /\ Append(Tail(s), f)[Len(Tail(s)) + 1] = f
  BY <1>3, AppendProperties
<1>6. Head(a) = Head(s)
  <2>1. 1 \in 1..Len(s)
    BY <1>1
  <2> QED BY <1>1, <1>3, <1>4, <2>1
<1>7. Tail(a) = Append(Tail(s), f)
  <2>1. Len(Tail(a)) = Len(s) /\ Len(Append(Tail(s), f)) = Len(s)
    BY <1>1, <1>3, <1>4, <1>5
  <2>2. ASSUME NEW i \in 1..Len(s) PROVE Tail(a)[i] = Append(Tail(s), f)[i]
    <3>1. CASE i = Len(s)
      <4>1. i = Len(Tail(s)) + 1
        BY <1>1, <1>3, <3>1
      <4> QED BY <1>1, <1>4, <1>5, <2>1, <3>1, <4>1
    <3>2. CASE i # Len(s)
      <4>1. i \in 1..Len(Tail(s)) /\ i + 1 \in 1..Len(s)
        <5>1. Len(s) \in Nat /\ Len(Tail(s)) = Len(s) - 1
          BY <1>1, <1>3
        <5>2. \A n \in Nat : \A j \in 1..n : j # n => j \in 1..(n - 1) /\ j + 1 \in 1..n
          OBVIOUS
        <5> QED BY <3>2, <5>1, <5>2
      <4> QED BY <1>1, <1>3, <1>4, <1>5, <2>1, <4>1
    <3> QED BY <3>1, <3>2
  <2> QED BY <1>4, <1>5, <2>1, <2>2, SeqEqual
<1> QED BY <1>2, <1>3, <1>6, <1>7

LEMMA ServerAnswersStep ==
  ASSUME Types, NetworkInv, NEW id \in sStreams, ServerAnswers(id)
  PROVE  Types' /\ NetworkInv'
<1> USE DEF NetworkInv
<1> DEFINE f == Response(id)
<1>0. id \in StreamIds
  BY DEF Types
<1>1. /\ RecordAnswer(id)
      /\ down' = IF sState = "active" THEN Delivered(down, binding, <<f>>) ELSE down
      /\ UNCHANGED <<sState, binding, link, up, sNextStreamId, sCapacity, serverGot, client>>
  BY DEF ServerAnswers, RecordAnswer
<1>2. /\ state' = state /\ connection' = connection /\ resumeOk' = resumeOk
      /\ clientPosition' = clientPosition /\ cRetained' = cRetained /\ cLog' = cLog
      /\ cServerPosition' = cServerPosition /\ cGot' = cGot
      /\ pendingIncomingFrames' = pendingIncomingFrames
      /\ sState' = sState /\ binding' = binding /\ link' = link /\ up' = up
      /\ sClientPosition' = sClientPosition /\ sGot' = sGot
  BY <1>1, ClientUnchanged DEF serverGot
<1>3. /\ f \in Answers
      /\ sLog' = Append(sLog, f) /\ sLog' \in Seq(Answers) /\ IsPrefixOf(sLog, sLog')
      /\ sRetained' \in Seq(Answers) /\ IsSuffixOf(sRetained', sLog')
      /\ serverPosition' = Len(sLog') /\ serverPosition' \in Nat
      /\ serverPosition' - Len(sRetained') = serverPosition - Len(sRetained)
      /\ sStreams' \subseteq StreamIds
  BY <1>0, <1>1, RecordAnswerFacts
<1> HIDE DEF f
<1>4. f \in DownFrames /\ Plain(f)
  BY <1>3, FramesInFlight, PlainFrames
<1>5. /\ down' \in [Connections -> Seq(DownFrames)]
      /\ Bound => /\ down'[connection] = Append(down[connection], f)
                  /\ \A k \in Connections \ {connection} : down'[k] = down[k]
      /\ ~Bound => down' = down
  <2>1. CASE sState = "active"
    <3>1. down \in [Connections -> Seq(DownFrames)] /\ binding \in Connections /\ f \in DownFrames
      BY <1>4, <2>1, LinkFacts DEF Types, LinkInv
    <3>2. /\ Append(down[binding], f) \in Seq(DownFrames)
          /\ down[binding] \o <<f>> = Append(down[binding], f)
      BY <3>1, SingleFrame
    <3>3. Bound <=> link[binding] = "open"
      BY <3>1, LinkFacts DEF Bound, Open
    <3>4. Bound => binding = connection
      BY DEF Bound
    <3>5. down' = Delivered(down, binding, <<f>>)
      BY <1>1, <2>1
    <3> QED BY <3>1, <3>2, <3>3, <3>4, <3>5 DEF Delivered
  <2>2. CASE sState # "active"
    <3>1. ~Bound
      BY <2>2, LinkFacts
    <3> QED BY <1>1, <2>2, <3>1 DEF Types
  <2> QED BY <2>1, <2>2
<1>6. Types'
  BY <1>1, <1>3, <1>5 DEF Types, client, clientSent, clientGot, queues, interactions, serverGot
<1>7. PositionInv'
  <2>1. IsPrefixOf(cGot, sLog')
    <3>1. cGot \in Seq(Answers) /\ sLog \in Seq(Answers) /\ IsPrefixOf(cGot, sLog)
      BY DEF Types, PositionInv
    <3> QED BY <1>3, <3>1, PrefixGrows
  <2> QED BY <1>2, <1>3, <2>1 DEF PositionInv, PositionsCountFrames
<1>8. connection \in Connections /\ down[connection] \in Seq(DownFrames)
      /\ sLog \in Seq(Answers) /\ cServerPosition \in Nat
  BY DEF Types
<1>9. LinkInv'
  <2>1. \A k \in Connections : k > connection \/ k < connection => k # connection
    BY LinkFacts DEF Connections
  <2>2. state \in {"lost", "terminated"} => ~Bound
    BY DEF LinkInv, Bound
  <2> QED BY <1>2, <1>5, <2>1, <2>2 DEF LinkInv, Open
<1>10. UpInv'
  <2>1. BoundUp'
    BY <1>2 DEF UpInv, BoundUp, Bound, Open
  <2>2. ASSUME NEW k \in Connections, k # binding, up[k] # <<>>
        PROVE  SetupUp(k)' \/ ResumeUp(k)'
    <3>1. SetupUp(k) => SetupUp(k)'
      BY <1>2 DEF SetupUp, Open
    <3>2. k = connection => down'[connection] = down[connection]
      BY <1>5, <2>2 DEF Bound
    <3>3. ResumeUp(k) => ResumeUp(k)'
      BY <1>2, <3>2 DEF ResumeUp
    <3> QED BY <2>2, <3>1, <3>3 DEF UpInv
  <2> QED BY <1>2, <2>1, <2>2 DEF UpInv
<1>11. KeepaliveInv'
  <2>1. \A k \in Connections : \A i \in 1..Len(down'[k]) :
          IsKeepalive(down'[k][i]) => i \in 1..Len(down[k]) /\ down'[k][i] = down[k][i]
    <3> SUFFICES ASSUME NEW k \in Connections, NEW i \in 1..Len(down'[k]), down'[k] # down[k],
                        IsKeepalive(down'[k][i])
                 PROVE  i \in 1..Len(down[k]) /\ down'[k][i] = down[k][i]
      OBVIOUS
    <3>1. k = connection /\ down'[k] = Append(down[k], f) /\ down[k] \in Seq(DownFrames)
      BY <1>5, <1>8
    <3> QED BY <1>4, <3>1, AppendProperties, LenProperties DEF Plain
  <2> QED BY <1>2, <1>8, <2>1 DEF KeepaliveInv
<1>12. ActiveDown'
  <2> SUFFICES ASSUME state = "active"
               PROVE  /\ Flow(down'[connection], cServerPosition, sLog')
                      /\ Open => NoError(down'[connection])
                      /\ Bound => Complete(down'[connection], cServerPosition, sLog')
    BY <1>2 DEF ActiveDown, Bound, Open
  <2>1. /\ Flow(down[connection], cServerPosition, sLog)
        /\ Open => NoError(down[connection])
        /\ Bound => Complete(down[connection], cServerPosition, sLog)
    BY DEF DownInv, ActiveDown
  <2>2. CASE Bound
    <3>1. NoError(down[connection])
      BY <2>1, <2>2 DEF Bound
    <3>2. /\ Flow(Append(down[connection], f), cServerPosition, Append(sLog, f))
          /\ NoError(Append(down[connection], f))
          /\ Complete(Append(down[connection], f), cServerPosition, Append(sLog, f))
      BY <1>3, <1>4, <1>8, <2>1, <2>2, <3>1, FlowAppend
    <3> QED BY <1>3, <1>5, <2>2, <3>2
  <2>3. CASE ~Bound
    <3>1. Flow(down[connection], cServerPosition, sLog')
      BY <1>3, <1>8, <2>1, FlowLogGrows
    <3> QED BY <1>5, <2>1, <2>3, <3>1
  <2> QED BY <2>2, <2>3
<1>13. ReplayingDown'
  <2> SUFFICES ASSUME state = "replaying"
               PROVE  /\ Replayable(resumeOk)'
                      /\ IsRun(pendingIncomingFrames, cServerPosition, sLog')
                      /\ IsRun(down'[connection], cServerPosition + Len(pendingIncomingFrames), sLog')
                      /\ Bound => cServerPosition + Len(pendingIncomingFrames) + Len(down'[connection]) = Len(sLog')
    BY <1>2 DEF ReplayingDown, Replayable, Bound, Open
  <2> DEFINE n == cServerPosition + Len(pendingIncomingFrames)
  <2>1. /\ Replayable(resumeOk)
        /\ IsRun(pendingIncomingFrames, cServerPosition, sLog)
        /\ IsRun(down[connection], n, sLog)
        /\ Bound => n + Len(down[connection]) = Len(sLog)
    BY DEF DownInv, ReplayingDown
  <2>2. pendingIncomingFrames \in Seq(Answers) /\ n \in Nat
    BY <1>8, Lengths DEF Types
  <2> HIDE DEF n
  <2>3. IsRun(pendingIncomingFrames, cServerPosition, sLog')
    BY <1>3, <1>8, <2>1, <2>2, RunGrows
  <2>4. IsRun(down'[connection], n, sLog') /\ (Bound => n + Len(down'[connection]) = Len(sLog'))
    <3>1. CASE Bound
      <4>1. /\ IsRun(Append(down[connection], f), n, Append(sLog, f))
            /\ n + Len(Append(down[connection], f)) = Len(Append(sLog, f))
        BY <1>3, <1>4, <1>8, <2>1, <2>2, <3>1, RunAppend
      <4> QED BY <1>3, <1>5, <3>1, <4>1
    <3>2. CASE ~Bound
      <4>1. IsRun(down[connection], n, sLog')
        BY <1>3, <1>8, <2>1, <2>2, RunGrows
      <4> QED BY <1>5, <3>2, <4>1
    <3> QED BY <3>1, <3>2
  <2>5. Replayable(resumeOk)'
    BY <1>2, <2>1 DEF Replayable, Bound, Open
  <2> QED BY <2>3, <2>4, <2>5 DEF n
<1>14. HandshakeDown'
  <2> SUFFICES ASSUME state = "handshake" PROVE HandshakeDown'
    BY <1>2 DEF HandshakeDown
  <2> DEFINE d == down[connection]
  <2>1. Bound => d # <<>>
    BY DEF DownInv, HandshakeDown
  <2>2. CASE d = <<>>
    <3>1. ~Bound /\ down' = down
      BY <1>5, <2>1, <2>2
    <3> QED BY <1>2, <2>2, <3>1 DEF HandshakeDown, Bound, Open
  <2>3. CASE Len(d) = 1 /\ Head(d).type = "REJECTED_RESUME" /\ ~Open
    <3>1. ~Bound /\ down' = down
      BY <1>5, <2>3 DEF Bound
    <3> QED BY <1>2, <2>3, <3>1 DEF HandshakeDown, Bound, Open
  <2>4. CASE /\ d # <<>> /\ Head(d).type = "RESUME_OK"
             /\ Replayable(Head(d).position)
             /\ IsRun(Tail(d), cServerPosition, sLog)
             /\ Open => Bound
             /\ Bound => cServerPosition + Len(Tail(d)) = Len(sLog)
    <3>1. /\ down'[connection] # <<>> /\ Head(down'[connection]) = Head(d)
          /\ Tail(d) \in Seq(DownFrames)
          /\ Bound => Tail(down'[connection]) = Append(Tail(d), f)
          /\ ~Bound => Tail(down'[connection]) = Tail(d)
      <4>1. Tail(d) \in Seq(DownFrames)
        BY <1>8, <2>4, HeadTailProperties
      <4>2. CASE Bound
        <5>1. d \in Seq(DownFrames) /\ d # <<>> /\ down'[connection] = Append(d, f)
          BY <1>5, <1>8, <2>4, <4>2
        <5> HIDE DEF d
        <5>2. /\ Append(d, f) # <<>> /\ Head(Append(d, f)) = Head(d)
              /\ Tail(Append(d, f)) = Append(Tail(d), f)
          BY <1>4, <5>1, AppendBehindHead
        <5> QED BY <4>1, <4>2, <5>1, <5>2
      <4>3. CASE ~Bound
        BY <1>5, <2>4, <4>1, <4>3
      <4> QED BY <4>2, <4>3
    <3>2. /\ IsRun(Tail(down'[connection]), cServerPosition, sLog')
          /\ Bound => cServerPosition + Len(Tail(down'[connection])) = Len(sLog')
      <4>1. CASE Bound
        <5> HIDE DEF d
        <5>1. /\ IsRun(Append(Tail(d), f), cServerPosition, Append(sLog, f))
              /\ cServerPosition + Len(Append(Tail(d), f)) = Len(Append(sLog, f))
          BY <1>3, <1>4, <1>8, <2>4, <3>1, <4>1, RunAppend
        <5> QED BY <1>3, <3>1, <4>1, <5>1
      <4>2. CASE ~Bound
        <5> HIDE DEF d
        <5>1. IsRun(Tail(d), cServerPosition, sLog')
          BY <1>3, <1>8, <2>4, <3>1, RunGrows
        <5> QED BY <3>1, <4>2, <5>1
      <4> QED BY <4>1, <4>2
    <3>3. Replayable(Head(d).position)'
      <4> DEFINE p == Head(d).position
      <4>1. Head(down'[connection]).position = p
        BY <3>1
      <4>2. \A q : Replayable(q) => /\ q \in (clientPosition - Len(cRetained))..sClientPosition
                                    /\ Bound => q = sClientPosition
        BY DEF Replayable
      <4> QED BY <1>2, <2>4, <3>1, <4>1, <4>2 DEF Replayable, Bound, Open
    <3> QED BY <1>2, <2>4, <3>1, <3>2, <3>3 DEF HandshakeDown, Replayable, Bound, Open
  <2> QED BY <2>2, <2>3, <2>4 DEF DownInv, HandshakeDown
<1>15. DownInv'
  BY <1>2, <1>12, <1>13, <1>14 DEF DownInv
<1> QED BY <1>6, <1>7, <1>9, <1>10, <1>11, <1>15

-------------------------------------------------------------------------------
(***************************************************************************)
(* Every step keeps what is known of the network.                          *)
(***************************************************************************)
LEMMA SendsStep ==
  ASSUME Types, NetworkInv, NEW frame \in PositionalFrames, Sends(frame)
  PROVE  Types' /\ NetworkInv'
<1>1. CASE SendWhileSuspended(frame)
  BY <1>1, SendWhileSuspendedStep
<1>2. CASE SendWritten(frame)
  BY <1>2, SendWrittenStep
<1>3. CASE SendThrows(frame) \/ SendNotOpen(frame)
  <2>1. state # "terminated" /\ LoseTransport /\ up' = up
    BY <1>3 DEF SendThrows, SendNotOpen
  <2>2. UNCHANGED clientSent \/ \E f \in PositionalFrames : RecordClient(<<f>>)
    BY <1>3 DEF SendThrows, SendNotOpen
  <2>3. pendingFrames' \in Seq(PositionalFrames)
    <3>1. pendingFrames \in Seq(PositionalFrames) /\ Queued(pendingFrames, frame) \in Seq(PositionalFrames)
      BY QueuedLaw DEF Types
    <3> QED BY <1>3, <3>1 DEF SendThrows, SendNotOpen
  <2>4. Types' /\ ClientDrops
    BY <2>1, <2>2, <2>3, LosesTransport DEF Sends
  <2> QED BY <2>4, ClientDropsStep
<1> QED BY <1>1, <1>2, <1>3 DEF Sends, Send

LEMMA StartsAndCancels ==
  ASSUME Types
  PROVE  /\ StartRequest => Sends(Request(nextStreamId)) /\ Request(nextStreamId) \in PositionalFrames
         /\ \A id \in streams :
              CancelRequest(id) => Sends(Cancel(id)) /\ Cancel(id) \in PositionalFrames
<1>1. ASSUME StartRequest
      PROVE  Sends(Request(nextStreamId)) /\ Request(nextStreamId) \in PositionalFrames
  <2>1. nextStreamId + 2 \in 1..(2 * MaxRequests + 1)
    BY <1>1, SessionAssumption DEF StartRequest, StreamIds
  <2> QED BY <1>1, <2>1, StreamFrames DEF StartRequest, Sends, Types
<1>2. ASSUME NEW id \in streams, CancelRequest(id)
      PROVE  Sends(Cancel(id)) /\ Cancel(id) \in PositionalFrames
  <2>1. id \in StreamIds
    BY DEF Types
  <2>2. withdrawn' \subseteq StreamIds
    BY <1>2, <2>1 DEF CancelRequest, Types
  <2> QED BY <1>2, <2>1, <2>2, StreamFrames DEF CancelRequest, Sends, Types
<1> QED BY <1>1, <1>2

LEMMA ClientStepNetwork ==
  ASSUME Types, NetworkInv, ClientStep
  PROVE  Types' /\ NetworkInv'
<1>1. CASE StartRequest
  BY <1>1, StartsAndCancels, SendsStep
<1>2. CASE \E id \in streams : CancelRequest(id)
  BY <1>2, StartsAndCancels, SendsStep
<1>3. CASE ClientBufferOverflows \/ AbandonResume \/ ReceiveConnectionError
  <2>1. /\ TerminateClient
        /\ UNCHANGED <<connection, nextStreamId, withdrawn, clientPosition, cLog, clientGot, server, up>>
    BY <1>3 DEF ClientBufferOverflows, AbandonResume, ReceiveConnectionError
  <2> QED BY <2>1, TerminatesClient, ClientDropsStep
<1>4. CASE ClientLosesTransport \/ ReceiveRejection
  <2>1. /\ state # "terminated" /\ LoseTransport
        /\ UNCHANGED <<connection, pendingFrames, interactions, clientSent, clientGot, server, up>>
    BY <1>4 DEF ClientLosesTransport, ReceiveRejection
  <2>2. /\ pendingFrames' \in Seq(PositionalFrames) /\ nextStreamId' \in 1..(2 * MaxRequests + 1)
        /\ streams' \subseteq StreamIds /\ withdrawn' \subseteq StreamIds
    BY <2>1 DEF interactions, Types
  <2>3. Types' /\ ClientDrops
    BY <2>1, <2>2, LosesTransport
  <2> QED BY <2>3, ClientDropsStep
<1>5. CASE SendKeepalive
  BY <1>5, SendKeepaliveStep
<1>6. CASE OpenResume
  BY <1>6, OpenResumeStep
<1>7. CASE ReceiveResumeOk \/ BufferIncoming \/ ReceiveAnswer \/ ReceiveKeepalive
  BY <1>7, ReceiveResumeOkStep, BufferIncomingStep, ReceiveAnswerStep, ReceiveKeepaliveStep
<1>8. CASE FinishResume
  BY <1>8, FinishResumeStep
<1>9. CASE ResumeOverflows
  BY <1>9, ResumeOverflowsDrops, ClientDropsStep
<1>10. CASE \E n \in 0..Len(pendingFrames), m \in 0..ClientCapacity : ResumeWriteFails(n, m)
  BY <1>10, ResumeWriteFailsDrops, ClientDropsStep
<1> QED BY <1>1, <1>2, <1>3, <1>4, <1>5, <1>6, <1>7, <1>8, <1>9, <1>10
        DEF ClientStep, ClientReceive, ContinueResume

LEMMA ServerStepNetwork ==
  ASSUME Types, NetworkInv, AnswerInv, ServerStep
  PROVE  Types' /\ NetworkInv'
<1>1. CASE ServerGivesUp
  BY <1>1, ServerGivesUpDrops, ServerDropsStep
<1>2. CASE ServerAcceptsRequest \/ ServerCancels
  <2>1. /\ ServerTakes /\ HasSIncoming /\ SIncoming.type # "KEEPALIVE" /\ sCapacity' = sCapacity
        /\ up' = [up EXCEPT ![binding] = Tail(up[binding])]
        /\ sClientPosition' = sClientPosition + 1 /\ sGot' = Append(sGot, SIncoming)
    BY <1>2 DEF ServerAcceptsRequest, ServerCancels, ServerTakes, ConsumeSIncoming, DispatchRequesterFrame
  <2>2. SIncoming.stream \in StreamIds
    BY <2>1, ServerTakesNext, PositionalFrame
  <2>3. up' \in [Connections -> Seq(UpFrames)]
    BY <2>1, ServerIncoming DEF Types
  <2>4. sClientPosition' \in Nat /\ sGot' \in Seq(PositionalFrames)
    BY <2>1, ServerTakesNext DEF Types
  <2>5. sNextStreamId' \in 1..(2 * MaxRequests + 1)
    <3>1. \A id \in StreamIds : id + 2 \in 1..(2 * MaxRequests + 1)
      BY SessionAssumption DEF StreamIds
    <3> QED BY <1>2, <2>2, <3>1 DEF ServerAcceptsRequest, ServerCancels, Types
  <2>6. sStreams' \subseteq StreamIds
    BY <1>2, <2>2 DEF ServerAcceptsRequest, ServerCancels, Types
  <2>7. Types'
    BY <2>1, <2>3, <2>4, <2>5, <2>6
       DEF ServerTakes, Types, client, clientSent, clientGot, queues, interactions, serverSent
  <2> QED BY <2>1, <2>7, ServerTakesStep
<1>3. CASE ServerKeepalive
  BY <1>3, ServerKeepaliveStep
<1>4. CASE Accept
  <2>1. PICK k \in Connections :
          \/ AcceptSetup(k) \/ RefuseResume(k) \/ AcceptResume(k)
          \/ \E m \in 0..(sCapacity + 1) : AcceptResumeThrows(k, m)
    BY <1>4 DEF Accept
  <2> QED BY <2>1, AcceptSetupStep, RefuseResumeStep, AcceptResumeStep, AcceptResumeThrowsStep
<1>5. CASE \E id \in sStreams : ServerAnswers(id)
  BY <1>5, ServerAnswersStep
<1> QED BY <1>1, <1>2, <1>3, <1>4, <1>5 DEF ServerStep, ServerReceive, ServerAnswer, ServerGivesUp

(***************************************************************************)
(* Every step keeps what is known of the requests.                         *)
(***************************************************************************)
SentOrQueued == Elements(cLog) \cup Elements(pendingFrames)

\* Queued frames move to the log or are dropped, streams end.
LEMMA RequestInvShrinks ==
  ASSUME Types, RequestInv,
         Distinct(cLog'), Distinct(pendingFrames'),
         Elements(cLog') \cap Elements(pendingFrames') = {},
         Elements(cLog') \cup Elements(pendingFrames') \subseteq SentOrQueued,
         streams' \subseteq streams, UNCHANGED <<nextStreamId, withdrawn>>,
         state' = "active" => pendingFrames' = <<>>
  PROVE  RequestInv'
BY DEF RequestInv, SentOrQueued

LEMMA EmptyElements == Elements(<<>>) = {} /\ Distinct(<<>>)
BY DEF Elements, Distinct

\* A frame that is new is recorded or queued.
LEMMA SendEffect ==
  ASSUME Types, RequestInv, NEW frame \in PositionalFrames, Send(frame), frame \notin SentOrQueued
  PROVE  /\ Distinct(cLog') /\ Distinct(pendingFrames')
         /\ Elements(cLog') \cap Elements(pendingFrames') = {}
         /\ Elements(cLog') \cup Elements(pendingFrames') \subseteq SentOrQueued \cup {frame}
         /\ state' = "active" => pendingFrames' = <<>>
         /\ frame.type = "CANCEL" /\ Request(frame.stream) \in Elements(pendingFrames) =>
              {Request(frame.stream), frame} \cap (Elements(cLog') \cup Elements(pendingFrames')) = {}
<1>1. /\ cLog \in Seq(PositionalFrames) /\ pendingFrames \in Seq(PositionalFrames)
      /\ Distinct(cLog) /\ Distinct(pendingFrames) /\ Elements(cLog) \cap Elements(pendingFrames) = {}
      /\ frame \notin Elements(cLog) /\ frame \notin Elements(pendingFrames)
      /\ state = "active" => pendingFrames = <<>>
  BY DEF Types, RequestInv, SentOrQueued
<1>2. CASE UNCHANGED clientSent /\ state' # "active" /\ pendingFrames' = Queued(pendingFrames, frame)
  <2> DEFINE q == Queued(pendingFrames, frame)
  <2>1. /\ Distinct(q) /\ Elements(q) \subseteq Elements(pendingFrames) \cup {frame}
        /\ frame.type = "CANCEL" /\ Request(frame.stream) \in Elements(pendingFrames) =>
             Elements(q) = {f \in Elements(pendingFrames) : f.stream # frame.stream}
    BY <1>1, QueuedLaw
  <2>2. cLog' = cLog /\ pendingFrames' = q
    BY <1>2 DEF clientSent
  <2> HIDE DEF q
  <2>3. frame.type = "CANCEL" /\ Request(frame.stream) \in Elements(pendingFrames) =>
          {Request(frame.stream), frame} \cap (Elements(cLog) \cup Elements(q)) = {}
    <3>1. Request(frame.stream).stream = frame.stream
      BY PositionalFrame, StreamFrames
    <3> QED BY <1>1, <2>1, <3>1
  <2> QED BY <1>1, <1>2, <2>1, <2>2, <2>3 DEF SentOrQueued
<1>3. CASE RecordClient(<<frame>>) /\ state = "active" /\ pendingFrames' = pendingFrames
  <2>1. cLog' = Append(cLog, frame) /\ pendingFrames' = <<>> /\ pendingFrames = <<>>
    BY <1>1, <1>3, SingleFrame DEF RecordClient
  <2>2. Distinct(cLog') /\ Elements(cLog') = Elements(cLog) \cup {frame}
    BY <1>1, <2>1, AppendElements
  <2> QED BY <2>1, <2>2, EmptyElements DEF SentOrQueued
<1>4. CASE SendWhileSuspended(frame)
  BY <1>2, <1>4 DEF SendWhileSuspended
<1>5. CASE SendWritten(frame)
  BY <1>3, <1>5 DEF SendWritten, queues
<1>6. CASE SendThrows(frame)
  BY <1>3, <1>6 DEF SendThrows
<1>7. CASE SendNotOpen(frame)
  BY <1>2, <1>7 DEF SendNotOpen, LoseTransport
<1> QED BY <1>4, <1>5, <1>6, <1>7 DEF Send

LEMMA RequestStep ==
  ASSUME Types, NetworkInv, RequestInv, Next
  PROVE  RequestInv'
<1> USE DEF SentOrQueued
<1>0. /\ cLog \in Seq(PositionalFrames) /\ pendingFrames \in Seq(PositionalFrames)
      /\ Distinct(cLog) /\ Distinct(pendingFrames) /\ Elements(cLog) \cap Elements(pendingFrames) = {}
      /\ state = "active" => pendingFrames = <<>>
  BY DEF Types, RequestInv
<1>1. CASE StartRequest
  <2> DEFINE id == nextStreamId
             frame == Request(id)
  <2>1. /\ id \in StreamIds /\ id \in Nat /\ frame \in PositionalFrames
        /\ frame.stream = id /\ frame.type = "REQUEST"
        /\ Send(frame) /\ nextStreamId' = id + 2 /\ streams' = streams \cup {id} /\ withdrawn' = withdrawn
    BY <1>1, StreamFrames DEF StartRequest, Types
  <2>2. \A s \in StreamIds : s \in Nat
    BY SessionAssumption DEF StreamIds
  <2>3. \A f \in SentOrQueued : f \in PositionalFrames
    BY <1>0, ElementOfSeq DEF Elements
  <2>4. /\ \A f \in SentOrQueued : f.stream < id /\ f.stream \in Nat
        /\ \A s \in streams \cup withdrawn : s < id /\ s \in Nat
    BY <2>2, <2>3, PositionalFrame DEF RequestInv, Types
  <2> HIDE DEF id, frame
  <2>5. ~(id < id) /\ id < id + 2 /\ \A n \in Nat : n < id => n < id + 2 /\ n # id
    BY <2>1
  <2>6. frame \notin SentOrQueued /\ id \notin withdrawn
    BY <2>1, <2>4, <2>5
  <2>7. /\ Distinct(cLog') /\ Distinct(pendingFrames')
        /\ Elements(cLog') \cap Elements(pendingFrames') = {}
        /\ Elements(cLog') \cup Elements(pendingFrames') \subseteq SentOrQueued \cup {frame}
        /\ state' = "active" => pendingFrames' = <<>>
    BY <2>1, <2>6, SendEffect
  <2>8. ASSUME NEW f \in Elements(cLog') \cup Elements(pendingFrames')
        PROVE  f.stream < id + 2 /\ (f.type = "CANCEL" => f.stream \notin streams')
    <3>1. CASE f = frame
      BY <2>1, <2>5, <3>1
    <3>2. CASE f \in SentOrQueued
      BY <2>1, <2>4, <2>5, <3>2 DEF RequestInv
    <3> QED BY <2>7, <3>1, <3>2
  <2>9. \A s \in streams' \cup withdrawn' : s < id + 2
    BY <2>1, <2>4, <2>5
  <2>10. ASSUME NEW s \in withdrawn
         PROVE  /\ s \notin streams'
                /\ {Request(s), Cancel(s)} \cap (Elements(cLog') \cup Elements(pendingFrames')) = {}
    <3>1. /\ s \notin streams /\ {Request(s), Cancel(s)} \cap SentOrQueued = {}
          /\ s # id /\ s \in StreamIds
      BY <2>6 DEF RequestInv, Types
    <3>2. Request(s) # frame /\ Cancel(s) # frame
      BY <2>1, <3>1, StreamFrames
    <3> QED BY <2>1, <2>7, <3>1, <3>2
  <2> QED BY <2>1, <2>7, <2>8, <2>9, <2>10 DEF RequestInv
<1>2. CASE \E id \in streams : CancelRequest(id)
  <2>1. PICK id \in streams : CancelRequest(id)
    BY <1>2
  <2> DEFINE frame == Cancel(id)
             queued == Request(id) \in Elements(pendingFrames)
  <2>2. /\ id \in StreamIds /\ frame \in PositionalFrames /\ frame.stream = id /\ frame.type = "CANCEL"
        /\ Request(id).type = "REQUEST"
    BY StreamFrames DEF Types
  <2>3. queued <=> \E i \in DOMAIN pendingFrames : pendingFrames[i] = Request(id)
    BY <1>0, LenProperties DEF Elements
  <2>4. /\ Send(frame) /\ nextStreamId' = nextStreamId /\ streams' = streams \ {id}
        /\ withdrawn' = IF queued THEN withdrawn \cup {id} ELSE withdrawn
    BY <2>1, <2>3 DEF CancelRequest
  <2> HIDE DEF frame, queued
  <2>5. frame \notin SentOrQueued
    BY <2>1, <2>2 DEF RequestInv
  <2>6. /\ Distinct(cLog') /\ Distinct(pendingFrames')
        /\ Elements(cLog') \cap Elements(pendingFrames') = {}
        /\ Elements(cLog') \cup Elements(pendingFrames') \subseteq SentOrQueued \cup {frame}
        /\ state' = "active" => pendingFrames' = <<>>
        /\ queued => {Request(id), frame} \cap (Elements(cLog') \cup Elements(pendingFrames')) = {}
    BY <2>2, <2>4, <2>5, SendEffect DEF queued
  <2>7. id < nextStreamId
    BY <2>1 DEF RequestInv
  <2>8. ASSUME NEW f \in Elements(cLog') \cup Elements(pendingFrames')
        PROVE  f.stream < nextStreamId /\ (f.type = "CANCEL" => f.stream \notin streams')
    <3>1. CASE f = frame
      BY <2>2, <2>4, <2>7, <3>1
    <3>2. CASE f \in SentOrQueued
      BY <2>4, <3>2 DEF RequestInv
    <3> QED BY <2>6, <3>1, <3>2
  <2>9. \A s \in streams' \cup withdrawn' : s < nextStreamId
    BY <2>4, <2>7 DEF RequestInv
  <2>10. ASSUME NEW s \in withdrawn'
         PROVE  /\ s \notin streams'
                /\ {Request(s), Cancel(s)} \cap (Elements(cLog') \cup Elements(pendingFrames')) = {}
    <3>1. CASE s \in withdrawn
      <4>1. s \notin streams /\ {Request(s), Cancel(s)} \cap SentOrQueued = {} /\ s \in StreamIds
        BY <3>1 DEF RequestInv, Types
      <4>2. Request(s) # frame /\ Cancel(s) # frame
        BY <2>1, <2>2, <4>1, StreamFrames
      <4> QED BY <2>4, <2>6, <4>1, <4>2
    <3>2. CASE s \notin withdrawn
      <4>1. queued /\ s = id
        BY <2>4, <3>2
      <4> QED BY <2>4, <2>6, <4>1 DEF frame
    <3> QED BY <3>1, <3>2
  <2> QED BY <2>4, <2>6, <2>8, <2>9, <2>10 DEF RequestInv
<1>3. CASE ClientBufferOverflows \/ AbandonResume \/ ReceiveConnectionError
  <2>1. cLog' = cLog /\ pendingFrames' = <<>> /\ streams' = {} /\ UNCHANGED <<nextStreamId, withdrawn>>
    BY <1>3 DEF ClientBufferOverflows, AbandonResume, ReceiveConnectionError, TerminateClient
  <2> QED BY <1>0, <2>1, EmptyElements, RequestInvShrinks
<1>4. CASE \/ ClientLosesTransport \/ ReceiveRejection \/ SendKeepalive \/ OpenResume
           \/ ReceiveResumeOk \/ BufferIncoming \/ ReceiveKeepalive
  <2>1. /\ cLog' = cLog /\ pendingFrames' = pendingFrames /\ streams' = streams
        /\ UNCHANGED <<nextStreamId, withdrawn>> /\ (state' = "active" => state = "active")
    BY <1>4 DEF ClientLosesTransport, ReceiveRejection, SendKeepalive, OpenResume, ReceiveResumeOk,
         BufferIncoming, ReceiveKeepalive, LoseTransport, interactions, clientSent, queues, client
  <2> QED BY <1>0, <2>1, RequestInvShrinks
<1>5. CASE ReceiveAnswer
  <2>1. /\ cLog' = cLog /\ pendingFrames' = pendingFrames /\ streams' \subseteq streams
        /\ UNCHANGED <<nextStreamId, withdrawn>> /\ state' = state
    BY <1>5 DEF ReceiveAnswer, DispatchAnswers, clientSent, queues
  <2> QED BY <1>0, <2>1, RequestInvShrinks
<1>6. CASE FinishResume
  <2>1. /\ cLog' = cLog \o pendingFrames /\ pendingFrames' = <<>> /\ streams' \subseteq streams
        /\ UNCHANGED <<nextStreamId, withdrawn>>
    BY <1>6 DEF FinishResume, DispatchAnswers
  <2>2. Elements(cLog') = Elements(cLog) \cup Elements(pendingFrames) /\ Distinct(cLog')
    BY <1>0, <2>1, ConcatElements
  <2> QED BY <2>1, <2>2, EmptyElements, RequestInvShrinks
<1>7. CASE ResumeOverflows
  <2> DEFINE n == ClientCapacity - Len(ToReplay)
             fits == SubSeq(pendingFrames, 1, n)
  <2>1. /\ cLog' = cLog \o fits /\ pendingFrames' = <<>> /\ streams' = {}
        /\ UNCHANGED <<nextStreamId, withdrawn>> /\ state' = "terminated"
    BY <1>7 DEF ResumeOverflows, TerminateClient
  <2>2. fits \in Seq(PositionalFrames) /\ Distinct(fits) /\ Elements(fits) \subseteq Elements(pendingFrames)
    <3>1. n \in Int /\ n < Len(pendingFrames) /\ Len(pendingFrames) \in Nat
      BY <1>7, SessionAssumption, ReplayFacts, LenProperties, Lengths DEF ResumeOverflows
    <3>2. CASE n \in Nat
      <4>1. n \in 0..Len(pendingFrames)
        BY <3>1, <3>2
      <4> HIDE DEF n
      <4> QED BY <1>0, <4>1, CutElements
    <3>3. CASE n < 0
      <4> HIDE DEF n
      <4>1. fits = <<>>
        BY <3>1, <3>3, SubSeqEmpty
      <4> QED BY <4>1, EmptyElements, EmptySeq
    <3> QED BY <3>1, <3>2, <3>3
  <2> HIDE DEF fits
  <2>3. Elements(cLog') = Elements(cLog) \cup Elements(fits) /\ Distinct(cLog')
    BY <1>0, <2>1, <2>2, ConcatElements
  <2> QED BY <2>1, <2>2, <2>3, EmptyElements, RequestInvShrinks
<1>8. CASE \E n \in 0..Len(pendingFrames), m \in 0..ClientCapacity : ResumeWriteFails(n, m)
  <2>1. PICK n \in 0..Len(pendingFrames), m \in 0..ClientCapacity : ResumeWriteFails(n, m)
    BY <1>8
  <2> DEFINE a == SubSeq(pendingFrames, 1, n)
             b == SubSeq(pendingFrames, n + 1, Len(pendingFrames))
  <2>2. /\ cLog' = cLog \o a /\ pendingFrames' = b /\ streams' = streams
        /\ UNCHANGED <<nextStreamId, withdrawn>> /\ state' = "lost"
    BY <2>1 DEF ResumeWriteFails, LoseTransport, interactions
  <2>3. /\ a \in Seq(PositionalFrames) /\ Distinct(a) /\ Distinct(b)
        /\ Elements(a) \cup Elements(b) = Elements(pendingFrames) /\ Elements(a) \cap Elements(b) = {}
    BY <1>0, CutElements
  <2> HIDE DEF a, b
  <2>4. Elements(cLog') = Elements(cLog) \cup Elements(a) /\ Distinct(cLog')
    BY <1>0, <2>2, <2>3, ConcatElements
  <2> QED BY <1>0, <2>2, <2>3, <2>4, RequestInvShrinks
<1>9. CASE ServerStep \/ \E k \in Connections : Break(k)
  <2>1. UNCHANGED client
    BY <1>9 DEF ServerStep, ServerReceive, ServerAcceptsRequest, ServerRefusesStreamId, ServerCancels,
         ServerKeepalive, ServerKeepaliveThrows, Accept, AcceptSetup, RefuseResume, AcceptResume,
         AcceptResumeThrows, ServerAnswer, ServerAnswers, ServerAnswerThrows, RecordAnswer,
         ServerBufferOverflows, ServerLosesTransport, ServerExpires, Break
  <2>2. /\ cLog' = cLog /\ pendingFrames' = pendingFrames /\ streams' = streams
        /\ UNCHANGED <<nextStreamId, withdrawn>> /\ state' = state
    BY <2>1, ClientUnchanged
  <2> QED BY <1>0, <2>2, RequestInvShrinks
<1> QED BY <1>1, <1>2, <1>3, <1>4, <1>5, <1>6, <1>7, <1>8, <1>9
        DEF Next, ClientStep, ClientReceive, ContinueResume

(***************************************************************************)
(* Every step keeps what is known of the answers.                          *)
(***************************************************************************)
LEMMA AnswerInvShrinks ==
  ASSUME AnswerInv, UNCHANGED <<sLog, sNextStreamId>>, sStreams' \subseteq sStreams,
         sState' # "listening", sState' = "terminated" => sStreams' = {} /\ sRetained' = <<>>
  PROVE  AnswerInv'
BY DEF AnswerInv

LEMMA AnswerStep ==
  ASSUME Types, NetworkInv, AnswerInv, Next
  PROVE  AnswerInv'
<1>1. CASE ServerAcceptsRequest
  <2> DEFINE id == sNextStreamId
  <2>1. /\ sState' = sState /\ sState = "active" /\ sLog' = sLog /\ sRetained' = sRetained
        /\ sNextStreamId' = id + 2 /\ sStreams' = sStreams \cup {id} /\ id \in Nat
    BY <1>1 DEF ServerAcceptsRequest, ConsumeSIncoming, HasSIncoming, serverSent, Types
  <2>2. \A s \in StreamIds : s \in Nat
    BY SessionAssumption DEF StreamIds
  <2>3. \A f \in Elements(sLog) : f.stream \in Nat /\ f.stream < id /\ f.stream \notin sStreams
    BY <2>2, AnswerFrame, ElementOfSeq DEF Elements, Types, AnswerInv
  <2>4. \A s \in sStreams : s < id /\ s \in Nat
    BY <2>2 DEF AnswerInv, Types
  <2> HIDE DEF id
  <2>5. id < id + 2 /\ \A n \in Nat : n < id => n < id + 2 /\ n # id
    BY <2>1
  <2> QED BY <2>1, <2>3, <2>4, <2>5 DEF AnswerInv
<1>2. CASE ServerAnswer
  <2>1. PICK id \in sStreams : RecordAnswer(id) /\ (sState' = sState \/ sState' = "suspended")
    BY <1>2 DEF ServerAnswer, ServerAnswers, ServerAnswerThrows, TransportLost
  <2>2. /\ id \in StreamIds /\ Response(id) \in Answers /\ Response(id).stream = id
        /\ sLog \in Seq(Answers) /\ id < sNextStreamId /\ sState \notin {"listening", "terminated"}
    BY StreamFrames DEF Types, AnswerInv
  <2>3. /\ sLog' = Append(sLog, Response(id)) /\ sStreams' = sStreams \ {id}
        /\ sNextStreamId' = sNextStreamId
    BY <2>1 DEF RecordAnswer
  <2>4. Response(id) \notin Elements(sLog)
    BY <2>2 DEF AnswerInv
  <2>5. Distinct(sLog') /\ Elements(sLog') = Elements(sLog) \cup {Response(id)}
    BY <2>2, <2>3, <2>4, AppendElements DEF AnswerInv
  <2> QED BY <2>1, <2>2, <2>3, <2>5 DEF AnswerInv
<1>3. CASE ServerCancels \/ ServerKeepalive \/ ServerLosesTransport
  <2>1. /\ sState = "active" /\ sState' \in {"active", "suspended"} /\ sStreams' \subseteq sStreams
        /\ UNCHANGED <<sLog, sNextStreamId>>
    BY <1>3 DEF ServerCancels, ServerKeepalive, ServerLosesTransport, ConsumeSIncoming, HasSIncoming,
         TransportLost, serverSent
  <2> QED BY <2>1, AnswerInvShrinks
<1>4. CASE ServerRefusesStreamId \/ ServerKeepaliveThrows \/ ServerBufferOverflows \/ ServerExpires
  <2>1. TerminateServer /\ UNCHANGED <<sLog, sNextStreamId>>
    BY <1>4 DEF ServerRefusesStreamId, ServerKeepaliveThrows, ServerBufferOverflows, ServerExpires
  <2> QED BY <2>1, AnswerInvShrinks DEF TerminateServer
<1>5. CASE Accept
  <2>1. PICK k \in Connections :
          \/ AcceptSetup(k) \/ RefuseResume(k) \/ AcceptResume(k)
          \/ \E m \in 0..(sCapacity + 1) : AcceptResumeThrows(k, m)
    BY <1>5 DEF Accept
  <2>2. CASE AcceptSetup(k) \/ AcceptResume(k)
    <3>1. sState' = "active" /\ UNCHANGED <<sLog, sNextStreamId, sStreams>>
      BY <2>2 DEF AcceptSetup, AcceptResume, serverSent
    <3> QED BY <3>1, AnswerInvShrinks
  <2>3. CASE RefuseResume(k)
    BY <2>3 DEF RefuseResume, serverSent, serverGot, AnswerInv
  <2>4. CASE \E m \in 0..(sCapacity + 1) : AcceptResumeThrows(k, m)
    <3>1. /\ UNCHANGED <<sState, sLog, sNextStreamId, sStreams>>
          /\ up[k] # <<>> /\ Head(up[k]).type = "RESUME" /\ RefusalReasons(Head(up[k])) = {}
      BY <2>4 DEF AcceptResumeThrows
    <3>2. sState = "suspended"
      BY <3>1, AcceptableFacts
    <3> QED BY <3>1, <3>2, AnswerInvShrinks
  <2> QED BY <2>1, <2>2, <2>3, <2>4
<1>6. CASE ClientStep \/ \E k \in Connections : Break(k)
  <2>1. UNCHANGED server
    BY <1>6 DEF ClientStep, StartRequest, CancelRequest, ClientBufferOverflows, SendKeepalive,
         ClientLosesTransport, OpenResume, AbandonResume, ClientReceive, ReceiveResumeOk, ReceiveRejection,
         BufferIncoming, ReceiveAnswer, ReceiveKeepalive, ReceiveConnectionError, ContinueResume,
         FinishResume, ResumeOverflows, ResumeWriteFails, Break
  <2> QED BY <2>1 DEF server, serverSent, serverGot, AnswerInv
<1> QED BY <1>1, <1>2, <1>3, <1>4, <1>5, <1>6 DEF Next, ServerStep, ServerReceive

-------------------------------------------------------------------------------
(***************************************************************************)
(* The invariant.                                                          *)
(***************************************************************************)
LEMMA InitInvariant ==
  ASSUME Init
  PROVE  IInv
<1> USE DEF Init
<1>1. MaxConnections \in Nat /\ MaxConnections >= 1 /\ 1 \in Connections /\ MaxRequests \in Nat /\ MaxRequests >= 1
  BY SessionAssumption DEF Connections
<1>2. Setup \in UpFrames /\ Setup.type = "SETUP" /\ <<Setup>> \in Seq(UpFrames)
  BY ControlFrames
<1>3. /\ Len(<<Setup>>) = 1 /\ Head(<<Setup>>) = Setup /\ Tail(<<Setup>>) = <<>>
      /\ <<Setup>>[1] = Setup /\ <<Setup>> # <<>>
  OBVIOUS
<1>4. Types
  <2>1. up \in [Connections -> Seq(UpFrames)] /\ down \in [Connections -> Seq(DownFrames)]
    BY <1>2, EmptySeq
  <2>2. link \in [Connections -> {"unused", "open", "broken"}]
    OBVIOUS
  <2>3. <<>> \in Seq(PositionalFrames) /\ <<>> \in Seq(Answers)
    BY EmptySeq
  <2>4. 1 \in 1..(2 * MaxRequests + 1)
    BY <1>1
  <2> QED BY <1>1, <2>1, <2>2, <2>3, <2>4 DEF Types
<1>5. PositionInv
  BY DEF PositionInv, PositionsCountFrames, IsPrefixOf, IsSuffixOf
<1>6. /\ up[1] = <<Setup>> /\ \A k \in Connections \ {1} : up[k] = <<>>
      /\ \A k \in Connections : down[k] = <<>>
      /\ link[1] = "open" /\ \A k \in Connections \ {1} : link[k] = "unused"
  BY <1>1
<1>7. LinkInv
  BY <1>1, <1>3, <1>6 DEF LinkInv, Open, Connections
<1>8. UpInv
  <2>1. SetupUp(1)
    BY <1>2, <1>3, <1>6, FlowEmpty, EmptySeq DEF SetupUp
  <2> QED BY <1>6, <2>1 DEF UpInv, BoundUp
<1>9. KeepaliveInv
  <2>1. ~IsKeepalive(Setup)
    BY <1>2 DEF IsKeepalive
  <2>2. \A k \in Connections : Len(down[k]) = 0
    BY <1>6, EmptySeq
  <2>3. \A k \in Connections : \A i \in 1..Len(up[k]) : ~IsKeepalive(up[k][i])
    <3> SUFFICES ASSUME NEW k \in Connections, NEW i \in 1..Len(up[k]) PROVE ~IsKeepalive(up[k][i])
      OBVIOUS
    <3>1. k = 1 /\ i = 1
      BY <1>3, <1>6, EmptySeq
    <3> QED BY <1>3, <1>6, <2>1, <3>1
  <2> QED BY <1>1, <2>2, <2>3 DEF KeepaliveInv
<1>10. DownInv
  BY <1>1, <1>6, FlowEmpty, EmptySeq DEF DownInv, ActiveDown, ReplayingDown, HandshakeDown, Bound
<1>11. RequestInv /\ AnswerInv
  BY EmptyElements DEF RequestInv, AnswerInv
<1> QED BY <1>4, <1>5, <1>7, <1>8, <1>9, <1>10, <1>11 DEF IInv, NetworkInv

LEMMA NextInvariant ==
  ASSUME IInv, [Next]_vars
  PROVE  IInv'
<1>1. CASE Next
  <2>1. CASE ClientStep
    BY <1>1, <2>1, ClientStepNetwork, RequestStep, AnswerStep DEF IInv
  <2>2. CASE ServerStep
    BY <1>1, <2>2, ServerStepNetwork, RequestStep, AnswerStep DEF IInv
  <2>3. CASE \E k \in Connections : Break(k)
    BY <1>1, <2>3, BreakStep, RequestStep, AnswerStep DEF IInv
  <2> QED BY <1>1, <2>1, <2>2, <2>3 DEF Next
<1>2. CASE UNCHANGED vars
  <2>1. /\ state' = state /\ connection' = connection /\ resumeOk' = resumeOk
        /\ clientPosition' = clientPosition /\ cRetained' = cRetained /\ cLog' = cLog
        /\ cServerPosition' = cServerPosition /\ cGot' = cGot
        /\ pendingIncomingFrames' = pendingIncomingFrames /\ pendingFrames' = pendingFrames
        /\ nextStreamId' = nextStreamId /\ streams' = streams /\ withdrawn' = withdrawn
        /\ sState' = sState /\ binding' = binding /\ sClientPosition' = sClientPosition /\ sGot' = sGot
        /\ serverPosition' = serverPosition /\ sRetained' = sRetained /\ sLog' = sLog
        /\ sNextStreamId' = sNextStreamId /\ sStreams' = sStreams /\ sCapacity' = sCapacity
        /\ link' = link /\ up' = up /\ down' = down
    BY <1>2 DEF vars, client, clientSent, clientGot, queues, interactions, server, serverSent, serverGot, network
  <2>2. Types'
    BY <2>1 DEF IInv, Types
  <2>3. PositionInv' /\ LinkInv' /\ KeepaliveInv'
    BY <2>1 DEF IInv, NetworkInv, PositionInv, PositionsCountFrames, LinkInv, KeepaliveInv, Open
  <2>4. UpInv'
    BY <2>1 DEF IInv, NetworkInv, UpInv, BoundUp, SetupUp, ResumeUp, Bound, Open
  <2>5. DownInv'
    BY <2>1 DEF IInv, NetworkInv, DownInv, ActiveDown, ReplayingDown, HandshakeDown, Replayable, Bound, Open
  <2>6. RequestInv' /\ AnswerInv'
    BY <2>1 DEF IInv, RequestInv, AnswerInv
  <2> QED BY <2>2, <2>3, <2>4, <2>5, <2>6 DEF IInv, NetworkInv
<1> QED BY <1>1, <1>2

\* The inductive invariant: what either side has recorded, dispatched and still
\* retains, and what every connection still carries, fit together at all times.
THEOREM Invariant == Spec => []IInv
<1>1. Init => IInv
  BY InitInvariant
<1>2. IInv /\ [Next]_vars => IInv'
  BY NextInvariant
<1> QED BY <1>1, <1>2, PTL DEF Spec

(***************************************************************************)
(* What the invariant implies.                                             *)
(***************************************************************************)
LEMMA Ordered ==
  ASSUME IInv
  PROVE  /\ clientPosition = Len(cLog) /\ sClientPosition = Len(sGot)
         /\ serverPosition = Len(sLog) /\ cServerPosition = Len(cGot)
         /\ clientPosition \in Nat /\ sClientPosition \in Nat
         /\ serverPosition \in Nat /\ cServerPosition \in Nat
         /\ sClientPosition <= clientPosition /\ cServerPosition <= serverPosition
         /\ Len(cRetained) \in Nat /\ Len(sRetained) \in Nat
BY Lengths DEF IInv, NetworkInv, Types, PositionInv, PositionsCountFrames, IsPrefixOf

LEMMA GapIsCovered ==
  ASSUME IInv
  PROVE  RetainedCoversTheGap
<1>1. /\ state # "terminated" => clientPosition - Len(cRetained) <= sClientPosition
      /\ sState # "terminated" => serverPosition - Len(sRetained) <= cServerPosition
  BY DEF IInv, NetworkInv, PositionInv
<1> QED BY <1>1, Ordered DEF RetainedCoversTheGap

\* A RESUME_OK is read first, and only during the handshake.
LEMMA ResumeOkIsFirst ==
  ASSUME IInv, NEW k \in Connections, NEW i \in 1..Len(down[k]), down[k][i].type = "RESUME_OK"
  PROVE  down[k][i].position <= sClientPosition
<1> USE DEF IInv, NetworkInv
<1>1. k = connection /\ down[k] # <<>> /\ down[k] \in Seq(DownFrames) /\ Len(down[k]) \in Nat
  <2>1. down[k] # <<>> /\ down[k] \in Seq(DownFrames) /\ Len(down[k]) \in Nat
    BY EmptySeq, LenProperties DEF Types
  <2>2. k = connection
    BY <2>1, LinkFacts DEF LinkInv, Connections
  <2> QED BY <2>1, <2>2
<1>2. state \notin {"lost", "terminated"}
  BY <1>1 DEF LinkInv
<1>3. ~Plain(down[k][i]) \/ down[k][i] \notin Answers
  BY AnswerFrame
<1>4. \A n \in 1..Len(sLog) : sLog[n] \in Answers
  BY ElementOfSeq DEF Types
<1>5. down[k][i] \notin Answers /\ ~IsKeepalive(down[k][i]) /\ ~IsError(down[k][i])
  BY AnswerFrame DEF IsKeepalive, IsError
<1>6. state # "active"
  <2> SUFFICES ASSUME state = "active" PROVE FALSE
    OBVIOUS
  <2>1. Flow(down[k], cServerPosition, sLog)
    BY <1>1 DEF DownInv, ActiveDown
  <2>2. PICK n \in 1..Len(sLog) : down[k][i] = sLog[n]
    BY <1>5, <2>1 DEF Flow
  <2> QED BY <1>4, <1>5, <2>2
<1>7. state # "replaying"
  <2> SUFFICES ASSUME state = "replaying" PROVE FALSE
    OBVIOUS
  <2> DEFINE n == cServerPosition + Len(pendingIncomingFrames)
  <2>1. IsRun(down[k], n, sLog)
    BY <1>1 DEF DownInv, ReplayingDown
  <2>2. n \in Nat /\ Len(sLog) \in Nat
    BY Lengths DEF Types
  <2> HIDE DEF n
  <2>3. n + i \in 1..Len(sLog) /\ down[k][i] = sLog[n + i]
    BY <1>1, <2>1, <2>2 DEF IsRun
  <2> QED BY <1>4, <1>5, <2>3
<1>8. state = "handshake"
  BY <1>2, <1>6, <1>7 DEF Types
<1>9. /\ Head(down[k]) = down[k][1] /\ Len(Tail(down[k])) = Len(down[k]) - 1
      /\ \A j \in 1..Len(Tail(down[k])) : Tail(down[k])[j] = down[k][j + 1]
  BY <1>1, HeadTailProperties
<1>10. CASE Len(down[k]) = 1 /\ Head(down[k]).type = "REJECTED_RESUME"
  <2>1. i = 1
    BY <1>10
  <2> QED BY <1>9, <1>10, <2>1
<1>11. CASE Replayable(Head(down[k]).position) /\ IsRun(Tail(down[k]), cServerPosition, sLog)
  <2>1. CASE i = 1
    BY <1>9, <1>11, <2>1 DEF Replayable
  <2>2. CASE i # 1
    <3>1. /\ i - 1 \in 1..Len(Tail(down[k])) /\ (i - 1) + 1 = i
          /\ cServerPosition \in Nat /\ Len(sLog) \in Nat
      BY <1>1, <1>9, <2>2, Lengths DEF Types
    <3>2. PICK j \in 1..Len(Tail(down[k])) : j = i - 1 /\ down[k][i] = Tail(down[k])[j]
      BY <1>9, <3>1
    <3>3. /\ cServerPosition + Len(Tail(down[k])) <= Len(sLog)
          /\ Tail(down[k])[j] = sLog[cServerPosition + j]
      BY <1>11, <3>2 DEF IsRun
    <3>4. Len(Tail(down[k])) \in Nat
      BY <1>1, <1>9, EmptySeq
    <3>5. cServerPosition + j \in 1..Len(sLog)
      BY <3>1, <3>3, <3>4
    <3> QED BY <1>4, <1>5, <3>2, <3>3, <3>5
  <2> QED BY <2>1, <2>2
<1> QED BY <1>1, <1>8, <1>10, <1>11 DEF DownInv, HandshakeDown

\* A RESUME is alone on its connection until it is read.
LEMMA ResumeIsAlone ==
  ASSUME IInv, NEW k \in Connections, NEW i \in 1..Len(up[k]), up[k][i].type = "RESUME"
  PROVE  up[k][i].received <= cServerPosition /\ up[k][i].first <= sClientPosition
<1> USE DEF IInv, NetworkInv
<1>1. up[k] # <<>> /\ up[k] \in Seq(UpFrames) /\ Len(up[k]) \in Nat
  BY EmptySeq, LenProperties DEF Types
<1>2. up[k][i] \notin PositionalFrames /\ ~IsKeepalive(up[k][i]) /\ ~IsError(up[k][i])
  BY PositionalFrame DEF IsKeepalive, IsError
<1>3. \A n \in 1..Len(cLog) : cLog[n] \in PositionalFrames
  BY ElementOfSeq DEF Types
<1>4. /\ Head(up[k]) = up[k][1] /\ Len(Tail(up[k])) = Len(up[k]) - 1
      /\ \A j \in 1..Len(Tail(up[k])) : Tail(up[k])[j] = up[k][j + 1]
  BY <1>1, HeadTailProperties
<1>5. k # binding
  <2> SUFFICES ASSUME k = binding PROVE FALSE
    OBVIOUS
  <2>1. Flow(up[k], sClientPosition, cLog)
    BY LinkFacts DEF UpInv, BoundUp, Connections
  <2>2. PICK n \in 1..Len(cLog) : up[k][i] = cLog[n]
    BY <1>2, <2>1 DEF Flow
  <2> QED BY <1>2, <1>3, <2>2
<1>6. CASE SetupUp(k)
  <2>1. i # 1 /\ Flow(Tail(up[k]), 0, cLog)
    BY <1>4, <1>6 DEF SetupUp
  <2>2. i - 1 \in 1..Len(Tail(up[k])) /\ (i - 1) + 1 = i
    BY <1>1, <1>4, <2>1
  <2>3. PICK j \in 1..Len(Tail(up[k])) : j = i - 1 /\ up[k][i] = Tail(up[k])[j]
    BY <1>4, <2>2
  <2>4. PICK n \in 1..Len(cLog) : Tail(up[k])[j] = cLog[n]
    BY <1>2, <2>1, <2>3 DEF Flow
  <2> QED BY <1>2, <1>3, <2>3, <2>4
<1>7. CASE ResumeUp(k)
  <2>1. i = 1
    BY <1>7 DEF ResumeUp
  <2> QED BY <1>4, <1>7, <2>1 DEF ResumeUp
<1> QED BY <1>1, <1>5, <1>6, <1>7 DEF UpInv

LEMMA PositionsAreTruthful ==
  ASSUME IInv
  PROVE  ReportedPositionsAreTruthful
<1>1. resumeOk <= sClientPosition
  <2>1. CASE state = "replaying"
    BY <2>1, ReplayFacts DEF IInv
  <2>2. CASE state # "replaying"
    <3>1. resumeOk = -1
      BY <2>2 DEF IInv, NetworkInv, DownInv, NoPosition
    <3> QED BY <3>1, Ordered
  <2> QED BY <2>1, <2>2
<1>2. ASSUME NEW k \in Connections, NEW i \in DOMAIN up[k]
      PROVE  /\ up[k][i].type = "KEEPALIVE" => up[k][i].position <= cServerPosition
             /\ up[k][i].type = "RESUME" =>
                  up[k][i].received <= cServerPosition /\ up[k][i].first <= sClientPosition
  <2>1. i \in 1..Len(up[k])
    BY LenProperties DEF IInv, Types
  <2> QED BY <2>1, ResumeIsAlone DEF IInv, NetworkInv, KeepaliveInv, IsKeepalive
<1>3. ASSUME NEW k \in Connections, NEW i \in DOMAIN down[k], down[k][i].type \in {"KEEPALIVE", "RESUME_OK"}
      PROVE  down[k][i].position <= sClientPosition
  <2>1. i \in 1..Len(down[k])
    BY LenProperties DEF IInv, Types
  <2> QED BY <1>3, <2>1, ResumeOkIsFirst DEF IInv, NetworkInv, KeepaliveInv, IsKeepalive
<1> QED BY <1>1, <1>2, <1>3, Ordered DEF ReportedPositionsAreTruthful

LEMMA OfferIsAccepted ==
  ASSUME IInv
  PROVE  NeverRefusedOverPositions
<1> USE DEF IInv, NetworkInv
<1> SUFFICES ASSUME ResumeOffered, sState = "suspended"
             PROVE  RefusalReasons(Head(up[connection])) = {}
  BY DEF NeverRefusedOverPositions
<1>1. /\ state = "handshake" /\ up[connection] # <<>>
      /\ connection \in Connections /\ connection # binding
  BY LinkFacts DEF ResumeOffered, LinkInv, Connections
<1>2. ResumeUp(connection)
  BY <1>1 DEF UpInv, SetupUp
<1>3. /\ Head(up[connection]).received = cServerPosition
      /\ Head(up[connection]).first = clientPosition - Len(cRetained)
  BY <1>1, <1>2 DEF ResumeUp
<1>4. /\ clientPosition - Len(cRetained) <= sClientPosition
      /\ cServerPosition \in (serverPosition - Len(sRetained))..serverPosition
  BY <1>1, GapIsCovered, Ordered DEF PositionInv
<1>5. ~(clientPosition - Len(cRetained) > sClientPosition)
  BY <1>4, Ordered
<1> QED BY <1>3, <1>4, <1>5 DEF RefusalReasons

\* Distinct frames of the requests there are.
LEMMA Pigeonhole ==
  ASSUME NEW S, NEW s \in Seq(S), Distinct(s), NEW n \in Nat,
         NEW g \in [S -> 1..n], \A a, b \in S : g[a] = g[b] => a = b
  PROVE  Len(s) <= n
<1>1. Len(s) \in Nat /\ \A i \in 1..Len(s) : s[i] \in S
  BY LenProperties, ElementOfSeq
<1> SUFFICES ASSUME n < Len(s) PROVE FALSE
  BY <1>1
<1> DEFINE f == [i \in 1..Len(s) |-> g[s[i]]]
<1>2. f \in [1..Len(s) -> 1..n]
  BY <1>1
<1>3. /\ IsFiniteSet(1..Len(s)) /\ Cardinality(1..Len(s)) = Len(s)
      /\ IsFiniteSet(1..n) /\ Cardinality(1..n) = n
  <2>1. \A m \in Nat : IsFiniteSet(1..m) /\ Cardinality(1..m) = m
    <3> TAKE m \in Nat
    <3>1. 1 \in Int /\ m \in Int
      OBVIOUS
    <3>2. /\ IsFiniteSet(1..m)
          /\ Cardinality(1..m) = IF 1 > m THEN 0 ELSE m - 1 + 1
      BY <3>1, FS_Interval
    <3> QED BY <3>2
  <2> QED BY <1>1, <2>1
<1>4. \E x, y \in 1..Len(s) : x # y /\ f[x] = f[y]
  <2> HIDE DEF f
  <2>1. Cardinality(1..n) < Cardinality(1..Len(s))
    BY <1>3
  <2> QED BY <1>2, <1>3, <2>1, FS_PigeonHole
<1>5. PICK x \in 1..Len(s), y \in 1..Len(s) : x # y /\ g[s[x]] = g[s[y]]
  BY <1>4
<1> QED BY <1>1, <1>5 DEF Distinct

LEMMA PositionsAreBounded ==
  ASSUME IInv
  PROVE  Len(cLog) <= 2 * MaxRequests /\ Len(sLog) <= 2 * MaxRequests
<1>1. MaxRequests \in Nat /\ 2 * MaxRequests \in Nat
  BY SessionAssumption
<1>2. \A id \in StreamIds : id \in 1..(2 * MaxRequests) /\ id + 1 \in 1..(2 * MaxRequests)
  BY <1>1 DEF StreamIds
<1>3. \A a, b \in StreamIds : a # b + 1
  <2> SUFFICES ASSUME NEW m \in 1..MaxRequests, NEW n \in 1..MaxRequests, 2 * m - 1 = 2 * n - 1 + 1 PROVE FALSE
    BY DEF StreamIds
  <2>1. m \in Int /\ n \in Int
    BY <1>1
  <2>2. 2 * (m - n) = 1
    BY <2>1
  <2> QED BY <2>1, <2>2
<1>4. Len(cLog) <= 2 * MaxRequests
  <2> DEFINE g == [f \in PositionalFrames |-> IF f.type = "REQUEST" THEN f.stream ELSE f.stream + 1]
  <2>1. g \in [PositionalFrames -> 1..(2 * MaxRequests)]
    BY <1>2, PositionalFrame
  <2>2. ASSUME NEW a \in PositionalFrames, NEW b \in PositionalFrames, g[a] = g[b]
        PROVE  a = b
    <3>1. /\ a.stream \in StreamIds /\ b.stream \in StreamIds
          /\ a.type \in {"REQUEST", "CANCEL"} /\ b.type \in {"REQUEST", "CANCEL"}
          /\ a.type = "REQUEST" => a = Request(a.stream)
          /\ a.type = "CANCEL" => a = Cancel(a.stream)
          /\ b.type = "REQUEST" => b = Request(b.stream)
          /\ b.type = "CANCEL" => b = Cancel(b.stream)
      BY PositionalFrame
    <3>2. a.stream \in Int /\ b.stream \in Int
      BY <1>1, <1>2, <3>1
    <3>3. a.type = b.type /\ a.stream = b.stream
      BY <1>3, <2>2, <3>1, <3>2
    <3> QED BY <3>1, <3>3
  <2> HIDE DEF g
  <2>3. cLog \in Seq(PositionalFrames) /\ Distinct(cLog)
    BY DEF IInv, Types, RequestInv
  <2> QED BY <1>1, <2>1, <2>2, <2>3, Pigeonhole
<1>5. Len(sLog) <= 2 * MaxRequests
  <2> DEFINE g == [f \in Answers |-> f.stream]
  <2>1. g \in [Answers -> 1..(2 * MaxRequests)]
    BY <1>2, AnswerFrame
  <2>2. \A a, b \in Answers : g[a] = g[b] => a = b
    BY AnswerFrame
  <2> HIDE DEF g
  <2>3. sLog \in Seq(Answers) /\ Distinct(sLog)
    BY DEF IInv, Types, AnswerInv
  <2> QED BY <1>1, <2>1, <2>2, <2>3, Pigeonhole
<1> QED BY <1>4, <1>5

LEMMA TypesAreCorrect ==
  ASSUME IInv
  PROVE  TypeOK
<1>1. MaxRequests \in Nat /\ MaxConnections \in Nat
  BY SessionAssumption
<1>2. /\ clientPosition \in Positions /\ cServerPosition \in Positions
      /\ sClientPosition \in Positions /\ serverPosition \in Positions
  BY <1>1, Ordered, PositionsAreBounded DEF Positions
<1>3. resumeOk \in Positions \cup {NoPosition}
  <2>1. resumeOk \in Nat \cup {NoPosition} /\ resumeOk <= sClientPosition
    BY PositionsAreTruthful DEF ReportedPositionsAreTruthful, IInv, Types
  <2>2. \A n \in Nat : n <= sClientPosition => n \in Positions
    BY <1>1, <1>2 DEF Positions
  <2> QED BY <2>1, <2>2
<1>4. binding \in 0..MaxConnections
  BY <1>1 DEF IInv, Types, Connections
<1> QED BY <1>2, <1>3, <1>4 DEF TypeOK, IInv, Types

\* Every variable keeps its type; the positions stay below two frames a request.
THEOREM TypeCorrect == Spec => []TypeOK
BY Invariant, TypesAreCorrect, PTL

\* Whichever transport fails next, at whatever point of whatever handshake, each
\* side still holds every frame the other has not received.
THEOREM NoGapOpens == Spec => []RetainedCoversTheGap
BY Invariant, GapIsCovered, PTL

\* No RESUME, RESUME_OK or KEEPALIVE, on whichever connection it still travels,
\* reports more than its sender has received, and no RESUME starts beyond what
\* the responder has: an honest acknowledgement never ends a session.
THEOREM ReportsAreTruthful == Spec => []ReportedPositionsAreTruthful
BY Invariant, PositionsAreTruthful, PTL

\* A suspended session is resumed on the first RESUME it is offered: refusals
\* over positions do not happen between the two implementations.
THEOREM ResumeIsNotRefusedOverPositions == Spec => []NeverRefusedOverPositions
BY Invariant, OfferIsAccepted, PTL

\* Neither a request cancelled while it was queued nor its CANCEL ever reaches
\* the log of sent frames.
THEOREM WithdrawnStaysUnsent == Spec => []WithdrawnIsNeverSent
<1>1. IInv => WithdrawnIsNeverSent
  <2> SUFFICES ASSUME IInv, NEW id \in withdrawn, NEW i \in DOMAIN cLog PROVE cLog[i].stream # id
    BY DEF WithdrawnIsNeverSent
  <2>1. i \in 1..Len(cLog) /\ cLog[i] \in PositionalFrames
    BY LenProperties, ElementOfSeq DEF IInv, Types
  <2>2. cLog[i] \in Elements(cLog)
    BY <2>1 DEF Elements
  <2>3. cLog[i] # Request(id) /\ cLog[i] # Cancel(id)
    BY <2>2 DEF IInv, RequestInv
  <2> QED BY <2>1, <2>3, PositionalFrame
<1> QED BY <1>1, Invariant, PTL

(***************************************************************************)
(* Refinement: logs only grow, and what a side has dispatched is a prefix  *)
(* of the other side's log.                                                *)
(***************************************************************************)
LEMMA GrownByRun ==
  ASSUME NEW S, NEW log \in Seq(S), NEW log2 \in Seq(S), IsPrefixOf(log, log2)
  PROVE  Delivery!Extends(log, log2)
<1>1. Len(log) \in Nat /\ Len(log2) \in Nat /\ Len(log) <= Len(log2)
  BY LenProperties DEF IsPrefixOf
<1>2. /\ SubSeq(log2, 1, Len(log)) \in Seq(S) /\ Len(SubSeq(log2, 1, Len(log))) = Len(log)
      /\ \A i \in 1..Len(log) : SubSeq(log2, 1, Len(log))[i] = log2[i]
  <2>1. Len(log) \in 0..Len(log2)
    BY <1>1
  <2> QED BY <2>1, CutElements
<1>3. SubSeq(log2, 1, Len(log)) = log
  BY <1>2, SeqEqual DEF IsPrefixOf
<1> QED BY <1>1, <1>3 DEF Delivery!Extends, Delivery!Prefix

LEMMA DeliveredPrefix ==
  ASSUME NEW S, NEW sent \in Seq(S), NEW got \in Seq(S), NEW got2 \in Seq(S),
         IsPrefixOf(got2, sent), Len(got) <= Len(got2)
  PROVE  Delivery!Delivers(sent, got, got2)
<1>1. Len(got) \in Nat /\ Len(got2) \in Len(got)..Len(sent)
  BY LenProperties DEF IsPrefixOf
<1>2. SubSeq(sent, 1, Len(got2)) = got2
  BY GrownByRun DEF Delivery!Extends, Delivery!Prefix
<1> QED BY <1>1, <1>2 DEF Delivery!Delivers, Delivery!Prefix

\* What the steps do to the logs.
LEMMA LogsGrow ==
  ASSUME Types, NetworkInv, Next
  PROVE  /\ cLog' = cLog \/ \E more \in Seq(PositionalFrames) : cLog' = cLog \o more
         /\ sLog' = sLog \/ \E id \in StreamIds : sLog' = Append(sLog, Response(id))
         /\ sGot' = sGot \/ \E f \in PositionalFrames : sGot' = Append(sGot, f)
         /\ cGot' = cGot \/ \E more \in Seq(Answers) : cGot' = cGot \o more
<1>1. CASE ClientStep
  <2>1. sLog' = sLog /\ sGot' = sGot
    BY <1>1 DEF ClientStep, StartRequest, CancelRequest, ClientBufferOverflows, SendKeepalive,
         ClientLosesTransport, OpenResume, AbandonResume, ClientReceive, ReceiveResumeOk, ReceiveRejection,
         BufferIncoming, ReceiveAnswer, ReceiveKeepalive, ReceiveConnectionError, ContinueResume,
         FinishResume, ResumeOverflows, ResumeWriteFails, server, serverSent, serverGot
  <2>2. CASE StartRequest \/ \E id \in streams : CancelRequest(id)
    <3>1. PICK frame \in PositionalFrames : Sends(frame)
      BY <2>2, StartsAndCancels
    <3>2. cGot' = cGot /\ Send(frame)
      BY <3>1 DEF Sends, clientGot
    <3>3. cLog' = cLog \/ cLog' = cLog \o <<frame>>
      BY <3>2 DEF Send, SendWhileSuspended, SendWritten, SendThrows, SendNotOpen, RecordClient, clientSent
    <3>4. <<frame>> \in Seq(PositionalFrames)
      OBVIOUS
    <3> QED BY <2>1, <3>2, <3>3, <3>4
  <2>3. CASE \/ ClientBufferOverflows \/ SendKeepalive \/ ClientLosesTransport \/ OpenResume \/ AbandonResume
             \/ ReceiveResumeOk \/ ReceiveRejection \/ BufferIncoming \/ ReceiveKeepalive \/ ReceiveConnectionError
    <3>1. cLog' = cLog /\ cGot' = cGot
      BY <2>3 DEF ClientBufferOverflows, SendKeepalive, ClientLosesTransport, OpenResume, AbandonResume,
           ReceiveResumeOk, ReceiveRejection, BufferIncoming, ReceiveKeepalive, ReceiveConnectionError,
           client, clientSent, clientGot
    <3> QED BY <2>1, <3>1
  <2>4. CASE ReceiveAnswer
    <3>1. cLog' = cLog /\ cGot' = cGot \o <<Incoming>> /\ Incoming.type = "PAYLOAD" /\ HasIncoming
      BY <2>4 DEF ReceiveAnswer, DispatchAnswers, ConsumeIncoming, clientSent
    <3>2. Incoming \in DownFrames
      BY <3>1, HeadTailProperties DEF Incoming, HasIncoming, Types
    <3>3. Incoming \in Answers
      BY <3>1, <3>2, DownFrame
    <3>4. <<Incoming>> \in Seq(Answers)
      BY <3>3
    <3> QED BY <2>1, <3>1, <3>4
  <2>5. CASE FinishResume
    <3>1. cLog' = cLog \o pendingFrames /\ cGot' = cGot \o pendingIncomingFrames
      BY <2>5 DEF FinishResume, DispatchAnswers
    <3> QED BY <2>1, <3>1 DEF Types
  <2>6. CASE ResumeOverflows \/ \E n \in 0..Len(pendingFrames), m \in 0..ClientCapacity : ResumeWriteFails(n, m)
    <3>1. Types' /\ ClientDrops
      BY <2>6, ResumeOverflowsDrops, ResumeWriteFailsDrops
    <3>2. cGot' = cGot
      BY <3>1 DEF ClientDrops, clientGot
    <3>3. \E more : cLog' = cLog \o more /\ more \in Seq(PositionalFrames)
      <4>1. pendingFrames \in Seq(PositionalFrames) /\ Len(pendingFrames) \in Nat
        BY Lengths DEF Types
      <4>2. \A n \in Int : n <= Len(pendingFrames) => SubSeq(pendingFrames, 1, n) \in Seq(PositionalFrames)
        <5> TAKE n \in Int
        <5> HAVE n <= Len(pendingFrames)
        <5>1. CASE n \in Nat
          <6>1. n \in 0..Len(pendingFrames)
            BY <5>1
          <6> QED BY <4>1, <6>1, CutElements
        <5>2. CASE n < 1
          BY <5>2, SubSeqEmpty, EmptySeq
        <5> QED BY <5>1, <5>2
      <4>3. CASE ResumeOverflows
        <5>1. ClientCapacity - Len(ToReplay) \in Int /\ ClientCapacity - Len(ToReplay) <= Len(pendingFrames)
          BY <4>1, <4>3, SessionAssumption, ReplayFacts, LenProperties DEF ResumeOverflows
        <5> QED BY <4>2, <4>3, <5>1 DEF ResumeOverflows
      <4>4. CASE \E n \in 0..Len(pendingFrames), m \in 0..ClientCapacity : ResumeWriteFails(n, m)
        <5>1. PICK n \in 0..Len(pendingFrames), m \in 0..ClientCapacity : ResumeWriteFails(n, m)
          BY <4>4
        <5>2. cLog' = cLog \o SubSeq(pendingFrames, 1, n)
          BY <5>1 DEF ResumeWriteFails
        <5>3. n \in Int /\ n <= Len(pendingFrames)
          BY <4>1
        <5> QED BY <4>2, <5>2, <5>3
      <4> QED BY <2>6, <4>3, <4>4
    <3> QED BY <2>1, <3>2, <3>3
  <2> QED BY <1>1, <2>2, <2>3, <2>4, <2>5, <2>6 DEF ClientStep, ClientReceive, ContinueResume
<1>2. CASE ServerStep \/ \E k \in Connections : Break(k)
  <2>1. cLog' = cLog /\ cGot' = cGot
    BY <1>2 DEF ServerStep, ServerReceive, ServerAcceptsRequest, ServerRefusesStreamId, ServerCancels,
         ServerKeepalive, ServerKeepaliveThrows, Accept, AcceptSetup, RefuseResume, AcceptResume,
         AcceptResumeThrows, ServerAnswer, ServerAnswers, ServerAnswerThrows, RecordAnswer,
         ServerBufferOverflows, ServerLosesTransport, ServerExpires, Break, client, clientSent, clientGot
  <2>2. CASE ServerAcceptsRequest \/ ServerCancels \/ ServerRefusesStreamId
    <3>1. /\ HasSIncoming /\ SIncoming.type # "KEEPALIVE" /\ sLog' = sLog /\ sGot' = Append(sGot, SIncoming)
      BY <2>2 DEF ServerAcceptsRequest, ServerCancels, ServerRefusesStreamId, ConsumeSIncoming,
           DispatchRequesterFrame, serverSent
    <3> QED BY <2>1, <3>1, ServerTakesNext
  <2>3. CASE ServerAnswer
    <3>1. \E id \in sStreams : sLog' = Append(sLog, Response(id)) /\ sGot' = sGot
      BY <2>3 DEF ServerAnswer, ServerAnswers, ServerAnswerThrows, RecordAnswer, serverGot
    <3> QED BY <2>1, <3>1 DEF Types
  <2>4. CASE \/ ServerKeepalive \/ ServerKeepaliveThrows \/ Accept \/ ServerBufferOverflows
             \/ ServerLosesTransport \/ ServerExpires \/ \E k \in Connections : Break(k)
    <3>1. sLog' = sLog /\ sGot' = sGot
      BY <2>4 DEF ServerKeepalive, ServerKeepaliveThrows, Accept, AcceptSetup, RefuseResume, AcceptResume,
           AcceptResumeThrows, ServerBufferOverflows, ServerLosesTransport, ServerExpires, Break,
           server, serverSent, serverGot
    <3> QED BY <2>1, <3>1
  <2> QED BY <1>2, <2>2, <2>3, <2>4 DEF ServerStep, ServerReceive
<1> QED BY <1>1, <1>2 DEF Next

\* Exactly once and in order, in both directions, over any number of transports:
\* the session implements the delivery a user of Resume is promised.
THEOREM DeliversReliably == Spec => ImplementsReliableDelivery
<1>1. Init => Delivery!Init
  BY DEF Init, Delivery!Init
<1>2. IInv /\ IInv' /\ [Next]_vars => [Delivery!Next]_<<cLog, sGot, sLog, cGot>>
  <2>1. ASSUME IInv, IInv', Next PROVE Delivery!Next
    <3>1. /\ cLog \in Seq(PositionalFrames) /\ sGot \in Seq(PositionalFrames)
          /\ sLog \in Seq(Answers) /\ cGot \in Seq(Answers)
          /\ cLog' \in Seq(PositionalFrames) /\ sGot' \in Seq(PositionalFrames)
          /\ sLog' \in Seq(Answers) /\ cGot' \in Seq(Answers)
      BY <2>1 DEF IInv, Types
    <3>2. IsPrefixOf(sGot', cLog') /\ IsPrefixOf(cGot', sLog')
      BY <2>1 DEF IInv, NetworkInv, PositionInv
    <3>3. /\ cLog' = cLog \/ \E more \in Seq(PositionalFrames) : cLog' = cLog \o more
          /\ sLog' = sLog \/ \E id \in StreamIds : sLog' = Append(sLog, Response(id))
          /\ sGot' = sGot \/ \E f \in PositionalFrames : sGot' = Append(sGot, f)
          /\ cGot' = cGot \/ \E more \in Seq(Answers) : cGot' = cGot \o more
      BY <2>1, LogsGrow DEF IInv
    <3>4. IsPrefixOf(cLog, cLog')
      <4>1. CASE cLog' = cLog
        BY <3>1, <4>1, PrefixRefl, LenProperties
      <4>2. CASE \E more \in Seq(PositionalFrames) : cLog' = cLog \o more
        BY <3>1, <4>2, Extended
      <4> QED BY <3>3, <4>1, <4>2
    <3>5. IsPrefixOf(sLog, sLog')
      <4>1. CASE sLog' = sLog
        BY <3>1, <4>1, PrefixRefl, LenProperties
      <4>2. CASE \E id \in StreamIds : sLog' = Append(sLog, Response(id))
        <5>1. PICK id \in StreamIds : sLog' = Append(sLog, Response(id))
          BY <4>2
        <5>2. Response(id) \in Answers
          BY StreamFrames
        <5>3. sLog' = sLog \o <<Response(id)>> /\ <<Response(id)>> \in Seq(Answers)
          BY <3>1, <5>1, <5>2, SingleFrame
        <5> QED BY <3>1, <5>3, Extended
      <4> QED BY <3>3, <4>1, <4>2
    <3>6. Len(sGot) <= Len(sGot')
      BY <3>1, <3>3, AppendProperties, LenProperties
    <3>7. Len(cGot) <= Len(cGot')
      BY <3>1, <3>3, ConcatProperties, LenProperties
    <3>8. Delivery!Extends(cLog, cLog') /\ Delivery!Extends(sLog, sLog')
      BY <3>1, <3>4, <3>5, GrownByRun
    <3>9. Delivery!Delivers(cLog', sGot, sGot') /\ Delivery!Delivers(sLog', cGot, cGot')
      BY <3>1, <3>2, <3>6, <3>7, DeliveredPrefix
    <3> QED BY <3>8, <3>9 DEF Delivery!Next
  <2>2. UNCHANGED vars => UNCHANGED <<cLog, sGot, sLog, cGot>>
    BY DEF vars, client, clientSent, clientGot, server, serverSent, serverGot
  <2> QED BY <2>1, <2>2
<1> QED BY <1>1, <1>2, Invariant, PTL DEF Spec, ImplementsReliableDelivery, Delivery!Spec
===============================================================================

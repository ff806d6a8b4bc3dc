-------------------------- MODULE StreamDemandProofs --------------------------
(***************************************************************************)
(* Backpressure of a stream is exact, for any frame limit, any demands,    *)
(* any number of calls, losses and items: the inductive invariant of       *)
(* StreamDemand and the invariants its run checks.                         *)
(*                                                                         *)
(* The invariant says which frames can be under way: the initial request   *)
(* only first and before the responder has seen it, a CANCEL only last.    *)
(* From that the credit under way is a sum every step moves from one place *)
(* to another.                                                             *)
(***************************************************************************)
EXTENDS StreamDemand, SequenceTheorems, WellFoundedInduction, TLAPS

UpFrames == [type : {"REQUEST_STREAM", "REQUEST_N", "CANCEL"}, n : 0..MaxRequestN]
DownFrames == {"NEXT", "COMPLETE", "ERROR"}

\* TypeOK, and that the three queues are sequences of frames.
Types ==
  /\ session \in {"active", "lost", "handshake", "over"}
  /\ losses \in 0..MaxLosses /\ calls \in 0..MaxCalls
  /\ status \in {"idle", "open", "cancelled", "failed", "complete"}
  /\ delivering \in BOOLEAN /\ requesting \in BOOLEAN
  /\ requested \in 0..MaxSafe \cup {Unbounded}
  /\ wireRequested \in 0..MaxRequestN
  /\ up \in Seq(UpFrames) /\ pendingFrames \in Seq(UpFrames)
  /\ down \in Seq(DownFrames)
  /\ stage \in {"none", "reserved", "withdrawn", "installed", "running", "ended"}
  /\ reserved \in 0..MaxSafe /\ demand \in 0..MaxSafe
  /\ pendingUpstreamDemand \in 0..MaxSafe /\ owed \in 0..MaxSafe
  /\ emitted \in 0..Items

\* What an outage holds back: nothing, one frame, or the initial request
\* and the demand merged behind it.
Held(frames) ==
  \/ Len(frames) <= 1
  \/ /\ Len(frames) = 2
     /\ frames[1].type = "REQUEST_STREAM" /\ frames[2].type = "REQUEST_N"

QueueInv ==
  /\ session \in {"active", "over"} => pendingFrames = <<>>
  /\ session = "over" => status # "open"
  /\ Held(pendingFrames)

\* The frames under way to the responder, and what it has seen of them.
Ordered(frames) ==
  \A i \in 1..Len(frames) :
    /\ frames[i].type = "REQUEST_STREAM" => i = 1 /\ stage = "none"
    /\ frames[i].type = "CANCEL" => i = Len(frames) /\ status # "open"

RequestInv ==
  /\ Ordered(outgoing)
  /\ stage = "none" => down = <<>> /\ demand = 0 /\ reserved = 0
  /\ stage = "none" /\ status = "open" =>
       outgoing # <<>> /\ outgoing[1].type = "REQUEST_STREAM"
  /\ status = "idle" =>
       outgoing = <<>> /\ stage = "none" /\ requested = 0 /\ wireRequested = 0
  /\ stage = "withdrawn" => status # "open"
  /\ \A i \in 1..Len(down) : down[i] # "NEXT" => stage = "ended"

Credit == Credits(outgoing) + reserved + demand + Nexts

\* The responder never has more credit than the subscription granted, and
\* exactly that until one of them ends the stream.
CreditInv ==
  /\ Credit <= wireRequested /\ wireRequested <= requested
  /\ status = "open" /\ stage # "ended" => Credit = wireRequested

\* What the publisher was asked for.
PublisherInv ==
  /\ stage = "running" => owed + pendingUpstreamDemand = demand
  /\ stage # "running" => pendingUpstreamDemand = 0
  /\ stage \in {"none", "reserved", "withdrawn", "installed"} => owed = 0 /\ ~requesting

\* The responder runs the stream, or a request under way will make it.
WillRun ==
  \/ stage \in {"reserved", "installed", "running"}
  \/ \E i \in 1..Len(outgoing) : outgoing[i].type = "REQUEST_STREAM"

CancelInv ==
  status \in {"cancelled", "failed"} /\ session # "over" /\ WillRun =>
    outgoing # <<>> /\ Last(outgoing) = Cancelling

IInv == Types /\ QueueInv /\ RequestInv /\ CreditInv /\ PublisherInv /\ CancelInv

-------------------------------------------------------------------------------
(***************************************************************************)
(* Induction over the naturals, for a set.                                 *)
(***************************************************************************)
LEMMA Least ==
  ASSUME NEW T \in SUBSET Nat, T # {}
  PROVE  \E m \in T : \A k \in T : m <= k
<1> DEFINE R == OpToRel(<, Nat)
<1>1. \E x \in T : \A y \in T : ~ (<<y, x>> \in R)
  BY WFMin, NatLessThanWellFounded
<1>2. \A x, y \in T : y < x => <<y, x>> \in R
  BY DEF OpToRel
<1>3. PICK x \in T : \A y \in T : ~(<<y, x>> \in R)
  BY <1>1 DEF R, OpToRel
<1>4. \A y \in T : ~(y < x)
  BY <1>2, <1>3, Zenon
<1>5. \A y \in T : y \in Nat /\ x \in Nat
  OBVIOUS
<1> HIDE DEF R
<1> QED BY <1>4, <1>5

LEMMA SetInduction ==
  ASSUME NEW T, 0 \in T, \A n \in Nat : n \in T => n + 1 \in T
  PROVE  \A n \in Nat : n \in T
<1>1. SUFFICES ASSUME NEW q \in Nat, q \notin T PROVE FALSE
  OBVIOUS
<1> DEFINE U == {n \in Nat : n \notin T}
<1>2. PICK m \in U : \A k \in U : m <= k
  <2>1. q \in U /\ U \in SUBSET Nat
    BY <1>1
  <2> HIDE DEF U
  <2> QED BY <2>1, Least
<1>3. m \in Nat /\ m # 0 /\ m - 1 \in Nat /\ m \notin T
  OBVIOUS
<1>4. m - 1 \in T
  BY <1>2, <1>3
<1> QED BY <1>3, <1>4

-------------------------------------------------------------------------------
(***************************************************************************)
(* Total: the recursive function is defined, and the total follows the     *)
(* sequence as it grows at one end and shrinks at the other.               *)
(***************************************************************************)
SumStep(numbers, F, i) == IF i = 0 THEN 0 ELSE F[i - 1] + numbers[i]

LEMMA SumExists ==
  ASSUME NEW numbers, NEW n \in Nat
  PROVE  \E F : F = [i \in 0..n |-> SumStep(numbers, F, i)]
<1> DEFINE T == {m \in Nat : \E F : F = [i \in 0..m |-> SumStep(numbers, F, i)]}
<1>1. 0 \in T
  <2> DEFINE F == [i \in 0..0 |-> 0]
  <2>1. F = [i \in 0..0 |-> SumStep(numbers, F, i)]
    BY DEF SumStep
  <2> QED BY <2>1
<1>2. ASSUME NEW m \in Nat, m \in T PROVE m + 1 \in T
  <2>1. PICK F : F = [i \in 0..m |-> SumStep(numbers, F, i)]
    BY <1>2
  <2> DEFINE G == [i \in 0..(m + 1) |-> IF i <= m THEN F[i] ELSE SumStep(numbers, F, i)]
  <2>2. \A i \in 0..m : G[i] = F[i]
    OBVIOUS
  <2>3. ASSUME NEW i \in 0..(m + 1) PROVE G[i] = SumStep(numbers, G, i)
    <3>1. i # 0 => i - 1 \in 0..m
      BY <2>3
    <3>2. SumStep(numbers, G, i) = SumStep(numbers, F, i)
      BY <2>2, <3>1 DEF SumStep
    <3>3. CASE i <= m
      <4>1. i \in 0..m
        BY <2>3, <3>3
      <4>2. F[i] = SumStep(numbers, F, i)
        BY <2>1, <4>1
      <4> QED BY <2>2, <3>2, <4>1, <4>2
    <3>4. CASE ~(i <= m)
      BY <3>2, <3>4
    <3> QED BY <3>3, <3>4
  <2>4. G = [i \in 0..(m + 1) |-> SumStep(numbers, G, i)]
    <3>1. G = [i \in 0..(m + 1) |-> G[i]]
      OBVIOUS
    <3> HIDE DEF G
    <3> QED BY <2>3, <3>1
  <2> HIDE DEF G
  <2>5. \E H : H = [i \in 0..(m + 1) |-> SumStep(numbers, H, i)]
    BY <2>4
  <2> QED BY <2>5
<1> HIDE DEF T
<1>3. n \in T
  BY <1>1, <1>2, SetInduction
<1> QED BY <1>3 DEF T

\* Total has the running sums its definition speaks of.
LEMMA TotalSums ==
  ASSUME NEW numbers, Len(numbers) \in Nat
  PROVE  \E F : /\ Total(numbers) = F[Len(numbers)] /\ F[0] = 0
                /\ \A i \in 1..Len(numbers) : F[i] = F[i - 1] + numbers[i]
<1> DEFINE K == CHOOSE F : F = [i \in 0..Len(numbers) |-> SumStep(numbers, F, i)]
<1>1. K = [i \in 0..Len(numbers) |-> SumStep(numbers, K, i)]
  BY SumExists
<1>2. Total(numbers) = K[Len(numbers)]
  BY DEF Total, SumStep
<1> HIDE DEF K
<1>3. K[0] = 0
  BY <1>1 DEF SumStep
<1>4. ASSUME NEW i \in 1..Len(numbers) PROVE K[i] = K[i - 1] + numbers[i]
  <2>1. i \in 0..Len(numbers) /\ i # 0
    OBVIOUS
  <2>2. K[i] = SumStep(numbers, K, i)
    BY <1>1, <2>1
  <2> QED BY <2>1, <2>2 DEF SumStep
<1> QED BY <1>2, <1>3, <1>4

Sums(F, numbers, n) == \A i \in 1..n : numbers[i] \in Nat /\ F[i] = F[i - 1] + numbers[i]

\* Running sums over the same numbers keep their distance.
LEMMA SumsAgree ==
  ASSUME NEW n \in Nat, NEW c \in Nat, NEW F, NEW G, NEW X,
         G[0] \in Nat, F[0] = c + G[0],
         Sums(F, X, n), Sums(G, X, n)
  PROVE  G[n] \in Nat /\ F[n] = c + G[n]
<1> DEFINE T == {i \in Nat : i <= n => G[i] \in Nat /\ F[i] = c + G[i]}
<1>1. 0 \in T
  OBVIOUS
<1>2. ASSUME NEW i \in Nat, i \in T PROVE i + 1 \in T
  <2> SUFFICES ASSUME i + 1 <= n PROVE G[i + 1] \in Nat /\ F[i + 1] = c + G[i + 1]
    OBVIOUS
  <2>1. G[i] \in Nat /\ F[i] = c + G[i]
    BY <1>2
  <2>2. i + 1 \in 1..n /\ (i + 1) - 1 = i
    OBVIOUS
  <2>3. X[i + 1] \in Nat /\ F[i + 1] = F[i] + X[i + 1] /\ G[i + 1] = G[i] + X[i + 1]
    BY <2>2 DEF Sums
  <2> QED BY <2>1, <2>3
<1> HIDE DEF T
<1>3. n \in T
  BY <1>1, <1>2, SetInduction
<1> QED BY <1>3 DEF T

LEMMA TotalEmpty ==
  ASSUME NEW numbers \in Seq(Nat), Len(numbers) = 0
  PROVE  Total(numbers) = 0
BY TotalSums

LEMMA TotalNat ==
  ASSUME NEW s \in Seq(Nat)
  PROVE  Total(s) \in Nat
<1>1. Len(s) \in Nat /\ \A i \in 1..Len(s) : s[i] \in Nat
  BY LenProperties, ElementOfSeq
<1>2. PICK F : /\ Total(s) = F[Len(s)] /\ F[0] = 0
               /\ \A i \in 1..Len(s) : F[i] = F[i - 1] + s[i]
  BY <1>1, TotalSums
<1>3. F[Len(s)] \in Nat
  <2>1. F[0] \in Nat /\ F[0] = 0 + F[0]
    BY <1>2
  <2>2. Sums(F, s, Len(s))
    BY <1>1, <1>2 DEF Sums
  <2>3. Len(s) \in Nat /\ 0 \in Nat
    BY <1>1
  <2> QED BY <2>1, <2>2, <2>3, SumsAgree
<1> QED BY <1>2, <1>3

LEMMA TotalAppend ==
  ASSUME NEW s \in Seq(Nat), NEW r \in Seq(Nat), Len(r) = Len(s) + 1,
         \A i \in 1..Len(s) : r[i] = s[i]
  PROVE  Total(r) = Total(s) + r[Len(r)]
<1>1. /\ Len(s) \in Nat /\ Len(r) \in Nat /\ \A i \in 1..Len(r) : r[i] \in Nat
      /\ \A i \in 1..Len(s) : s[i] \in Nat
  BY LenProperties, ElementOfSeq
<1>2. PICK F : /\ Total(s) = F[Len(s)] /\ F[0] = 0
               /\ \A i \in 1..Len(s) : F[i] = F[i - 1] + s[i]
  BY <1>1, TotalSums
<1>3. PICK G : /\ Total(r) = G[Len(r)] /\ G[0] = 0
               /\ \A i \in 1..Len(r) : G[i] = G[i - 1] + r[i]
  BY <1>1, TotalSums
<1>4. G[Len(s)] = 0 + F[Len(s)] /\ F[Len(s)] \in Nat
  <2>1. Sums(F, s, Len(s)) /\ Sums(G, s, Len(s))
    BY <1>1, <1>2, <1>3 DEF Sums
  <2>2. F[0] \in Nat /\ G[0] = 0 + F[0]
    BY <1>2, <1>3
  <2>3. Len(s) \in Nat /\ 0 \in Nat
    BY <1>1
  <2> QED BY <2>1, <2>2, <2>3, SumsAgree
<1>5. G[Len(r)] = G[Len(s)] + r[Len(r)]
  BY <1>1, <1>3
<1> QED BY <1>1, <1>2, <1>3, <1>4, <1>5

LEMMA TotalTail ==
  ASSUME NEW s \in Seq(Nat), NEW t \in Seq(Nat), Len(s) = Len(t) + 1,
         \A i \in 1..Len(t) : t[i] = s[i + 1]
  PROVE  Total(s) = s[1] + Total(t) /\ s[1] \in Nat
<1>1. /\ Len(t) \in Nat /\ Len(s) \in Nat /\ \A i \in 1..Len(s) : s[i] \in Nat
      /\ \A i \in 1..Len(t) : t[i] \in Nat
  BY LenProperties, ElementOfSeq
<1>2. PICK F : /\ Total(s) = F[Len(s)] /\ F[0] = 0
               /\ \A i \in 1..Len(s) : F[i] = F[i - 1] + s[i]
  BY <1>1, TotalSums
<1>3. PICK G : /\ Total(t) = G[Len(t)] /\ G[0] = 0
               /\ \A i \in 1..Len(t) : G[i] = G[i - 1] + t[i]
  BY <1>1, TotalSums
<1> DEFINE H == [i \in 0..Len(t) |-> F[i + 1]]
<1>4. /\ \A i \in 0..Len(t) : H[i] = F[i + 1]
      /\ 0 \in 0..Len(t) /\ Len(t) \in 0..Len(t)
      /\ \A i \in 1..Len(t) : i - 1 \in 0..Len(t) /\ i \in 0..Len(t) /\ i + 1 \in 1..Len(s)
                              /\ (i - 1) + 1 = i /\ (i + 1) - 1 = i
  BY <1>1
<1> HIDE DEF H
<1>5. s[1] \in Nat /\ H[0] = s[1] + G[0] /\ G[0] \in Nat
  <2>1. 1 \in 1..Len(s)
    BY <1>1
  <2>2. F[1] = F[0] + s[1] /\ s[1] \in Nat
    BY <1>1, <1>2, <2>1
  <2>3. H[0] = F[1]
    BY <1>4
  <2> QED BY <1>2, <1>3, <2>2, <2>3
<1>6. Sums(H, t, Len(t)) /\ Sums(G, t, Len(t))
  <2> SUFFICES ASSUME NEW i \in 1..Len(t)
               PROVE  t[i] \in Nat /\ H[i] = H[i - 1] + t[i] /\ G[i] = G[i - 1] + t[i]
    BY DEF Sums
  <2>1. H[i] = F[i + 1] /\ H[i - 1] = F[i]
    BY <1>4
  <2>2. F[i + 1] = F[i] + s[i + 1]
    BY <1>2, <1>4
  <2> QED BY <1>1, <1>3, <2>1, <2>2
<1>7. G[Len(t)] \in Nat /\ H[Len(t)] = s[1] + G[Len(t)]
  <2>1. Len(t) \in Nat
    BY <1>1
  <2> QED BY <1>5, <1>6, <2>1, SumsAgree
<1>8. H[Len(t)] = F[Len(s)]
  BY <1>1, <1>4
<1> QED BY <1>2, <1>3, <1>5, <1>7, <1>8

-------------------------------------------------------------------------------
(***************************************************************************)
(* Credit under way: the sums the invariant speaks of.                     *)
(***************************************************************************)
LEMMA Constants ==
  /\ MaxRequestN \in Nat /\ MaxRequestN > 0 /\ MaxSafe \in Nat /\ MaxRequestN <= MaxSafe
  /\ Unbounded \in Nat /\ Unbounded > MaxSafe
  /\ \A n \in Demands : n \in Nat /\ n > 0 /\ (n <= MaxSafe \/ n = Unbounded)
BY DemandAssumption DEF Unbounded

LEMMA FrameFacts ==
  \A f \in UpFrames : /\ f.n \in Nat /\ f.n <= MaxRequestN /\ f.n \in 0..MaxRequestN
                      /\ f.type \in {"REQUEST_STREAM", "REQUEST_N", "CANCEL"}
BY Constants DEF UpFrames

CreditOf(frames) == [i \in DOMAIN frames |-> frames[i].n]

LEMMA CreditOfFrames ==
  ASSUME NEW s \in Seq(UpFrames)
  PROVE  /\ CreditOf(s) \in Seq(Nat) /\ Len(CreditOf(s)) = Len(s) /\ Len(s) \in Nat
         /\ \A i \in 1..Len(s) : CreditOf(s)[i] = s[i].n /\ s[i].n \in 0..MaxRequestN
         /\ Credits(s) = Total(CreditOf(s))
<1>1. Len(s) \in Nat /\ DOMAIN s = 1..Len(s) /\ \A i \in 1..Len(s) : s[i] \in UpFrames
  BY LenProperties, ElementOfSeq
<1>2. \A i \in 1..Len(s) : s[i].n \in 0..MaxRequestN /\ s[i].n \in Nat
  BY <1>1, Constants DEF UpFrames
<1>3. CreditOf(s) = [i \in 1..Len(s) |-> s[i].n]
  BY <1>1 DEF CreditOf
<1>4. CreditOf(s) \in Seq(Nat) /\ Len(CreditOf(s)) = Len(s)
  BY <1>1, <1>2, <1>3
<1> QED BY <1>1, <1>2, <1>3, <1>4 DEF Credits, CreditOf

LEMMA CreditsNat ==
  ASSUME NEW s \in Seq(UpFrames)
  PROVE  Credits(s) \in Nat
BY CreditOfFrames, TotalNat

LEMMA CreditsEmpty == Credits(<<>>) = 0
<1>1. <<>> \in Seq(UpFrames) /\ Len(<<>>) = 0
  BY EmptySeq
<1> QED BY <1>1, CreditOfFrames, TotalEmpty

LEMMA CreditsAppend ==
  ASSUME NEW s \in Seq(UpFrames), NEW f \in UpFrames
  PROVE  Credits(Append(s, f)) = Credits(s) + f.n /\ f.n \in 0..MaxRequestN
<1> DEFINE r == Append(s, f)
<1>1. /\ r \in Seq(UpFrames) /\ Len(r) = Len(s) + 1 /\ r[Len(s) + 1] = f
      /\ \A i \in 1..Len(s) : r[i] = s[i]
  BY AppendProperties
<1> HIDE DEF r
<1>2. /\ CreditOf(s) \in Seq(Nat) /\ Len(CreditOf(s)) = Len(s) /\ Len(s) \in Nat
      /\ \A i \in 1..Len(s) : CreditOf(s)[i] = s[i].n
      /\ Credits(s) = Total(CreditOf(s))
  BY CreditOfFrames
<1>3. /\ CreditOf(r) \in Seq(Nat) /\ Len(CreditOf(r)) = Len(r)
      /\ \A i \in 1..Len(r) : CreditOf(r)[i] = r[i].n /\ r[i].n \in 0..MaxRequestN
      /\ Credits(r) = Total(CreditOf(r))
  BY <1>1, CreditOfFrames
<1>4. /\ Len(CreditOf(r)) = Len(CreditOf(s)) + 1
      /\ \A i \in 1..Len(CreditOf(s)) : CreditOf(r)[i] = CreditOf(s)[i]
      /\ CreditOf(r)[Len(CreditOf(r))] = f.n /\ f.n \in 0..MaxRequestN
  <2>1. Len(r) \in 1..Len(r) /\ \A i \in 1..Len(s) : i \in 1..Len(r)
    BY <1>1, <1>2
  <2> QED BY <1>1, <1>2, <1>3, <2>1
<1>5. Total(CreditOf(r)) = Total(CreditOf(s)) + CreditOf(r)[Len(CreditOf(r))]
  BY <1>2, <1>3, <1>4, TotalAppend
<1> QED BY <1>2, <1>3, <1>4, <1>5 DEF r

LEMMA CreditsTail ==
  ASSUME NEW s \in Seq(UpFrames), s # <<>>
  PROVE  /\ Tail(s) \in Seq(UpFrames) /\ Head(s) = s[1] /\ Head(s) \in UpFrames
         /\ Credits(s) = Head(s).n + Credits(Tail(s))
<1> DEFINE t == Tail(s)
<1>1. /\ t \in Seq(UpFrames) /\ Len(t) = Len(s) - 1 /\ Len(s) \in Nat /\ Len(s) # 0
      /\ \A i \in 1..Len(t) : t[i] = s[i + 1]
      /\ Head(s) \in UpFrames
  BY HeadTailProperties, LenProperties, EmptySeq
<1>2. Head(s) = s[1]
  BY <1>1
<1> HIDE DEF t
<1>3. /\ CreditOf(s) \in Seq(Nat) /\ Len(CreditOf(s)) = Len(s)
      /\ \A i \in 1..Len(s) : CreditOf(s)[i] = s[i].n
      /\ Credits(s) = Total(CreditOf(s))
  BY CreditOfFrames
<1>4. /\ CreditOf(t) \in Seq(Nat) /\ Len(CreditOf(t)) = Len(t) /\ Len(t) \in Nat
      /\ \A i \in 1..Len(t) : CreditOf(t)[i] = t[i].n
      /\ Credits(t) = Total(CreditOf(t))
  BY <1>1, CreditOfFrames
<1>5. Len(CreditOf(s)) = Len(CreditOf(t)) + 1 /\ 1 \in 1..Len(s)
  BY <1>1, <1>3, <1>4
<1>6. \A i \in 1..Len(CreditOf(t)) : CreditOf(t)[i] = CreditOf(s)[i + 1]
  <2> SUFFICES ASSUME NEW i \in 1..Len(t) PROVE CreditOf(t)[i] = CreditOf(s)[i + 1]
    BY <1>4
  <2>1. i + 1 \in 1..Len(s)
    BY <1>1, <1>4
  <2> QED BY <1>1, <1>3, <1>4, <2>1
<1>7. Total(CreditOf(s)) = CreditOf(s)[1] + Total(CreditOf(t))
  BY <1>3, <1>4, <1>5, <1>6, TotalTail
<1> QED BY <1>1, <1>2, <1>3, <1>4, <1>5, <1>7 DEF t

\* Nexts, for any queue.
NextOf(queue) == [i \in DOMAIN queue |-> IF queue[i] = "NEXT" THEN 1 ELSE 0]
NextsOf(queue) == Total(NextOf(queue))

LEMMA NextsIsNextsOf == Nexts = NextsOf(down) /\ Nexts' = NextsOf(down')
BY DEF Nexts, NextsOf, NextOf

LEMMA NextOfFrames ==
  ASSUME NEW q \in Seq(DownFrames)
  PROVE  /\ NextOf(q) \in Seq(Nat) /\ Len(NextOf(q)) = Len(q) /\ Len(q) \in Nat
         /\ \A i \in 1..Len(q) : NextOf(q)[i] = IF q[i] = "NEXT" THEN 1 ELSE 0
<1>1. Len(q) \in Nat /\ DOMAIN q = 1..Len(q)
  BY LenProperties
<1>2. NextOf(q) = [i \in 1..Len(q) |-> IF q[i] = "NEXT" THEN 1 ELSE 0]
  BY <1>1 DEF NextOf
<1>3. NextOf(q) \in Seq(Nat) /\ Len(NextOf(q)) = Len(q)
  BY <1>1, <1>2
<1> QED BY <1>1, <1>2, <1>3

LEMMA NextsNat ==
  ASSUME NEW q \in Seq(DownFrames)
  PROVE  NextsOf(q) \in Nat
BY NextOfFrames, TotalNat DEF NextsOf

LEMMA NextsEmpty == NextsOf(<<>>) = 0
<1>1. <<>> \in Seq(DownFrames) /\ Len(<<>>) = 0
  BY EmptySeq
<1> QED BY <1>1, NextOfFrames, TotalEmpty DEF NextsOf

LEMMA NextsAppend ==
  ASSUME NEW q \in Seq(DownFrames), NEW f \in DownFrames
  PROVE  /\ Append(q, f) \in Seq(DownFrames)
         /\ NextsOf(Append(q, f)) = NextsOf(q) + IF f = "NEXT" THEN 1 ELSE 0
<1> DEFINE r == Append(q, f)
<1>1. /\ r \in Seq(DownFrames) /\ Len(r) = Len(q) + 1 /\ r[Len(q) + 1] = f
      /\ \A i \in 1..Len(q) : r[i] = q[i]
  BY AppendProperties
<1> HIDE DEF r
<1>2. /\ NextOf(q) \in Seq(Nat) /\ Len(NextOf(q)) = Len(q) /\ Len(q) \in Nat
      /\ \A i \in 1..Len(q) : NextOf(q)[i] = IF q[i] = "NEXT" THEN 1 ELSE 0
  BY NextOfFrames
<1>3. /\ NextOf(r) \in Seq(Nat) /\ Len(NextOf(r)) = Len(r)
      /\ \A i \in 1..Len(r) : NextOf(r)[i] = IF r[i] = "NEXT" THEN 1 ELSE 0
  BY <1>1, NextOfFrames
<1>4. /\ Len(NextOf(r)) = Len(NextOf(q)) + 1
      /\ \A i \in 1..Len(NextOf(q)) : NextOf(r)[i] = NextOf(q)[i]
      /\ NextOf(r)[Len(NextOf(r))] = IF f = "NEXT" THEN 1 ELSE 0
  <2>1. Len(r) \in 1..Len(r) /\ \A i \in 1..Len(q) : i \in 1..Len(r)
    BY <1>1, <1>2
  <2> QED BY <1>1, <1>2, <1>3, <2>1
<1>5. Total(NextOf(r)) = Total(NextOf(q)) + NextOf(r)[Len(NextOf(r))]
  BY <1>2, <1>3, <1>4, TotalAppend
<1> QED BY <1>1, <1>4, <1>5 DEF r, NextsOf

LEMMA NextsTail ==
  ASSUME NEW q \in Seq(DownFrames), q # <<>>
  PROVE  /\ Tail(q) \in Seq(DownFrames) /\ Head(q) = q[1] /\ Head(q) \in DownFrames
         /\ Len(Tail(q)) = Len(q) - 1 /\ Len(q) \in Nat /\ Len(q) > 0
         /\ \A i \in 1..Len(Tail(q)) : Tail(q)[i] = q[i + 1] /\ i + 1 \in 1..Len(q)
         /\ NextsOf(q) = NextsOf(Tail(q)) + IF Head(q) = "NEXT" THEN 1 ELSE 0
<1> DEFINE t == Tail(q)
<1>1. /\ t \in Seq(DownFrames) /\ Len(t) = Len(q) - 1 /\ Len(q) \in Nat /\ Len(q) # 0
      /\ \A i \in 1..Len(t) : t[i] = q[i + 1]
      /\ Head(q) \in DownFrames
  BY HeadTailProperties, LenProperties, EmptySeq
<1>2. Head(q) = q[1]
  BY <1>1
<1> HIDE DEF t
<1>3. /\ NextOf(q) \in Seq(Nat) /\ Len(NextOf(q)) = Len(q)
      /\ \A i \in 1..Len(q) : NextOf(q)[i] = IF q[i] = "NEXT" THEN 1 ELSE 0
  BY NextOfFrames
<1>4. /\ NextOf(t) \in Seq(Nat) /\ Len(NextOf(t)) = Len(t) /\ Len(t) \in Nat
      /\ \A i \in 1..Len(t) : NextOf(t)[i] = IF t[i] = "NEXT" THEN 1 ELSE 0
  BY <1>1, NextOfFrames
<1>5. Len(NextOf(q)) = Len(NextOf(t)) + 1 /\ 1 \in 1..Len(q)
  BY <1>1, <1>3, <1>4
<1>6. \A i \in 1..Len(t) : i + 1 \in 1..Len(q)
  BY <1>1
<1>7. \A i \in 1..Len(NextOf(t)) : NextOf(t)[i] = NextOf(q)[i + 1]
  BY <1>1, <1>3, <1>4, <1>6
<1>8. Total(NextOf(q)) = NextOf(q)[1] + Total(NextOf(t)) /\ NextOf(q)[1] \in Nat
  BY <1>3, <1>4, <1>5, <1>7, TotalTail
<1>9. NextsOf(q) = NextsOf(t) + IF Head(q) = "NEXT" THEN 1 ELSE 0
  <2>1. Total(NextOf(t)) \in Nat
    BY <1>4, TotalNat
  <2>2. NextOf(q)[1] = IF Head(q) = "NEXT" THEN 1 ELSE 0
    BY <1>2, <1>3, <1>5
  <2> QED BY <1>8, <2>1, <2>2 DEF NextsOf
<1> QED BY <1>1, <1>2, <1>6, <1>9 DEF t

-------------------------------------------------------------------------------
(***************************************************************************)
(* What Send does to the frames under way: a REQUEST_N is appended or      *)
(* merged into the last one, a CANCEL is last or has withdrawn the request. *)
(***************************************************************************)
LEMMA FrontAndLast ==
  ASSUME NEW S, NEW s \in Seq(S), s # <<>>
  PROVE  /\ Front(s) \in Seq(S) /\ Last(s) \in S /\ s = Append(Front(s), Last(s))
         /\ Len(s) = Len(Front(s)) + 1 /\ Len(Front(s)) \in Nat
<1>1. PICK b \in Seq(S), l \in S : s = Append(b, l)
  BY SequenceEmptyOrAppend
<1>2. /\ Len(b) \in Nat /\ Len(s) = Len(b) + 1 /\ s[Len(b) + 1] = l
      /\ \A i \in 1..Len(b) : s[i] = b[i] /\ b[i] \in S
  BY <1>1, AppendProperties, LenProperties, ElementOfSeq
<1>3. Last(s) = l
  BY <1>2 DEF Last
<1>4. Front(s) = b
  <2>1. Front(s) = SubSeq(s, 1, Len(b))
    BY <1>2 DEF Front
  <2>2. \A i \in 1..Len(b) : s[i] \in S
    BY <1>2
  <2>3. 1 \in Int /\ Len(b) \in Int
    BY <1>2
  <2>4. /\ SubSeq(s, 1, Len(b)) \in Seq(S)
        /\ Len(SubSeq(s, 1, Len(b))) = IF 1 <= Len(b) THEN Len(b) - 1 + 1 ELSE 0
        /\ \A i \in 1..(Len(b) - 1 + 1) : SubSeq(s, 1, Len(b))[i] = s[1 + i - 1]
    BY <2>2, <2>3, SubSeqProperties
  <2> DEFINE r == SubSeq(s, 1, Len(b))
  <2>5. r \in Seq(S) /\ Len(r) = Len(b) /\ \A i \in 1..Len(b) : r[i] = b[i]
    BY <1>2, <2>4
  <2> HIDE DEF r
  <2>6. r = b
    BY <2>5, SeqEqual
  <2> QED BY <2>1, <2>6 DEF r
<1> QED BY <1>1, <1>2, <1>3, <1>4

LEMMA ConcatAppend ==
  ASSUME NEW S, NEW s \in Seq(S), NEW t \in Seq(S), NEW f \in S
  PROVE  s \o Append(t, f) = Append(s \o t, f) /\ Append(t, f) \in Seq(S)
<1>1. <<f>> \in Seq(S) /\ s \o t \in Seq(S)
  BY ConcatProperties
<1>2. Append(t, f) = t \o <<f>> /\ Append(s \o t, f) = (s \o t) \o <<f>>
  BY <1>1, AppendIsConcat
<1>3. (s \o t) \o <<f>> = s \o (t \o <<f>>)
  BY <1>1, ConcatAssociative
<1> QED BY <1>2, <1>3, AppendProperties

\* One more frame, on its own or merged into a REQUEST_N that was last.
Merged(o, f, o2) ==
  \E b \in Seq(UpFrames), l \in UpFrames :
    /\ o = Append(b, l) /\ l.type = "REQUEST_N" /\ f.type = "REQUEST_N"
    /\ l.n + f.n \in 0..MaxRequestN
    /\ o2 = Append(b, RequestN(l.n + f.n))

Grown(o, f, o2) == o2 = Append(o, f) \/ Merged(o, f, o2)

NoCancel(frames) == \A i \in 1..Len(frames) : frames[i].type # "CANCEL"
RequestFirst(frames) == \A i \in 1..Len(frames) : frames[i].type = "REQUEST_STREAM" => i = 1

LEMMA QueuedDemand ==
  ASSUME NEW p \in Seq(UpFrames), NEW f \in UpFrames, Held(p), NoCancel(p),
         f.type # "CANCEL", f.type = "REQUEST_STREAM" => p = <<>>,
         p # <<>> => Last(p).n + f.n <= MaxRequestN
  PROVE  Grown(p, f, Queued(p, f)) /\ Held(Queued(p, f)) /\ Queued(p, f) \in Seq(UpFrames)
<1>1. f.type \in {"REQUEST_STREAM", "REQUEST_N"} /\ f.n \in Nat
  BY Constants DEF UpFrames
<1>2. CASE p = <<>>
  <2>1. Queued(p, f) = Append(p, f)
    BY <1>1, <1>2 DEF Queued
  <2>2. Append(p, f) \in Seq(UpFrames) /\ Len(Append(p, f)) = 1
    BY <1>2, AppendProperties, EmptySeq
  <2> QED BY <2>1, <2>2 DEF Grown, Held
<1>3. CASE p # <<>>
  <2> DEFINE b == Front(p)
             l == Last(p)
  <2>1. /\ b \in Seq(UpFrames) /\ l \in UpFrames /\ p = Append(b, l)
        /\ Len(p) = Len(b) + 1 /\ Len(b) \in Nat /\ l = p[Len(p)]
    BY <1>3, FrontAndLast DEF Last
  <2>2. /\ f.type = "REQUEST_N" /\ l.type \in {"REQUEST_STREAM", "REQUEST_N"}
        /\ l.n \in Nat /\ l.n + f.n <= MaxRequestN
    <3>1. Len(p) \in 1..Len(p)
      BY <2>1
    <3>2. l.type # "CANCEL"
      BY <2>1, <3>1 DEF NoCancel
    <3>3. l.type \in {"REQUEST_STREAM", "REQUEST_N", "CANCEL"} /\ l.n \in Nat
      BY <2>1, Constants DEF UpFrames
    <3> QED BY <1>1, <1>3, <3>2, <3>3
  <2>3. CASE l.type = "REQUEST_N"
    <3> DEFINE m == RequestN(l.n + f.n)
               r == Append(b, m)
    <3>1. l.n + f.n \in 0..MaxRequestN /\ m \in UpFrames /\ m.type = "REQUEST_N"
      <4>1. l.n + f.n \in 0..MaxRequestN
        BY <1>1, <2>2, Constants
      <4> QED BY <4>1 DEF UpFrames, RequestN
    <3>2. Queued(p, f) = r
      <4>1. Smaller(MaxRequestN, l.n + f.n) = l.n + f.n
        BY <3>1, Constants DEF Smaller
      <4> QED BY <1>3, <2>2, <2>3, <4>1 DEF Queued
    <3>3. Merged(p, f, r)
      BY <2>1, <2>2, <2>3, <3>1 DEF Merged
    <3> HIDE DEF b, l, m
    <3>4. /\ r \in Seq(UpFrames) /\ Len(r) = Len(p) /\ r[Len(p)] = m
          /\ \A i \in 1..Len(b) : r[i] = b[i]
      BY <2>1, <3>1, AppendProperties
    <3>5. \A i \in 1..Len(b) : p[i] = b[i]
      BY <2>1, AppendProperties
    <3> HIDE DEF r
    <3>6. Held(r)
      <4>1. CASE Len(p) <= 1
        BY <3>4, <4>1 DEF Held
      <4>2. CASE Len(p) = 2 /\ p[1].type = "REQUEST_STREAM"
        <5>1. 1 \in 1..Len(b)
          BY <2>1, <4>2
        <5>2. r[1] = p[1] /\ r[2].type = "REQUEST_N"
          BY <3>1, <3>4, <3>5, <4>2, <5>1
        <5> QED BY <3>4, <4>2, <5>2 DEF Held
      <4> QED BY <4>1, <4>2 DEF Held
    <3> QED BY <3>2, <3>3, <3>4, <3>6 DEF Grown
  <2>4. CASE l.type = "REQUEST_STREAM"
    <3>1. Queued(p, f) = Append(p, f)
      BY <1>3, <2>2, <2>4 DEF Queued
    <3>2. Len(p) = 1
      <4>1. l = p[Len(p)] /\ Len(p) \in Nat /\ Len(p) # 0
        BY <2>1
      <4> HIDE DEF l, b
      <4>2. Len(p) = 2 => p[2].type = "REQUEST_N"
        BY DEF Held
      <4>3. Len(p) # 2
        BY <2>4, <4>1, <4>2
      <4>4. Len(p) <= 1 \/ Len(p) = 2
        BY Zenon DEF Held
      <4>5. \A n \in Nat : n # 0 /\ n # 2 /\ (n <= 1 \/ n = 2) => n = 1
        OBVIOUS
      <4> QED BY <4>1, <4>3, <4>4, <4>5
    <3> DEFINE r == Append(p, f)
    <3>3. /\ r \in Seq(UpFrames) /\ Len(r) = 2 /\ r[2] = f /\ r[1] = p[1]
      <4>1. /\ r \in Seq(UpFrames) /\ Len(r) = Len(p) + 1 /\ r[Len(p) + 1] = f
            /\ \A i \in 1..Len(p) : r[i] = p[i]
        BY AppendProperties
      <4> HIDE DEF r
      <4> QED BY <3>2, <4>1
    <3>4. p[1].type = "REQUEST_STREAM"
      BY <2>1, <2>4, <3>2
    <3> HIDE DEF r
    <3>5. Held(r)
      BY <2>2, <3>3, <3>4 DEF Held
    <3> QED BY <3>1, <3>3, <3>5 DEF Grown, r
  <2> QED BY <2>2, <2>3, <2>4
<1> QED BY <1>2, <1>3

\* What is behind other frames grows with them.
LEMMA ConcatGrown ==
  ASSUME NEW u \in Seq(UpFrames), NEW p \in Seq(UpFrames), NEW f \in UpFrames,
         NEW p2, Grown(p, f, p2)
  PROVE  Grown(u \o p, f, u \o p2)
<1>1. CASE p2 = Append(p, f)
  BY <1>1, ConcatAppend DEF Grown
<1>2. CASE Merged(p, f, p2)
  <2>1. PICK b \in Seq(UpFrames), l \in UpFrames :
          /\ p = Append(b, l) /\ l.type = "REQUEST_N" /\ f.type = "REQUEST_N"
          /\ l.n + f.n \in 0..MaxRequestN
          /\ p2 = Append(b, RequestN(l.n + f.n))
    BY <1>2 DEF Merged
  <2> DEFINE m == RequestN(l.n + f.n)
             c == u \o b
  <2>2. m \in UpFrames
    BY <2>1 DEF UpFrames, RequestN
  <2>3. c \in Seq(UpFrames)
    BY ConcatProperties
  <2> HIDE DEF m
  <2>4. u \o p = Append(c, l) /\ u \o Append(b, m) = Append(c, m)
    BY <2>1, <2>2, ConcatAppend
  <2> HIDE DEF c
  <2>5. Merged(u \o p, f, Append(c, m))
    BY <2>1, <2>3, <2>4 DEF Merged, m
  <2> QED BY <2>1, <2>4, <2>5 DEF Grown, m
<1> QED BY <1>1, <1>2 DEF Grown

LEMMA GrownLaw ==
  ASSUME NEW o \in Seq(UpFrames), NEW f \in UpFrames, NEW o2, Grown(o, f, o2),
         NoCancel(o), RequestFirst(o), f.type # "CANCEL",
         f.type = "REQUEST_STREAM" => o = <<>>
  PROVE  /\ o2 \in Seq(UpFrames) /\ Credits(o2) = Credits(o) + f.n
         /\ NoCancel(o2) /\ RequestFirst(o2)
         /\ o2 # <<>> /\ o2[1].type = IF o = <<>> THEN f.type ELSE o[1].type
<1>1. CASE o2 = Append(o, f)
  <2>1. /\ o2 \in Seq(UpFrames) /\ o2 # <<>> /\ Len(o2) = Len(o) + 1 /\ Len(o) \in Nat
        /\ o2[Len(o) + 1] = f /\ \A i \in 1..Len(o) : o2[i] = o[i]
    BY <1>1, AppendProperties, LenProperties
  <2>2. Credits(o2) = Credits(o) + f.n
    BY <1>1, CreditsAppend
  <2>3. \A i \in 1..Len(o2) : i \in 1..Len(o) \/ i = Len(o) + 1
    BY <2>1
  <2>4. NoCancel(o2)
    BY <2>1, <2>3 DEF NoCancel
  <2>5. (o = <<>> => Len(o) = 0) /\ (o # <<>> => Len(o) # 0)
    BY EmptySeq
  <2>6. RequestFirst(o2)
    BY <2>1, <2>3, <2>5 DEF RequestFirst
  <2>7. o2[1].type = IF o = <<>> THEN f.type ELSE o[1].type
    <3>1. CASE o = <<>>
      BY <2>1, <2>5, <3>1
    <3>2. CASE o # <<>>
      <4>1. 1 \in 1..Len(o)
        BY <2>1, <2>5, <3>2
      <4> QED BY <2>1, <3>2, <4>1
    <3> QED BY <3>1, <3>2
  <2> QED BY <2>1, <2>2, <2>4, <2>6, <2>7
<1>2. CASE Merged(o, f, o2)
  <2>1. PICK b \in Seq(UpFrames), l \in UpFrames :
          /\ o = Append(b, l) /\ l.type = "REQUEST_N" /\ f.type = "REQUEST_N"
          /\ l.n + f.n \in 0..MaxRequestN
          /\ o2 = Append(b, RequestN(l.n + f.n))
    BY <1>2 DEF Merged
  <2> DEFINE m == RequestN(l.n + f.n)
  <2>2. m \in UpFrames /\ m.type = "REQUEST_N" /\ m.n = l.n + f.n
    BY <2>1 DEF UpFrames, RequestN
  <2> HIDE DEF m
  <2>3. Credits(o) = Credits(b) + l.n /\ Credits(o2) = Credits(b) + m.n
    BY <2>1, <2>2, CreditsAppend DEF m
  <2>4. Credits(o2) = Credits(o) + f.n
    <3>1. Credits(b) \in Nat /\ l.n \in Nat /\ f.n \in Nat
      BY CreditsNat, FrameFacts
    <3> QED BY <2>2, <2>3, <3>1
  <2>5. /\ o2 \in Seq(UpFrames) /\ o2 # <<>> /\ Len(o2) = Len(b) + 1 /\ Len(b) \in Nat
        /\ o2[Len(b) + 1] = m /\ \A i \in 1..Len(b) : o2[i] = b[i]
    BY <2>1, <2>2, AppendProperties, LenProperties DEF m
  <2>6. /\ o # <<>> /\ Len(o) = Len(b) + 1
        /\ o[Len(b) + 1] = l /\ \A i \in 1..Len(b) : o[i] = b[i]
    BY <2>1, AppendProperties
  <2>7. /\ \A i \in 1..Len(o2) : i \in 1..Len(b) \/ i = Len(b) + 1
        /\ \A i \in 1..Len(b) : i \in 1..Len(o)
        /\ 1 \in 1..Len(o2) /\ 1 \in 1..Len(o)
    BY <2>5, <2>6
  <2>8. \A i \in 1..Len(o2) : o2[i].type = o[i].type /\ i \in 1..Len(o)
    BY <2>1, <2>2, <2>5, <2>6, <2>7
  <2>9. NoCancel(o2) /\ RequestFirst(o2)
    BY <2>8 DEF NoCancel, RequestFirst
  <2> QED BY <2>4, <2>5, <2>6, <2>7, <2>8, <2>9
<1> QED BY <1>1, <1>2 DEF Grown

\* Ordered, without the variables it mentions.
LEMMA OrderedParts ==
  ASSUME NEW o \in Seq(UpFrames)
  PROVE  /\ Ordered(o) => RequestFirst(o)
         /\ Ordered(o) /\ status = "open" => NoCancel(o)
         /\ RequestFirst(o) /\ NoCancel(o) =>
              (Ordered(o) <=> stage = "none" \/ \A i \in 1..Len(o) : o[i].type # "REQUEST_STREAM")
BY DEF Ordered, RequestFirst, NoCancel

LEMMA OutgoingType ==
  ASSUME Types
  PROVE  outgoing \in Seq(UpFrames) /\ Credits(outgoing) \in Nat
<1>1. outgoing \in Seq(UpFrames)
  BY ConcatProperties DEF Types, outgoing
<1> QED BY <1>1, CreditsNat

SessionTypes ==
  /\ session \in {"active", "lost", "handshake"} /\ losses \in 0..MaxLosses
  /\ up \in Seq(UpFrames) /\ pendingFrames \in Seq(UpFrames) /\ Held(pendingFrames)
  /\ session = "active" => pendingFrames = <<>>

LEMMA LossBounded ==
  ASSUME Types, LoseTransport
  PROVE  losses' \in 0..MaxLosses /\ session' = "lost"
BY DemandAssumption DEF Types, LoseTransport

LEMMA SendDemand ==
  ASSUME Types, QueueInv, NEW f \in UpFrames, f.type # "CANCEL",
         f.type = "REQUEST_STREAM" => outgoing = <<>>,
         NoCancel(outgoing), RequestFirst(outgoing),
         Credits(outgoing) + f.n <= MaxRequestN, Send(f)
  PROVE  /\ SessionTypes'
         /\ Credits(outgoing') = Credits(outgoing) + f.n
         /\ NoCancel(outgoing') /\ RequestFirst(outgoing') /\ outgoing' # <<>>
         /\ outgoing'[1].type = IF outgoing = <<>> THEN f.type ELSE outgoing[1].type
<1>1. /\ up \in Seq(UpFrames) /\ pendingFrames \in Seq(UpFrames)
      /\ outgoing \in Seq(UpFrames) /\ outgoing = up \o pendingFrames
      /\ outgoing' = up' \o pendingFrames'
  BY OutgoingType DEF Types, outgoing
<1> DEFINE o2 == up' \o pendingFrames'
<1>2. SUFFICES SessionTypes' /\ Grown(outgoing, f, o2)
  <2> HIDE DEF o2
  <2>1. Grown(outgoing, f, o2) =>
          /\ Credits(o2) = Credits(outgoing) + f.n
          /\ NoCancel(o2) /\ RequestFirst(o2) /\ o2 # <<>>
          /\ o2[1].type = IF outgoing = <<>> THEN f.type ELSE outgoing[1].type
    <3>1. outgoing \in Seq(UpFrames)
      BY <1>1
    <3> DEFINE o == outgoing
    <3>2. /\ o \in Seq(UpFrames) /\ NoCancel(o) /\ RequestFirst(o)
          /\ f.type = "REQUEST_STREAM" => o = <<>>
      BY <3>1
    <3> HIDE DEF o
    <3>3. Grown(o, f, o2) =>
          /\ Credits(o2) = Credits(o) + f.n
          /\ NoCancel(o2) /\ RequestFirst(o2) /\ o2 # <<>>
          /\ o2[1].type = IF o = <<>> THEN f.type ELSE o[1].type
      BY <3>2, GrownLaw
    <3> QED BY <3>3 DEF o
  <2> QED BY <1>1, <2>1 DEF o2
<1>3. /\ NoCancel(pendingFrames)
      /\ f.type = "REQUEST_STREAM" => pendingFrames = <<>>
      /\ pendingFrames # <<>> => Last(pendingFrames).n + f.n <= MaxRequestN
  <2>1. NoCancel(pendingFrames)
    <3>1. /\ Len(outgoing) = Len(up) + Len(pendingFrames) /\ Len(up) \in Nat /\ Len(pendingFrames) \in Nat
          /\ \A i \in 1..(Len(up) + Len(pendingFrames)) :
               outgoing[i] = IF i <= Len(up) THEN up[i] ELSE pendingFrames[i - Len(up)]
      BY <1>1, ConcatProperties, LenProperties
    <3>2. SUFFICES ASSUME NEW i \in 1..Len(pendingFrames) PROVE pendingFrames[i].type # "CANCEL"
      BY DEF NoCancel
    <3> DEFINE j == Len(up) + i
    <3>3. j \in 1..(Len(up) + Len(pendingFrames)) /\ ~(j <= Len(up)) /\ j - Len(up) = i
      BY <3>1
    <3> HIDE DEF j
    <3>4. outgoing[j] = pendingFrames[i] /\ j \in 1..Len(outgoing)
      BY <3>1, <3>3
    <3> QED BY <3>4 DEF NoCancel
  <2>2. f.type = "REQUEST_STREAM" => pendingFrames = <<>>
    BY <1>1, ConcatEqualIffEmpty, ConcatSimplifications
  <2>3. ASSUME pendingFrames # <<>> PROVE Last(pendingFrames).n + f.n <= MaxRequestN
    <3> DEFINE b == Front(pendingFrames)
               l == Last(pendingFrames)
               c == up \o b
    <3>1. b \in Seq(UpFrames) /\ l \in UpFrames /\ pendingFrames = Append(b, l)
      BY <1>1, <2>3, FrontAndLast
    <3> HIDE DEF b, l
    <3>2. c \in Seq(UpFrames) /\ outgoing = Append(c, l)
      BY <1>1, <3>1, ConcatAppend, ConcatProperties
    <3> HIDE DEF c
    <3>3. Credits(outgoing) = Credits(c) + l.n /\ Credits(c) \in Nat
      BY <3>1, <3>2, CreditsAppend, CreditsNat
    <3>4. l.n \in Nat /\ f.n \in Nat
      BY <3>1, Constants DEF UpFrames
    <3> QED BY <3>3, <3>4, Constants DEF l
  <2> QED BY <2>1, <2>2, <2>3
<1> DEFINE q == Queued(pendingFrames, f)
<1>4. Grown(pendingFrames, f, q) /\ Held(q) /\ q \in Seq(UpFrames)
  BY <1>1, <1>3, QueuedDemand DEF QueueInv
<1>5. Grown(outgoing, f, up \o q)
  <2> HIDE DEF q
  <2> QED BY <1>1, <1>4, ConcatGrown
<1>6. losses \in 0..MaxLosses
  BY DEF Types
<1>7. CASE /\ session \in {"lost", "handshake"}
           /\ pendingFrames' = Queued(pendingFrames, f)
           /\ UNCHANGED <<session, losses, up>>
  BY <1>1, <1>4, <1>5, <1>6, <1>7 DEF SessionTypes
<1>8. CASE /\ session = "active"
           /\ up' = Append(up, f)
           /\ UNCHANGED pendingFrames
           /\ LoseTransport \/ UNCHANGED <<session, losses>>
  <2>1. pendingFrames = <<>>
    BY <1>8 DEF QueueInv
  <2>2. outgoing = up /\ outgoing' = up' /\ up' \in Seq(UpFrames)
    BY <1>1, <1>8, <2>1, ConcatEmptySeq, AppendProperties
  <2>3. losses' \in 0..MaxLosses /\ session' \in {"active", "lost", "handshake"}
    BY <1>6, <1>8, LossBounded
  <2>4. SessionTypes'
    BY <1>1, <1>8, <2>1, <2>2, <2>3, EmptySeq DEF SessionTypes, Held
  <2>5. o2 = Append(outgoing, f)
    BY <1>1, <1>8, <2>2
  <2> HIDE DEF o2
  <2> QED BY <2>4, <2>5 DEF Grown
<1>9. CASE /\ session = "active"
           /\ LoseTransport
           /\ pendingFrames' = Queued(pendingFrames, f)
           /\ UNCHANGED up
  BY <1>1, <1>4, <1>5, <1>9, LossBounded DEF SessionTypes
<1> QED BY <1>7, <1>8, <1>9 DEF Send

\* Up is the beginning of what is under way.
LEMMA UpIsFirst ==
  ASSUME NEW u \in Seq(UpFrames), NEW p \in Seq(UpFrames)
  PROVE  /\ u \o p \in Seq(UpFrames) /\ Len(u \o p) = Len(u) + Len(p)
         /\ Len(u) \in Nat /\ Len(p) \in Nat
         /\ \A i \in 1..Len(u) : (u \o p)[i] = u[i] /\ i \in 1..Len(u \o p)
         /\ \A i \in 1..Len(p) : (u \o p)[Len(u) + i] = p[i] /\ Len(u) + i \in 1..Len(u \o p)
<1>1. /\ u \o p \in Seq(UpFrames) /\ Len(u \o p) = Len(u) + Len(p)
      /\ \A i \in 1..(Len(u) + Len(p)) : (u \o p)[i] = IF i <= Len(u) THEN u[i] ELSE p[i - Len(u)]
  BY ConcatProperties
<1>2. Len(u) \in Nat /\ Len(p) \in Nat
  BY LenProperties
<1> DEFINE o == u \o p
<1> HIDE DEF o
<1>3. /\ o \in Seq(UpFrames) /\ Len(o) = Len(u) + Len(p)
      /\ \A i \in 1..(Len(u) + Len(p)) : o[i] = IF i <= Len(u) THEN u[i] ELSE p[i - Len(u)]
  BY <1>1 DEF o
<1>4. /\ \A i \in 1..Len(u) : i \in 1..(Len(u) + Len(p)) /\ i <= Len(u)
      /\ \A i \in 1..Len(p) : /\ Len(u) + i \in 1..(Len(u) + Len(p)) /\ ~(Len(u) + i <= Len(u))
                              /\ (Len(u) + i) - Len(u) = i
  BY <1>2
<1>5. \A i \in 1..Len(u) : o[i] = u[i] /\ i \in 1..Len(o)
  BY <1>3, <1>4
<1>6. \A i \in 1..Len(p) : o[Len(u) + i] = p[i] /\ Len(u) + i \in 1..Len(o)
  BY <1>3, <1>4
<1> QED BY <1>2, <1>3, <1>5, <1>6 DEF o

LEMMA CreditsDropped ==
  ASSUME NEW u \in Seq(UpFrames), NEW p \in Seq(UpFrames), Held(p)
  PROVE  Credits(u) <= Credits(u \o p) /\ Credits(u) \in Nat
<1>1. Credits(u) \in Nat
  BY CreditsNat
<1>2. ASSUME NEW b \in Seq(UpFrames), NEW l \in UpFrames
      PROVE  Credits(u \o Append(b, l)) = Credits(u \o b) + l.n /\ l.n \in Nat
             /\ Credits(u \o b) \in Nat
  <2> DEFINE c == u \o b
  <2>1. c \in Seq(UpFrames)
    BY ConcatProperties
  <2>2. u \o Append(b, l) = Append(c, l)
    BY ConcatAppend
  <2> HIDE DEF c
  <2>3. Credits(Append(c, l)) = Credits(c) + l.n /\ Credits(c) \in Nat /\ l.n \in Nat
    BY <2>1, CreditsAppend, CreditsNat, FrameFacts
  <2> QED BY <2>2, <2>3 DEF c
<1>3. u \o <<>> = u
  BY ConcatEmptySeq
<1>4. CASE p = <<>>
  BY <1>1, <1>3, <1>4
<1>5. CASE p # <<>>
  <2>1. PICK b \in Seq(UpFrames), l \in UpFrames : p = Append(b, l)
    BY <1>5, SequenceEmptyOrAppend
  <2>2. Len(p) = Len(b) + 1 /\ Len(b) \in Nat
    BY <2>1, AppendProperties, LenProperties
  <2>3. Credits(u \o p) = Credits(u \o b) + l.n /\ l.n \in Nat /\ Credits(u \o b) \in Nat
    BY <1>2, <2>1
  <2>4. CASE b = <<>>
    BY <1>1, <1>3, <2>3, <2>4
  <2>5. CASE b # <<>>
    <3>1. PICK b2 \in Seq(UpFrames), l2 \in UpFrames : b = Append(b2, l2)
      BY <2>5, SequenceEmptyOrAppend
    <3>2. Len(b) = Len(b2) + 1 /\ Len(b2) \in Nat
      BY <3>1, AppendProperties, LenProperties
    <3>3. b2 = <<>>
      <4>1. Len(p) <= 2
        BY <2>2 DEF Held
      <4>2. Len(b2) = 0
        BY <2>2, <3>2, <4>1
      <4> QED BY <4>2, EmptySeq
    <3>4. Credits(u \o b) = Credits(u) + l2.n /\ l2.n \in Nat
      BY <1>2, <1>3, <3>1, <3>3
    <3> QED BY <1>1, <2>3, <3>4
  <2> QED BY <2>4, <2>5
<1> QED BY <1>4, <1>5

\* A CANCEL ends what is under way, or has withdrawn a request that was
\* never sent, and then there is nothing.
Ended(frames) ==
  /\ \A i \in 1..Len(frames) :
       /\ frames[i].type = "REQUEST_STREAM" => i = 1 /\ stage = "none"
       /\ frames[i].type = "CANCEL" => i = Len(frames)
  /\ \/ frames = <<>> /\ stage = "none"
     \/ frames # <<>> /\ Last(frames) = Cancelling

LEMMA CancelFrame == Cancelling \in UpFrames /\ Cancelling.n = 0 /\ Cancelling.type = "CANCEL"
<1>1. 0 \in 0..MaxRequestN
  BY Constants
<1> QED BY <1>1 DEF Cancelling, UpFrames

LEMMA SendCancel ==
  ASSUME Types, QueueInv, RequestInv, status = "open", Send(Cancelling)
  PROVE  /\ SessionTypes' /\ Ended(outgoing')
         /\ Credits(outgoing') <= Credits(outgoing) /\ Credits(outgoing') \in Nat
<1>1. /\ up \in Seq(UpFrames) /\ pendingFrames \in Seq(UpFrames)
      /\ outgoing \in Seq(UpFrames) /\ outgoing = up \o pendingFrames
      /\ outgoing' = up' \o pendingFrames' /\ Held(pendingFrames)
      /\ losses \in 0..MaxLosses
  BY OutgoingType DEF Types, outgoing, QueueInv
<1> DEFINE o == outgoing
           r == Append(up, Cancelling)
<1>2. /\ o \in Seq(UpFrames) /\ Len(o) = Len(up) + Len(pendingFrames)
      /\ Len(up) \in Nat /\ Len(pendingFrames) \in Nat
      /\ \A i \in 1..Len(up) : o[i] = up[i] /\ i \in 1..Len(o)
      /\ \A i \in 1..Len(pendingFrames) :
           o[Len(up) + i] = pendingFrames[i] /\ Len(up) + i \in 1..Len(o)
  BY <1>1, UpIsFirst
<1>3. \A i \in 1..Len(o) : /\ o[i].type = "REQUEST_STREAM" => i = 1 /\ stage = "none"
                           /\ o[i].type # "CANCEL"
  BY DEF RequestInv, Ordered
<1>4. Credits(up) <= Credits(o) /\ Credits(up) \in Nat
  BY <1>1, CreditsDropped
<1>5. r \in Seq(UpFrames) /\ Credits(r) = Credits(up) /\ Ended(r)
  <2>1. /\ r \in Seq(UpFrames) /\ r # <<>> /\ Len(r) = Len(up) + 1 /\ r[Len(up) + 1] = Cancelling
        /\ \A i \in 1..Len(up) : r[i] = up[i]
    BY <1>1, AppendProperties, CancelFrame
  <2>2. Credits(r) = Credits(up) + 0
    BY <1>1, CreditsAppend, CancelFrame
  <2> HIDE DEF r, o
  <2>3. Last(r) = Cancelling
    BY <2>1 DEF Last
  <2>4. \A i \in 1..Len(r) : i \in 1..Len(up) \/ i = Len(r)
    BY <1>2, <2>1
  <2>5. \A i \in 1..Len(up) : r[i] = o[i] /\ i \in 1..Len(o)
    BY <1>2, <2>1
  <2>6. r[Len(r)].type = "CANCEL"
    BY <2>1, CancelFrame
  <2>7. ASSUME NEW i \in 1..Len(r)
        PROVE  /\ r[i].type = "REQUEST_STREAM" => i = 1 /\ stage = "none"
               /\ r[i].type = "CANCEL" => i = Len(r)
    BY <1>3, <2>4, <2>5, <2>6
  <2> QED BY <1>4, <2>1, <2>2, <2>3, <2>7 DEF Ended
<1>6. CASE outgoing' = r /\ SessionTypes'
  <2> HIDE DEF r
  <2> QED BY <1>4, <1>5, <1>6
<1>7. Queued(pendingFrames, Cancelling)
        = IF \E i \in 1..Len(pendingFrames) : pendingFrames[i].type = "REQUEST_STREAM"
          THEN <<>> ELSE <<Cancelling>>
  <2>1. DOMAIN pendingFrames = 1..Len(pendingFrames)
    BY <1>1, LenProperties
  <2> QED BY <2>1, CancelFrame DEF Queued
<1>8. /\ <<Cancelling>> \in Seq(UpFrames) /\ Held(<<Cancelling>>) /\ up \o <<Cancelling>> = r
      /\ <<>> \in Seq(UpFrames) /\ Held(<<>>) /\ up \o <<>> = up
  <2>1. <<Cancelling>> \in Seq(UpFrames) /\ <<>> \in Seq(UpFrames)
    BY CancelFrame
  <2>2. up \o <<Cancelling>> = r /\ up \o <<>> = up
    BY <1>1, CancelFrame, AppendIsConcat, ConcatEmptySeq
  <2>3. Len(<<Cancelling>>) = 1 /\ Len(<<>>) = 0
    OBVIOUS
  <2> QED BY <2>1, <2>2, <2>3 DEF Held
<1>9. CASE /\ session \in {"lost", "handshake"}
           /\ pendingFrames' = Queued(pendingFrames, Cancelling)
           /\ UNCHANGED <<session, losses, up>>
  <2>1. CASE \E i \in 1..Len(pendingFrames) : pendingFrames[i].type = "REQUEST_STREAM"
    <3>1. PICK i \in 1..Len(pendingFrames) : pendingFrames[i].type = "REQUEST_STREAM"
      BY <2>1
    <3>2. Len(up) + i = 1 /\ stage = "none"
      <4> HIDE DEF o
      <4> QED BY <1>2, <1>3, <3>1
    <3>3. up = <<>>
      <4>1. Len(up) = 0
        BY <1>2, <3>2
      <4> QED BY <1>1, <4>1, EmptySeq
    <3>4. pendingFrames' = <<>> /\ up' = <<>> /\ outgoing' = <<>>
      BY <1>1, <1>7, <1>8, <1>9, <2>1, <3>3
    <3>5. SessionTypes'
      BY <1>1, <1>8, <1>9, <3>4 DEF SessionTypes
    <3>6. Ended(<<>>) /\ Credits(<<>>) = 0
      BY <3>2, CreditsEmpty DEF Ended
    <3>7. Credits(outgoing) \in Nat
      BY <1>1, CreditsNat
    <3>8. \A n \in Nat : 0 <= n /\ 0 \in Nat
      OBVIOUS
    <3> HIDE DEF o
    <3> QED BY <3>4, <3>5, <3>6, <3>7, <3>8
  <2>2. CASE ~\E i \in 1..Len(pendingFrames) : pendingFrames[i].type = "REQUEST_STREAM"
    <3>1. pendingFrames' = <<Cancelling>> /\ up' = up
      BY <1>7, <1>9, <2>2
    <3>2. outgoing' = r
      BY <1>1, <1>8, <3>1
    <3>3. SessionTypes'
      BY <1>1, <1>8, <1>9, <3>1 DEF SessionTypes
    <3> QED BY <1>6, <3>2, <3>3
  <2> QED BY <2>1, <2>2
<1>10. CASE /\ session = "active"
            /\ up' = Append(up, Cancelling)
            /\ UNCHANGED pendingFrames
            /\ LoseTransport \/ UNCHANGED <<session, losses>>
  <2>1. pendingFrames = <<>>
    BY <1>10 DEF QueueInv
  <2>2. outgoing' = r
    BY <1>1, <1>5, <1>10, <2>1, ConcatEmptySeq
  <2>3. losses' \in 0..MaxLosses /\ session' \in {"active", "lost", "handshake"}
    BY <1>1, <1>10, LossBounded
  <2>4. up' \in Seq(UpFrames)
    BY <1>5, <1>10
  <2>5. SessionTypes'
    BY <1>8, <1>10, <2>1, <2>3, <2>4 DEF SessionTypes
  <2> QED BY <1>6, <2>2, <2>5
<1>11. CASE /\ session = "active"
            /\ LoseTransport
            /\ pendingFrames' = Queued(pendingFrames, Cancelling)
            /\ UNCHANGED up
  <2>1. pendingFrames = <<>>
    BY <1>11 DEF QueueInv
  <2>2. pendingFrames' = <<Cancelling>>
    <3>1. ~\E i \in 1..Len(pendingFrames) : pendingFrames[i].type = "REQUEST_STREAM"
      BY <2>1, EmptySeq
    <3> QED BY <1>7, <1>11, <3>1
  <2>3. outgoing' = r
    BY <1>1, <1>8, <1>11, <2>2
  <2>4. SessionTypes'
    BY <1>1, <1>8, <1>11, <2>2, LossBounded DEF SessionTypes
  <2> QED BY <1>6, <2>3, <2>4
<1> QED BY <1>9, <1>10, <1>11 DEF Send

-------------------------------------------------------------------------------
(***************************************************************************)
(* The inductive invariant, action by action.                              *)
(***************************************************************************)
LEMMA Numbers ==
  ASSUME Types
  PROVE  /\ Credits(outgoing) \in Nat /\ Nexts \in Nat /\ requested \in Nat
         /\ wireRequested \in Nat /\ wireRequested <= MaxRequestN
         /\ reserved \in Nat /\ demand \in Nat /\ owed \in Nat /\ pendingUpstreamDemand \in Nat
<1>1. Credits(outgoing) \in Nat
  BY OutgoingType
<1>2. Nexts \in Nat
  <2>1. NextsOf(down) \in Nat
    BY NextsNat DEF Types
  <2> QED BY <2>1, NextsIsNextsOf
<1>3. requested \in Nat
  BY Constants DEF Types
<1>4. wireRequested \in Nat /\ wireRequested <= MaxRequestN
  BY Constants DEF Types
<1>5. reserved \in Nat /\ demand \in Nat /\ owed \in Nat /\ pendingUpstreamDemand \in Nat
  BY Constants DEF Types
<1> QED BY <1>1, <1>2, <1>3, <1>4, <1>5

LEMMA InitHolds == Init => IInv
<1> SUFFICES ASSUME Init PROVE IInv
  OBVIOUS
<1> USE DEF Init
<1>1. <<>> \in Seq(UpFrames) /\ <<>> \in Seq(DownFrames) /\ Len(<<>>) = 0
  BY EmptySeq
<1>2. outgoing = <<>>
  BY <1>1, ConcatEmptySeq DEF outgoing
<1>3. Types
  <2>1. 0 \in 0..MaxSafe /\ 0 \in 0..MaxRequestN /\ 0 \in 0..MaxLosses /\ 0 \in 0..MaxCalls /\ 0 \in 0..Items
    BY DemandAssumption
  <2> QED BY <1>1, <2>1 DEF Types
<1>4. QueueInv
  BY <1>1 DEF QueueInv, Held
<1>5. RequestInv
  BY <1>1, <1>2 DEF RequestInv, Ordered
<1>6. CreditInv
  <2>1. Credits(outgoing) = 0 /\ Nexts = 0
    BY <1>2, CreditsEmpty, NextsEmpty, NextsIsNextsOf
  <2> QED BY <2>1 DEF CreditInv, Credit
<1>7. PublisherInv /\ CancelInv
  BY DEF PublisherInv, CancelInv
<1> QED BY <1>3, <1>4, <1>5, <1>6, <1>7 DEF IInv

\* What is under way stays, wherever it waits.
LEMMA SameFrames ==
  ASSUME IInv, session # "over", SessionTypes', outgoing' = outgoing,
         UNCHANGED <<subscription, responder, down>>
  PROVE  IInv'
<1>1. /\ calls' = calls /\ status' = status /\ delivering' = delivering
      /\ requested' = requested /\ wireRequested' = wireRequested
      /\ pendingUpstreamDemand' = pendingUpstreamDemand /\ requesting' = requesting
      /\ owed' = owed /\ stage' = stage /\ reserved' = reserved /\ demand' = demand
      /\ emitted' = emitted /\ down' = down
  BY DEF subscription, responder, upstream
<1>2. Types'
  BY <1>1 DEF IInv, Types, SessionTypes
<1>3. QueueInv'
  BY DEF SessionTypes, QueueInv
<1>4. RequestInv'
  BY <1>1 DEF IInv, RequestInv, Ordered
<1>5. CreditInv'
  <2>1. Nexts' = Nexts
    BY <1>1, NextsIsNextsOf
  <2>2. Credit' = Credit
    BY <1>1, <2>1 DEF Credit
  <2> QED BY <1>1, <2>2 DEF IInv, CreditInv
<1>6. PublisherInv'
  BY <1>1 DEF IInv, PublisherInv
<1>7. CancelInv'
  BY <1>1 DEF IInv, CancelInv, WillRun
<1> QED BY <1>2, <1>3, <1>4, <1>5, <1>6, <1>7 DEF IInv

LEMMA StepSession ==
  ASSUME IInv, TransportLost \/ BeginResume \/ FinishResume
  PROVE  IInv'
<1>1. /\ up \in Seq(UpFrames) /\ pendingFrames \in Seq(UpFrames) /\ losses \in 0..MaxLosses
      /\ Held(pendingFrames) /\ outgoing = up \o pendingFrames
      /\ outgoing' = up' \o pendingFrames'
  BY DEF IInv, Types, QueueInv, outgoing
<1>2. CASE TransportLost
  <2>1. /\ session' = "lost" /\ losses' \in 0..MaxLosses /\ session # "over"
        /\ up' = up /\ pendingFrames' = pendingFrames
        /\ UNCHANGED <<subscription, responder, down>>
    BY <1>2, LossBounded DEF TransportLost, IInv
  <2>2. SessionTypes' /\ outgoing' = outgoing
    BY <1>1, <2>1 DEF SessionTypes
  <2> QED BY <2>1, <2>2, SameFrames
<1>3. CASE BeginResume
  <2>1. /\ session' = "handshake" /\ losses' = losses /\ session # "over"
        /\ up' = up /\ pendingFrames' = pendingFrames
        /\ UNCHANGED <<subscription, responder, down>>
    BY <1>3 DEF BeginResume
  <2>2. SessionTypes' /\ outgoing' = outgoing
    BY <1>1, <2>1 DEF SessionTypes
  <2> QED BY <2>1, <2>2, SameFrames
<1>4. CASE FinishResume
  <2>1. session # "over" /\ UNCHANGED <<subscription, responder, down>>
    BY <1>4 DEF FinishResume
  <2>2. CASE /\ session' = "active"
             /\ up' = up \o pendingFrames
             /\ pendingFrames' = <<>>
             /\ UNCHANGED losses
    <3>1. up' \in Seq(UpFrames) /\ <<>> \in Seq(UpFrames) /\ Len(<<>>) = 0
      BY <1>1, <2>2, ConcatProperties, EmptySeq
    <3>2. outgoing' = outgoing
      BY <1>1, <2>2, <3>1, ConcatEmptySeq
    <3>3. SessionTypes'
      BY <1>1, <2>2, <3>1 DEF SessionTypes, Held
    <3> QED BY <2>1, <3>2, <3>3, SameFrames
  <2>3. CASE /\ LoseTransport
             /\ \E k \in 0..Len(pendingFrames) :
                  /\ up' = up \o SubSeq(pendingFrames, 1, k)
                  /\ pendingFrames' = SubSeq(pendingFrames, k + 1, Len(pendingFrames))
    <3>1. PICK k \in 0..Len(pendingFrames) :
            /\ up' = up \o SubSeq(pendingFrames, 1, k)
            /\ pendingFrames' = SubSeq(pendingFrames, k + 1, Len(pendingFrames))
      BY <2>3
    <3> DEFINE a == SubSeq(pendingFrames, 1, k)
               b == SubSeq(pendingFrames, k + 1, Len(pendingFrames))
    <3>2. /\ Len(pendingFrames) \in Nat /\ k \in Nat /\ k <= Len(pendingFrames)
          /\ \A i \in 1..Len(pendingFrames) : pendingFrames[i] \in UpFrames
      BY <1>1, LenProperties, ElementOfSeq
    <3>3. a \in Seq(UpFrames)
      <4>1. \A i \in 1..k : pendingFrames[i] \in UpFrames
        BY <3>2
      <4>2. 1 \in Int /\ k \in Int
        BY <3>2
      <4> QED BY <4>1, <4>2, SubSeqProperties
    <3>4. /\ b \in Seq(UpFrames)
          /\ Len(b) = IF k + 1 <= Len(pendingFrames) THEN Len(pendingFrames) - (k + 1) + 1 ELSE 0
      <4>1. \A i \in (k + 1)..Len(pendingFrames) : pendingFrames[i] \in UpFrames
        BY <3>2
      <4>2. k + 1 \in Int /\ Len(pendingFrames) \in Int
        BY <3>2
      <4> QED BY <4>1, <4>2, SubSeqProperties
    <3>5. a \o b = pendingFrames
      <4> DEFINE m == Len(pendingFrames)
      <4>1. 1 \in 1..(m + 1) /\ k \in (1 - 1)..m /\ m \in k..m
        BY <3>2
      <4>2. SubSeq(pendingFrames, 1, k) \o SubSeq(pendingFrames, k + 1, m) = SubSeq(pendingFrames, 1, m)
        BY <1>1, <4>1, ConcatAdjacentSubSeq
      <4> QED BY <1>1, <4>2, SubSeqFull
    <3>6. Held(b)
      <4>1. CASE k = 0
        <5>1. b = pendingFrames
          BY <1>1, <4>1, SubSeqFull
        <5> QED BY <1>1, <5>1
      <4>2. CASE k # 0
        <5>1. Len(pendingFrames) <= 2
          <6>1. Len(pendingFrames) <= 1 \/ Len(pendingFrames) = 2
            BY <1>1, Zenon DEF Held
          <6>2. \A n \in Nat : n <= 1 \/ n = 2 => n <= 2
            OBVIOUS
          <6> QED BY <3>2, <6>1, <6>2
        <5>2. Len(b) <= 1
          BY <3>2, <3>4, <4>2, <5>1
        <5> QED BY <5>2 DEF Held
      <4> QED BY <4>1, <4>2
    <3>7. up' = up \o a /\ pendingFrames' = b
      BY <3>1
    <3> HIDE DEF a, b
    <3>8. outgoing' = outgoing /\ up' \in Seq(UpFrames)
      <4>1. (up \o a) \o b = up \o (a \o b)
        <5>1. up \in Seq(UpFrames) /\ a \in Seq(UpFrames) /\ b \in Seq(UpFrames)
          BY <1>1, <3>3, <3>4
        <5> QED BY <5>1, ConcatAssociative
      <4>2. up \o a \in Seq(UpFrames)
        BY <1>1, <3>3, ConcatProperties
      <4> QED BY <1>1, <3>5, <3>7, <4>1, <4>2
    <3>9. session' = "lost" /\ losses' \in 0..MaxLosses
      BY <2>3, LossBounded DEF IInv
    <3>10. SessionTypes'
      BY <3>4, <3>6, <3>7, <3>8, <3>9 DEF SessionTypes
    <3> QED BY <2>1, <3>8, <3>10, SameFrames
  <2> QED BY <1>4, <2>2, <2>3 DEF FinishResume
<1> QED BY <1>2, <1>3, <1>4

LEMMA TerminateHolds ==
  ASSUME IInv, TerminateSession,
         UNCHANGED <<calls, delivering, requested, wireRequested, responder>>
  PROVE  IInv'
<1>1. /\ calls' = calls /\ delivering' = delivering /\ losses' = losses
      /\ requested' = requested /\ wireRequested' = wireRequested
      /\ pendingUpstreamDemand' = pendingUpstreamDemand /\ requesting' = requesting
      /\ owed' = owed /\ stage' = stage /\ reserved' = reserved /\ demand' = demand
      /\ emitted' = emitted /\ session' = "over" /\ down' = <<>> /\ pendingFrames' = <<>>
      /\ up' = up /\ status' = IF status = "open" THEN "failed" ELSE status
  BY DEF TerminateSession, responder, upstream
<1>2. /\ up \in Seq(UpFrames) /\ pendingFrames \in Seq(UpFrames) /\ Held(pendingFrames)
      /\ <<>> \in Seq(UpFrames) /\ <<>> \in Seq(DownFrames) /\ Len(<<>>) = 0
  BY EmptySeq DEF IInv, Types, QueueInv
<1>3. status' # "open" /\ (status' = "idle" => status = "idle")
  BY <1>1
<1>4. outgoing = up \o pendingFrames /\ outgoing' = up
  BY <1>1, <1>2, ConcatEmptySeq DEF outgoing
<1>5. Types'
  <2>1. Types
    BY DEF IInv
  <2> QED BY <1>1, <1>2, <2>1 DEF Types
<1>6. QueueInv'
  BY <1>1, <1>2, <1>3 DEF QueueInv, Held
<1>7. RequestInv'
  <2> DEFINE o == outgoing
  <2>1. /\ Len(o) = Len(up) + Len(pendingFrames) /\ Len(up) \in Nat /\ Len(pendingFrames) \in Nat
        /\ \A i \in 1..Len(up) : o[i] = up[i] /\ i \in 1..Len(o)
    BY <1>2, <1>4, UpIsFirst
  <2>2. \A i \in 1..Len(o) : /\ o[i].type = "REQUEST_STREAM" => i = 1 /\ stage = "none"
                             /\ o[i].type = "CANCEL" => i = Len(o)
    BY DEF IInv, RequestInv, Ordered
  <2>3. status = "idle" => /\ o = <<>> /\ stage = "none" /\ requested = 0 /\ wireRequested = 0
    BY DEF IInv, RequestInv
  <2>4. stage = "none" => demand = 0 /\ reserved = 0
    BY DEF IInv, RequestInv
  <2>5. o = <<>> => up = <<>>
    BY <1>2, <1>4, ConcatEqualIffEmpty, ConcatSimplifications
  <2> HIDE DEF o
  <2>6. ASSUME NEW i \in 1..Len(up)
        PROVE  /\ up[i].type = "REQUEST_STREAM" => i = 1 /\ stage = "none"
               /\ up[i].type = "CANCEL" => i = Len(up)
    <3>1. /\ up[i].type = "REQUEST_STREAM" => i = 1 /\ stage = "none"
          /\ up[i].type = "CANCEL" => i = Len(o)
      BY <2>1, <2>2
    <3>2. i = Len(o) => i = Len(up)
      BY <2>1
    <3> QED BY <3>1, <3>2
  <2>7. Ordered(outgoing)'
    BY <1>1, <1>3, <1>4, <2>6 DEF Ordered
  <2> QED BY <1>1, <1>2, <1>3, <1>4, <2>3, <2>4, <2>5, <2>7 DEF RequestInv
<1>8. CreditInv'
  <2>1. Credits(up) <= Credits(outgoing) /\ Credits(up) \in Nat
    BY <1>2, <1>4, CreditsDropped
  <2>2. Nexts' = 0
    BY <1>1, NextsEmpty, NextsIsNextsOf
  <2> DEFINE c == Credits(outgoing)
             d == Credits(up)
             n == Nexts
  <2>3. /\ c \in Nat /\ n \in Nat /\ reserved \in Nat /\ demand \in Nat /\ wireRequested \in Nat
        /\ c + reserved + demand + n <= wireRequested /\ wireRequested <= requested
    BY Numbers DEF IInv, CreditInv, Credit
  <2>4. d <= c /\ d \in Nat /\ Credit' = d + reserved + demand + 0
    BY <1>1, <1>4, <2>1, <2>2 DEF Credit
  <2> HIDE DEF c, d, n
  <2>5. Credit' <= wireRequested
    BY <2>3, <2>4
  <2> QED BY <1>1, <1>3, <2>3, <2>5 DEF CreditInv
<1>9. PublisherInv'
  BY <1>1 DEF IInv, PublisherInv
<1>10. CancelInv'
  BY <1>1 DEF CancelInv
<1> QED BY <1>5, <1>6, <1>7, <1>8, <1>9, <1>10 DEF IInv

LEMMA AddsExactly ==
  ASSUME NEW a \in Nat, NEW b \in Nat, a + b <= MaxSafe
  PROVE  AddReactiveDemand(a, b) = a + b /\ AddReactiveDemand(a, b) \in 0..MaxSafe
<1>1. a # Unbounded /\ b # Unbounded
  BY Constants
<1>2. a + b \in 0..MaxSafe /\ (b >= MaxSafe - a => a + b = MaxSafe)
  BY Constants
<1>3. Unbounded \notin {a, b}
  BY <1>1
<1>4. AddReactiveDemand(a, b) = IF b >= MaxSafe - a THEN MaxSafe ELSE a + b
  BY <1>3 DEF AddReactiveDemand
<1>5. AddReactiveDemand(a, b) = a + b
  BY <1>2, <1>4
<1> QED BY <1>2, <1>5

LEMMA Demanded ==
  ASSUME Types, NEW n \in Demands
  PROVE  /\ AddReactiveDemand(requested, n) \in 0..MaxSafe \cup {Unbounded}
         /\ requested <= AddReactiveDemand(requested, n)
         /\ AddReactiveDemand(requested, n) \in Nat
<1>1. /\ requested \in Nat /\ (requested <= MaxSafe \/ requested = Unbounded)
      /\ n \in Nat /\ (n <= MaxSafe \/ n = Unbounded) /\ MaxSafe \in Nat
      /\ Unbounded \in Nat /\ Unbounded > MaxSafe
  BY Constants DEF Types
<1>2. CASE requested = Unbounded \/ n = Unbounded
  <2>1. AddReactiveDemand(requested, n) = Unbounded
    BY <1>2 DEF AddReactiveDemand
  <2>2. requested <= Unbounded
    BY <1>1
  <2> QED BY <1>1, <2>1, <2>2
<1>3. CASE ~(requested = Unbounded \/ n = Unbounded)
  <2>1. AddReactiveDemand(requested, n)
          = IF n >= MaxSafe - requested THEN MaxSafe ELSE requested + n
    BY <1>3 DEF AddReactiveDemand
  <2>2. requested <= MaxSafe /\ (~(n >= MaxSafe - requested) => requested + n <= MaxSafe)
    BY <1>1, <1>3
  <2> QED BY <1>1, <2>1, <2>2
<1> QED BY <1>2, <1>3

\* More demand goes out as one frame, as far as one frame's credit allows.
LEMMA Granted ==
  ASSUME IInv, status = "open", calls' \in 0..MaxCalls, delivering' \in BOOLEAN,
         requested' \in 0..MaxSafe \cup {Unbounded}, requested' \in Nat,
         requested <= requested', Grant(requested'),
         UNCHANGED <<status, responder, down>>
  PROVE  IInv'
<1>1. /\ status' = status
      /\ pendingUpstreamDemand' = pendingUpstreamDemand /\ requesting' = requesting
      /\ owed' = owed /\ stage' = stage /\ reserved' = reserved /\ demand' = demand
      /\ emitted' = emitted /\ down' = down
  BY DEF responder, upstream
<1>2. Types /\ QueueInv /\ RequestInv /\ CreditInv /\ PublisherInv /\ CancelInv
  BY DEF IInv
<1>3. session # "over"
  BY <1>2 DEF QueueInv
<1>4. Nexts' = Nexts
  BY <1>1, NextsIsNextsOf
<1>5. PublisherInv'
  BY <1>1, <1>2 DEF PublisherInv
<1>6. CancelInv'
  BY <1>1 DEF CancelInv
<1> DEFINE g == Smaller(requested', MaxRequestN) - wireRequested
           c == Credits(outgoing)
           n == Nexts
<1>7. /\ c \in Nat /\ n \in Nat /\ requested \in Nat /\ wireRequested \in Nat
      /\ wireRequested <= MaxRequestN /\ reserved \in Nat /\ demand \in Nat
      /\ c + reserved + demand + n <= wireRequested /\ wireRequested <= requested
      /\ stage # "ended" => c + reserved + demand + n = wireRequested
  BY <1>2, Numbers DEF CreditInv, Credit
<1>8. CASE g <= 0
  <2>1. /\ wireRequested' = wireRequested /\ session' = session /\ losses' = losses
        /\ up' = up /\ pendingFrames' = pendingFrames
    BY <1>8 DEF Grant, transport
  <2>2. outgoing' = outgoing
    BY <2>1 DEF outgoing
  <2>3. Types'
    BY <1>1, <1>2, <2>1 DEF Types
  <2>4. QueueInv'
    BY <1>1, <1>2, <2>1 DEF QueueInv
  <2>5. RequestInv'
    BY <1>1, <1>2, <2>1, <2>2 DEF RequestInv, Ordered
  <2>6. CreditInv'
    <3>1. Credit' = c + reserved + demand + n
      BY <1>1, <1>4, <2>2 DEF Credit
    <3> HIDE DEF c, n
    <3>2. wireRequested <= requested'
      BY <1>7
    <3> QED BY <1>1, <1>7, <2>1, <3>1, <3>2 DEF CreditInv
  <2> QED BY <1>5, <1>6, <2>3, <2>4, <2>5, <2>6 DEF IInv
<1>9. CASE ~(g <= 0)
  <2> DEFINE f == RequestN(g)
             o == outgoing
             o2 == outgoing'
  <2>1. wireRequested' = wireRequested + g /\ Send(f)
    BY <1>9 DEF Grant
  <2>2. /\ g \in Nat /\ g > 0 /\ wireRequested + g <= MaxRequestN /\ wireRequested + g <= requested'
        /\ g \in 0..MaxRequestN /\ c + g <= MaxRequestN
    <3>1. /\ Smaller(requested', MaxRequestN) \in Nat /\ Smaller(requested', MaxRequestN) <= MaxRequestN
          /\ Smaller(requested', MaxRequestN) <= requested'
      BY Constants DEF Smaller
    <3> DEFINE m == Smaller(requested', MaxRequestN)
    <3> HIDE DEF c, n, m
    <3>2. g = m - wireRequested
      BY DEF m
    <3> HIDE DEF g
    <3>3. m \in Nat /\ m <= MaxRequestN /\ m <= requested'
      BY <3>1 DEF m
    <3> QED BY <1>7, <1>9, <3>2, <3>3, Constants
  <2> HIDE DEF g
  <2>3. f \in UpFrames /\ f.type = "REQUEST_N" /\ f.n = g
    BY <2>2 DEF UpFrames, RequestN
  <2>4. o \in Seq(UpFrames) /\ NoCancel(o) /\ RequestFirst(o)
    <3>1. o \in Seq(UpFrames)
      BY <1>2, OutgoingType
    <3> QED BY <1>2, <3>1, OrderedParts DEF RequestInv
  <2> HIDE DEF f
  <2>5. /\ SessionTypes'
        /\ Credits(o2) = c + g
        /\ NoCancel(o2) /\ RequestFirst(o2) /\ o2 # <<>>
        /\ o2[1].type = IF o = <<>> THEN "REQUEST_N" ELSE o[1].type
    BY <1>2, <2>1, <2>2, <2>3, <2>4, SendDemand
  <2>6. Types'
    <3>1. wireRequested' \in 0..MaxRequestN
      BY <1>7, <2>1, <2>2
    <3> QED BY <1>1, <1>2, <2>5, <3>1 DEF Types, SessionTypes
  <2>7. QueueInv'
    BY <2>5 DEF QueueInv, SessionTypes
  <2>8. RequestInv'
    <3>1. o2 \in Seq(UpFrames)
      BY <2>6, OutgoingType, ConcatProperties DEF Types, outgoing
    <3>2. o # <<>> => 1 \in 1..Len(o)
      <4>1. o # <<>> => Len(o) \in Nat \ {0}
        BY <2>4, EmptySeq
      <4> HIDE DEF o
      <4> QED BY <4>1
    <3>3. o # <<>> /\ o[1].type = "REQUEST_STREAM" => stage = "none"
      BY <1>2, <3>2 DEF RequestInv, Ordered
    <3>4. stage = "none" => o # <<>> /\ o[1].type = "REQUEST_STREAM"
      BY <1>2 DEF RequestInv
    <3> HIDE DEF o
    <3>5. \A i \in 1..Len(o2) : /\ o2[i].type = "REQUEST_STREAM" => i = 1 /\ stage = "none"
                                /\ o2[i].type # "CANCEL"
      BY <2>5, <3>3 DEF NoCancel, RequestFirst
    <3>6. Ordered(outgoing)'
      BY <1>1, <3>5 DEF Ordered
    <3>7. stage' = "none" => outgoing' # <<>> /\ outgoing'[1].type = "REQUEST_STREAM"
      BY <1>1, <2>5, <3>4
    <3> QED BY <1>1, <1>2, <3>6, <3>7 DEF RequestInv
  <2>9. CreditInv'
    <3>1. Credit' = c + g + reserved + demand + n
      BY <1>1, <1>4, <2>5 DEF Credit
    <3> HIDE DEF c, n
    <3>2. c + g + reserved + demand + n = (c + reserved + demand + n) + g
      BY <1>7, <2>2
    <3> DEFINE k == c + reserved + demand + n
    <3>3. k \in Nat /\ k <= wireRequested /\ (stage # "ended" => k = wireRequested)
      BY <1>7
    <3> HIDE DEF k
    <3>4. k + g <= wireRequested + g /\ (stage # "ended" => k + g = wireRequested + g)
      BY <1>7, <2>2, <3>3
    <3> QED BY <1>1, <2>1, <2>2, <3>1, <3>2, <3>4 DEF CreditInv, k
  <2> QED BY <1>5, <1>6, <2>6, <2>7, <2>8, <2>9 DEF IInv
<1> QED BY <1>8, <1>9

LEMMA QuietStep ==
  ASSUME IInv, calls' \in 0..MaxCalls, delivering' \in BOOLEAN,
         UNCHANGED <<status, requested, wireRequested, transport, responder, down>>
  PROVE  IInv'
<1>1. /\ status' = status /\ requested' = requested /\ wireRequested' = wireRequested
      /\ session' = session /\ losses' = losses /\ up' = up /\ pendingFrames' = pendingFrames
      /\ pendingUpstreamDemand' = pendingUpstreamDemand /\ requesting' = requesting
      /\ owed' = owed /\ stage' = stage /\ reserved' = reserved /\ demand' = demand
      /\ emitted' = emitted /\ down' = down
  BY DEF transport, responder, upstream
<1>2. outgoing' = outgoing /\ Nexts' = Nexts
  BY <1>1, NextsIsNextsOf DEF outgoing
<1>3. Types'
  BY <1>1 DEF IInv, Types
<1>4. QueueInv'
  BY <1>1 DEF IInv, QueueInv
<1>5. RequestInv'
  BY <1>1, <1>2 DEF IInv, RequestInv, Ordered
<1>6. CreditInv'
  <2>1. Credit' = Credit
    BY <1>1, <1>2 DEF Credit
  <2> QED BY <1>1, <2>1 DEF IInv, CreditInv
<1>7. PublisherInv'
  BY <1>1 DEF IInv, PublisherInv
<1>8. CancelInv'
  BY <1>1, <1>2 DEF IInv, CancelInv, WillRun
<1> QED BY <1>3, <1>4, <1>5, <1>6, <1>7, <1>8 DEF IInv

LEMMA StepRequest ==
  ASSUME IInv, NEW n \in Demands, Request(n)
  PROVE  IInv'
<1>1. /\ status = "open" /\ calls' = calls + 1 /\ calls < MaxCalls
      /\ requested' = AddReactiveDemand(requested, n) /\ Grant(requested')
      /\ UNCHANGED <<status, delivering, responder, down>>
  BY DEF Request
<1>2. calls' \in 0..MaxCalls /\ delivering' \in BOOLEAN
  BY <1>1, DemandAssumption DEF IInv, Types
<1>3. /\ requested' \in 0..MaxSafe \cup {Unbounded} /\ requested' \in Nat
      /\ requested <= requested'
  <2>1. Types
    BY DEF IInv
  <2> QED BY <1>1, <2>1, Demanded
<1> QED BY <1>1, <1>2, <1>3, Granted

LEMMA StepNextReturns ==
  ASSUME IInv, NextReturns
  PROVE  IInv'
<1>1. /\ delivering' = FALSE /\ calls' = calls /\ status' = status /\ requested' = requested
      /\ UNCHANGED <<status, responder, down>>
  BY DEF NextReturns
<1>2. calls' \in 0..MaxCalls /\ delivering' \in BOOLEAN
  BY <1>1 DEF IInv, Types
<1>3. CASE status = "open" /\ wireRequested <= MaxRequestN \div 2
  <2>1. /\ requested' \in 0..MaxSafe \cup {Unbounded} /\ requested' \in Nat
        /\ requested <= requested'
    <3>1. requested \in 0..MaxSafe \cup {Unbounded} /\ requested \in Nat
      BY Numbers DEF IInv, Types
    <3> QED BY <1>1, <3>1
  <2>2. Grant(requested')
    BY <1>1, <1>3 DEF NextReturns
  <2> QED BY <1>1, <1>2, <1>3, <2>1, <2>2, Granted
<1>4. CASE ~(status = "open" /\ wireRequested <= MaxRequestN \div 2)
  <2>1. UNCHANGED <<status, requested, wireRequested, transport, responder, down>>
    BY <1>1, <1>4 DEF NextReturns
  <2> QED BY <1>2, <2>1, QuietStep
<1> QED BY <1>3, <1>4

\* Before the first demand nothing is under way.
LEMMA IdleFacts ==
  ASSUME IInv, status = "idle"
  PROVE  /\ outgoing = <<>> /\ stage = "none" /\ requested = 0 /\ wireRequested = 0
         /\ reserved = 0 /\ demand = 0 /\ down = <<>>
         /\ Credits(outgoing) = 0 /\ Nexts = 0 /\ pendingFrames = <<>>
<1>1. /\ outgoing = <<>> /\ stage = "none" /\ requested = 0 /\ wireRequested = 0
      /\ reserved = 0 /\ demand = 0 /\ down = <<>>
  BY DEF IInv, RequestInv
<1>2. Credits(outgoing) = 0 /\ Nexts = 0
  BY <1>1, CreditsEmpty, NextsEmpty, NextsIsNextsOf
<1>3. pendingFrames = <<>>
  <2>1. up \in Seq(UpFrames) /\ pendingFrames \in Seq(UpFrames)
    BY DEF IInv, Types
  <2> QED BY <1>1, <2>1, ConcatEqualIffEmpty, ConcatSimplifications DEF outgoing
<1> QED BY <1>1, <1>2, <1>3

LEMMA StepStart ==
  ASSUME IInv, NEW n \in Demands, Start(n)
  PROVE  IInv'
<1>1. /\ status = "idle" /\ status' = "open" /\ calls' = calls + 1 /\ calls < MaxCalls
      /\ requested' = AddReactiveDemand(requested, n)
      /\ wireRequested' = Smaller(requested', MaxRequestN)
      /\ Send(RequestStream(wireRequested'))
      /\ delivering' = delivering
      /\ pendingUpstreamDemand' = pendingUpstreamDemand /\ requesting' = requesting
      /\ owed' = owed /\ stage' = stage /\ reserved' = reserved /\ demand' = demand
      /\ emitted' = emitted /\ down' = down
  BY DEF Start, responder, upstream
<1>2. Types /\ QueueInv /\ RequestInv /\ CreditInv /\ PublisherInv /\ CancelInv
  BY DEF IInv
<1>3. /\ outgoing = <<>> /\ stage = "none" /\ requested = 0 /\ wireRequested = 0
      /\ reserved = 0 /\ demand = 0 /\ down = <<>> /\ Credits(outgoing) = 0 /\ Nexts = 0
  BY <1>1, IdleFacts
<1>4. requested' \in 0..MaxSafe \cup {Unbounded} /\ requested' \in Nat
  BY <1>1, <1>2, Demanded
<1>5. /\ wireRequested' \in 0..MaxRequestN /\ wireRequested' \in Nat
      /\ wireRequested' <= requested' /\ wireRequested' <= MaxRequestN
  BY <1>1, <1>4, Constants DEF Smaller
<1> DEFINE f == RequestStream(wireRequested')
           o == outgoing
           o2 == outgoing'
<1>6. f \in UpFrames /\ f.type = "REQUEST_STREAM" /\ f.n = wireRequested'
  BY <1>5 DEF UpFrames, RequestStream
<1>7. o \in Seq(UpFrames) /\ NoCancel(o) /\ RequestFirst(o) /\ o = <<>>
  BY <1>3, EmptySeq DEF NoCancel, RequestFirst
<1>8. Credits(o) + f.n <= MaxRequestN
  BY <1>3, <1>5, <1>6
<1> HIDE DEF f
<1>9. /\ SessionTypes'
      /\ Credits(o2) = Credits(o) + f.n
      /\ NoCancel(o2) /\ RequestFirst(o2) /\ o2 # <<>>
      /\ o2[1].type = IF o = <<>> THEN f.type ELSE o[1].type
  BY <1>1, <1>2, <1>6, <1>7, <1>8, SendDemand DEF f
<1>10. Types'
  <2>1. calls' \in 0..MaxCalls
    BY <1>1, <1>2, DemandAssumption DEF Types
  <2> QED BY <1>1, <1>2, <1>4, <1>5, <1>9, <2>1 DEF Types, SessionTypes
<1>11. QueueInv'
  BY <1>9 DEF QueueInv, SessionTypes
<1>12. RequestInv'
  <2>1. o2[1].type = "REQUEST_STREAM"
    BY <1>6, <1>7, <1>9
  <2>2. Ordered(outgoing)'
    <3>1. \A i \in 1..Len(o2) : /\ o2[i].type = "REQUEST_STREAM" => i = 1
                                /\ o2[i].type # "CANCEL"
      BY <1>9 DEF NoCancel, RequestFirst
    <3> QED BY <1>1, <1>3, <3>1 DEF Ordered
  <2> QED BY <1>1, <1>2, <1>3, <1>9, <2>1, <2>2 DEF RequestInv
<1>13. CreditInv'
  <2>1. Nexts' = 0
    BY <1>1, <1>3, NextsIsNextsOf
  <2>2. Credit' = 0 + wireRequested' + 0 + 0 + 0
    BY <1>1, <1>3, <1>6, <1>9, <2>1 DEF Credit
  <2>3. Credit' = wireRequested'
    <3>1. \A w \in Nat : 0 + w + 0 + 0 + 0 = w
      OBVIOUS
    <3> QED BY <1>5, <2>2, <3>1
  <2> QED BY <1>5, <2>3 DEF CreditInv
<1>14. PublisherInv'
  BY <1>1, <1>2 DEF PublisherInv
<1>15. CancelInv'
  BY <1>1 DEF CancelInv
<1> QED BY <1>10, <1>11, <1>12, <1>13, <1>14, <1>15 DEF IInv

LEMMA StepStartThrows ==
  ASSUME IInv, NEW n \in Demands, StartThrows(n)
  PROVE  IInv'
<1>1. /\ status = "idle" /\ status' = "failed" /\ calls' = calls + 1 /\ calls < MaxCalls
      /\ requested' = AddReactiveDemand(requested, n)
      /\ wireRequested' = Smaller(requested', MaxRequestN)
      /\ session' = session /\ losses' = losses /\ up' = up /\ pendingFrames' = pendingFrames
      /\ delivering' = delivering
      /\ pendingUpstreamDemand' = pendingUpstreamDemand /\ requesting' = requesting
      /\ owed' = owed /\ stage' = stage /\ reserved' = reserved /\ demand' = demand
      /\ emitted' = emitted /\ down' = down
  BY DEF StartThrows, responder, upstream, transport
<1>2. Types /\ QueueInv /\ RequestInv /\ CreditInv /\ PublisherInv /\ CancelInv
  BY DEF IInv
<1>3. /\ outgoing = <<>> /\ stage = "none" /\ requested = 0 /\ wireRequested = 0
      /\ reserved = 0 /\ demand = 0 /\ down = <<>> /\ Credits(outgoing) = 0 /\ Nexts = 0
  BY <1>1, IdleFacts
<1>4. requested' \in 0..MaxSafe \cup {Unbounded} /\ requested' \in Nat
  BY <1>1, <1>2, Demanded
<1>5. /\ wireRequested' \in 0..MaxRequestN /\ wireRequested' \in Nat
      /\ wireRequested' <= requested'
  BY <1>1, <1>4, Constants DEF Smaller
<1>6. outgoing' = <<>> /\ Nexts' = 0
  BY <1>1, <1>3, NextsIsNextsOf DEF outgoing
<1>7. Types'
  <2>1. calls' \in 0..MaxCalls
    BY <1>1, <1>2, DemandAssumption DEF Types
  <2> QED BY <1>1, <1>2, <1>4, <1>5, <2>1 DEF Types
<1>8. QueueInv'
  BY <1>1, <1>2 DEF QueueInv
<1>9. RequestInv'
  <2>1. Len(<<>>) = 0
    OBVIOUS
  <2> QED BY <1>1, <1>2, <1>3, <1>6, <2>1 DEF RequestInv, Ordered
<1>10. CreditInv'
  <2>1. Credit' = 0
    BY <1>1, <1>3, <1>6 DEF Credit
  <2> QED BY <1>1, <1>5, <2>1 DEF CreditInv
<1>11. PublisherInv'
  BY <1>1, <1>2 DEF PublisherInv
<1>12. CancelInv'
  <2>1. ~WillRun'
    BY <1>1, <1>3, <1>6, EmptySeq DEF WillRun
  <2> QED BY <2>1 DEF CancelInv
<1> QED BY <1>7, <1>8, <1>9, <1>10, <1>11, <1>12 DEF IInv

\* The requester gives the stream up.
LEMMA Cancelled ==
  ASSUME IInv, NEW outcome \in {"cancelled", "failed"}, status \in {"idle", "open"},
         CancelAs(outcome), delivering' \in BOOLEAN,
         UNCHANGED <<calls, requested, wireRequested, responder, down>>
  PROVE  IInv'
<1>1. /\ status' = outcome /\ status' # "open" /\ status' # "idle"
      /\ calls' = calls /\ requested' = requested /\ wireRequested' = wireRequested
      /\ pendingUpstreamDemand' = pendingUpstreamDemand /\ requesting' = requesting
      /\ owed' = owed /\ stage' = stage /\ reserved' = reserved /\ demand' = demand
      /\ emitted' = emitted /\ down' = down
  BY DEF CancelAs, responder, upstream
<1>2. Types /\ QueueInv /\ RequestInv /\ CreditInv /\ PublisherInv /\ CancelInv
  BY DEF IInv
<1>3. PublisherInv'
  BY <1>1, <1>2 DEF PublisherInv
<1>4. Nexts' = Nexts
  BY <1>1, NextsIsNextsOf
<1>5. CASE status = "open"
  <2>1. Send(Cancelling)
    BY <1>5 DEF CancelAs
  <2>2. /\ SessionTypes' /\ Ended(outgoing')
        /\ Credits(outgoing') <= Credits(outgoing) /\ Credits(outgoing') \in Nat
    BY <1>2, <1>5, <2>1, SendCancel
  <2>3. Types'
    BY <1>1, <1>2, <2>2 DEF Types, SessionTypes
  <2>4. QueueInv'
    BY <2>2 DEF QueueInv, SessionTypes
  <2>5. RequestInv'
    <3>1. Ordered(outgoing)'
      BY <1>1, <2>2 DEF Ordered, Ended
    <3> QED BY <1>1, <1>2, <3>1 DEF RequestInv
  <2>6. CreditInv'
    <3> DEFINE c == Credits(outgoing)
               d == Credits(outgoing')
               k == Nexts
    <3>1. /\ c \in Nat /\ d \in Nat /\ d <= c /\ k \in Nat /\ reserved \in Nat /\ demand \in Nat
          /\ wireRequested \in Nat /\ c + reserved + demand + k <= wireRequested
          /\ wireRequested <= requested
      BY <1>2, <2>2, Numbers DEF CreditInv, Credit
    <3>2. Credit' = d + reserved + demand + k
      BY <1>1, <1>4 DEF Credit
    <3> HIDE DEF c, d, k
    <3>3. Credit' <= wireRequested
      BY <3>1, <3>2
    <3> QED BY <1>1, <3>1, <3>3 DEF CreditInv
  <2>7. CancelInv'
    <3>1. CASE outgoing' = <<>> /\ stage = "none"
      <4>1. ~WillRun'
        BY <1>1, <3>1, EmptySeq DEF WillRun
      <4> QED BY <4>1 DEF CancelInv
    <3>2. CASE outgoing' # <<>> /\ Last(outgoing') = Cancelling
      BY <3>2 DEF CancelInv
    <3> QED BY <2>2, <3>1, <3>2 DEF Ended
  <2> QED BY <1>3, <2>3, <2>4, <2>5, <2>6, <2>7 DEF IInv
<1>6. CASE status = "idle"
  <2>1. session' = session /\ losses' = losses /\ up' = up /\ pendingFrames' = pendingFrames
    BY <1>6 DEF CancelAs, transport
  <2>2. /\ outgoing = <<>> /\ stage = "none" /\ requested = 0 /\ wireRequested = 0
        /\ reserved = 0 /\ demand = 0 /\ down = <<>> /\ Credits(outgoing) = 0 /\ Nexts = 0
    BY <1>6, IdleFacts
  <2>3. outgoing' = <<>>
    BY <2>1, <2>2 DEF outgoing
  <2>4. Types'
    BY <1>1, <1>2, <2>1 DEF Types
  <2>5. QueueInv'
    BY <1>1, <1>2, <2>1 DEF QueueInv
  <2>6. RequestInv'
    <3>1. Len(<<>>) = 0
      OBVIOUS
    <3> QED BY <1>1, <1>2, <2>2, <2>3, <3>1 DEF RequestInv, Ordered
  <2>7. CreditInv'
    <3>1. Credit' = 0
      BY <1>1, <1>4, <2>2, <2>3 DEF Credit
    <3> QED BY <1>1, <2>2, <3>1 DEF CreditInv
  <2>8. CancelInv'
    <3>1. ~WillRun'
      BY <1>1, <2>2, <2>3, EmptySeq DEF WillRun
    <3> QED BY <3>1 DEF CancelInv
  <2> QED BY <1>3, <2>4, <2>5, <2>6, <2>7, <2>8 DEF IInv
<1> QED BY <1>5, <1>6

LEMMA StepCancel ==
  ASSUME IInv, Cancel \/ RequestInvalid \/ NextThrows
  PROVE  IInv'
<1>1. calls \in 0..MaxCalls /\ delivering \in BOOLEAN
  BY DEF IInv, Types
<1>2. CASE Cancel
  <2>1. /\ status \in {"idle", "open"} /\ CancelAs("cancelled") /\ delivering' \in BOOLEAN
        /\ UNCHANGED <<calls, requested, wireRequested, responder, down>>
    BY <1>1, <1>2 DEF Cancel
  <2> QED BY <2>1, Cancelled
<1>3. CASE RequestInvalid
  <2>1. /\ status \in {"idle", "open"} /\ CancelAs("failed") /\ delivering' \in BOOLEAN
        /\ UNCHANGED <<calls, requested, wireRequested, responder, down>>
    BY <1>1, <1>3 DEF RequestInvalid
  <2> QED BY <2>1, Cancelled
<1>4. CASE NextThrows
  <2>1. CASE status = "open"
    <3>1. /\ CancelAs("cancelled") /\ delivering' \in BOOLEAN
          /\ UNCHANGED <<calls, requested, wireRequested, responder, down>>
      BY <1>4, <2>1 DEF NextThrows
    <3> QED BY <2>1, <3>1, Cancelled
  <2>2. CASE status # "open"
    <3>1. /\ calls' \in 0..MaxCalls /\ delivering' \in BOOLEAN
          /\ UNCHANGED <<status, requested, wireRequested, transport, responder, down>>
      BY <1>1, <1>4, <2>2 DEF NextThrows
    <3> QED BY <3>1, QuietStep
  <2> QED BY <2>1, <2>2
<1> QED BY <1>2, <1>3, <1>4

LEMMA StepReceiveNext ==
  ASSUME IInv, ReceiveNext
  PROVE  IInv'
<1>1. CASE requested <= 0 \/ wireRequested <= 0
  <2>1. /\ TerminateSession
        /\ UNCHANGED <<calls, delivering, requested, wireRequested, responder>>
    BY <1>1 DEF ReceiveNext
  <2> QED BY <2>1, TerminateHolds
<1>2. CASE ~(requested <= 0 \/ wireRequested <= 0)
  <2>1. /\ status = "open" /\ down # <<>> /\ Head(down) = "NEXT" /\ down' = Tail(down)
        /\ requested' = IF requested = Unbounded THEN requested ELSE requested - 1
        /\ wireRequested' = wireRequested - 1 /\ delivering' = TRUE
        /\ calls' = calls /\ status' = status
        /\ session' = session /\ losses' = losses /\ up' = up /\ pendingFrames' = pendingFrames
        /\ pendingUpstreamDemand' = pendingUpstreamDemand /\ requesting' = requesting
        /\ owed' = owed /\ stage' = stage /\ reserved' = reserved /\ demand' = demand
        /\ emitted' = emitted
    BY <1>2 DEF ReceiveNext, Incoming, responder, upstream, transport
  <2>2. Types /\ QueueInv /\ RequestInv /\ CreditInv /\ PublisherInv /\ CancelInv
    BY DEF IInv
  <2>3. /\ down' \in Seq(DownFrames) /\ Nexts = Nexts' + 1
        /\ \A i \in 1..Len(down') : down'[i] = down[i + 1] /\ i + 1 \in 1..Len(down)
    <3>1. down \in Seq(DownFrames)
      BY <2>2 DEF Types
    <3> DEFINE t == Tail(down)
    <3>2. /\ t \in Seq(DownFrames)
          /\ \A i \in 1..Len(t) : t[i] = down[i + 1] /\ i + 1 \in 1..Len(down)
          /\ NextsOf(down) = NextsOf(t) + IF Head(down) = "NEXT" THEN 1 ELSE 0
      BY <2>1, <3>1, NextsTail
    <3> HIDE DEF t
    <3>3. NextsOf(down) = NextsOf(t) + 1
      BY <2>1, <3>2
    <3> QED BY <2>1, <3>2, <3>3, NextsIsNextsOf DEF t
  <2>4. outgoing' = outgoing
    BY <2>1 DEF outgoing
  <2>5. /\ requested \in Nat /\ wireRequested \in Nat /\ wireRequested <= MaxRequestN
        /\ requested > 0 /\ wireRequested > 0
        /\ requested \in 0..MaxSafe \cup {Unbounded}
    BY <1>2, <2>2, Numbers DEF Types
  <2>6. wireRequested' \in 0..MaxRequestN /\ requested' \in 0..MaxSafe \cup {Unbounded}
    BY <2>1, <2>5, Constants
  <2>7. Types'
    BY <2>1, <2>2, <2>3, <2>6 DEF Types
  <2>8. QueueInv'
    BY <2>1, <2>2 DEF QueueInv
  <2>9. RequestInv'
    <3>1. stage # "none"
      BY <2>1, <2>2 DEF RequestInv
    <3>2. \A i \in 1..Len(down') : down'[i] # "NEXT" => stage = "ended"
      BY <2>2, <2>3 DEF RequestInv
    <3>3. Ordered(outgoing)'
      BY <2>1, <2>2, <2>4 DEF RequestInv, Ordered
    <3> QED BY <2>1, <2>2, <3>1, <3>2, <3>3 DEF RequestInv
  <2>10. CreditInv'
    <3> DEFINE c == Credits(outgoing)
               k == Nexts'
    <3>1. c \in Nat /\ reserved \in Nat /\ demand \in Nat
      BY <2>2, Numbers
    <3>2. k \in Nat
      <4>1. NextsOf(down') \in Nat
        BY <2>3, NextsNat
      <4> QED BY <4>1, NextsIsNextsOf
    <3>3. Credit = c + reserved + demand + (k + 1) /\ Credit' = c + reserved + demand + k
      BY <2>1, <2>3, <2>4 DEF Credit
    <3>4. /\ Credit <= wireRequested /\ wireRequested <= requested
          /\ stage # "ended" => Credit = wireRequested
      BY <2>1, <2>2 DEF CreditInv
    <3> HIDE DEF c, k
    <3>5. Credit' \in Nat /\ Credit = Credit' + 1
      BY <3>1, <3>2, <3>3
    <3>6. Credit' <= wireRequested - 1 /\ (stage # "ended" => Credit' = wireRequested - 1)
      <4> DEFINE before == Credit
                 after == Credit'
                 w == wireRequested
      <4>1. before \in Nat /\ after \in Nat /\ w \in Nat
        BY <2>5, <3>1, <3>2, <3>3
      <4>2. before = after + 1 /\ before <= w /\ (stage # "ended" => before = w)
        BY <3>4, <3>5
      <4> HIDE DEF before, after, w
      <4>3. after <= w - 1 /\ (stage # "ended" => after = w - 1)
        BY <4>1, <4>2
      <4> QED BY <4>3 DEF before, after, w
    <3>7. wireRequested - 1 <= requested'
      BY <2>1, <2>5, <3>4
    <3> QED BY <2>1, <3>6, <3>7 DEF CreditInv
  <2>11. PublisherInv'
    BY <2>1, <2>2 DEF PublisherInv
  <2>12. CancelInv'
    BY <2>1 DEF CancelInv
  <2> QED BY <2>7, <2>8, <2>9, <2>10, <2>11, <2>12 DEF IInv
<1> QED BY <1>1, <1>2

LEMMA StepReceiveTerminal ==
  ASSUME IInv, ReceiveTerminal
  PROVE  IInv'
<1>1. /\ down # <<>> /\ down' = Tail(down) /\ session = "active"
      /\ \/ Head(down) = "COMPLETE" /\ status' = IF status = "open" THEN "complete" ELSE status
         \/ Head(down) = "ERROR" /\ status' = IF status = "open" THEN "failed" ELSE status
         \/ Head(down) = "NEXT" /\ status # "open" /\ status' = status
      /\ calls' = calls /\ delivering' = delivering
      /\ requested' = requested /\ wireRequested' = wireRequested
      /\ session' = session /\ losses' = losses /\ up' = up /\ pendingFrames' = pendingFrames
      /\ pendingUpstreamDemand' = pendingUpstreamDemand /\ requesting' = requesting
      /\ owed' = owed /\ stage' = stage /\ reserved' = reserved /\ demand' = demand
      /\ emitted' = emitted
  BY DEF ReceiveTerminal, Incoming, responder, upstream, transport
<1>2. Types /\ QueueInv /\ RequestInv /\ CreditInv /\ PublisherInv /\ CancelInv
  BY DEF IInv
<1>3. /\ down' \in Seq(DownFrames) /\ Nexts \in Nat /\ Nexts' \in Nat /\ Nexts' <= Nexts
      /\ \A i \in 1..Len(down') : down'[i] = down[i + 1] /\ i + 1 \in 1..Len(down)
      /\ Head(down) = down[1] /\ 1 \in 1..Len(down)
  <2>1. down \in Seq(DownFrames)
    BY <1>2 DEF Types
  <2> DEFINE t == Tail(down)
  <2>2. /\ t \in Seq(DownFrames) /\ Head(down) = down[1] /\ Len(down) \in Nat /\ Len(down) > 0
        /\ \A i \in 1..Len(t) : t[i] = down[i + 1] /\ i + 1 \in 1..Len(down)
        /\ NextsOf(down) = NextsOf(t) + IF Head(down) = "NEXT" THEN 1 ELSE 0
    BY <1>1, <2>1, NextsTail
  <2> HIDE DEF t
  <2>3. NextsOf(down) \in Nat /\ NextsOf(t) \in Nat
    BY <2>1, <2>2, NextsNat
  <2>4. NextsOf(t) <= NextsOf(down)
    BY <2>2, <2>3
  <2>5. 1 \in 1..Len(down)
    BY <2>2
  <2> QED BY <1>1, <2>2, <2>3, <2>4, <2>5, NextsIsNextsOf DEF t
<1>4. /\ status' # "open" /\ (status' = "idle" => status = "idle")
      /\ status' \in {"idle", "open", "cancelled", "failed", "complete"}
      /\ status' # status => stage = "ended"
  <2>1. Head(down) # "NEXT" => stage = "ended"
    BY <1>2, <1>3 DEF RequestInv
  <2>2. status \in {"idle", "open", "cancelled", "failed", "complete"}
    BY <1>2 DEF Types
  <2> QED BY <1>1, <2>1, <2>2
<1>5. outgoing' = outgoing
  BY <1>1 DEF outgoing
<1>6. Types'
  BY <1>1, <1>2, <1>3, <1>4 DEF Types
<1>7. QueueInv'
  BY <1>1, <1>2, <1>4 DEF QueueInv
<1>8. RequestInv'
  <2>1. stage # "none"
    BY <1>1, <1>2 DEF RequestInv
  <2>2. \A i \in 1..Len(down') : down'[i] # "NEXT" => stage = "ended"
    BY <1>2, <1>3 DEF RequestInv
  <2>3. Ordered(outgoing)'
    BY <1>1, <1>2, <1>4, <1>5 DEF RequestInv, Ordered
  <2> QED BY <1>1, <1>2, <1>4, <2>1, <2>2, <2>3 DEF RequestInv
<1>9. CreditInv'
  <2> DEFINE c == Credits(outgoing)
             k == Nexts
             l == Nexts'
  <2>1. /\ c \in Nat /\ k \in Nat /\ l \in Nat /\ l <= k /\ reserved \in Nat /\ demand \in Nat
        /\ wireRequested \in Nat /\ c + reserved + demand + k <= wireRequested
        /\ wireRequested <= requested
    BY <1>2, <1>3, Numbers DEF CreditInv, Credit
  <2>2. Credit' = c + reserved + demand + l
    BY <1>1, <1>5 DEF Credit
  <2> HIDE DEF c, k, l
  <2>3. Credit' <= wireRequested
    BY <2>1, <2>2
  <2> QED BY <1>1, <1>4, <2>1, <2>3 DEF CreditInv
<1>10. PublisherInv'
  BY <1>1, <1>2 DEF PublisherInv
<1>11. CancelInv'
  <2>1. CASE status' = status
    BY <1>1, <1>2, <1>5, <2>1 DEF CancelInv, WillRun
  <2>2. CASE status' # status
    <3>1. stage = "ended"
      BY <1>4, <2>2
    <3>2. \A i \in 1..Len(outgoing) : outgoing[i].type # "REQUEST_STREAM"
      BY <1>2, <3>1 DEF RequestInv, Ordered
    <3>3. ~WillRun'
      BY <1>1, <1>5, <3>1, <3>2 DEF WillRun
    <3> QED BY <3>3 DEF CancelInv
  <2> QED BY <2>1, <2>2
<1> QED BY <1>6, <1>7, <1>8, <1>9, <1>10, <1>11 DEF IInv

\* What the responder may do to the stream, in terms of the invariant.
LEMMA Responds ==
  ASSUME IInv, UNCHANGED requesterSide, status # "idle",
         up' \in Seq(UpFrames), down' \in Seq(DownFrames),
         stage' \in {"none", "reserved", "withdrawn", "installed", "running", "ended"},
         reserved' \in 0..MaxSafe, demand' \in 0..MaxSafe,
         pendingUpstreamDemand' \in 0..MaxSafe, owed' \in 0..MaxSafe,
         emitted' \in 0..Items, requesting' \in BOOLEAN,
         Ordered(outgoing)', CancelInv', PublisherInv',
         stage' = "none" =>
           /\ stage = "none" /\ status # "open" /\ down' = down
           /\ demand' = demand /\ reserved' = reserved,
         stage' = "withdrawn" => status # "open",
         \A i \in 1..Len(down') : down'[i] # "NEXT" => stage' = "ended",
         Credit' <= wireRequested,
         status = "open" /\ stage' # "ended" => Credit' = wireRequested
  PROVE  IInv'
<1>1. /\ session' = session /\ losses' = losses /\ pendingFrames' = pendingFrames
      /\ calls' = calls /\ status' = status /\ delivering' = delivering
      /\ requested' = requested /\ wireRequested' = wireRequested
  BY DEF requesterSide, subscription
<1>2. Types /\ QueueInv /\ RequestInv /\ CreditInv
  BY DEF IInv
<1>3. Types'
  BY <1>1, <1>2 DEF Types
<1>4. QueueInv'
  BY <1>1, <1>2 DEF QueueInv
<1>5. RequestInv'
  BY <1>1, <1>2 DEF RequestInv
<1>6. CreditInv'
  BY <1>1, <1>2 DEF CreditInv
<1> QED BY <1>3, <1>4, <1>5, <1>6 DEF IInv

\* The responder goes on with a stream it has, and reads no frame.
LEMMA StaysLast ==
  ASSUME IInv, UNCHANGED requesterSide, up' = up, stage # "none",
         stage' \in {"reserved", "installed", "running"} =>
           stage \in {"reserved", "installed", "running"}
  PROVE  /\ Ordered(outgoing)' /\ CancelInv' /\ status # "idle"
         /\ outgoing' = outgoing /\ up' \in Seq(UpFrames)
<1>1. /\ session' = session /\ status' = status /\ outgoing' = outgoing
  BY DEF requesterSide, subscription, outgoing
<1>2. Types /\ RequestInv /\ CancelInv
  BY DEF IInv
<1>3. \A i \in 1..Len(outgoing) : /\ outgoing[i].type # "REQUEST_STREAM"
                                  /\ outgoing[i].type = "CANCEL" => i = Len(outgoing) /\ status # "open"
  BY <1>2 DEF RequestInv, Ordered
<1>4. Ordered(outgoing)'
  BY <1>1, <1>3 DEF Ordered
<1>5. WillRun' => WillRun
  BY <1>1, <1>3 DEF WillRun
<1>6. CancelInv'
  BY <1>1, <1>2, <1>5 DEF CancelInv
<1> QED BY <1>1, <1>2, <1>4, <1>6 DEF Types, RequestInv

\* What the responder holds and what is coming back is bounded by one frame.
LEMMA Holdings ==
  ASSUME IInv
  PROVE  /\ Credits(outgoing) \in Nat /\ reserved \in Nat /\ demand \in Nat /\ Nexts \in Nat
         /\ Credit = Credits(outgoing) + reserved + demand + Nexts
         /\ Credit <= wireRequested /\ wireRequested \in Nat /\ wireRequested <= MaxSafe
         /\ status = "open" /\ stage # "ended" => Credit = wireRequested
         /\ reserved + demand <= MaxSafe /\ Credits(outgoing) + reserved + demand <= MaxSafe
         /\ owed \in Nat /\ pendingUpstreamDemand \in Nat
<1> DEFINE c == Credits(outgoing)
           k == Nexts
<1>1. /\ c \in Nat /\ k \in Nat /\ reserved \in Nat /\ demand \in Nat /\ wireRequested \in Nat
      /\ wireRequested <= MaxRequestN /\ owed \in Nat /\ pendingUpstreamDemand \in Nat
  BY Numbers DEF IInv
<1>2. Credit = c + reserved + demand + k
  BY DEF Credit
<1>3. /\ Credit <= wireRequested
      /\ status = "open" /\ stage # "ended" => Credit = wireRequested
  BY DEF IInv, CreditInv
<1> HIDE DEF c, k
<1>4. wireRequested <= MaxSafe /\ MaxSafe \in Nat
  BY <1>1, Constants
<1>5. c + reserved + demand + k <= MaxSafe
  <2>1. c + reserved + demand + k <= wireRequested
    BY <1>2, <1>3
  <2> QED BY <1>1, <1>4, <2>1
<1>6. reserved + demand <= MaxSafe /\ c + reserved + demand <= MaxSafe
  BY <1>1, <1>4, <1>5
<1> QED BY <1>1, <1>2, <1>3, <1>4, <1>6 DEF c, k

LEMMA StepControllerReturns ==
  ASSUME IInv, ControllerReturns
  PROVE  IInv'
<1>1. /\ stage \in {"reserved", "withdrawn"}
      /\ stage' = (IF stage = "reserved" THEN "installed" ELSE "ended")
      /\ demand' = (IF stage = "reserved" THEN AddReactiveDemand(demand, reserved) ELSE demand)
      /\ reserved' = 0 /\ UNCHANGED requesterSide /\ up' = up /\ down' = down
      /\ pendingUpstreamDemand' = pendingUpstreamDemand /\ requesting' = requesting
      /\ owed' = owed /\ emitted' = emitted
  BY DEF ControllerReturns, upstream
<1>2. Types /\ RequestInv /\ PublisherInv
  BY DEF IInv
<1>3. /\ Ordered(outgoing)' /\ CancelInv' /\ status # "idle"
      /\ outgoing' = outgoing /\ up' \in Seq(UpFrames)
  BY <1>1, StaysLast
<1>4. Nexts' = Nexts
  BY <1>1, NextsIsNextsOf
<1> DEFINE c == Credits(outgoing)
           k == Nexts
<1>5. /\ c \in Nat /\ reserved \in Nat /\ demand \in Nat /\ k \in Nat
      /\ Credit = c + reserved + demand + k /\ Credit <= wireRequested /\ wireRequested \in Nat
      /\ status = "open" /\ stage # "ended" => Credit = wireRequested
      /\ reserved + demand <= MaxSafe
  BY Holdings
<1>6. Credit' = c + reserved' + demand' + k
  BY <1>3, <1>4 DEF Credit
<1> HIDE DEF c, k
<1>7. PublisherInv'
  BY <1>1, <1>2 DEF PublisherInv
<1>8. /\ down' \in Seq(DownFrames) /\ pendingUpstreamDemand' \in 0..MaxSafe /\ owed' \in 0..MaxSafe
      /\ emitted' \in 0..Items /\ requesting' \in BOOLEAN /\ reserved' \in 0..MaxSafe
      /\ demand \in 0..MaxSafe
  BY <1>1, <1>2, Constants DEF Types
<1>9. \A i \in 1..Len(down') : down'[i] # "NEXT" => stage' = "ended"
  BY <1>1, <1>2 DEF RequestInv
<1>10. /\ demand' \in 0..MaxSafe /\ Credit' <= wireRequested
       /\ status = "open" /\ stage' # "ended" => Credit' = wireRequested
  <2>1. CASE stage = "reserved"
    <3>1. demand' = demand + reserved /\ demand' \in 0..MaxSafe
      <4>1. demand + reserved <= MaxSafe
        BY <1>5
      <4> QED BY <1>1, <1>5, <2>1, <4>1, AddsExactly
    <3>2. Credit' = Credit
      BY <1>1, <1>5, <1>6, <3>1
    <3> QED BY <1>5, <2>1, <3>1, <3>2
  <2>2. CASE stage = "withdrawn"
    <3>1. Credit' = c + 0 + demand + k /\ stage' = "ended" /\ demand' = demand
      BY <1>1, <1>6, <2>2
    <3>2. c + 0 + demand + k <= c + reserved + demand + k
      BY <1>5
    <3>3. Credit' <= wireRequested
      BY <1>5, <3>1, <3>2
    <3> QED BY <1>8, <3>1, <3>3
  <2> QED BY <1>1, <2>1, <2>2
<1>11. stage' \in {"installed", "ended"}
  BY <1>1
<1> QED BY <1>1, <1>3, <1>7, <1>8, <1>9, <1>10, <1>11, Responds

\* The stream ends at the responder: with a terminal frame or without.
LEMMA StreamEnds ==
  ASSUME IInv, UNCHANGED requesterSide, up' = up, stage # "none",
         stage' \in {"ended", "withdrawn"}, stage' = "withdrawn" => stage = "reserved" /\ status # "open",
         down' = down \/ (stage' = "ended" /\ down' \in {Append(down, "ERROR"), Append(down, "COMPLETE")}),
         stage' # "ended" => down' = down, stage = "ended" => stage' = "ended",
         reserved' \in {0, reserved}, demand' = demand, owed' = owed,
         pendingUpstreamDemand' = 0, requesting' = requesting,
         stage' = "withdrawn" => owed = 0 /\ ~requesting,
         emitted' \in 0..Items
  PROVE  IInv'
<1>1. Types /\ RequestInv /\ PublisherInv
  BY DEF IInv
<1>2. /\ Ordered(outgoing)' /\ CancelInv' /\ status # "idle"
      /\ outgoing' = outgoing /\ up' \in Seq(UpFrames)
  <2>1. stage' \notin {"reserved", "installed", "running"}
    OBVIOUS
  <2> QED BY <2>1, StaysLast
<1>3. down \in Seq(DownFrames)
  BY <1>1 DEF Types
<1>4. /\ down' \in Seq(DownFrames) /\ Nexts' = Nexts
      /\ \A i \in 1..Len(down') : down'[i] # "NEXT" => stage' = "ended"
  <2>1. CASE down' = down
    <3>1. \A i \in 1..Len(down) : down[i] # "NEXT" => stage = "ended"
      BY <1>1 DEF RequestInv
    <3> QED BY <1>3, <2>1, <3>1, NextsIsNextsOf
  <2>2. CASE stage' = "ended" /\ down' \in {Append(down, "ERROR"), Append(down, "COMPLETE")}
    <3>1. PICK f \in {"ERROR", "COMPLETE"} : down' = Append(down, f)
      BY <2>2
    <3>2. f \in DownFrames /\ f # "NEXT"
      BY <3>1 DEF DownFrames
    <3>3. /\ Append(down, f) \in Seq(DownFrames)
          /\ NextsOf(Append(down, f)) = NextsOf(down) + IF f = "NEXT" THEN 1 ELSE 0
      BY <1>3, <3>2, NextsAppend
    <3>4. NextsOf(down) \in Nat
      BY <1>3, NextsNat
    <3>5. NextsOf(down') = NextsOf(down)
      BY <3>1, <3>2, <3>3, <3>4
    <3> QED BY <2>2, <3>1, <3>3, <3>5, NextsIsNextsOf
  <2> QED BY <2>1, <2>2
<1> DEFINE c == Credits(outgoing)
           k == Nexts
<1>5. /\ c \in Nat /\ reserved \in Nat /\ demand \in Nat /\ k \in Nat
      /\ Credit = c + reserved + demand + k /\ Credit <= wireRequested /\ wireRequested \in Nat
  BY Holdings
<1>6. Credit' = c + reserved' + demand + k
  BY <1>2, <1>4 DEF Credit
<1> HIDE DEF c, k
<1>7. Credit' <= wireRequested
  <2>1. reserved' \in Nat /\ reserved' <= reserved
    BY <1>5
  <2>2. \A m, n, i, j, w \in Nat : n <= m /\ i + m + j + w <= wireRequested
                                    => i + n + j + w <= wireRequested
    BY <1>5
  <2>3. c + reserved + demand + k <= wireRequested
    BY <1>5
  <2>4. c + reserved' + demand + k <= wireRequested
    BY <1>5, <2>1, <2>2, <2>3
  <2> QED BY <1>6, <2>4
<1>8. PublisherInv'
  BY <1>1 DEF PublisherInv
<1>9. /\ reserved' \in 0..MaxSafe /\ demand' \in 0..MaxSafe
      /\ pendingUpstreamDemand' \in 0..MaxSafe /\ owed' \in 0..MaxSafe /\ requesting' \in BOOLEAN
  <2>1. 0 \in 0..MaxSafe
    BY Constants
  <2> QED BY <1>1, <2>1 DEF Types
<1>10. /\ stage' \in {"none", "reserved", "withdrawn", "installed", "running", "ended"}
       /\ stage' # "none" /\ (stage' = "withdrawn" => status # "open")
       /\ (status = "open" => stage' = "ended")
  OBVIOUS
<1> QED BY <1>2, <1>4, <1>7, <1>8, <1>9, <1>10, Responds

LEMMA StepEnds ==
  ASSUME IInv, ControllerThrows \/ PublisherCompletes \/ OutputFails \/ ResponderSessionEnds
  PROVE  IInv'
<1>1. Types /\ QueueInv /\ PublisherInv
  BY DEF IInv
<1>2. emitted \in 0..Items
  BY <1>1 DEF Types
<1>3. CASE ControllerThrows
  <2>1. /\ stage \in {"reserved", "withdrawn"} /\ stage' = "ended" /\ reserved' = 0
        /\ down' = down \/ down' = Append(down, "ERROR")
        /\ UNCHANGED requesterSide /\ up' = up /\ demand' = demand /\ emitted' = emitted
        /\ pendingUpstreamDemand' = pendingUpstreamDemand /\ requesting' = requesting
        /\ owed' = owed
    BY <1>3 DEF ControllerThrows, upstream
  <2>2. pendingUpstreamDemand' = 0
    BY <1>1, <2>1 DEF PublisherInv
  <2> QED BY <1>2, <2>1, <2>2, StreamEnds
<1>4. CASE PublisherCompletes
  <2>1. /\ stage = "running" /\ stage' = "ended" /\ reserved' = reserved
        /\ down' = Append(down, "COMPLETE")
        /\ UNCHANGED requesterSide /\ up' = up /\ demand' = demand /\ emitted' = emitted
        /\ pendingUpstreamDemand' = 0 /\ requesting' = requesting /\ owed' = owed
    BY <1>4 DEF PublisherCompletes, Ends
  <2> QED BY <1>2, <2>1, StreamEnds
<1>5. CASE OutputFails
  <2>1. /\ stage \in {"installed", "running"} /\ stage' = "ended" /\ reserved' = reserved
        /\ down' = Append(down, "ERROR")
        /\ UNCHANGED requesterSide /\ up' = up /\ demand' = demand /\ emitted' = emitted
        /\ pendingUpstreamDemand' = 0 /\ requesting' = requesting /\ owed' = owed
    BY <1>5 DEF OutputFails, Ends
  <2> QED BY <1>2, <2>1, StreamEnds
<1>6. CASE ResponderSessionEnds
  <2>1. /\ session = "over" /\ stage \in {"reserved", "installed", "running"}
        /\ stage' = Terminated /\ pendingUpstreamDemand' = 0
        /\ UNCHANGED requesterSide /\ up' = up /\ down' = down
        /\ reserved' = reserved /\ demand' = demand /\ requesting' = requesting
        /\ owed' = owed /\ emitted' = emitted
    BY <1>6 DEF ResponderSessionEnds
  <2>2. /\ stage' \in {"ended", "withdrawn"}
        /\ stage' = "withdrawn" => stage = "reserved"
    BY <2>1 DEF Terminated
  <2>3. status # "open"
    BY <1>1, <2>1 DEF QueueInv
  <2>4. stage' = "withdrawn" => owed = 0 /\ ~requesting
    BY <1>1, <2>2 DEF PublisherInv
  <2> QED BY <1>2, <2>1, <2>2, <2>3, <2>4, StreamEnds
<1> QED BY <1>3, <1>4, <1>5, <1>6

\* Asking the publisher for what was added to the demand.
LEMMA Asks ==
  ASSUME Types, NEW n \in Nat, owed + pendingUpstreamDemand + n <= MaxSafe, RequestUpstream(n)
  PROVE  /\ owed' \in 0..MaxSafe /\ pendingUpstreamDemand' \in 0..MaxSafe /\ requesting' \in BOOLEAN
         /\ owed' + pendingUpstreamDemand' = owed + pendingUpstreamDemand + n
<1> DEFINE p == pendingUpstreamDemand
<1>1. owed \in Nat /\ p \in Nat /\ MaxSafe \in Nat /\ requesting \in BOOLEAN
  BY Numbers, Constants DEF Types
<1>2. p + n <= MaxSafe /\ p + n \in Nat /\ owed + (p + n) = owed + p + n
  BY <1>1
<1>3. AddReactiveDemand(p, n) = p + n /\ p + n \in 0..MaxSafe
  BY <1>1, <1>2, AddsExactly
<1>4. CASE requesting
  <2>1. pendingUpstreamDemand' = p + n /\ requesting' = requesting /\ owed' = owed
    BY <1>3, <1>4 DEF RequestUpstream
  <2>2. owed \in 0..MaxSafe
    BY DEF Types
  <2> QED BY <1>1, <1>2, <1>3, <2>1, <2>2
<1>5. CASE ~requesting
  <2>1. pendingUpstreamDemand' = 0 /\ requesting' = TRUE /\ owed' = owed + (p + n)
    BY <1>3, <1>5 DEF RequestUpstream
  <2>2. owed + (p + n) \in 0..MaxSafe /\ 0 \in 0..MaxSafe /\ owed + (p + n) + 0 = owed + p + n
    BY <1>1
  <2> QED BY <2>1, <2>2
<1> QED BY <1>4, <1>5

LEMMA StepOnSubscribe ==
  ASSUME IInv, OnSubscribe
  PROVE  IInv'
<1>1. /\ stage = "installed" /\ stage' = "running"
      /\ IF demand > 0 THEN RequestUpstream(demand) ELSE UNCHANGED upstream
      /\ UNCHANGED requesterSide /\ up' = up /\ down' = down
      /\ reserved' = reserved /\ demand' = demand /\ emitted' = emitted
  BY DEF OnSubscribe
<1>2. Types /\ RequestInv /\ PublisherInv
  BY DEF IInv
<1>3. /\ Ordered(outgoing)' /\ CancelInv' /\ status # "idle"
      /\ outgoing' = outgoing /\ up' \in Seq(UpFrames)
  BY <1>1, StaysLast
<1>4. Credit' = Credit
  BY <1>1, <1>3, NextsIsNextsOf DEF Credit
<1>5. /\ Credit <= wireRequested /\ (status = "open" /\ stage # "ended" => Credit = wireRequested)
      /\ demand \in Nat /\ owed \in Nat /\ pendingUpstreamDemand \in Nat
      /\ reserved \in Nat /\ reserved + demand <= MaxSafe
  BY Holdings
<1>6. owed = 0 /\ pendingUpstreamDemand = 0
  BY <1>1, <1>2 DEF PublisherInv
<1>7. /\ owed' \in 0..MaxSafe /\ pendingUpstreamDemand' \in 0..MaxSafe /\ requesting' \in BOOLEAN
      /\ owed' + pendingUpstreamDemand' = demand
  <2>1. CASE demand > 0
    <3>1. owed + pendingUpstreamDemand + demand <= MaxSafe /\ owed + pendingUpstreamDemand + demand = demand
      BY <1>5, <1>6, Constants
    <3>2. RequestUpstream(demand)
      BY <1>1, <2>1
    <3> QED BY <1>2, <1>5, <3>1, <3>2, Asks
  <2>2. CASE ~(demand > 0)
    <3>1. demand = 0
      BY <1>5, <2>2
    <3>2. /\ owed' = owed /\ pendingUpstreamDemand' = pendingUpstreamDemand
          /\ requesting' = requesting
      BY <1>1, <2>2 DEF upstream
    <3> QED BY <1>2, <1>6, <3>1, <3>2 DEF Types
  <2> QED BY <2>1, <2>2
<1>8. PublisherInv'
  BY <1>1, <1>7 DEF PublisherInv
<1>9. /\ down' \in Seq(DownFrames) /\ emitted' \in 0..Items
      /\ reserved' \in 0..MaxSafe /\ demand' \in 0..MaxSafe
  BY <1>1, <1>2 DEF Types
<1>10. \A i \in 1..Len(down') : down'[i] # "NEXT" => stage' = "ended"
  BY <1>1, <1>2 DEF RequestInv
<1> QED BY <1>1, <1>3, <1>4, <1>5, <1>7, <1>8, <1>9, <1>10, Responds

LEMMA StepRequestReturns ==
  ASSUME IInv, RequestReturns
  PROVE  IInv'
<1>1. /\ requesting /\ pendingUpstreamDemand' = 0
      /\ IF stage = "running" /\ pendingUpstreamDemand > 0
         THEN owed' = owed + pendingUpstreamDemand /\ requesting' = requesting
         ELSE requesting' = FALSE /\ owed' = owed
      /\ UNCHANGED requesterSide /\ up' = up /\ down' = down /\ stage' = stage
      /\ reserved' = reserved /\ demand' = demand /\ emitted' = emitted
  BY DEF RequestReturns
<1>2. Types /\ RequestInv /\ PublisherInv
  BY DEF IInv
<1>3. stage \in {"running", "ended"}
  BY <1>1, <1>2 DEF PublisherInv, Types
<1>4. /\ Ordered(outgoing)' /\ CancelInv' /\ status # "idle"
      /\ outgoing' = outgoing /\ up' \in Seq(UpFrames)
  BY <1>1, <1>3, StaysLast
<1>5. Credit' = Credit
  BY <1>1, <1>4, NextsIsNextsOf DEF Credit
<1>6. /\ Credit <= wireRequested /\ (status = "open" /\ stage # "ended" => Credit = wireRequested)
      /\ demand \in Nat /\ owed \in Nat /\ pendingUpstreamDemand \in Nat
  BY Holdings
<1>7. /\ owed' \in 0..MaxSafe /\ pendingUpstreamDemand' \in 0..MaxSafe /\ requesting' \in BOOLEAN
      /\ stage = "running" => owed' + pendingUpstreamDemand' = demand
  <2>1. 0 \in 0..MaxSafe
    BY Constants
  <2>2. /\ owed \in 0..MaxSafe /\ demand \in 0..MaxSafe /\ requesting \in BOOLEAN
        /\ stage = "running" => owed + pendingUpstreamDemand = demand
    BY <1>2 DEF Types, PublisherInv
  <2>3. CASE stage = "running" /\ pendingUpstreamDemand > 0
    BY <1>1, <1>6, <2>1, <2>2, <2>3
  <2>4. CASE ~(stage = "running" /\ pendingUpstreamDemand > 0)
    <3>1. stage = "running" => pendingUpstreamDemand = 0
      BY <1>6, <2>4
    <3> QED BY <1>1, <1>6, <2>1, <2>2, <2>4, <3>1
  <2> QED BY <2>3, <2>4
<1>8. PublisherInv'
  BY <1>1, <1>3, <1>7 DEF PublisherInv
<1>9. /\ down' \in Seq(DownFrames) /\ emitted' \in 0..Items
      /\ reserved' \in 0..MaxSafe /\ demand' \in 0..MaxSafe
  BY <1>1, <1>2 DEF Types
<1>10. \A i \in 1..Len(down') : down'[i] # "NEXT" => stage' = "ended"
  BY <1>1, <1>2 DEF RequestInv
<1> QED BY <1>1, <1>3, <1>4, <1>5, <1>6, <1>7, <1>8, <1>9, <1>10, Responds

\* An item: asked for, or the stream fails.
LEMMA StepPublisherEmits ==
  ASSUME IInv, PublisherEmits
  PROVE  IInv'
<1>1. /\ stage = "running" /\ emitted < Items /\ emitted' = emitted + 1
      /\ owed > 0 \/ demand <= 0
      /\ reserved' = reserved /\ requesting' = requesting /\ up' = up
      /\ UNCHANGED requesterSide
  BY DEF PublisherEmits, Ends
<1>2. Types /\ RequestInv /\ PublisherInv
  BY DEF IInv
<1>3. emitted' \in 0..Items
  BY <1>1, <1>2, DemandAssumption DEF Types
<1>4. CASE demand <= 0
  <2>1. /\ stage' = "ended" /\ pendingUpstreamDemand' = 0 /\ down' = Append(down, "ERROR")
        /\ demand' = demand /\ owed' = owed
    BY <1>4 DEF PublisherEmits, Ends
  <2> QED BY <1>1, <1>3, <2>1, StreamEnds
<1>5. CASE ~(demand <= 0)
  <2>1. /\ demand' = demand - 1 /\ owed' = owed - 1 /\ down' = Append(down, "NEXT")
        /\ stage' = stage /\ pendingUpstreamDemand' = pendingUpstreamDemand
    BY <1>5 DEF PublisherEmits
  <2>2. /\ Ordered(outgoing)' /\ CancelInv' /\ status # "idle"
        /\ outgoing' = outgoing /\ up' \in Seq(UpFrames)
    BY <1>1, <2>1, StaysLast
  <2>3. /\ down' \in Seq(DownFrames) /\ Nexts' = Nexts + 1
        /\ \A i \in 1..Len(down') : down'[i] # "NEXT" => stage' = "ended"
    <3>1. down \in Seq(DownFrames) /\ "NEXT" \in DownFrames
      BY <1>2 DEF Types, DownFrames
    <3> DEFINE r == Append(down, "NEXT")
    <3>2. /\ r \in Seq(DownFrames) /\ NextsOf(r) = NextsOf(down) + 1
          /\ Len(r) = Len(down) + 1 /\ r[Len(down) + 1] = "NEXT" /\ Len(down) \in Nat
          /\ \A i \in 1..Len(down) : r[i] = down[i]
      BY <3>1, NextsAppend, AppendProperties, LenProperties
    <3> HIDE DEF r
    <3>3. \A i \in 1..Len(down) : down[i] = "NEXT"
      BY <1>1, <1>2 DEF RequestInv
    <3>4. \A i \in 1..Len(r) : i \in 1..Len(down) \/ i = Len(down) + 1
      BY <3>2
    <3>5. \A i \in 1..Len(r) : r[i] = "NEXT"
      BY <3>2, <3>3, <3>4
    <3> QED BY <2>1, <3>2, <3>5, NextsIsNextsOf DEF r
  <2> DEFINE c == Credits(outgoing)
             k == Nexts
  <2>4. /\ c \in Nat /\ reserved \in Nat /\ demand \in Nat /\ k \in Nat
        /\ Credit = c + reserved + demand + k /\ Credit <= wireRequested
        /\ status = "open" /\ stage # "ended" => Credit = wireRequested
        /\ owed \in Nat /\ pendingUpstreamDemand \in Nat
    BY Holdings
  <2>5. Credit' = c + reserved + (demand - 1) + (k + 1)
    BY <1>1, <2>1, <2>2, <2>3 DEF Credit
  <2> HIDE DEF c, k
  <2>6. Credit' = Credit
    BY <2>4, <2>5
  <2>7. owed > 0 /\ demand > 0 /\ owed + pendingUpstreamDemand = demand
    BY <1>1, <1>2, <1>5, <2>4 DEF PublisherInv
  <2>8. PublisherInv'
    <3>1. (owed - 1) + pendingUpstreamDemand = demand - 1
      BY <2>4, <2>7
    <3> QED BY <1>1, <2>1, <3>1 DEF PublisherInv
  <2>9. /\ demand' \in 0..MaxSafe /\ owed' \in 0..MaxSafe
        /\ reserved' \in 0..MaxSafe /\ pendingUpstreamDemand' \in 0..MaxSafe /\ requesting' \in BOOLEAN
    <3>1. demand \in 0..MaxSafe /\ owed \in 0..MaxSafe /\ MaxSafe \in Nat
      BY <1>2, Constants DEF Types
    <3>2. demand - 1 \in 0..MaxSafe /\ owed - 1 \in 0..MaxSafe
      BY <2>7, <3>1
    <3> QED BY <1>1, <1>2, <2>1, <3>2 DEF Types
  <2> QED BY <1>1, <1>3, <2>1, <2>2, <2>3, <2>4, <2>6, <2>8, <2>9, Responds
<1> QED BY <1>4, <1>5

\* The first frame under way is dispatched.
LEMMA Dispatched ==
  ASSUME IInv, NEW type, NextUp(type), UNCHANGED requesterSide
  PROVE  /\ outgoing # <<>> /\ Head(up) = outgoing[1] /\ Head(up).type = type /\ Head(up) \in UpFrames
         /\ up' \in Seq(UpFrames) /\ outgoing' \in Seq(UpFrames)
         /\ Credits(outgoing) = Head(up).n + Credits(outgoing') /\ Credits(outgoing') \in Nat
         /\ \A i \in 1..Len(outgoing') : outgoing'[i].type # "REQUEST_STREAM"
         /\ status # "idle" /\ status' = status /\ session' = session
         /\ type = "REQUEST_STREAM" => stage = "none"
         /\ type # "REQUEST_STREAM" /\ status = "open" => stage # "none"
         /\ type = "CANCEL" => outgoing' = <<>> /\ status # "open"
         /\ type # "CANCEL" /\ Last(outgoing) = Cancelling =>
              outgoing' # <<>> /\ Last(outgoing') = Cancelling
         /\ \A i \in 1..Len(outgoing') :
              outgoing'[i].type = "CANCEL" => i = Len(outgoing') /\ status # "open"
<1>1. /\ up # <<>> /\ Head(up).type = type /\ up' = Tail(up) /\ pendingFrames' = pendingFrames
      /\ status' = status /\ session' = session
  BY DEF NextUp, requesterSide, subscription
<1>2. up \in Seq(UpFrames) /\ pendingFrames \in Seq(UpFrames) /\ RequestInv
  BY DEF IInv, Types
<1> DEFINE t == Tail(up)
           o == up \o pendingFrames
           r == t \o pendingFrames
<1>3. /\ t \in Seq(UpFrames) /\ Len(t) = Len(up) - 1 /\ Len(up) \in Nat /\ Len(up) > 0
      /\ \A i \in 1..Len(t) : t[i] = up[i + 1]
      /\ Head(up) \in UpFrames /\ Head(up) = up[1]
  <2>1. /\ t \in Seq(UpFrames) /\ Len(t) = Len(up) - 1 /\ Head(up) \in UpFrames
        /\ \A i \in 1..Len(t) : t[i] = up[i + 1]
    BY <1>1, <1>2, HeadTailProperties
  <2>2. Len(up) \in Nat /\ Len(up) > 0
    BY <1>1, <1>2, EmptySeq
  <2>3. Head(up) = up[1]
    OBVIOUS
  <2> QED BY <2>1, <2>2, <2>3
<1>4. /\ o \in Seq(UpFrames) /\ Len(o) = Len(up) + Len(pendingFrames) /\ Len(pendingFrames) \in Nat
      /\ \A i \in 1..Len(up) : o[i] = up[i] /\ i \in 1..Len(o)
      /\ \A i \in 1..Len(pendingFrames) : o[Len(up) + i] = pendingFrames[i]
  BY <1>2, UpIsFirst
<1> HIDE DEF t
<1>5. /\ r \in Seq(UpFrames) /\ Len(r) = Len(t) + Len(pendingFrames)
      /\ \A i \in 1..(Len(t) + Len(pendingFrames)) :
           r[i] = IF i <= Len(t) THEN t[i] ELSE pendingFrames[i - Len(t)]
  BY <1>2, <1>3, ConcatProperties
<1>6. outgoing = o /\ outgoing' = r
  BY <1>1 DEF outgoing, t
<1> HIDE DEF o, r
<1>7. /\ Len(r) = Len(o) - 1 /\ Len(r) \in Nat /\ Len(o) \in Nat /\ 1 \in 1..Len(o)
      /\ \A i \in 1..Len(r) : i + 1 \in 1..Len(o) /\ i + 1 # 1
  BY <1>3, <1>4, <1>5
<1>8. o # <<>> /\ o[1] = Head(up)
  <2>1. 1 \in 1..Len(up)
    BY <1>3
  <2>2. o # <<>>
    BY <1>7, EmptySeq
  <2> QED BY <1>3, <1>4, <2>1, <2>2
<1>9. ASSUME NEW i \in 1..Len(r) PROVE r[i] = o[i + 1]
  <2>1. i \in 1..(Len(t) + Len(pendingFrames))
    BY <1>5
  <2>2. CASE i <= Len(t)
    <3>1. i \in 1..Len(t) /\ i + 1 \in 1..Len(up)
      BY <1>3, <2>2
    <3> QED BY <1>3, <1>4, <1>5, <2>1, <2>2, <3>1
  <2>3. CASE ~(i <= Len(t))
    <3> DEFINE j == i - Len(t)
    <3>1. j \in 1..Len(pendingFrames) /\ Len(up) + j = i + 1
      BY <1>3, <1>4, <2>1, <2>3
    <3>2. r[i] = pendingFrames[j]
      BY <1>5, <2>1, <2>3
    <3> HIDE DEF j
    <3>3. o[Len(up) + j] = pendingFrames[j]
      BY <1>4, <3>1
    <3> QED BY <3>1, <3>2, <3>3
  <2> QED BY <2>2, <2>3
<1>10. r = Tail(o)
  <2> DEFINE s == Tail(o)
  <2>1. s \in Seq(UpFrames) /\ Len(s) = Len(o) - 1 /\ \A i \in 1..Len(s) : s[i] = o[i + 1]
    BY <1>4, <1>8, HeadTailProperties
  <2> HIDE DEF s
  <2>2. Len(s) = Len(r) /\ \A i \in 1..Len(r) : r[i] = s[i]
    BY <1>7, <1>9, <2>1
  <2>3. r = s
    BY <1>5, <2>1, <2>2, SeqEqual
  <2> QED BY <2>3 DEF s
<1>11. Credits(o) = Head(up).n + Credits(r) /\ Credits(r) \in Nat
  <2>1. Credits(o) = Head(o).n + Credits(Tail(o)) /\ Head(o) = o[1]
    BY <1>4, <1>8, CreditsTail
  <2> QED BY <1>5, <1>8, <1>10, <2>1, CreditsNat
<1>12. \A i \in 1..Len(o) : /\ o[i].type = "REQUEST_STREAM" => i = 1 /\ stage = "none"
                            /\ o[i].type = "CANCEL" => i = Len(o) /\ status # "open"
  BY <1>2, <1>6 DEF RequestInv, Ordered
<1>13. \A i \in 1..Len(r) : /\ r[i].type # "REQUEST_STREAM"
                            /\ r[i].type = "CANCEL" => i = Len(r) /\ status # "open"
  <2> TAKE i \in 1..Len(r)
  <2>1. i + 1 \in 1..Len(o) /\ i + 1 # 1 /\ r[i] = o[i + 1] /\ (i + 1 = Len(o) => i = Len(r))
    BY <1>7, <1>9
  <2> QED BY <1>12, <2>1
<1>14. status # "idle" /\ (type # "REQUEST_STREAM" /\ status = "open" => stage # "none")
  BY <1>1, <1>2, <1>6, <1>8 DEF RequestInv
<1>15. type = "REQUEST_STREAM" => stage = "none"
  BY <1>1, <1>7, <1>8, <1>12
<1>16. type = "CANCEL" => r = <<>> /\ status # "open"
  <2> SUFFICES ASSUME type = "CANCEL" PROVE r = <<>> /\ status # "open"
    OBVIOUS
  <2>1. 1 = Len(o) /\ status # "open"
    BY <1>1, <1>7, <1>8, <1>12
  <2>2. Len(r) = 0
    BY <1>7, <2>1
  <2> QED BY <1>5, <2>1, <2>2, EmptySeq
<1>17. ASSUME type # "CANCEL", Last(o) = Cancelling PROVE r # <<>> /\ Last(r) = Cancelling
  <2>1. o[Len(o)] = Cancelling
    BY <1>17 DEF Last
  <2>2. Len(o) # 1
    BY <1>1, <1>8, <1>17, <2>1, CancelFrame
  <2>3. Len(r) \in 1..Len(r) /\ Len(r) + 1 = Len(o) /\ Len(r) # 0
    BY <1>7, <2>2
  <2>4. r[Len(r)] = Cancelling
    BY <1>9, <2>1, <2>3
  <2>5. r # <<>>
    BY <2>3, EmptySeq
  <2> QED BY <2>4, <2>5 DEF Last
<1> QED BY <1>1, <1>3, <1>5, <1>6, <1>8, <1>11, <1>13, <1>14, <1>15, <1>16, <1>17 DEF t

\* The CANCEL stays behind whatever is dispatched before it.
LEMMA LastStays ==
  ASSUME IInv, NEW type, NextUp(type), UNCHANGED requesterSide, type # "CANCEL",
         stage' \in {"reserved", "installed", "running"} => stage' = stage \/ type = "REQUEST_STREAM"
  PROVE  CancelInv' /\ Ordered(outgoing)'
<1>1. /\ outgoing # <<>> /\ Head(up) = outgoing[1] /\ Head(up).type = type
      /\ \A i \in 1..Len(outgoing') : outgoing'[i].type # "REQUEST_STREAM"
      /\ status' = status /\ session' = session
      /\ Last(outgoing) = Cancelling => outgoing' # <<>> /\ Last(outgoing') = Cancelling
      /\ \A i \in 1..Len(outgoing') :
           outgoing'[i].type = "CANCEL" => i = Len(outgoing') /\ status # "open"
  BY Dispatched
<1>2. 1 \in 1..Len(outgoing)
  <2>1. outgoing \in Seq(UpFrames)
    BY OutgoingType DEF IInv
  <2>2. Len(outgoing) \in Nat \ {0}
    BY <1>1, <2>1, EmptySeq
  <2> QED BY <2>2
<1>3. WillRun' => WillRun
  BY <1>1, <1>2 DEF WillRun
<1>4. CancelInv'
  BY <1>1, <1>3 DEF IInv, CancelInv
<1>5. Ordered(outgoing)'
  BY <1>1 DEF Ordered
<1> QED BY <1>4, <1>5

LEMMA StepReceiveRequest ==
  ASSUME IInv, ReceiveRequest
  PROVE  IInv'
<1>1. /\ NextUp("REQUEST_STREAM") /\ UNCHANGED requesterSide
      /\ reserved' = reserved /\ emitted' = emitted
      /\ pendingUpstreamDemand' = pendingUpstreamDemand /\ requesting' = requesting
      /\ owed' = owed
      /\ \/ stage' = "reserved" /\ demand' = Head(up).n /\ down' = down
         \/ stage' = "ended" /\ down' = Append(down, "ERROR") /\ demand' = demand
  BY DEF ReceiveRequest, upstream
<1>2. Types /\ RequestInv /\ PublisherInv
  BY DEF IInv
<1>3. /\ Head(up) \in UpFrames /\ up' \in Seq(UpFrames) /\ stage = "none" /\ status # "idle"
      /\ Credits(outgoing) = Head(up).n + Credits(outgoing') /\ Credits(outgoing') \in Nat
  BY <1>1, Dispatched
<1>4. CancelInv' /\ Ordered(outgoing)'
  BY <1>1, LastStays
<1>5. down = <<>> /\ demand = 0 /\ reserved = 0 /\ Nexts = 0
  <2>1. down = <<>> /\ demand = 0 /\ reserved = 0
    BY <1>2, <1>3 DEF RequestInv
  <2> QED BY <2>1, NextsEmpty, NextsIsNextsOf
<1> DEFINE c == Credits(outgoing)
           d == Credits(outgoing')
           n == Head(up).n
<1>6. /\ Credit = c + 0 + 0 + 0 /\ Credit <= wireRequested /\ wireRequested \in Nat
      /\ status = "open" => Credit = wireRequested
  BY <1>3, <1>5, Holdings
<1>7. c = n + d /\ d \in Nat /\ n \in Nat /\ n \in 0..MaxSafe
  BY <1>3, FrameFacts, Constants
<1>8. down' \in Seq(DownFrames) /\ Nexts' = 0
      /\ \A i \in 1..Len(down') : down'[i] # "NEXT" => stage' = "ended"
  <2>1. CASE down' = down
    <3>1. down' = <<>> /\ Len(<<>>) = 0
      BY <1>5, <2>1
    <3> QED BY <1>2, <1>5, <2>1, <3>1, NextsIsNextsOf DEF Types
  <2>2. CASE down' = Append(down, "ERROR") /\ stage' = "ended"
    <3>1. down \in Seq(DownFrames) /\ "ERROR" \in DownFrames
      BY <1>2 DEF Types, DownFrames
    <3>2. NextsOf(down) = 0
      BY <1>5, NextsEmpty
    <3>3. /\ Append(down, "ERROR") \in Seq(DownFrames)
          /\ NextsOf(Append(down, "ERROR")) = NextsOf(down) + IF "ERROR" = "NEXT" THEN 1 ELSE 0
      BY <3>1, NextsAppend
    <3>4. NextsOf(Append(down, "ERROR")) = 0
      BY <3>2, <3>3
    <3> QED BY <2>2, <3>3, <3>4, NextsIsNextsOf
  <2> QED BY <1>1, <2>1, <2>2
<1>9. Credit' = d + 0 + demand' + 0
  BY <1>1, <1>5, <1>8 DEF Credit
<1>10. owed = 0 /\ pendingUpstreamDemand = 0 /\ ~requesting
  BY <1>2, <1>3 DEF PublisherInv
<1>11. PublisherInv'
  BY <1>1, <1>10 DEF PublisherInv
<1>12. /\ reserved' \in 0..MaxSafe /\ pendingUpstreamDemand' \in 0..MaxSafe /\ owed' \in 0..MaxSafe
       /\ emitted' \in 0..Items /\ requesting' \in BOOLEAN
  BY <1>1, <1>2 DEF Types
<1> HIDE DEF c, d, n
<1>13. /\ demand' \in 0..MaxSafe /\ Credit' <= wireRequested
       /\ status = "open" /\ stage' # "ended" => Credit' = wireRequested
  <2>1. CASE stage' = "reserved" /\ demand' = Head(up).n
    <3>1. demand' = n
      BY <2>1 DEF n
    <3>2. Credit' = Credit
      BY <1>6, <1>7, <1>9, <3>1
    <3> QED BY <1>6, <1>7, <3>1, <3>2
  <2>2. CASE stage' = "ended" /\ demand' = demand
    <3>1. Credit' = d + 0 + 0 + 0 /\ 0 \in 0..MaxSafe
      BY <1>5, <1>9, <2>2, Constants
    <3>2. n + d + 0 + 0 + 0 <= wireRequested
      BY <1>6, <1>7
    <3>3. d + 0 + 0 + 0 <= wireRequested
      BY <1>6, <1>7, <3>2
    <3> QED BY <1>5, <2>2, <3>1, <3>3
  <2> QED BY <1>1, <2>1, <2>2
<1>14. stage' \in {"reserved", "ended"}
  BY <1>1
<1> QED BY <1>1, <1>3, <1>4, <1>8, <1>11, <1>12, <1>13, <1>14, Responds

LEMMA StepReceiveRequestN ==
  ASSUME IInv, ReceiveRequestN
  PROVE  IInv'
<1> DEFINE n == Head(up).n
<1>1. /\ NextUp("REQUEST_N") /\ UNCHANGED requesterSide
      /\ stage' = stage /\ emitted' = emitted /\ down' = down
      /\ Reserve(n) \/ OutputRequest(n) \/ NobodyHears
  BY DEF ReceiveRequestN
<1>2. Types /\ RequestInv /\ PublisherInv
  BY DEF IInv
<1>3. /\ Head(up) \in UpFrames /\ up' \in Seq(UpFrames) /\ status # "idle"
      /\ status = "open" => stage # "none"
      /\ Credits(outgoing) = n + Credits(outgoing') /\ Credits(outgoing') \in Nat
  BY <1>1, Dispatched
<1>4. CancelInv' /\ Ordered(outgoing)'
  BY <1>1, LastStays
<1>5. Nexts' = Nexts
  BY <1>1, NextsIsNextsOf
<1> DEFINE c == Credits(outgoing)
           d == Credits(outgoing')
           k == Nexts
<1>6. /\ Credit = c + reserved + demand + k /\ Credit <= wireRequested /\ wireRequested \in Nat
      /\ status = "open" /\ stage # "ended" => Credit = wireRequested
      /\ k \in Nat /\ reserved \in Nat /\ demand \in Nat /\ c \in Nat
      /\ c + reserved + demand <= MaxSafe
      /\ owed \in Nat /\ pendingUpstreamDemand \in Nat
  BY Holdings
<1>7. c = n + d /\ d \in Nat /\ n \in Nat
  BY <1>3, FrameFacts
<1>8. Credit' = d + reserved' + demand' + k
  BY <1>5 DEF Credit
<1>9. down' \in Seq(DownFrames) /\ emitted' \in 0..Items
      /\ \A i \in 1..Len(down') : down'[i] # "NEXT" => stage' = "ended"
  BY <1>1, <1>2 DEF Types, RequestInv
<1>10. stage' = "withdrawn" => status # "open"
  BY <1>1, <1>2 DEF RequestInv
<1>11. stage' \in {"none", "reserved", "withdrawn", "installed", "running", "ended"}
  BY <1>1, <1>2 DEF Types
<1> HIDE DEF c, d, k, n
<1>12. /\ reserved + n <= MaxSafe /\ demand + n <= MaxSafe /\ MaxSafe \in Nat
       /\ n + d + reserved + demand + k = Credit
  BY <1>6, <1>7, Constants
<1>13. /\ reserved \in 0..MaxSafe /\ demand \in 0..MaxSafe /\ pendingUpstreamDemand \in 0..MaxSafe
       /\ owed \in 0..MaxSafe /\ requesting \in BOOLEAN
  BY <1>2 DEF Types
<1>14. CASE Reserve(n)
  <2>1. /\ stage = "reserved" /\ reserved' = AddReactiveDemand(reserved, n) /\ demand' = demand
        /\ pendingUpstreamDemand' = pendingUpstreamDemand /\ requesting' = requesting
        /\ owed' = owed
    BY <1>14 DEF Reserve, upstream
  <2>2. reserved' = reserved + n /\ reserved' \in 0..MaxSafe
    BY <1>6, <1>7, <1>12, <2>1, AddsExactly
  <2>3. Credit' = Credit
    BY <1>6, <1>7, <1>8, <1>12, <2>1, <2>2
  <2>4. PublisherInv'
    BY <1>1, <1>2, <2>1 DEF PublisherInv
  <2> QED BY <1>1, <1>3, <1>4, <1>6, <1>9, <1>10, <1>11, <1>13, <2>1, <2>2, <2>3, <2>4, Responds
<1>15. CASE OutputRequest(n)
  <2>1. /\ stage \in {"installed", "running"} /\ reserved' = reserved
        /\ demand' = AddReactiveDemand(demand, n)
        /\ IF stage = "running" THEN RequestUpstream(n) ELSE UNCHANGED upstream
    BY <1>15 DEF OutputRequest
  <2>2. demand' = demand + n /\ demand' \in 0..MaxSafe
    BY <1>6, <1>7, <1>12, <2>1, AddsExactly
  <2>3. Credit' = Credit
    BY <1>6, <1>7, <1>8, <1>12, <2>1, <2>2
  <2>4. /\ owed' \in 0..MaxSafe /\ pendingUpstreamDemand' \in 0..MaxSafe /\ requesting' \in BOOLEAN
        /\ PublisherInv'
    <3>1. CASE stage = "running"
      <4>1. owed + pendingUpstreamDemand = demand
        BY <1>2, <3>1 DEF PublisherInv
      <4>2. owed + pendingUpstreamDemand + n <= MaxSafe
        BY <1>6, <1>12, <4>1
      <4>3. RequestUpstream(n)
        BY <2>1, <3>1
      <4>4. /\ owed' \in 0..MaxSafe /\ pendingUpstreamDemand' \in 0..MaxSafe /\ requesting' \in BOOLEAN
            /\ owed' + pendingUpstreamDemand' = owed + pendingUpstreamDemand + n
        BY <1>2, <1>7, <4>2, <4>3, Asks
      <4>5. owed' + pendingUpstreamDemand' = demand'
        BY <2>2, <4>1, <4>4
      <4>6. PublisherInv'
        BY <1>1, <3>1, <4>5 DEF PublisherInv
      <4> QED BY <4>4, <4>6
    <3>2. CASE stage = "installed"
      <4>1. /\ pendingUpstreamDemand' = pendingUpstreamDemand /\ requesting' = requesting
            /\ owed' = owed
        BY <2>1, <3>2 DEF upstream
      <4>2. PublisherInv'
        BY <1>1, <1>2, <3>2, <4>1 DEF PublisherInv
      <4> QED BY <1>13, <4>1, <4>2
    <3> QED BY <2>1, <3>1, <3>2
  <2> QED BY <1>1, <1>3, <1>4, <1>6, <1>9, <1>10, <1>11, <1>13, <2>1, <2>2, <2>3, <2>4, Responds
<1>16. CASE NobodyHears
  <2>1. /\ stage \notin {"reserved", "installed", "running"}
        /\ reserved' = reserved /\ demand' = demand
        /\ pendingUpstreamDemand' = pendingUpstreamDemand /\ requesting' = requesting
        /\ owed' = owed
    BY <1>16 DEF NobodyHears, upstream
  <2>2. Credit' <= wireRequested
    <3>1. d + reserved + demand + k <= wireRequested
      BY <1>6, <1>7, <1>12
    <3> QED BY <1>8, <2>1, <3>1
  <2>3. status = "open" => stage' = "ended"
    BY <1>1, <1>3, <1>10, <1>11, <2>1
  <2>4. PublisherInv'
    BY <1>1, <1>2, <2>1 DEF PublisherInv
  <2> QED BY <1>1, <1>3, <1>4, <1>9, <1>10, <1>11, <1>13, <2>1, <2>2, <2>3, <2>4, Responds
<1> QED BY <1>1, <1>14, <1>15, <1>16

LEMMA StepReceiveCancel ==
  ASSUME IInv, ReceiveCancel
  PROVE  IInv'
<1>1. /\ NextUp("CANCEL") /\ UNCHANGED requesterSide
      /\ stage' = Terminated /\ pendingUpstreamDemand' = 0
      /\ reserved' = reserved /\ demand' = demand /\ requesting' = requesting
      /\ owed' = owed /\ emitted' = emitted /\ down' = down
  BY DEF ReceiveCancel
<1>2. Types /\ RequestInv /\ PublisherInv
  BY DEF IInv
<1>3. /\ Head(up) \in UpFrames /\ up' \in Seq(UpFrames) /\ status # "idle" /\ status # "open"
      /\ Credits(outgoing) = Head(up).n + Credits(outgoing') /\ Credits(outgoing') \in Nat
      /\ outgoing' = <<>>
  BY <1>1, Dispatched
<1>4. /\ stage' \in {"none", "withdrawn", "ended"}
      /\ stage' = "none" => stage = "none"
      /\ stage' = "withdrawn" => stage \in {"reserved", "withdrawn"}
      /\ stage = "ended" => stage' = "ended"
  BY <1>1, <1>2 DEF Terminated, Types
<1>5. Ordered(outgoing)' /\ CancelInv'
  <2>1. Len(<<>>) = 0
    OBVIOUS
  <2>2. ~WillRun'
    BY <1>3, <1>4, <2>1 DEF WillRun
  <2> QED BY <1>3, <2>1, <2>2 DEF Ordered, CancelInv
<1>6. PublisherInv'
  BY <1>1, <1>2, <1>4 DEF PublisherInv
<1>7. Nexts' = Nexts
  BY <1>1, NextsIsNextsOf
<1> DEFINE c == Credits(outgoing)
           d == Credits(outgoing')
           k == Nexts
           n == Head(up).n
<1>8. /\ Credit = c + reserved + demand + k /\ Credit <= wireRequested /\ wireRequested \in Nat
      /\ k \in Nat /\ reserved \in Nat /\ demand \in Nat /\ c \in Nat
  BY Holdings
<1>9. c = n + d /\ d \in Nat /\ n \in Nat
  BY <1>3, FrameFacts
<1>10. Credit' = d + reserved + demand + k
  BY <1>1, <1>7 DEF Credit
<1> HIDE DEF c, d, k, n
<1>11. Credit' <= wireRequested
  <2>1. d + reserved + demand + k <= wireRequested
    BY <1>8, <1>9
  <2> QED BY <1>10, <2>1
<1>12. /\ down' \in Seq(DownFrames) /\ emitted' \in 0..Items
       /\ reserved' \in 0..MaxSafe /\ demand' \in 0..MaxSafe /\ owed' \in 0..MaxSafe
       /\ requesting' \in BOOLEAN /\ pendingUpstreamDemand' \in 0..MaxSafe
  BY <1>1, <1>2, Constants DEF Types
<1>13. \A i \in 1..Len(down') : down'[i] # "NEXT" => stage' = "ended"
  BY <1>1, <1>2, <1>4 DEF RequestInv
<1> QED BY <1>1, <1>3, <1>4, <1>5, <1>6, <1>11, <1>12, <1>13, Responds

-------------------------------------------------------------------------------
LEMMA StepStutters ==
  ASSUME IInv, UNCHANGED vars
  PROVE  IInv'
<1>1. /\ status' = status /\ requested' = requested /\ wireRequested' = wireRequested
      /\ calls' = calls /\ delivering' = delivering
      /\ UNCHANGED <<transport, responder, down>>
  BY DEF vars, subscription
<1>2. calls' \in 0..MaxCalls /\ delivering' \in BOOLEAN
  BY <1>1 DEF IInv, Types
<1>3. UNCHANGED <<status, requested, wireRequested, transport, responder, down>>
  BY <1>1
<1> QED BY <1>2, <1>3, QuietStep

LEMMA StepKeeps ==
  ASSUME IInv, [Next]_vars
  PROVE  IInv'
<1>1. CASE TransportLost \/ BeginResume \/ FinishResume
  BY <1>1, StepSession
<1>2. CASE SessionEnds
  BY <1>2, TerminateHolds DEF SessionEnds
<1>3. CASE \E n \in Demands : Request(n) \/ Start(n) \/ StartThrows(n)
  BY <1>3, StepRequest, StepStart, StepStartThrows
<1>4. CASE Cancel \/ RequestInvalid \/ NextThrows
  BY <1>4, StepCancel
<1>5. CASE ReceiveNext \/ NextReturns \/ ReceiveTerminal
  BY <1>5, StepReceiveNext, StepNextReturns, StepReceiveTerminal
<1>6. CASE ReceiveUp
  BY <1>6, StepReceiveRequest, StepReceiveRequestN, StepReceiveCancel DEF ReceiveUp
<1>7. CASE ControllerReturns \/ OnSubscribe \/ RequestReturns \/ PublisherEmits
  BY <1>7, StepControllerReturns, StepOnSubscribe, StepRequestReturns, StepPublisherEmits
<1>8. CASE ControllerThrows \/ PublisherCompletes \/ OutputFails \/ ResponderSessionEnds
  BY <1>8, StepEnds
<1>9. CASE UNCHANGED vars
  BY <1>9, StepStutters
<1> QED BY <1>1, <1>2, <1>3, <1>4, <1>5, <1>6, <1>7, <1>8, <1>9 DEF Next

\* In every reachable state the credit a stream was granted is accounted for
\* and its frames under way are in the order the responder relies on.
THEOREM Invariant == Spec => []IInv
<1>1. Init => IInv
  BY InitHolds
<1>2. IInv /\ [Next]_vars => IInv'
  BY StepKeeps
<1> QED BY <1>1, <1>2, PTL DEF Spec

\* Demand and credit never leave the range of the number type and of one
\* frame: the saturated sums of AddReactiveDemand and the split of queueFrame
\* keep to it.
THEOREM TypeCorrect == Spec => []TypeOK
<1>1. IInv => TypeOK
  <2>1. ASSUME NEW s \in Seq(UpFrames), NEW i \in DOMAIN s PROVE s[i].n \in 0..MaxRequestN
    <3>1. s[i] \in UpFrames
      BY ElementOfSeq, LenProperties
    <3> QED BY <3>1 DEF UpFrames
  <2>2. ASSUME NEW s \in Seq(DownFrames), NEW i \in DOMAIN s PROVE s[i] \in DownFrames
    BY ElementOfSeq, LenProperties
  <2> QED BY <2>1, <2>2 DEF IInv, Types, TypeOK, DownFrames
<1> QED BY <1>1, Invariant, PTL

\* What the subscription believes it granted is exactly what is queued, under
\* way, held by the responder or coming back as items, through every outage
\* and every merge of REQUEST_N frames.
THEOREM CreditIsExact == Spec => []CreditIsConserved
<1>1. IInv => CreditIsConserved
  <2> SUFFICES ASSUME IInv PROVE CreditIsConserved
    OBVIOUS
  <2> DEFINE c == Credits(outgoing)
             k == Nexts
  <2>1. /\ c \in Nat /\ reserved \in Nat /\ demand \in Nat /\ k \in Nat
        /\ Credit = c + reserved + demand + k /\ Credit <= wireRequested /\ wireRequested \in Nat
        /\ status = "open" /\ stage # "ended" => Credit = wireRequested
    BY Holdings
  <2>2. wireRequested <= requested
    BY DEF IInv, CreditInv
  <2> HIDE DEF c, k
  <2>3. k <= wireRequested
    BY <2>1
  <2>4. status = "open" /\ stage # "ended" => wireRequested = c + reserved + demand + k
    BY <2>1
  <2> QED BY <2>2, <2>3, <2>4 DEF CreditIsConserved, c, k
<1> QED BY <1>1, Invariant, PTL

\* The controller's publisher has been asked for exactly the credit the peer
\* holds, however the calls of request and its callbacks nest.
THEOREM PublisherIsAskedExactly == Spec => []PublisherOwesTheDemand
<1>1. IInv => PublisherOwesTheDemand
  BY DEF IInv, PublisherInv, PublisherOwesTheDemand
<1> QED BY <1>1, Invariant, PTL

\* After the requester has given a stream up, a CANCEL closes the frames under
\* way to a responder that runs it or will be asked to: no order of requests,
\* outages and flushes leaves a stream running that nobody reads.
THEOREM CancelComesLast == Spec => []CancelIsTheLastWord
<1>1. IInv => CancelIsTheLastWord
  <2>1. IInv => DOMAIN outgoing = 1..Len(outgoing)
    BY OutgoingType, LenProperties DEF IInv
  <2> QED BY <2>1 DEF IInv, CancelInv, WillRun, CancelIsTheLastWord
<1> QED BY <1>1, Invariant, PTL

\* An outage holds back at most two frames of a stream, for any number of
\* calls of request and whatever their arguments.
THEOREM OutagesQueueLittle == Spec => []OutageQueueIsBounded
<1>1. IInv => OutageQueueIsBounded
  <2> SUFFICES ASSUME IInv PROVE OutageQueueIsBounded
    OBVIOUS
  <2>1. pendingFrames \in Seq(UpFrames) /\ Held(pendingFrames)
    BY DEF IInv, Types, QueueInv
  <2>2. Len(pendingFrames) \in Nat
    BY <2>1, LenProperties
  <2>3. Len(pendingFrames) <= 1 \/ Len(pendingFrames) = 2
    BY <2>1 DEF Held
  <2>4. \A n \in Nat : n <= 1 \/ n = 2 => n <= 2
    OBVIOUS
  <2> QED BY <2>2, <2>3, <2>4 DEF OutageQueueIsBounded
<1> QED BY <1>1, Invariant, PTL

\* An item that arrives on an open stream was demanded.
ItemIsDemanded ==
  status = "open" /\ down # <<>> /\ Head(down) = "NEXT" => requested > 0 /\ wireRequested > 0

\* A responder that keeps to its credit never has its session ended for an
\* undemanded item: handlePayload's protocol error (reportUndemandedPayload,
\* stream/session.ts) is not reached between these two implementations.
THEOREM ItemsAreDemanded == Spec => []ItemIsDemanded
<1>1. IInv => ItemIsDemanded
  <2> SUFFICES ASSUME IInv, down # <<>>, Head(down) = "NEXT"
               PROVE  requested > 0 /\ wireRequested > 0
    BY DEF ItemIsDemanded
  <2> DEFINE c == Credits(outgoing)
             k == Nexts
             t == NextsOf(Tail(down))
  <2>1. down \in Seq(DownFrames)
    BY DEF IInv, Types
  <2>2. /\ Tail(down) \in Seq(DownFrames)
        /\ NextsOf(down) = t + IF Head(down) = "NEXT" THEN 1 ELSE 0
    BY <2>1, NextsTail
  <2>3. t \in Nat /\ k = t + 1
    <3>1. t \in Nat
      BY <2>2, NextsNat
    <3>2. NextsOf(down) = t + 1
      BY <2>2
    <3> QED BY <3>1, <3>2, NextsIsNextsOf
  <2>4. /\ c \in Nat /\ reserved \in Nat /\ demand \in Nat /\ k \in Nat
        /\ Credit = c + reserved + demand + k /\ Credit <= wireRequested /\ wireRequested \in Nat
    BY Holdings
  <2>5. wireRequested <= requested /\ requested \in Nat
    BY Numbers DEF IInv, CreditInv
  <2> HIDE DEF c, k, t
  <2> QED BY <2>2, <2>3, <2>4, <2>5
<1> QED BY <1>1, Invariant, PTL
===============================================================================

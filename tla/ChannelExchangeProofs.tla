------------------------- MODULE ChannelExchangeProofs -------------------------
(***************************************************************************)
(* The request direction of a channel, for any frame limit, any demands    *)
(* and any number of losses and items: the inductive invariant of          *)
(* ChannelExchange, the invariants its run checks and the finality of ends. *)
(*                                                                         *)
(* An aborted loop holds no open source and its stream is gone; a loop     *)
(* that is neither aborted nor at its end has its source open from the     *)
(* moment the factory returns, and its stream is still there.  That is     *)
(* what releases the source, and it makes an end final, for where the loop *)
(* stands decides what can be under way.  The initial frame is first and   *)
(* credit exists only once it has been seen; from then on every step moves *)
(* credit between the two sides, and a give-up can only lose it.           *)
(***************************************************************************)
EXTENDS ChannelExchange, SequenceTheorems, WellFoundedInduction, TLAPS

UpFrames ==
  [type : {"CHANNEL", "CHANNEL_COMPLETE", "NEXT", "COMPLETE", "CANCEL", "ERROR"}, n : {0}]
DownFrames ==
  {f \in [type : {"REQUEST_N", "COMPLETE", "ERROR"}, n : 0..MaxRequestN] :
     f.type # "REQUEST_N" => f.n = 0}

Places ==
  {"start", "awaitInitial", "readFirst", "awaitFirst", "startRequest", "demand",
   "awaitRead", "read", "credit", "awaitSend", "send", "done"}
Iterators == {"none", "open", "exhausted", "returned"}

\* TypeOK, and what the queues hold.
Types ==
  /\ session \in {"active", "lost", "handshake", "over"} /\ losses \in 0..MaxLosses
  /\ up \in Seq(UpFrames) /\ pendingFrames \in Seq(UpFrames) /\ down \in Seq(DownFrames)
  /\ stage \in {"starting", "open", "gone"} /\ responder \in {"none", "open", "gone"}
  /\ at \in Places
  /\ iterator \in Iterators /\ yielded \in 0..Items
  /\ aborted \in BOOLEAN /\ sourceEnded \in BOOLEAN
  /\ responseTerminated \in BOOLEAN /\ outboundTerminated \in BOOLEAN
  /\ requesterComplete \in BOOLEAN /\ responderComplete \in BOOLEAN
  /\ subscribed \in BOOLEAN /\ terminated \in BOOLEAN /\ draining \in BOOLEAN
  /\ demand \in 0..MaxRequestN /\ remoteCredits \in 0..MaxRequestN
  /\ downstreamDemand \in 0..MaxSafe \cup {Unbounded} /\ queued \in Nat

\* Before the request is sent.
Before == {"start", "awaitInitial", "readFirst", "awaitFirst", "startRequest"}

\* How the outbound side can have ended: aborted, at the end of its source,
\* or not at all; and how that goes with the source and with the stage of the
\* subscription.
LoopInv ==
  /\ aborted => iterator # "open" /\ stage = "gone"
  /\ ~aborted /\ outboundTerminated => iterator = "exhausted"
  /\ ~aborted /\ ~outboundTerminated =>
       /\ at # "done" /\ stage # "gone"
       /\ iterator = IF at = "start" THEN "none" ELSE "open"
  /\ at = "start" => iterator = "none"
  /\ iterator = "exhausted" => sourceEnded
  /\ outboundTerminated => at = "done"
  /\ returns = IF iterator = "returned" THEN 1 ELSE 0
  /\ stage = "starting" => at \in Before
  /\ stage = "open" => at \notin Before

\* Nothing is held back on a working session; a session that is over has no
\* stream, though a channel may still be starting.
SessionInv ==
  /\ session \in {"active", "over"} => pendingFrames = <<>>
  /\ session = "over" => stage # "open"

\* Where the initial frame can be among the frames under way.
InitialFirst(frames) == \A i \in 1..Len(frames) : frames[i].type \in Initials => i = 1
NoInitial(frames) == \A i \in 1..Len(frames) : frames[i].type \notin Initials

\* The initial frame is the first one, and neither side has credit before
\* the responder has seen it.
RequestInv ==
  /\ at \in Before => outgoing = <<>> /\ responder = "none"
  /\ InitialFirst(outgoing)
  /\ responder # "none" => NoInitial(outgoing)
  /\ responder = "none" =>
       /\ down = <<>> /\ demand = 0 /\ Nexts(outgoing) = 0
       /\ ~subscribed /\ queued = 0 /\ downstreamDemand = 0 /\ remoteCredits = 0
       /\ ~terminated /\ ~draining /\ ~requesterComplete
  /\ at \in {"awaitSend", "send"} => demand > 0

\* The requester never has more credit than the responder granted, and
\* exactly that until one of them ends the request direction.
CreditInv ==
  /\ demand + Credits(down) <= MaxRequestN
  /\ responder = "open" => demand + Credits(down) + Nexts(outgoing) <= remoteCredits
  /\ CreditIsConserved

\* The input and the flags of its responder.
InputInv ==
  /\ draining => ~terminated
  /\ terminated /\ responder = "open" => requesterComplete
  /\ responder = "gone" => terminated \/ requesterComplete
  /\ ~subscribed => downstreamDemand = 0
  /\ queued + remoteCredits <= MaxRequestN + 1
  /\ PrefetchIsBounded

IInv == Types /\ LoopInv /\ SessionInv /\ RequestInv /\ CreditInv /\ InputInv
-------------------------------------------------------------------------------
(***************************************************************************)
(* Induction over the naturals, for a set.                                 *)
(***************************************************************************)
LEMMA Least ==
  ASSUME NEW T \in SUBSET Nat, T # {}
  PROVE  \E m \in T : \A k \in T : m <= k
<1> DEFINE R == OpToRel(<, Nat)
<1>1. \E x \in T : \A y \in T : ~ (<<y, x>> \in R)
  BY WFMin, NatLessThanWellFounded
<1>2. \A x, y \in T : y < x => <<y, x>> \in R
  BY DEF OpToRel
<1>3. PICK x \in T : \A y \in T : ~(<<y, x>> \in R)
  BY <1>1 DEF R, OpToRel
<1>4. \A y \in T : ~(y < x)
  BY <1>2, <1>3, Zenon
<1>5. \A y \in T : y \in Nat /\ x \in Nat
  OBVIOUS
<1> HIDE DEF R
<1> QED BY <1>4, <1>5

LEMMA SetInduction ==
  ASSUME NEW T, 0 \in T, \A n \in Nat : n \in T => n + 1 \in T
  PROVE  \A n \in Nat : n \in T
<1>1. SUFFICES ASSUME NEW q \in Nat, q \notin T PROVE FALSE
  OBVIOUS
<1> DEFINE U == {n \in Nat : n \notin T}
<1>2. PICK m \in U : \A k \in U : m <= k
  <2>1. q \in U /\ U \in SUBSET Nat
    BY <1>1
  <2> HIDE DEF U
  <2> QED BY <2>1, Least
<1>3. m \in Nat /\ m # 0 /\ m - 1 \in Nat /\ m \notin T
  OBVIOUS
<1>4. m - 1 \in T
  BY <1>2, <1>3
<1> QED BY <1>3, <1>4

-------------------------------------------------------------------------------
(***************************************************************************)
(* Total: the recursive function is defined, and the total follows the     *)
(* sequence as it grows at one end and shrinks at the other.               *)
(***************************************************************************)
SumStep(numbers, F, i) == IF i = 0 THEN 0 ELSE F[i - 1] + numbers[i]

LEMMA SumExists ==
  ASSUME NEW numbers, NEW n \in Nat
  PROVE  \E F : F = [i \in 0..n |-> SumStep(numbers, F, i)]
<1> DEFINE T == {m \in Nat : \E F : F = [i \in 0..m |-> SumStep(numbers, F, i)]}
<1>1. 0 \in T
  <2> DEFINE F == [i \in 0..0 |-> 0]
  <2>1. F = [i \in 0..0 |-> SumStep(numbers, F, i)]
    BY DEF SumStep
  <2> QED BY <2>1
<1>2. ASSUME NEW m \in Nat, m \in T PROVE m + 1 \in T
  <2>1. PICK F : F = [i \in 0..m |-> SumStep(numbers, F, i)]
    BY <1>2
  <2> DEFINE G == [i \in 0..(m + 1) |-> IF i <= m THEN F[i] ELSE SumStep(numbers, F, i)]
  <2>2. \A i \in 0..m : G[i] = F[i]
    OBVIOUS
  <2>3. ASSUME NEW i \in 0..(m + 1) PROVE G[i] = SumStep(numbers, G, i)
    <3>1. i # 0 => i - 1 \in 0..m
      BY <2>3
    <3>2. SumStep(numbers, G, i) = SumStep(numbers, F, i)
      BY <2>2, <3>1 DEF SumStep
    <3>3. CASE i <= m
      <4>1. i \in 0..m
        BY <2>3, <3>3
      <4>2. F[i] = SumStep(numbers, F, i)
        BY <2>1, <4>1
      <4> QED BY <2>2, <3>2, <4>1, <4>2
    <3>4. CASE ~(i <= m)
      BY <3>2, <3>4
    <3> QED BY <3>3, <3>4
  <2>4. G = [i \in 0..(m + 1) |-> SumStep(numbers, G, i)]
    <3>1. G = [i \in 0..(m + 1) |-> G[i]]
      OBVIOUS
    <3> HIDE DEF G
    <3> QED BY <2>3, <3>1
  <2> HIDE DEF G
  <2>5. \E H : H = [i \in 0..(m + 1) |-> SumStep(numbers, H, i)]
    BY <2>4
  <2> QED BY <2>5
<1> HIDE DEF T
<1>3. n \in T
  BY <1>1, <1>2, SetInduction
<1> QED BY <1>3 DEF T

\* Total has the running sums its definition speaks of.
LEMMA TotalSums ==
  ASSUME NEW numbers, Len(numbers) \in Nat
  PROVE  \E F : /\ Total(numbers) = F[Len(numbers)] /\ F[0] = 0
                /\ \A i \in 1..Len(numbers) : F[i] = F[i - 1] + numbers[i]
<1> DEFINE K == CHOOSE F : F = [i \in 0..Len(numbers) |-> SumStep(numbers, F, i)]
<1>1. K = [i \in 0..Len(numbers) |-> SumStep(numbers, K, i)]
  BY SumExists
<1>2. Total(numbers) = K[Len(numbers)]
  BY DEF Total, SumStep
<1> HIDE DEF K
<1>3. K[0] = 0
  BY <1>1 DEF SumStep
<1>4. ASSUME NEW i \in 1..Len(numbers) PROVE K[i] = K[i - 1] + numbers[i]
  <2>1. i \in 0..Len(numbers) /\ i # 0
    OBVIOUS
  <2>2. K[i] = SumStep(numbers, K, i)
    BY <1>1, <2>1
  <2> QED BY <2>1, <2>2 DEF SumStep
<1> QED BY <1>2, <1>3, <1>4

Sums(F, numbers, n) == \A i \in 1..n : numbers[i] \in Nat /\ F[i] = F[i - 1] + numbers[i]

\* Running sums over the same numbers keep their distance.
LEMMA SumsAgree ==
  ASSUME NEW n \in Nat, NEW c \in Nat, NEW F, NEW G, NEW X,
         G[0] \in Nat, F[0] = c + G[0],
         Sums(F, X, n), Sums(G, X, n)
  PROVE  G[n] \in Nat /\ F[n] = c + G[n]
<1> DEFINE T == {i \in Nat : i <= n => G[i] \in Nat /\ F[i] = c + G[i]}
<1>1. 0 \in T
  OBVIOUS
<1>2. ASSUME NEW i \in Nat, i \in T PROVE i + 1 \in T
  <2> SUFFICES ASSUME i + 1 <= n PROVE G[i + 1] \in Nat /\ F[i + 1] = c + G[i + 1]
    OBVIOUS
  <2>1. G[i] \in Nat /\ F[i] = c + G[i]
    BY <1>2
  <2>2. i + 1 \in 1..n /\ (i + 1) - 1 = i
    OBVIOUS
  <2>3. X[i + 1] \in Nat /\ F[i + 1] = F[i] + X[i + 1] /\ G[i + 1] = G[i] + X[i + 1]
    BY <2>2 DEF Sums
  <2> QED BY <2>1, <2>3
<1> HIDE DEF T
<1>3. n \in T
  BY <1>1, <1>2, SetInduction
<1> QED BY <1>3 DEF T

LEMMA TotalEmpty ==
  ASSUME NEW numbers \in Seq(Nat), Len(numbers) = 0
  PROVE  Total(numbers) = 0
BY TotalSums

LEMMA TotalNat ==
  ASSUME NEW s \in Seq(Nat)
  PROVE  Total(s) \in Nat
<1>1. Len(s) \in Nat /\ \A i \in 1..Len(s) : s[i] \in Nat
  BY LenProperties, ElementOfSeq
<1>2. PICK F : /\ Total(s) = F[Len(s)] /\ F[0] = 0
               /\ \A i \in 1..Len(s) : F[i] = F[i - 1] + s[i]
  BY <1>1, TotalSums
<1>3. F[Len(s)] \in Nat
  <2>1. F[0] \in Nat /\ F[0] = 0 + F[0]
    BY <1>2
  <2>2. Sums(F, s, Len(s))
    BY <1>1, <1>2 DEF Sums
  <2>3. Len(s) \in Nat /\ 0 \in Nat
    BY <1>1
  <2> QED BY <2>1, <2>2, <2>3, SumsAgree
<1> QED BY <1>2, <1>3

LEMMA TotalAppend ==
  ASSUME NEW s \in Seq(Nat), NEW r \in Seq(Nat), Len(r) = Len(s) + 1,
         \A i \in 1..Len(s) : r[i] = s[i]
  PROVE  Total(r) = Total(s) + r[Len(r)]
<1>1. /\ Len(s) \in Nat /\ Len(r) \in Nat /\ \A i \in 1..Len(r) : r[i] \in Nat
      /\ \A i \in 1..Len(s) : s[i] \in Nat
  BY LenProperties, ElementOfSeq
<1>2. PICK F : /\ Total(s) = F[Len(s)] /\ F[0] = 0
               /\ \A i \in 1..Len(s) : F[i] = F[i - 1] + s[i]
  BY <1>1, TotalSums
<1>3. PICK G : /\ Total(r) = G[Len(r)] /\ G[0] = 0
               /\ \A i \in 1..Len(r) : G[i] = G[i - 1] + r[i]
  BY <1>1, TotalSums
<1>4. G[Len(s)] = 0 + F[Len(s)] /\ F[Len(s)] \in Nat
  <2>1. Sums(F, s, Len(s)) /\ Sums(G, s, Len(s))
    BY <1>1, <1>2, <1>3 DEF Sums
  <2>2. F[0] \in Nat /\ G[0] = 0 + F[0]
    BY <1>2, <1>3
  <2>3. Len(s) \in Nat /\ 0 \in Nat
    BY <1>1
  <2> QED BY <2>1, <2>2, <2>3, SumsAgree
<1>5. G[Len(r)] = G[Len(s)] + r[Len(r)]
  BY <1>1, <1>3
<1> QED BY <1>1, <1>2, <1>3, <1>4, <1>5

LEMMA TotalTail ==
  ASSUME NEW s \in Seq(Nat), NEW t \in Seq(Nat), Len(s) = Len(t) + 1,
         \A i \in 1..Len(t) : t[i] = s[i + 1]
  PROVE  Total(s) = s[1] + Total(t) /\ s[1] \in Nat
<1>1. /\ Len(t) \in Nat /\ Len(s) \in Nat /\ \A i \in 1..Len(s) : s[i] \in Nat
      /\ \A i \in 1..Len(t) : t[i] \in Nat
  BY LenProperties, ElementOfSeq
<1>2. PICK F : /\ Total(s) = F[Len(s)] /\ F[0] = 0
               /\ \A i \in 1..Len(s) : F[i] = F[i - 1] + s[i]
  BY <1>1, TotalSums
<1>3. PICK G : /\ Total(t) = G[Len(t)] /\ G[0] = 0
               /\ \A i \in 1..Len(t) : G[i] = G[i - 1] + t[i]
  BY <1>1, TotalSums
<1> DEFINE H == [i \in 0..Len(t) |-> F[i + 1]]
<1>4. /\ \A i \in 0..Len(t) : H[i] = F[i + 1]
      /\ 0 \in 0..Len(t) /\ Len(t) \in 0..Len(t)
      /\ \A i \in 1..Len(t) : i - 1 \in 0..Len(t) /\ i \in 0..Len(t) /\ i + 1 \in 1..Len(s)
                              /\ (i - 1) + 1 = i /\ (i + 1) - 1 = i
  BY <1>1
<1> HIDE DEF H
<1>5. s[1] \in Nat /\ H[0] = s[1] + G[0] /\ G[0] \in Nat
  <2>1. 1 \in 1..Len(s)
    BY <1>1
  <2>2. F[1] = F[0] + s[1] /\ s[1] \in Nat
    BY <1>1, <1>2, <2>1
  <2>3. H[0] = F[1]
    BY <1>4
  <2> QED BY <1>2, <1>3, <2>2, <2>3
<1>6. Sums(H, t, Len(t)) /\ Sums(G, t, Len(t))
  <2> SUFFICES ASSUME NEW i \in 1..Len(t)
               PROVE  t[i] \in Nat /\ H[i] = H[i - 1] + t[i] /\ G[i] = G[i - 1] + t[i]
    BY DEF Sums
  <2>1. H[i] = F[i + 1] /\ H[i - 1] = F[i]
    BY <1>4
  <2>2. F[i + 1] = F[i] + s[i + 1]
    BY <1>2, <1>4
  <2> QED BY <1>1, <1>3, <2>1, <2>2
<1>7. G[Len(t)] \in Nat /\ H[Len(t)] = s[1] + G[Len(t)]
  <2>1. Len(t) \in Nat
    BY <1>1
  <2> QED BY <1>5, <1>6, <2>1, SumsAgree
<1>8. H[Len(t)] = F[Len(s)]
  BY <1>1, <1>4
<1> QED BY <1>2, <1>3, <1>5, <1>7, <1>8

\* The sums up to a place, and the whole.
LEMMA TotalPrefix ==
  ASSUME NEW s \in Seq(Nat), NEW r \in Seq(Nat), Len(s) <= Len(r),
         \A i \in 1..Len(s) : r[i] = s[i]
  PROVE  Total(s) <= Total(r)
<1>1. /\ Len(s) \in Nat /\ Len(r) \in Nat /\ \A i \in 1..Len(r) : r[i] \in Nat
      /\ \A i \in 1..Len(s) : s[i] \in Nat /\ i \in 1..Len(r)
  BY LenProperties, ElementOfSeq
<1>2. PICK F : /\ Total(s) = F[Len(s)] /\ F[0] = 0
               /\ \A i \in 1..Len(s) : F[i] = F[i - 1] + s[i]
  BY <1>1, TotalSums
<1>3. PICK G : /\ Total(r) = G[Len(r)] /\ G[0] = 0
               /\ \A i \in 1..Len(r) : G[i] = G[i - 1] + r[i]
  BY <1>1, TotalSums
<1>4. G[Len(s)] = 0 + F[Len(s)] /\ F[Len(s)] \in Nat
  <2>1. Sums(F, s, Len(s)) /\ Sums(G, s, Len(s))
    BY <1>1, <1>2, <1>3 DEF Sums
  <2>2. F[0] \in Nat /\ G[0] = 0 + F[0]
    BY <1>2, <1>3
  <2>3. Len(s) \in Nat /\ 0 \in Nat
    BY <1>1
  <2> QED BY <2>1, <2>2, <2>3, SumsAgree
<1> DEFINE T == {i \in Nat : Len(s) + i <= Len(r) =>
                    G[Len(s) + i] \in Nat /\ G[Len(s)] <= G[Len(s) + i]}
<1>5. 0 \in T
  BY <1>1, <1>4
<1>6. ASSUME NEW i \in Nat, i \in T PROVE i + 1 \in T
  <2> SUFFICES ASSUME Len(s) + (i + 1) <= Len(r)
               PROVE  G[Len(s) + (i + 1)] \in Nat /\ G[Len(s)] <= G[Len(s) + (i + 1)]
    OBVIOUS
  <2>1. G[Len(s) + i] \in Nat /\ G[Len(s)] <= G[Len(s) + i] /\ G[Len(s)] \in Nat
    BY <1>1, <1>4, <1>6
  <2>2. Len(s) + (i + 1) \in 1..Len(r) /\ (Len(s) + (i + 1)) - 1 = Len(s) + i
    BY <1>1
  <2>3. /\ G[Len(s) + (i + 1)] = G[Len(s) + i] + r[Len(s) + (i + 1)]
        /\ r[Len(s) + (i + 1)] \in Nat
    BY <1>1, <1>3, <2>2
  <2> QED BY <2>1, <2>3
<1> HIDE DEF T
<1>7. \A i \in Nat : i \in T
  BY <1>5, <1>6, SetInduction
<1>8. Len(r) - Len(s) \in T /\ Len(s) + (Len(r) - Len(s)) = Len(r)
  BY <1>1, <1>7
<1>9. G[Len(s)] <= G[Len(r)]
  BY <1>1, <1>8 DEF T
<1> QED BY <1>2, <1>3, <1>4, <1>9

-------------------------------------------------------------------------------
(***************************************************************************)
(* Sums over the frames of a queue: every frame has a weight.              *)
(***************************************************************************)
Weights(w, s) == [i \in DOMAIN s |-> w[s[i]]]
Weighed(w, s) == Total(Weights(w, s))

WeightsLaw(S, w, s) ==
  /\ Weights(w, s) \in Seq(Nat) /\ Len(Weights(w, s)) = Len(s) /\ Len(s) \in Nat
  /\ \A i \in 1..Len(s) : Weights(w, s)[i] = w[s[i]] /\ s[i] \in S

LEMMA WeightsOfFrames ==
  ASSUME NEW S, NEW w \in [S -> Nat], NEW s \in Seq(S)
  PROVE  WeightsLaw(S, w, s)
<1>1. Len(s) \in Nat /\ DOMAIN s = 1..Len(s) /\ \A i \in 1..Len(s) : s[i] \in S
  BY LenProperties, ElementOfSeq
<1>2. Weights(w, s) = [i \in 1..Len(s) |-> w[s[i]]] /\ \A i \in 1..Len(s) : w[s[i]] \in Nat
  BY <1>1 DEF Weights
<1>3. Weights(w, s) \in Seq(Nat) /\ Len(Weights(w, s)) = Len(s)
  BY <1>1, <1>2
<1> QED BY <1>1, <1>2, <1>3 DEF WeightsLaw

LEMMA WeighedNat ==
  ASSUME NEW S, NEW w \in [S -> Nat], NEW s \in Seq(S)
  PROVE  Weighed(w, s) \in Nat
BY WeightsOfFrames, TotalNat DEF Weighed, WeightsLaw

LEMMA WeighedEmpty ==
  ASSUME NEW S, NEW w \in [S -> Nat]
  PROVE  Weighed(w, <<>>) = 0
<1>1. <<>> \in Seq(S) /\ Len(<<>>) = 0
  BY EmptySeq
<1>2. Weights(w, <<>>) \in Seq(Nat) /\ Len(Weights(w, <<>>)) = 0
  BY <1>1, WeightsOfFrames DEF WeightsLaw
<1> QED BY <1>2, TotalEmpty DEF Weighed

LEMMA WeighedAppend ==
  ASSUME NEW S, NEW w \in [S -> Nat], NEW s \in Seq(S), NEW f \in S
  PROVE  Weighed(w, Append(s, f)) = Weighed(w, s) + w[f]
<1> DEFINE r == Append(s, f)
<1>1. /\ r \in Seq(S) /\ Len(r) = Len(s) + 1 /\ r[Len(s) + 1] = f
      /\ \A i \in 1..Len(s) : r[i] = s[i]
  BY AppendProperties
<1> HIDE DEF r
<1>2. /\ Weights(w, s) \in Seq(Nat) /\ Len(Weights(w, s)) = Len(s) /\ Len(s) \in Nat
      /\ \A i \in 1..Len(s) : Weights(w, s)[i] = w[s[i]]
  <2>1. WeightsLaw(S, w, s)
    BY WeightsOfFrames
  <2> QED BY <2>1 DEF WeightsLaw
<1>3. /\ Weights(w, r) \in Seq(Nat) /\ Len(Weights(w, r)) = Len(r)
      /\ \A i \in 1..Len(r) : Weights(w, r)[i] = w[r[i]]
  <2>1. r \in Seq(S)
    BY <1>1
  <2>2. WeightsLaw(S, w, r)
    BY <2>1, WeightsOfFrames
  <2> QED BY <2>2 DEF WeightsLaw
<1>4. /\ Len(Weights(w, r)) = Len(Weights(w, s)) + 1
      /\ \A i \in 1..Len(Weights(w, s)) : Weights(w, r)[i] = Weights(w, s)[i]
      /\ Weights(w, r)[Len(Weights(w, r))] = w[f]
  <2>1. Len(r) \in 1..Len(r) /\ \A i \in 1..Len(s) : i \in 1..Len(r)
    BY <1>1, <1>2
  <2> QED BY <1>1, <1>2, <1>3, <2>1
<1>5. Total(Weights(w, r)) = Total(Weights(w, s)) + Weights(w, r)[Len(Weights(w, r))]
  BY <1>2, <1>3, <1>4, TotalAppend
<1> QED BY <1>4, <1>5 DEF r, Weighed

LEMMA WeighedTail ==
  ASSUME NEW S, NEW w \in [S -> Nat], NEW s \in Seq(S), s # <<>>
  PROVE  /\ Tail(s) \in Seq(S) /\ Head(s) = s[1] /\ Head(s) \in S
         /\ Len(Tail(s)) = Len(s) - 1 /\ Len(s) \in Nat /\ Len(s) > 0
         /\ \A i \in 1..Len(Tail(s)) : Tail(s)[i] = s[i + 1] /\ i + 1 \in 1..Len(s)
         /\ Weighed(w, s) = w[Head(s)] + Weighed(w, Tail(s))
<1> DEFINE t == Tail(s)
<1>1. /\ t \in Seq(S) /\ Len(t) = Len(s) - 1 /\ Len(s) \in Nat /\ Len(s) # 0
      /\ \A i \in 1..Len(t) : t[i] = s[i + 1]
      /\ Head(s) \in S
  BY HeadTailProperties, LenProperties, EmptySeq
<1>2. Head(s) = s[1]
  BY <1>1
<1> HIDE DEF t
<1>3. /\ Weights(w, s) \in Seq(Nat) /\ Len(Weights(w, s)) = Len(s)
      /\ \A i \in 1..Len(s) : Weights(w, s)[i] = w[s[i]]
  <2>1. WeightsLaw(S, w, s)
    BY WeightsOfFrames
  <2> QED BY <2>1 DEF WeightsLaw
<1>4. /\ Weights(w, t) \in Seq(Nat) /\ Len(Weights(w, t)) = Len(t) /\ Len(t) \in Nat
      /\ \A i \in 1..Len(t) : Weights(w, t)[i] = w[t[i]]
  <2>1. t \in Seq(S)
    BY <1>1
  <2>2. WeightsLaw(S, w, t)
    BY <2>1, WeightsOfFrames
  <2> QED BY <2>2 DEF WeightsLaw
<1>5. Len(Weights(w, s)) = Len(Weights(w, t)) + 1 /\ 1 \in 1..Len(s)
  BY <1>1, <1>3, <1>4
<1>6. \A i \in 1..Len(t) : i + 1 \in 1..Len(s)
  BY <1>1
<1>7. \A i \in 1..Len(Weights(w, t)) : Weights(w, t)[i] = Weights(w, s)[i + 1]
  <2> SUFFICES ASSUME NEW i \in 1..Len(t) PROVE Weights(w, t)[i] = Weights(w, s)[i + 1]
    BY <1>4
  <2>1. Weights(w, t)[i] = w[t[i]] /\ t[i] = s[i + 1] /\ i + 1 \in 1..Len(s)
    BY <1>1, <1>4, <1>6
  <2>2. Weights(w, s)[i + 1] = w[s[i + 1]]
    BY <1>3, <2>1
  <2> QED BY <2>1, <2>2
<1>8. Total(Weights(w, s)) = Weights(w, s)[1] + Total(Weights(w, t))
  BY <1>3, <1>4, <1>5, <1>7, TotalTail
<1>9. Weighed(w, s) = w[Head(s)] + Weighed(w, t)
  BY <1>2, <1>3, <1>5, <1>8 DEF Weighed
<1> QED BY <1>1, <1>2, <1>6, <1>9 DEF t

LEMMA WeighedPrefix ==
  ASSUME NEW S, NEW w \in [S -> Nat], NEW s \in Seq(S), NEW r \in Seq(S),
         Len(s) <= Len(r), \A i \in 1..Len(s) : r[i] = s[i]
  PROVE  Weighed(w, s) <= Weighed(w, r)
<1>1. /\ Weights(w, s) \in Seq(Nat) /\ Len(Weights(w, s)) = Len(s) /\ Len(s) \in Nat
      /\ \A i \in 1..Len(s) : Weights(w, s)[i] = w[s[i]]
  <2>1. WeightsLaw(S, w, s)
    BY WeightsOfFrames
  <2> QED BY <2>1 DEF WeightsLaw
<1>2. /\ Weights(w, r) \in Seq(Nat) /\ Len(Weights(w, r)) = Len(r) /\ Len(r) \in Nat
      /\ \A i \in 1..Len(r) : Weights(w, r)[i] = w[r[i]]
  <2>1. WeightsLaw(S, w, r)
    BY WeightsOfFrames
  <2> QED BY <2>1 DEF WeightsLaw
<1>3. /\ Len(Weights(w, s)) <= Len(Weights(w, r))
      /\ \A i \in 1..Len(Weights(w, s)) : Weights(w, r)[i] = Weights(w, s)[i]
  BY <1>1, <1>2
<1>4. Total(Weights(w, s)) <= Total(Weights(w, r))
  BY <1>1, <1>2, <1>3, TotalPrefix
<1> QED BY <1>4 DEF Weighed

-------------------------------------------------------------------------------
(***************************************************************************)
(* The two sums of the invariant: credit on its way to the requester, and  *)
(* items on their way back.                                                *)
(***************************************************************************)
LEMMA Constants ==
  /\ MaxRequestN \in Nat /\ MaxRequestN > 0 /\ MaxSafe \in Nat /\ MaxRequestN <= MaxSafe
  /\ Unbounded \in Nat /\ Unbounded > MaxSafe
  /\ \A n \in Demands : n \in Nat /\ n > 0 /\ (n <= MaxSafe \/ n = Unbounded)
BY ChannelAssumption DEF Unbounded

CreditWeight == [f \in DownFrames |-> f.n]
NextWeight == [f \in UpFrames |-> IF f.type = "NEXT" THEN 1 ELSE 0]

LEMMA CreditWeights ==
  /\ CreditWeight \in [DownFrames -> Nat]
  /\ \A f \in DownFrames : /\ CreditWeight[f] = f.n /\ f.n \in 0..MaxRequestN
                           /\ f.type # "REQUEST_N" => f.n = 0
BY Constants DEF CreditWeight, DownFrames

LEMMA NextWeights ==
  /\ NextWeight \in [UpFrames -> Nat]
  /\ \A f \in UpFrames : NextWeight[f] = IF f.type = "NEXT" THEN 1 ELSE 0
BY DEF NextWeight, UpFrames

LEMMA CreditsAreWeighed ==
  ASSUME NEW s \in Seq(DownFrames)
  PROVE  Credits(s) = Weighed(CreditWeight, s)
<1>1. DOMAIN s = 1..Len(s) /\ \A i \in 1..Len(s) : s[i] \in DownFrames
  BY LenProperties, ElementOfSeq
<1>2. [i \in DOMAIN s |-> s[i].n] = Weights(CreditWeight, s)
  BY <1>1 DEF Weights, CreditWeight
<1> QED BY <1>2 DEF Credits, Weighed

LEMMA NextsAreWeighed ==
  ASSUME NEW s \in Seq(UpFrames)
  PROVE  Nexts(s) = Weighed(NextWeight, s)
<1>1. DOMAIN s = 1..Len(s) /\ \A i \in 1..Len(s) : s[i] \in UpFrames
  BY LenProperties, ElementOfSeq
<1>2. [i \in DOMAIN s |-> IF s[i].type = "NEXT" THEN 1 ELSE 0] = Weights(NextWeight, s)
  BY <1>1 DEF Weights, NextWeight
<1> QED BY <1>2 DEF Nexts, Weighed

LEMMA CreditsLaw ==
  /\ Credits(<<>>) = 0
  /\ \A s \in Seq(DownFrames) : Credits(s) \in Nat
  /\ \A s \in Seq(DownFrames), f \in DownFrames :
       Append(s, f) \in Seq(DownFrames) /\ Credits(Append(s, f)) = Credits(s) + f.n
  /\ \A s \in Seq(DownFrames) : s # <<>> =>
       /\ Tail(s) \in Seq(DownFrames) /\ Head(s) \in DownFrames
       /\ Credits(s) = Head(s).n + Credits(Tail(s))
<1>1. CreditWeight \in [DownFrames -> Nat] /\ <<>> \in Seq(DownFrames)
  BY CreditWeights, EmptySeq
<1>2. Credits(<<>>) = 0
  BY <1>1, CreditsAreWeighed, WeighedEmpty
<1>3. ASSUME NEW s \in Seq(DownFrames) PROVE Credits(s) \in Nat
  BY <1>1, CreditsAreWeighed, WeighedNat
<1>4. ASSUME NEW s \in Seq(DownFrames), NEW f \in DownFrames
      PROVE  Append(s, f) \in Seq(DownFrames) /\ Credits(Append(s, f)) = Credits(s) + f.n
  <2>1. Append(s, f) \in Seq(DownFrames)
    BY AppendProperties
  <2>2. Weighed(CreditWeight, Append(s, f)) = Weighed(CreditWeight, s) + CreditWeight[f]
    BY <1>1, WeighedAppend
  <2>3. CreditWeight[f] = f.n
    BY CreditWeights
  <2> QED BY <2>1, <2>2, <2>3, CreditsAreWeighed
<1>5. ASSUME NEW s \in Seq(DownFrames), s # <<>>
      PROVE  /\ Tail(s) \in Seq(DownFrames) /\ Head(s) \in DownFrames
             /\ Credits(s) = Head(s).n + Credits(Tail(s))
  <2>1. /\ Tail(s) \in Seq(DownFrames) /\ Head(s) \in DownFrames
        /\ Weighed(CreditWeight, s) = CreditWeight[Head(s)] + Weighed(CreditWeight, Tail(s))
    BY <1>1, <1>5, WeighedTail
  <2>2. CreditWeight[Head(s)] = Head(s).n
    BY <2>1, CreditWeights
  <2> QED BY <2>1, <2>2, CreditsAreWeighed
<1> QED BY <1>2, <1>3, <1>4, <1>5

LEMMA NextsLaw ==
  /\ Nexts(<<>>) = 0
  /\ \A s \in Seq(UpFrames) : Nexts(s) \in Nat
  /\ \A s \in Seq(UpFrames), f \in UpFrames :
       Nexts(Append(s, f)) = Nexts(s) + IF f.type = "NEXT" THEN 1 ELSE 0
  /\ \A s \in Seq(UpFrames) : s # <<>> =>
       Nexts(s) = (IF Head(s).type = "NEXT" THEN 1 ELSE 0) + Nexts(Tail(s))
  /\ \A s, t \in Seq(UpFrames) : Nexts(s) <= Nexts(s \o t)
<1>1. NextWeight \in [UpFrames -> Nat] /\ <<>> \in Seq(UpFrames)
  BY NextWeights, EmptySeq
<1>2. Nexts(<<>>) = 0
  BY <1>1, NextsAreWeighed, WeighedEmpty
<1>3. ASSUME NEW s \in Seq(UpFrames) PROVE Nexts(s) \in Nat
  BY <1>1, NextsAreWeighed, WeighedNat
<1>4. ASSUME NEW s \in Seq(UpFrames), NEW f \in UpFrames
      PROVE  Nexts(Append(s, f)) = Nexts(s) + IF f.type = "NEXT" THEN 1 ELSE 0
  <2>1. Append(s, f) \in Seq(UpFrames)
    BY AppendProperties
  <2>2. Weighed(NextWeight, Append(s, f)) = Weighed(NextWeight, s) + NextWeight[f]
    BY <1>1, WeighedAppend
  <2>3. NextWeight[f] = IF f.type = "NEXT" THEN 1 ELSE 0
    BY NextWeights
  <2> QED BY <2>1, <2>2, <2>3, NextsAreWeighed
<1>5. ASSUME NEW s \in Seq(UpFrames), s # <<>>
      PROVE  Nexts(s) = (IF Head(s).type = "NEXT" THEN 1 ELSE 0) + Nexts(Tail(s))
  <2>1. /\ Tail(s) \in Seq(UpFrames) /\ Head(s) \in UpFrames
        /\ Weighed(NextWeight, s) = NextWeight[Head(s)] + Weighed(NextWeight, Tail(s))
    BY <1>1, <1>5, WeighedTail
  <2>2. NextWeight[Head(s)] = IF Head(s).type = "NEXT" THEN 1 ELSE 0
    BY <2>1, NextWeights
  <2> QED BY <2>1, <2>2, NextsAreWeighed
<1>6. ASSUME NEW s \in Seq(UpFrames), NEW t \in Seq(UpFrames)
      PROVE  Nexts(s) <= Nexts(s \o t)
  <2>1. s \o t \in Seq(UpFrames)
    BY ConcatProperties
  <2>2. /\ Len(s) <= Len(s \o t)
        /\ \A i \in 1..Len(s) : (s \o t)[i] = s[i]
    BY ConcatProperties, LenProperties
  <2> DEFINE r == s \o t
  <2>3. r \in Seq(UpFrames) /\ Len(s) <= Len(r) /\ \A i \in 1..Len(s) : r[i] = s[i]
    BY <2>1, <2>2
  <2> HIDE DEF r
  <2>4. Weighed(NextWeight, s) <= Weighed(NextWeight, r)
    BY <1>1, <2>3, WeighedPrefix
  <2>5. Weighed(NextWeight, s) <= Weighed(NextWeight, s \o t)
    BY <2>4 DEF r
  <2> QED BY <2>1, <2>5, NextsAreWeighed
<1> QED BY <1>2, <1>3, <1>4, <1>5, <1>6

-------------------------------------------------------------------------------
(***************************************************************************)
(* Frames under way: what sending, receiving and giving up make of them.   *)
(***************************************************************************)
LEMMA Frames ==
  /\ \A type \in {"CHANNEL", "CHANNEL_COMPLETE", "NEXT", "COMPLETE", "CANCEL", "ERROR"} :
       Plain(type) \in UpFrames /\ Plain(type).type = type
  /\ \A type \in {"COMPLETE", "ERROR"} :
       Plain(type) \in DownFrames /\ Plain(type).type = type /\ Plain(type).n = 0
  /\ \A n \in 0..MaxRequestN :
       RequestN(n) \in DownFrames /\ RequestN(n).type = "REQUEST_N" /\ RequestN(n).n = n
BY Constants DEF Plain, RequestN, UpFrames, DownFrames

LEMMA AppendInitials ==
  ASSUME NEW o \in Seq(UpFrames), NEW f \in UpFrames
  PROVE  /\ Append(o, f) \in Seq(UpFrames)
         /\ f.type \notin Initials /\ InitialFirst(o) => InitialFirst(Append(o, f))
         /\ f.type \notin Initials /\ NoInitial(o) => NoInitial(Append(o, f))
         /\ o = <<>> => InitialFirst(Append(o, f))
<1> DEFINE r == Append(o, f)
<1>1. /\ r \in Seq(UpFrames) /\ Len(r) = Len(o) + 1 /\ r[Len(o) + 1] = f /\ Len(o) \in Nat
      /\ \A i \in 1..Len(o) : r[i] = o[i]
  BY AppendProperties, LenProperties
<1>2. o = <<>> => Len(o) = 0
  BY EmptySeq
<1> HIDE DEF r
<1>3. \A i \in 1..Len(r) : i \in 1..Len(o) \/ i = Len(o) + 1
  BY <1>1
<1>4. f.type \notin Initials /\ InitialFirst(o) => InitialFirst(r)
  BY <1>1, <1>3 DEF InitialFirst
<1>5. f.type \notin Initials /\ NoInitial(o) => NoInitial(r)
  BY <1>1, <1>3 DEF NoInitial
<1>6. o = <<>> => InitialFirst(r)
  BY <1>1, <1>2, <1>3 DEF InitialFirst
<1> QED BY <1>1, <1>4, <1>5, <1>6 DEF r

LEMMA TailInitials ==
  ASSUME NEW o \in Seq(UpFrames), o # <<>>, InitialFirst(o)
  PROVE  /\ Tail(o) \in Seq(UpFrames) /\ Head(o) \in UpFrames
         /\ NoInitial(Tail(o)) /\ InitialFirst(Tail(o))
         /\ NoInitial(o) => Head(o).type \notin Initials
<1>1. /\ Tail(o) \in Seq(UpFrames) /\ Len(Tail(o)) = Len(o) - 1 /\ Len(o) \in Nat /\ Len(o) # 0
      /\ \A i \in 1..Len(Tail(o)) : Tail(o)[i] = o[i + 1]
      /\ Head(o) \in UpFrames /\ Head(o) = o[1]
  BY HeadTailProperties, LenProperties, EmptySeq
<1>2. \A i \in 1..Len(Tail(o)) : i + 1 \in 1..Len(o) /\ i + 1 # 1
  BY <1>1
<1>3. NoInitial(Tail(o))
  BY <1>1, <1>2 DEF NoInitial, InitialFirst
<1>4. 1 \in 1..Len(o)
  BY <1>1
<1> QED BY <1>1, <1>3, <1>4 DEF NoInitial, InitialFirst

LEMMA PrefixInitials ==
  ASSUME NEW u \in Seq(UpFrames), NEW p \in Seq(UpFrames)
  PROVE  /\ InitialFirst(u \o p) => InitialFirst(u)
         /\ NoInitial(u \o p) => NoInitial(u)
<1>1. Len(u \o p) = Len(u) + Len(p) /\ Len(u) \in Nat /\ Len(p) \in Nat
  BY ConcatProperties, LenProperties
<1>2. \A i \in 1..Len(u) : i \in 1..Len(u \o p) /\ (u \o p)[i] = u[i]
  BY <1>1, ConcatProperties
<1> QED BY <1>2 DEF NoInitial, InitialFirst

LEMMA EmptyInitials == InitialFirst(<<>>) /\ NoInitial(<<>>)
BY DEF InitialFirst, NoInitial

LEMMA OutgoingType ==
  ASSUME Types
  PROVE  outgoing \in Seq(UpFrames) /\ Nexts(outgoing) \in Nat /\ Credits(down) \in Nat
<1>1. outgoing \in Seq(UpFrames)
  BY ConcatProperties DEF Types, outgoing
<1> QED BY <1>1, NextsLaw, CreditsLaw DEF Types

LEMMA ConcatAppend ==
  ASSUME NEW s \in Seq(UpFrames), NEW t \in Seq(UpFrames), NEW f \in UpFrames
  PROVE  s \o Append(t, f) = Append(s \o t, f) /\ Append(t, f) \in Seq(UpFrames)
<1>1. <<f>> \in Seq(UpFrames) /\ s \o t \in Seq(UpFrames)
  BY ConcatProperties
<1>2. Append(t, f) = t \o <<f>> /\ Append(s \o t, f) = (s \o t) \o <<f>>
  BY <1>1, AppendIsConcat
<1>3. (s \o t) \o <<f>> = s \o (t \o <<f>>)
  BY <1>1, ConcatAssociative
<1> QED BY <1>2, <1>3, AppendProperties

\* The session after a send.
TransportTypes ==
  /\ session \in {"active", "lost", "handshake"} /\ losses \in 0..MaxLosses
  /\ up \in Seq(UpFrames) /\ pendingFrames \in Seq(UpFrames)
  /\ session = "active" => pendingFrames = <<>>

\* A frame other than CANCEL goes behind all others.
LEMMA SendLaw ==
  ASSUME Types, SessionInv, NEW f \in UpFrames, f.type # "CANCEL", Send(f)
  PROVE  TransportTypes' /\ outgoing' = Append(outgoing, f) /\ session # "over"
<1>1. up \in Seq(UpFrames) /\ pendingFrames \in Seq(UpFrames) /\ losses \in 0..MaxLosses
  BY DEF Types
<1>2. Queued(pendingFrames, f) = Append(pendingFrames, f)
  BY DEF Queued
<1>3. /\ Append(up, f) \in Seq(UpFrames) /\ Append(pendingFrames, f) \in Seq(UpFrames)
      /\ up \o Append(pendingFrames, f) = Append(up \o pendingFrames, f)
  BY <1>1, ConcatAppend, AppendProperties
<1>4. LoseTransport => losses' \in 0..MaxLosses /\ session' = "lost"
  BY <1>1, ChannelAssumption DEF LoseTransport
<1>5. CASE session \in {"lost", "handshake"} /\ pendingFrames' = Queued(pendingFrames, f)
           /\ UNCHANGED <<session, losses, up>>
  BY <1>1, <1>2, <1>3, <1>5 DEF TransportTypes, outgoing
<1>6. CASE session = "active" /\ up' = Append(up, f) /\ UNCHANGED pendingFrames
           /\ (LoseTransport \/ UNCHANGED <<session, losses>>)
  <2>1. pendingFrames = <<>> /\ pendingFrames' = <<>>
    BY <1>6 DEF SessionInv
  <2>2. up \o <<>> = up /\ Append(up, f) \o <<>> = Append(up, f)
    BY <1>1, <1>3, ConcatEmptySeq
  <2>3. outgoing' = Append(outgoing, f)
    BY <1>6, <2>1, <2>2 DEF outgoing
  <2> QED BY <1>1, <1>3, <1>4, <1>6, <2>1, <2>3 DEF TransportTypes
<1>7. CASE session = "active" /\ LoseTransport /\ pendingFrames' = Queued(pendingFrames, f)
           /\ UNCHANGED up
  BY <1>1, <1>2, <1>3, <1>4, <1>7 DEF TransportTypes, outgoing
<1> QED BY <1>5, <1>6, <1>7 DEF Send

\* A CANCEL supersedes what is held back.
LEMMA SendCancelLaw ==
  ASSUME Types, SessionInv, Send(Plain("CANCEL"))
  PROVE  /\ TransportTypes' /\ session # "over"
         /\ outgoing' = up \/ outgoing' = Append(up, Plain("CANCEL"))
         /\ session = "active" => outgoing' = Append(up, Plain("CANCEL"))
<1> DEFINE f == Plain("CANCEL")
<1>1. up \in Seq(UpFrames) /\ pendingFrames \in Seq(UpFrames) /\ losses \in 0..MaxLosses
  BY DEF Types
<1>2. f \in UpFrames /\ f.type = "CANCEL" /\ <<f>> \in Seq(UpFrames) /\ <<>> \in Seq(UpFrames)
  BY Frames, EmptySeq
<1>3. Append(up, f) \in Seq(UpFrames) /\ up \o <<>> = up /\ Append(up, f) = up \o <<f>>
  BY <1>1, <1>2, AppendProperties, AppendIsConcat, ConcatEmptySeq
<1>4. Append(up, f) \o <<>> = Append(up, f)
  BY <1>3, ConcatEmptySeq
<1>5. LoseTransport => losses' \in 0..MaxLosses /\ session' = "lost"
  BY <1>1, ChannelAssumption DEF LoseTransport
<1>6. Queued(pendingFrames, f) \in {<<>>, <<f>>}
  BY <1>2 DEF Queued
<1>7. pendingFrames = <<>> => Queued(pendingFrames, f) = <<f>>
  <2> SUFFICES ASSUME pendingFrames = <<>> PROVE Queued(pendingFrames, f) = <<f>>
    OBVIOUS
  <2>1. ~\E i \in DOMAIN pendingFrames : pendingFrames[i].type \in Initials
    OBVIOUS
  <2> QED BY <1>2, <2>1 DEF Queued
<1> HIDE DEF f
<1>8. CASE session \in {"lost", "handshake"} /\ pendingFrames' = Queued(pendingFrames, f)
           /\ UNCHANGED <<session, losses, up>>
  <2>1. pendingFrames' = <<>> \/ pendingFrames' = <<f>>
    BY <1>6, <1>8
  <2>2. outgoing' = up \/ outgoing' = Append(up, f)
    BY <1>3, <1>8, <2>1 DEF outgoing
  <2> QED BY <1>1, <1>2, <1>8, <2>1, <2>2 DEF TransportTypes, f
<1>9. CASE session = "active" /\ up' = Append(up, f) /\ UNCHANGED pendingFrames
           /\ (LoseTransport \/ UNCHANGED <<session, losses>>)
  <2>1. pendingFrames = <<>> /\ pendingFrames' = <<>>
    BY <1>9 DEF SessionInv
  <2>2. outgoing' = Append(up, f)
    BY <1>4, <1>9, <2>1 DEF outgoing
  <2> QED BY <1>1, <1>3, <1>5, <1>9, <2>1, <2>2 DEF TransportTypes, f
<1>10. CASE session = "active" /\ LoseTransport /\ pendingFrames' = Queued(pendingFrames, f)
           /\ UNCHANGED up
  <2>1. pendingFrames' = <<f>>
    BY <1>7, <1>10 DEF SessionInv
  <2>2. outgoing' = Append(up, f)
    BY <1>3, <1>10, <2>1 DEF outgoing
  <2> QED BY <1>1, <1>2, <1>5, <1>10, <2>1, <2>2 DEF TransportTypes, f
<1> QED BY <1>8, <1>9, <1>10 DEF Send, f

LEMMA HeadTailOfConcat ==
  ASSUME NEW s \in Seq(UpFrames), NEW t \in Seq(UpFrames), s # <<>>
  PROVE  s \o t # <<>> /\ Head(s \o t) = Head(s) /\ Tail(s \o t) = Tail(s) \o t
<1> DEFINE c == s \o t
           d == Tail(s) \o t
<1>1. /\ Len(s) \in Nat /\ Len(s) # 0 /\ Len(t) \in Nat
      /\ Tail(s) \in Seq(UpFrames) /\ Len(Tail(s)) = Len(s) - 1
      /\ \A i \in 1..Len(Tail(s)) : Tail(s)[i] = s[i + 1]
      /\ Head(s) = s[1]
  BY HeadTailProperties, LenProperties, EmptySeq
<1>2. /\ c \in Seq(UpFrames) /\ Len(c) = Len(s) + Len(t)
      /\ \A i \in 1..Len(s) : c[i] = s[i]
      /\ \A i \in 1..Len(t) : c[Len(s) + i] = t[i]
  BY ConcatProperties
<1>3. /\ d \in Seq(UpFrames) /\ Len(d) = Len(Tail(s)) + Len(t)
      /\ \A i \in 1..Len(Tail(s)) : d[i] = Tail(s)[i]
      /\ \A i \in 1..Len(t) : d[Len(Tail(s)) + i] = t[i]
  BY <1>1, ConcatProperties
<1> HIDE DEF c, d
<1>4. c # <<>> /\ Head(c) = c[1] /\ 1 \in 1..Len(s)
  BY <1>1, <1>2, EmptySeq
<1>5. /\ Tail(c) \in Seq(UpFrames) /\ Len(Tail(c)) = Len(c) - 1
      /\ \A i \in 1..Len(Tail(c)) : Tail(c)[i] = c[i + 1]
  BY <1>2, <1>4, HeadTailProperties
<1>6. ASSUME NEW i \in 1..Len(d) PROVE Tail(c)[i] = d[i]
  <2>1. Tail(c)[i] = c[i + 1]
    BY <1>1, <1>2, <1>3, <1>5
  <2>2. CASE i <= Len(s) - 1
    <3>1. i \in 1..Len(Tail(s)) /\ i + 1 \in 1..Len(s)
      BY <1>1, <2>2
    <3> QED BY <1>1, <1>2, <1>3, <2>1, <3>1
  <2>3. CASE ~(i <= Len(s) - 1)
    <3> DEFINE j == i - (Len(s) - 1)
    <3>1. j \in 1..Len(t) /\ i = Len(Tail(s)) + j /\ i + 1 = Len(s) + j
      BY <1>1, <1>3, <2>3
    <3> HIDE DEF j
    <3> QED BY <1>2, <1>3, <2>1, <3>1
  <2> QED BY <2>2, <2>3
<1>7. Tail(c) = d
  <2>1. Len(Tail(c)) = Len(d)
    BY <1>1, <1>2, <1>3, <1>5
  <2> QED BY <1>3, <1>5, <1>6, <2>1, SeqEqual
<1> QED BY <1>1, <1>2, <1>4, <1>7 DEF c, d

\* The responder takes the first frame.
LEMMA TakeUpLaw ==
  ASSUME Types, RequestInv, up # <<>>, up' = Tail(up), pendingFrames' = pendingFrames
  PROVE  /\ up' \in Seq(UpFrames) /\ Head(up) \in UpFrames
         /\ outgoing' = Tail(outgoing) /\ outgoing # <<>> /\ Head(outgoing) = Head(up)
         /\ outgoing' \in Seq(UpFrames) /\ Nexts(outgoing') \in Nat
         /\ NoInitial(outgoing') /\ InitialFirst(outgoing')
         /\ responder # "none" => Head(up).type \notin Initials
         /\ Nexts(outgoing) = (IF Head(up).type = "NEXT" THEN 1 ELSE 0) + Nexts(outgoing')
<1>1. up \in Seq(UpFrames) /\ pendingFrames \in Seq(UpFrames)
  BY DEF Types
<1>2. /\ outgoing # <<>> /\ Head(outgoing) = Head(up)
      /\ Tail(outgoing) = Tail(up) \o pendingFrames
  BY <1>1, HeadTailOfConcat DEF outgoing
<1>3. outgoing' = Tail(outgoing) /\ outgoing \in Seq(UpFrames)
  BY <1>2, OutgoingType DEF outgoing
<1>4. InitialFirst(outgoing) /\ (responder # "none" => NoInitial(outgoing))
  BY DEF RequestInv
<1>5. up' \in Seq(UpFrames) /\ Head(up) \in UpFrames
  BY <1>1, HeadTailProperties
<1> DEFINE o == outgoing
<1>6. /\ Tail(o) \in Seq(UpFrames) /\ NoInitial(Tail(o)) /\ InitialFirst(Tail(o))
      /\ NoInitial(o) => Head(o).type \notin Initials
      /\ Nexts(o) = (IF Head(o).type = "NEXT" THEN 1 ELSE 0) + Nexts(Tail(o))
      /\ Nexts(Tail(o)) \in Nat
  <2>1. o \in Seq(UpFrames) /\ o # <<>> /\ InitialFirst(o)
    BY <1>2, <1>3, <1>4
  <2> HIDE DEF o
  <2>2. /\ Tail(o) \in Seq(UpFrames) /\ NoInitial(Tail(o)) /\ InitialFirst(Tail(o))
        /\ NoInitial(o) => Head(o).type \notin Initials
    BY <2>1, TailInitials
  <2> QED BY <2>1, <2>2, NextsLaw
<1> QED BY <1>2, <1>3, <1>4, <1>5, <1>6
-------------------------------------------------------------------------------
(***************************************************************************)
(* Parts of the invariant that a step leaves alone.                        *)
(***************************************************************************)
LEMMA LoopSame ==
  ASSUME LoopInv, UNCHANGED <<at, aborted, sourceEnded, iterator, returns, stage, outboundTerminated>>
  PROVE  LoopInv'
BY DEF LoopInv

LEMMA InputSame ==
  ASSUME InputInv, UNCHANGED <<halves, input>>
  PROVE  InputInv'
BY DEF InputInv, PrefetchIsBounded, halves, input

LEMMA RequestSame ==
  ASSUME RequestInv, outgoing' = outgoing, UNCHANGED <<at, demand, down, halves, input>>
  PROVE  RequestInv'
<1> DEFINE o == outgoing
<1>1. o' = o
  OBVIOUS
<1>2. /\ at \in Before => o = <<>> /\ responder = "none"
      /\ InitialFirst(o) /\ (responder # "none" => NoInitial(o))
      /\ responder = "none" => Nexts(o) = 0
  BY DEF RequestInv
<1> HIDE DEF o
<1>3. /\ at' \in Before => o' = <<>> /\ responder' = "none"
      /\ InitialFirst(o') /\ (responder' # "none" => NoInitial(o'))
      /\ responder' = "none" => Nexts(o') = 0
  BY <1>1, <1>2 DEF halves
<1>4. /\ at' \in {"awaitSend", "send"} => demand' > 0
      /\ responder' = "none" =>
           /\ down' = <<>> /\ demand' = 0
           /\ ~subscribed' /\ queued' = 0 /\ downstreamDemand' = 0 /\ remoteCredits' = 0
           /\ ~terminated' /\ ~draining' /\ ~requesterComplete'
  BY DEF RequestInv, halves, input
<1> QED BY <1>3, <1>4 DEF RequestInv, o

LEMMA CreditSame ==
  ASSUME CreditInv, outgoing' = outgoing,
         UNCHANGED <<demand, down, responder, remoteCredits, stage, outboundTerminated, requesterComplete>>
  PROVE  CreditInv'
<1> DEFINE x == Nexts(outgoing)
<1>1. x' = x
  BY DEF Nexts
<1> HIDE DEF x
<1>2. Credits(down)' = Credits(down)
  BY DEF Credits
<1>3. /\ responder = "open" => demand + Credits(down) + x <= remoteCredits
      /\ stage = "open" /\ ~outboundTerminated /\ responder = "open" /\ ~requesterComplete
           => remoteCredits = demand + Credits(down) + x
      /\ demand + Credits(down) <= MaxRequestN
  BY DEF CreditInv, CreditIsConserved, x
<1>4. /\ responder' = "open" => demand' + Credits(down)' + x' <= remoteCredits'
      /\ stage' = "open" /\ ~outboundTerminated' /\ responder' = "open" /\ ~requesterComplete'
           => remoteCredits' = demand' + Credits(down)' + x'
      /\ demand' + Credits(down)' <= MaxRequestN
  BY <1>1, <1>2, <1>3
<1> QED BY <1>4 DEF CreditInv, CreditIsConserved, x

-------------------------------------------------------------------------------
(***************************************************************************)
(* Initially, and when nothing happens.                                    *)
(***************************************************************************)
LEMMA InitEstablishes == Init => IInv
<1> SUFFICES ASSUME Init PROVE IInv
  OBVIOUS
<1>1. <<>> \in Seq(UpFrames) /\ <<>> \in Seq(DownFrames) /\ outgoing = <<>>
  BY EmptySeq, ConcatEmptySeq DEF Init, outgoing
<1>2. Types
  <2>1. /\ 0 \in 0..MaxLosses /\ 0 \in 0..MaxRequestN /\ 0 \in 0..MaxSafe /\ 0 \in 0..Items
        /\ 0 \in Nat
    BY Constants, ChannelAssumption
  <2> QED BY ONLY <1>1, <2>1, Init DEF Init, Types, Places, Iterators
<1>3. LoopInv /\ SessionInv
  BY DEF Init, LoopInv, SessionInv, Before
<1>4. RequestInv
  BY <1>1, NextsLaw, EmptyInitials DEF Init, RequestInv
<1>5. CreditInv
  BY CreditsLaw, Constants DEF Init, CreditInv, CreditIsConserved
<1>6. InputInv
  BY Constants DEF Init, InputInv, PrefetchIsBounded
<1> QED BY <1>2, <1>3, <1>4, <1>5, <1>6 DEF IInv

LEMMA StutterKeeps ==
  ASSUME IInv, UNCHANGED vars
  PROVE  IInv'
<1>1. /\ outgoing' = outgoing
      /\ UNCHANGED <<session, losses, up, pendingFrames, stage, responseTerminated, outboundTerminated>>
      /\ UNCHANGED <<at, aborted, demand, yielded, sourceEnded, iterator, returns, down>>
      /\ UNCHANGED <<responder, requesterComplete, responderComplete>> /\ UNCHANGED <<halves, input>>
      /\ UNCHANGED <<subscribed, calls, queued, downstreamDemand, remoteCredits, terminated, draining>>
  BY DEF vars, requester, transport, subscription, outbound, source, halves, input, outgoing
<1>2. Types'
  BY <1>1 DEF IInv, Types
<1>3. SessionInv'
  BY <1>1 DEF IInv, SessionInv
<1> QED BY <1>1, <1>2, <1>3, LoopSame, InputSame, RequestSame, CreditSame DEF IInv

-------------------------------------------------------------------------------
(***************************************************************************)
(* The session.                                                            *)
(***************************************************************************)
\* A flush only moves frames from the queue to the wire, even when it stops
\* halfway.
LEMMA FinishResumeLaw ==
  ASSUME IInv, FinishResume
  PROVE  TransportTypes' /\ outgoing' = outgoing /\ session # "over"
<1>1. /\ up \in Seq(UpFrames) /\ pendingFrames \in Seq(UpFrames) /\ losses \in 0..MaxLosses
      /\ session = "handshake"
  BY DEF IInv, Types, FinishResume
<1>2. CASE session' = "active" /\ up' = up \o pendingFrames /\ pendingFrames' = <<>> /\ UNCHANGED losses
  <2>1. up \o pendingFrames \in Seq(UpFrames) /\ <<>> \in Seq(UpFrames)
    BY <1>1, ConcatProperties, EmptySeq
  <2>2. (up \o pendingFrames) \o <<>> = up \o pendingFrames
    BY <2>1, ConcatEmptySeq
  <2> QED BY <1>1, <1>2, <2>1, <2>2 DEF TransportTypes, outgoing
<1>3. CASE /\ LoseTransport
           /\ \E k \in 0..Len(pendingFrames) :
                /\ up' = up \o SubSeq(pendingFrames, 1, k)
                /\ pendingFrames' = SubSeq(pendingFrames, k + 1, Len(pendingFrames))
  <2>1. PICK k \in 0..Len(pendingFrames) :
          /\ up' = up \o SubSeq(pendingFrames, 1, k)
          /\ pendingFrames' = SubSeq(pendingFrames, k + 1, Len(pendingFrames))
    BY <1>3
  <2> DEFINE m == Len(pendingFrames)
             a == SubSeq(pendingFrames, 1, k)
             b == SubSeq(pendingFrames, k + 1, m)
  <2>2. /\ m \in Nat /\ k \in Nat /\ k <= m
        /\ \A i \in 1..m : pendingFrames[i] \in UpFrames
    BY <1>1, LenProperties, ElementOfSeq
  <2>3. a \in Seq(UpFrames)
    <3>1. (\A i \in 1..k : pendingFrames[i] \in UpFrames) /\ 1 \in Int /\ k \in Int
      BY <2>2
    <3> QED BY <3>1, SubSeqProperties
  <2>4. b \in Seq(UpFrames)
    <3>1. (\A i \in (k + 1)..m : pendingFrames[i] \in UpFrames) /\ k + 1 \in Int /\ m \in Int
      BY <2>2
    <3> QED BY <3>1, SubSeqProperties
  <2>5. a \o b = pendingFrames
    <3>1. 1 \in 1..(m + 1) /\ k \in (1 - 1)..m /\ m \in k..m
      BY <2>2
    <3>2. a \o b = SubSeq(pendingFrames, 1, m)
      BY <1>1, <3>1, ConcatAdjacentSubSeq
    <3> QED BY <1>1, <3>2, SubSeqFull
  <2>6. up' = up \o a /\ pendingFrames' = b
    BY <2>1
  <2>7. session' = "lost" /\ losses' \in 0..MaxLosses
    BY <1>1, <1>3, ChannelAssumption DEF LoseTransport
  <2> HIDE DEF a, b, m
  <2>8. (up \o a) \o b = up \o (a \o b) /\ up \o a \in Seq(UpFrames)
    BY <1>1, <2>3, <2>4, ConcatAssociative, ConcatProperties, SMTT(30)
  <2> QED BY <1>1, <2>4, <2>5, <2>6, <2>7, <2>8 DEF TransportTypes, outgoing
<1> QED BY <1>2, <1>3 DEF FinishResume

LEMMA SessionMovesKeep ==
  ASSUME IInv, TransportLost \/ BeginResume \/ FinishResume
  PROVE  IInv'
<1>1. /\ UNCHANGED <<stage, responseTerminated, outboundTerminated>>
      /\ UNCHANGED <<at, aborted, demand, yielded, sourceEnded, iterator, returns, down>>
      /\ UNCHANGED <<responder, requesterComplete, responderComplete>> /\ UNCHANGED <<halves, input>>
      /\ UNCHANGED <<subscribed, calls, queued, downstreamDemand, remoteCredits, terminated, draining>>
  BY DEF TransportLost, BeginResume, FinishResume, subscription, outbound, source, halves, input
<1>2. up \in Seq(UpFrames) /\ pendingFrames \in Seq(UpFrames) /\ losses \in 0..MaxLosses
      /\ session \in {"active", "lost", "handshake", "over"}
  BY DEF IInv, Types
<1>3. TransportTypes' /\ outgoing' = outgoing /\ session # "over"
  <2>1. CASE TransportLost
    BY <1>2, <2>1, ChannelAssumption DEF TransportLost, LoseTransport, TransportTypes, outgoing
  <2>2. CASE BeginResume
    BY <1>2, <2>2 DEF BeginResume, TransportTypes, outgoing
  <2>3. CASE FinishResume
    BY <2>3, FinishResumeLaw
  <2> QED BY <2>1, <2>2, <2>3
<1>4. Types'
  BY <1>1, <1>3 DEF IInv, Types, TransportTypes
<1>5. SessionInv'
  BY <1>1, <1>3 DEF SessionInv, TransportTypes
<1> QED BY <1>1, <1>3, <1>4, <1>5, LoopSame, InputSame, RequestSame, CreditSame DEF IInv

\* A source that is left, closed or ended, is not open, and return() has been
\* called for it at most once.
LEMMA ClosedLaw ==
  ASSUME Types, LoopInv, ~aborted,
         \/ ReturnIterator \/ LeaveSource
         \/ at = "start" /\ UNCHANGED <<iterator, returns>>
  PROVE  /\ iterator' \in Iterators /\ iterator' # "open"
         /\ iterator' = "exhausted" => sourceEnded
         /\ returns' = IF iterator' = "returned" THEN 1 ELSE 0
<1>1. iterator \in {"none", "open", "exhausted"} /\ returns = 0
  BY DEF LoopInv
<1> QED BY <1>1 DEF LoopInv, ReturnIterator, LeaveSource, Iterators

\* abort, for a subscription that is given up.
LEMMA AbortLaw ==
  ASSUME Types, LoopInv, AbortOutbound, stage' = "gone", outboundTerminated' = outboundTerminated
  PROVE  /\ LoopInv' /\ at' = at /\ demand' = demand
         /\ aborted' \in BOOLEAN /\ iterator' \in Iterators
         /\ yielded' = yielded /\ sourceEnded' = sourceEnded
<1>1. UNCHANGED <<at, demand, yielded, sourceEnded>>
  BY DEF AbortOutbound
<1>2. CASE outboundTerminated \/ aborted
  <2>1. UNCHANGED <<aborted, iterator, returns>>
    BY <1>2 DEF AbortOutbound
  <2> QED BY <1>1, <1>2, <2>1 DEF Types, LoopInv
<1>3. CASE ~(outboundTerminated \/ aborted)
  <2>1. iterator = IF at = "start" THEN "none" ELSE "open"
    BY <1>3 DEF LoopInv
  <2>2. returns = 0
    BY <2>1 DEF LoopInv
  <2>3. /\ aborted' = TRUE
        /\ iterator' = IF at = "start" THEN "none" ELSE "returned"
        /\ returns' = IF at = "start" THEN 0 ELSE 1
    BY <1>3, <2>1, <2>2 DEF AbortOutbound, ReturnIterator
  <2>4. iterator' \in Iterators
    BY <2>3 DEF Iterators
  <2> QED BY <1>1, <1>3, <2>3, <2>4 DEF Types, LoopInv
<1> QED BY <1>2, <1>3

\* Giving the stream up can only lose frames: what is left of those under
\* way is a beginning of them, with a CANCEL behind it perhaps.
LEMMA GiveUpLaw ==
  ASSUME Types, RequestInv,
         outgoing' = up \/ outgoing' = Append(up, Plain("CANCEL")) \/ outgoing' = outgoing
  PROVE  /\ InitialFirst(outgoing') /\ (responder # "none" => NoInitial(outgoing'))
         /\ Nexts(outgoing') \in Nat /\ Nexts(outgoing') <= Nexts(outgoing)
         /\ Nexts(outgoing) = 0 => Nexts(outgoing') = 0
<1>1. up \in Seq(UpFrames) /\ pendingFrames \in Seq(UpFrames) /\ Plain("CANCEL") \in UpFrames
      /\ Plain("CANCEL").type = "CANCEL"
  BY Frames DEF Types
<1>2. InitialFirst(outgoing) /\ (responder # "none" => NoInitial(outgoing)) /\ Nexts(outgoing) \in Nat
  BY OutgoingType DEF RequestInv
<1>3. InitialFirst(up) /\ (responder # "none" => NoInitial(up))
  BY <1>1, <1>2, PrefixInitials DEF outgoing
<1>4. Nexts(up) \in Nat /\ Nexts(up) <= Nexts(outgoing)
  BY <1>1, NextsLaw DEF outgoing
<1> DEFINE r == Append(up, Plain("CANCEL"))
<1>5. /\ InitialFirst(r) /\ (responder # "none" => NoInitial(r))
      /\ Nexts(r) = Nexts(up)
  <2>1. InitialFirst(r) /\ (responder # "none" => NoInitial(r))
    BY <1>1, <1>3, AppendInitials DEF Initials
  <2>2. Nexts(r) = Nexts(up) + 0
    BY <1>1, NextsLaw
  <2> QED BY <1>4, <2>1, <2>2
<1> HIDE DEF r
<1> DEFINE o == outgoing'
<1>6. o = up \/ o = r \/ o = outgoing
  BY DEF r
<1> HIDE DEF o
<1>7. /\ InitialFirst(o) /\ (responder # "none" => NoInitial(o))
      /\ Nexts(o) \in Nat /\ Nexts(o) <= Nexts(outgoing)
  BY <1>2, <1>3, <1>4, <1>5, <1>6
<1>8. Nexts(outgoing) = 0 => Nexts(o) = 0
  BY <1>2, <1>7
<1> QED BY <1>7, <1>8 DEF o

\* terminateSession, for a channel whose stream fails with it or that has
\* not sent its request.
LEMMA TerminateKeeps ==
  ASSUME IInv, TerminateSession, UNCHANGED <<responseTerminated, outboundTerminated, yielded, halves, input>>,
         at' \in Places, at' \in Before => at' = at, at' \in {"awaitSend", "send"} => at' = at,
         demand' \in 0..MaxRequestN, demand' <= demand, at' = at => demand' = demand,
         sourceEnded' \in BOOLEAN, aborted' \in BOOLEAN, iterator' \in Iterators,
         stage' \in {"starting", "gone"}, LoopInv'
  PROVE  IInv'
<1>1. /\ session' = "over" /\ pendingFrames' = <<>> /\ down' = <<>>
      /\ losses' = losses /\ up' = up
      /\ UNCHANGED <<responder, requesterComplete, responderComplete>> /\ UNCHANGED <<halves, input>>
      /\ UNCHANGED <<subscribed, calls, queued, downstreamDemand, remoteCredits, terminated, draining>>
  BY DEF TerminateSession, halves, input
<1>2. Types'
  BY <1>1, EmptySeq DEF IInv, Types
<1>3. SessionInv'
  BY <1>1 DEF SessionInv
<1>4. outgoing' = up
  <2>1. up \in Seq(UpFrames)
    BY DEF IInv, Types
  <2> QED BY <1>1, <2>1, ConcatEmptySeq DEF outgoing
<1>5. /\ InitialFirst(outgoing') /\ (responder # "none" => NoInitial(outgoing'))
      /\ Nexts(outgoing') \in Nat /\ Nexts(outgoing') <= Nexts(outgoing)
      /\ Nexts(outgoing) = 0 => Nexts(outgoing') = 0
  BY <1>4, GiveUpLaw DEF IInv
<1>6. at \in Before => outgoing' = <<>>
  <2>1. ASSUME up \o pendingFrames = <<>> PROVE up = <<>>
    <3>1. up \in Seq(UpFrames) /\ pendingFrames \in Seq(UpFrames)
      BY DEF IInv, Types
    <3>2. Len(up) + Len(pendingFrames) = 0 /\ Len(up) \in Nat /\ Len(pendingFrames) \in Nat
      BY <2>1, <3>1, ConcatProperties, LenProperties, EmptySeq
    <3> QED BY <3>1, <3>2, EmptySeq
  <2> QED BY <1>4, <2>1 DEF IInv, RequestInv, outgoing
<1>7. demand \in Nat /\ demand' \in Nat /\ remoteCredits \in Nat
  BY Constants DEF IInv, Types
<1>8. RequestInv'
  <2>1. responder = "none" => demand' = 0
    BY <1>7 DEF IInv, RequestInv
  <2>2. at' \in {"awaitSend", "send"} => demand' > 0
    BY DEF IInv, RequestInv
  <2> QED BY <1>1, <1>5, <1>6, <2>1, <2>2 DEF IInv, RequestInv
<1>9. CreditInv'
  <2>1. Credits(down') = 0 /\ Credits(down) \in Nat /\ Nexts(outgoing) \in Nat
    BY <1>1, CreditsLaw, OutgoingType DEF IInv
  <2>2. /\ demand + Credits(down) <= MaxRequestN
        /\ responder = "open" => demand + Credits(down) + Nexts(outgoing) <= remoteCredits
    BY DEF IInv, CreditInv
  <2>3. Nexts(outgoing') \in Nat /\ Nexts(outgoing') <= Nexts(outgoing) /\ MaxRequestN \in Nat
    BY <1>5, Constants
  <2> DEFINE c == Credits(down)
             x == Nexts(outgoing)
             y == Nexts(outgoing')
  <2> HIDE DEF c, x, y
  <2>4. /\ demand' + 0 <= MaxRequestN
        /\ responder = "open" => demand' + 0 + y <= remoteCredits
    <3>1. /\ c \in Nat /\ x \in Nat /\ y \in Nat /\ y <= x
          /\ demand + c <= MaxRequestN
          /\ responder = "open" => demand + c + x <= remoteCredits
      BY <2>1, <2>2, <2>3 DEF c, x, y
    <3>2. ASSUME NEW d \in Nat, NEW e \in Nat, e <= d, NEW r \in Nat
          PROVE  /\ d + c <= MaxRequestN => e + 0 <= MaxRequestN
                 /\ d + c + x <= r => e + 0 + y <= r
      BY <2>3, <3>1, <3>2
    <3>3. demand' <= demand
      OBVIOUS
    <3> QED BY ONLY <1>7, <3>1, <3>2, <3>3
  <2>5. /\ demand' + Credits(down') <= MaxRequestN
        /\ responder = "open" => demand' + Credits(down') + Nexts(outgoing') <= remoteCredits
    BY <2>1, <2>4 DEF y
  <2> QED BY <1>1, <2>5 DEF CreditInv, CreditIsConserved
<1> QED BY <1>1, <1>2, <1>3, <1>8, <1>9, InputSame DEF IInv

LEMMA SessionEndsKeeps ==
  ASSUME IInv, SessionEnds
  PROVE  IInv'
<1>1. TerminateSession /\ UNCHANGED <<responseTerminated, outboundTerminated, halves, input>>
  BY DEF SessionEnds
<1>2. /\ LoopInv' /\ at' = at /\ demand' = demand /\ stage' \in {"starting", "gone"}
      /\ aborted' \in BOOLEAN /\ iterator' \in Iterators
      /\ yielded' = yielded /\ sourceEnded' = sourceEnded
  <2>1. CASE stage # "open"
    <3>1. UNCHANGED <<stage, at, aborted, demand, yielded, sourceEnded, iterator, returns>>
      BY <2>1 DEF SessionEnds, outbound, source
    <3> QED BY <1>1, <2>1, <3>1, LoopSame DEF IInv, Types
  <2>2. CASE stage = "open"
    <3>1. AbortOutbound /\ stage' = "gone"
      BY <2>2 DEF SessionEnds
    <3> QED BY <1>1, <3>1, AbortLaw DEF IInv
  <2> QED BY <2>1, <2>2
<1>3. at \in Places /\ demand \in 0..MaxRequestN /\ sourceEnded \in BOOLEAN /\ demand \in Nat
  BY Constants DEF IInv, Types
<1> QED BY <1>1, <1>2, <1>3, TerminateKeeps
-------------------------------------------------------------------------------
(***************************************************************************)
(* The outbound side, without a frame.                                     *)
(***************************************************************************)
\* The loop goes on without a frame, and keeps to its part of the invariant.
LEMMA LoopMoves ==
  ASSUME IInv, UNCHANGED <<transport, subscription, demand, down, halves, input>>,
         at' \in Places,
         iterator' \in Iterators, yielded' \in 0..Items,
         aborted' \in BOOLEAN, sourceEnded' \in BOOLEAN,
         at' \in Before => at \in Before, at' \in {"awaitSend", "send"} => demand > 0,
         LoopInv'
  PROVE  IInv'
<1>1. /\ UNCHANGED <<session, losses, up, pendingFrames, stage, responseTerminated, outboundTerminated>>
      /\ UNCHANGED <<demand, down, halves, input>> /\ outgoing' = outgoing
      /\ UNCHANGED <<responder, requesterComplete, responderComplete>>
      /\ UNCHANGED <<subscribed, calls, queued, downstreamDemand, remoteCredits, terminated, draining>>
  BY DEF transport, subscription, halves, input, outgoing
<1>2. Types'
  BY <1>1 DEF IInv, Types
<1>3. SessionInv' /\ CreditInv' /\ InputInv'
  BY <1>1, CreditSame, InputSame DEF IInv, SessionInv
<1>4. RequestInv'
  <2> DEFINE o == outgoing
  <2>1. o' = o
    BY <1>1
  <2>2. /\ at' \in Before => o = <<>> /\ responder = "none"
        /\ InitialFirst(o) /\ (responder # "none" => NoInitial(o))
        /\ responder = "none" => Nexts(o) = 0
    BY DEF IInv, RequestInv
  <2> HIDE DEF o
  <2>3. /\ at' \in Before => o' = <<>> /\ responder' = "none"
        /\ InitialFirst(o') /\ (responder' # "none" => NoInitial(o'))
        /\ responder' = "none" => Nexts(o') = 0
    BY <1>1, <2>1, <2>2
  <2>4. /\ at' \in {"awaitSend", "send"} => demand' > 0
        /\ responder' = "none" =>
             /\ down' = <<>> /\ demand' = 0
             /\ ~subscribed' /\ queued' = 0 /\ downstreamDemand' = 0 /\ remoteCredits' = 0
             /\ ~terminated' /\ ~draining' /\ ~requesterComplete'
    BY <1>1 DEF IInv, RequestInv
  <2> QED BY <2>3, <2>4 DEF RequestInv, o
<1> QED BY <1>2, <1>3, <1>4 DEF IInv

LEMMA UnwindKeeps ==
  ASSUME IInv, Unwind
  PROVE  IInv'
<1>1. /\ aborted /\ aborted' = aborted /\ at' = "done"
      /\ UNCHANGED <<transport, subscription, demand, down, halves, input>>
      /\ UNCHANGED <<stage, outboundTerminated, yielded, sourceEnded>>
  BY DEF Unwind, subscription
<1>2. iterator # "open" /\ iterator' = iterator /\ returns' = returns
  BY <1>1 DEF Unwind, ReturnIterator, IInv, LoopInv
<1>3. LoopInv'
  BY <1>1, <1>2 DEF IInv, LoopInv
<1> QED BY <1>1, <1>2, <1>3, LoopMoves DEF IInv, Types, Before, Places

LEMMA OpenSourceKeeps ==
  ASSUME IInv, OpenSource
  PROVE  IInv'
<1>1. /\ at = "start" /\ iterator = "none" /\ returns = 0
      /\ UNCHANGED <<transport, subscription, demand, down, halves, input>>
      /\ UNCHANGED <<aborted, stage, outboundTerminated, yielded, sourceEnded>>
  BY DEF OpenSource, aside, subscription, IInv, LoopInv
<1>2. \/ aborted /\ at' = "done" /\ iterator' = "returned" /\ returns' = 1
      \/ ~aborted /\ at' = "awaitInitial" /\ iterator' = "open" /\ returns' = 0
  BY <1>1 DEF OpenSource
<1>3. LoopInv'
  BY <1>1, <1>2 DEF IInv, LoopInv, Before
<1>4. /\ at' \in Places /\ iterator' \in Iterators /\ yielded' \in 0..Items
      /\ aborted' \in BOOLEAN /\ sourceEnded' \in BOOLEAN
      /\ at \in Before /\ at' \notin {"awaitSend", "send"}
  BY <1>1, <1>2 DEF IInv, Types, Places, Iterators, Before
<1> QED BY <1>1, <1>3, <1>4, LoopMoves

LEMMA AwaitsKeep ==
  ASSUME IInv, BecomesWritable \/ HasDemand \/ EndsEmpty \/ Yields
  PROVE  IInv'
<1>1. /\ ~aborted /\ aborted' = aborted
      /\ UNCHANGED <<transport, subscription, demand, down, halves, input>>
      /\ UNCHANGED <<stage, outboundTerminated, iterator, returns>>
  BY DEF BecomesWritable, HasDemand, EndsEmpty, Yields, Goes, aside, subscription, source
<1>2. \/ at \in Before /\ at' \in Before
      \/ at \notin Before /\ at' \notin Before /\ at' # "done"
         /\ at' \in {"awaitRead", "read", "credit", "awaitSend", "send"}
  BY DEF BecomesWritable, HasDemand, EndsEmpty, Yields, Goes, Before
<1>3. at' \in {"awaitSend", "send"} => demand > 0
  BY DEF BecomesWritable, HasDemand, EndsEmpty, Yields, Goes, IInv, RequestInv
<1>4. /\ yielded' \in 0..Items /\ sourceEnded' \in BOOLEAN
      /\ iterator' \in Iterators /\ aborted' \in BOOLEAN
  <2>1. /\ yielded \in 0..Items /\ sourceEnded \in BOOLEAN /\ Items \in Nat
        /\ iterator \in Iterators /\ aborted \in BOOLEAN
    BY ChannelAssumption DEF IInv, Types
  <2>2. \/ yielded' = yielded
        \/ yielded < Items /\ yielded' = yielded + 1
    BY DEF BecomesWritable, HasDemand, EndsEmpty, Yields, source
  <2>3. sourceEnded' = sourceEnded \/ sourceEnded' = TRUE
    BY DEF BecomesWritable, HasDemand, EndsEmpty, Yields, source
  <2>4. yielded' \in 0..Items
    BY <2>1, <2>2
  <2> QED BY <1>1, <2>1, <2>3, <2>4
<1>5. LoopInv'
  <2>1. /\ ~aborted /\ aborted' = aborted /\ stage' = stage /\ iterator' = iterator
        /\ outboundTerminated' = outboundTerminated /\ returns' = returns
    BY <1>1
  <2>2. at \notin {"start", "done"} /\ at' \notin {"start", "done"}
    BY <1>2 DEF BecomesWritable, HasDemand, EndsEmpty, Yields, Goes, Before
  <2>3. ~outboundTerminated /\ iterator = "open" /\ stage # "gone"
    BY <2>1, <2>2 DEF IInv, LoopInv
  <2>4. (stage = "starting" => at' \in Before) /\ (stage = "open" => at' \notin Before)
    BY <1>2 DEF IInv, LoopInv
  <2>5. returns = IF iterator = "returned" THEN 1 ELSE 0
    BY DEF IInv, LoopInv
  <2> QED BY <2>1, <2>2, <2>3, <2>4, <2>5 DEF LoopInv
<1>6. at' \in Places
  BY <1>2 DEF Before, Places
<1>7. at' \in Before => at \in Before
  BY <1>2
<1> QED BY <1>1, <1>3, <1>4, <1>5, <1>6, <1>7, LoopMoves

-------------------------------------------------------------------------------
(***************************************************************************)
(* The outbound side sends.                                                *)
(***************************************************************************)
\* A frame behind the initial one.
LEMMA SentLaw ==
  ASSUME Types, RequestInv, NEW f \in UpFrames, f.type \notin Initials, outgoing' = Append(outgoing, f)
  PROVE  /\ InitialFirst(outgoing') /\ (responder # "none" => NoInitial(outgoing'))
         /\ Nexts(outgoing) \in Nat /\ Nexts(outgoing') \in Nat
         /\ Nexts(outgoing') = Nexts(outgoing) + IF f.type = "NEXT" THEN 1 ELSE 0
<1> DEFINE o == outgoing
           r == Append(o, f)
<1>1. o \in Seq(UpFrames) /\ Nexts(o) \in Nat /\ InitialFirst(o) /\ (responder # "none" => NoInitial(o))
  BY OutgoingType DEF RequestInv
<1>2. outgoing' = r
  OBVIOUS
<1> HIDE DEF o
<1>3. /\ InitialFirst(r) /\ (responder # "none" => NoInitial(r))
      /\ r \in Seq(UpFrames)
      /\ Nexts(r) = Nexts(o) + IF f.type = "NEXT" THEN 1 ELSE 0
  BY <1>1, AppendInitials, NextsLaw
<1>4. Nexts(r) \in Nat
  BY <1>1, <1>3
<1> QED BY <1>1, <1>2, <1>3, <1>4 DEF o

LEMMA CompletesKeeps ==
  ASSUME IInv, Completes
  PROVE  IInv'
<1>1. /\ at = "read" /\ ~aborted /\ at' = "done" /\ aborted' = aborted
      /\ sourceEnded' = TRUE /\ iterator' = "exhausted"
      /\ responseTerminated' = responseTerminated /\ outboundTerminated' = TRUE
      /\ stage' = IF responseTerminated THEN "gone" ELSE stage
      /\ UNCHANGED <<demand, yielded, returns, down, halves, input>>
      /\ UNCHANGED <<responder, requesterComplete, responderComplete>>
      /\ UNCHANGED <<subscribed, calls, queued, downstreamDemand, remoteCredits, terminated, draining>>
  BY DEF Completes, Goes, HalfDone, aside, halves, input
<1> DEFINE f == Plain("COMPLETE")
<1>2. f \in UpFrames /\ f.type = "COMPLETE" /\ Send(f)
  BY Frames DEF Completes
<1> HIDE DEF f
<1>3. TransportTypes' /\ outgoing' = Append(outgoing, f) /\ session # "over"
  BY <1>2, SendLaw DEF IInv
<1>4. Types'
  BY <1>1, <1>3 DEF IInv, Types, TransportTypes, Places, Iterators
<1>5. SessionInv'
  BY <1>3 DEF SessionInv, TransportTypes
<1>6. LoopInv'
  BY <1>1 DEF IInv, LoopInv, Before, Types
<1>7. /\ InitialFirst(outgoing') /\ (responder # "none" => NoInitial(outgoing'))
      /\ Nexts(outgoing') = Nexts(outgoing) + 0 /\ Nexts(outgoing) \in Nat
  BY <1>2, <1>3, SentLaw DEF IInv, Initials
<1>8. Nexts(outgoing') = Nexts(outgoing)
  BY <1>7
<1>9. RequestInv'
  BY <1>1, <1>7, <1>8 DEF IInv, RequestInv, Before
<1>10. CreditInv'
  <2>1. Credits(down') = Credits(down) /\ UNCHANGED <<demand, responder, remoteCredits>>
    BY <1>1
  <2> QED BY <1>1, <1>8, <2>1 DEF IInv, CreditInv, CreditIsConserved
<1> QED BY <1>1, <1>4, <1>5, <1>6, <1>9, <1>10, InputSame DEF IInv

LEMMA StartRequestKeeps ==
  ASSUME IInv, StartRequest
  PROVE  IInv'
<1>1. /\ at = "startRequest" /\ ~aborted /\ aborted' = aborted /\ stage' = "open"
      /\ UNCHANGED <<responseTerminated, demand, yielded, sourceEnded, returns, down, halves, input>>
      /\ UNCHANGED <<responder, requesterComplete, responderComplete>>
      /\ UNCHANGED <<subscribed, calls, queued, downstreamDemand, remoteCredits, terminated, draining>>
  BY DEF StartRequest, aside, halves, input
<1>2. outgoing = <<>> /\ responder = "none" /\ ~outboundTerminated /\ iterator = "open"
  BY <1>1 DEF IInv, RequestInv, LoopInv, Before
<1>3. PICK type \in {"CHANNEL", "CHANNEL_COMPLETE"} : Send(Plain(type))
  BY DEF StartRequest
<1> DEFINE f == Plain(type)
<1>4. f \in UpFrames /\ f.type # "CANCEL" /\ f.type # "NEXT" /\ Send(f)
  BY <1>3, Frames
<1> HIDE DEF f
<1>5. TransportTypes' /\ outgoing' = Append(outgoing, f) /\ session # "over"
  BY <1>4, SendLaw DEF IInv
<1>6. \/ at' = "done" /\ iterator' = "exhausted" /\ outboundTerminated' = TRUE /\ sourceEnded
      \/ at' = "demand" /\ iterator' = iterator /\ outboundTerminated' = outboundTerminated
  BY DEF StartRequest
<1>7. Types'
  <2>1. /\ at' \in Places
        /\ iterator' \in Iterators /\ outboundTerminated' \in BOOLEAN
    BY <1>6 DEF IInv, Types, Places, Iterators
  <2> QED BY <1>1, <1>5, <2>1 DEF IInv, Types, TransportTypes
<1>8. SessionInv'
  BY <1>5 DEF SessionInv, TransportTypes
<1>9. LoopInv'
  BY <1>1, <1>2, <1>6 DEF IInv, LoopInv, Before
<1>10. InitialFirst(outgoing') /\ Nexts(outgoing') = 0
  <2> DEFINE o == outgoing
             r == Append(o, f)
  <2>1. o = <<>> /\ o \in Seq(UpFrames) /\ outgoing' = r
    BY <1>2, <1>5, EmptySeq
  <2> HIDE DEF o
  <2>2. InitialFirst(r) /\ Nexts(r) = Nexts(o) + 0
    BY <1>4, <2>1, AppendInitials, NextsLaw
  <2>3. Nexts(r) = 0
    BY <2>1, <2>2, NextsLaw
  <2> QED BY <2>1, <2>2, <2>3
<1>11. RequestInv'
  BY <1>1, <1>2, <1>6, <1>10 DEF IInv, RequestInv, Before
<1>12. CreditInv'
  <2>1. Credits(down') = Credits(down) /\ responder' = "none"
    BY <1>1, <1>2
  <2> QED BY <1>1, <2>1 DEF IInv, CreditInv, CreditIsConserved
<1> QED BY <1>1, <1>7, <1>8, <1>9, <1>11, <1>12, InputSame DEF IInv

LEMMA SendNextKeeps ==
  ASSUME IInv, SendNext
  PROVE  IInv'
<1>1. /\ at = "send" /\ ~aborted /\ at' \in {"read", "demand"} /\ demand' = demand - 1
      /\ UNCHANGED <<stage, responseTerminated, outboundTerminated>>
      /\ UNCHANGED <<aborted, yielded, sourceEnded, iterator, returns, down, halves, input>>
      /\ UNCHANGED <<responder, requesterComplete, responderComplete>>
      /\ UNCHANGED <<subscribed, calls, queued, downstreamDemand, remoteCredits, terminated, draining>>
  BY DEF SendNext, subscription, source, aside, halves, input
<1>2. demand > 0 /\ demand \in 0..MaxRequestN /\ responder # "none"
  <2>1. demand > 0
    BY <1>1 DEF IInv, RequestInv
  <2> QED BY <2>1 DEF IInv, Types, RequestInv
<1>3. demand' \in 0..MaxRequestN /\ demand \in Nat
  BY <1>1, <1>2, Constants
<1> DEFINE f == Plain("NEXT")
<1>4. f \in UpFrames /\ f.type = "NEXT" /\ Send(f)
  BY Frames DEF SendNext
<1> HIDE DEF f
<1>5. TransportTypes' /\ outgoing' = Append(outgoing, f) /\ session # "over"
  BY <1>4, SendLaw DEF IInv
<1>6. Types'
  BY <1>1, <1>3, <1>5 DEF IInv, Types, TransportTypes, Places
<1>7. SessionInv'
  BY <1>5 DEF SessionInv, TransportTypes
<1>8. LoopInv'
  BY <1>1 DEF IInv, LoopInv, Before
<1>9. /\ InitialFirst(outgoing') /\ (responder # "none" => NoInitial(outgoing'))
      /\ Nexts(outgoing') = Nexts(outgoing) + 1 /\ Nexts(outgoing) \in Nat
  BY <1>4, <1>5, SentLaw DEF IInv, Initials
<1>10. RequestInv'
  BY <1>1, <1>2, <1>9 DEF IInv, RequestInv, Before
<1>11. CreditInv'
  <2>1. Credits(down') = Credits(down) /\ Credits(down) \in Nat /\ remoteCredits \in Nat
    BY <1>1, OutgoingType, Constants DEF IInv, Types
  <2> QED BY <1>1, <1>3, <1>9, <2>1, Constants DEF IInv, CreditInv, CreditIsConserved
<1> QED BY <1>1, <1>6, <1>7, <1>8, <1>10, <1>11, InputSame DEF IInv

\* The loop throws, its source closed or never opened, its credit kept or
\* lost with an item.
LEMMA FailOutboundKeeps ==
  ASSUME IInv, FailOutbound, demand' \in 0..MaxRequestN, demand' <= demand,
         iterator' \in Iterators, iterator' # "open", iterator' = "exhausted" => sourceEnded,
         returns' = IF iterator' = "returned" THEN 1 ELSE 0
  PROVE  IInv'
<1>1. /\ ~aborted /\ at' = "done" /\ aborted' = TRUE /\ stage' = "gone" /\ outboundTerminated' = TRUE
      /\ UNCHANGED <<responseTerminated, yielded, sourceEnded, down, halves, input>>
      /\ UNCHANGED <<responder, requesterComplete, responderComplete>>
      /\ UNCHANGED <<subscribed, calls, queued, downstreamDemand, remoteCredits, terminated, draining>>
  BY DEF FailOutbound, aside, halves, input
<1>2. LoopInv'
  BY <1>1 DEF LoopInv, Before
<1>3. demand \in Nat /\ demand' \in Nat /\ "done" \in Places
  BY Constants DEF IInv, Types, Places
<1>4. responder = "none" => demand' = 0
  BY <1>3 DEF IInv, RequestInv
<1> DEFINE f == Plain("ERROR")
<1>5. f \in UpFrames /\ f.type = "ERROR"
  BY Frames
<1>6. UNCHANGED transport \/ Send(f)
  BY DEF FailOutbound, SendIfOpen
<1> HIDE DEF f
<1>7. /\ session' \in {"active", "lost", "handshake", "over"} /\ losses' \in 0..MaxLosses
      /\ up' \in Seq(UpFrames) /\ pendingFrames' \in Seq(UpFrames)
      /\ session' \in {"active", "over"} => pendingFrames' = <<>>
      /\ InitialFirst(outgoing') /\ (responder # "none" => NoInitial(outgoing'))
      /\ Nexts(outgoing') = Nexts(outgoing) /\ Nexts(outgoing) \in Nat
  <2>1. CASE UNCHANGED transport
    <3>1. UNCHANGED <<session, losses, up, pendingFrames>> /\ outgoing' = outgoing
      BY <2>1 DEF transport, outgoing
    <3> QED BY <3>1, OutgoingType DEF IInv, Types, SessionInv, RequestInv
  <2>2. CASE Send(f)
    <3>1. TransportTypes' /\ outgoing' = Append(outgoing, f)
      BY <1>5, <2>2, SendLaw DEF IInv
    <3>2. /\ InitialFirst(outgoing') /\ (responder # "none" => NoInitial(outgoing'))
          /\ Nexts(outgoing') = Nexts(outgoing) + 0 /\ Nexts(outgoing) \in Nat
      BY <1>5, <3>1, SentLaw DEF IInv, Initials
    <3> QED BY <3>1, <3>2 DEF TransportTypes
  <2> QED BY <1>6, <2>1, <2>2
<1>8. Types'
  BY <1>1, <1>3, <1>7 DEF IInv, Types
<1>9. SessionInv'
  BY <1>1, <1>7 DEF SessionInv
<1>10. RequestInv'
  BY <1>1, <1>4, <1>7 DEF IInv, RequestInv, Before
<1>11. CreditInv'
  <2>1. Credits(down') = Credits(down) /\ Credits(down) \in Nat /\ remoteCredits \in Nat
    BY <1>1, OutgoingType, Constants DEF IInv, Types
  <2>2. /\ demand + Credits(down) <= MaxRequestN
        /\ responder = "open" => demand + Credits(down) + Nexts(outgoing) <= remoteCredits
    BY DEF IInv, CreditInv
  <2>3. /\ demand' + Credits(down') <= MaxRequestN
        /\ responder = "open" => demand' + Credits(down') + Nexts(outgoing') <= remoteCredits
    BY <1>3, <1>7, <2>1, <2>2, Constants
  <2> QED BY <1>1, <2>3 DEF CreditInv, CreditIsConserved
<1> QED BY <1>1, <1>2, <1>8, <1>9, <1>10, <1>11, InputSame DEF IInv

\* An item that is given up takes its credit with it.
LEMMA CreditOfItem ==
  ASSUME IInv, at = "send"
  PROVE  demand - 1 \in 0..MaxRequestN /\ demand - 1 <= demand
<1>1. demand > 0 /\ demand \in 0..MaxRequestN /\ MaxRequestN \in Nat
  BY Constants DEF IInv, Types, RequestInv
<1> QED BY <1>1

LEMMA FailuresKeep ==
  ASSUME IInv, OpenThrows \/ SourceThrows \/ WritableRejected \/ StartFails \/ ItemFails
  PROVE  IInv'
<1>1. FailOutbound /\ ~aborted
  BY DEF OpenThrows, SourceThrows, WritableRejected, StartFails, ItemFails, FailOutbound
<1>2. \/ ReturnIterator \/ LeaveSource
      \/ at = "start" /\ UNCHANGED <<iterator, returns>>
  BY DEF OpenThrows, SourceThrows, WritableRejected, StartFails, ItemFails
<1>3. demand' \in 0..MaxRequestN /\ demand' <= demand
  <2>1. demand \in 0..MaxRequestN /\ demand \in Nat
    BY Constants DEF IInv, Types
  <2>2. CASE demand' = demand
    BY <2>1, <2>2
  <2>3. CASE at = "send" /\ demand' = demand - 1
    BY <2>3, CreditOfItem
  <2> QED BY <2>2, <2>3 DEF OpenThrows, SourceThrows, WritableRejected, StartFails, ItemFails
<1>4. /\ iterator' \in Iterators /\ iterator' # "open"
      /\ iterator' = "exhausted" => sourceEnded
      /\ returns' = IF iterator' = "returned" THEN 1 ELSE 0
  BY <1>1, <1>2, ClosedLaw DEF IInv
<1> QED BY <1>1, <1>3, <1>4, FailOutboundKeeps

LEMMA SendEndsSessionKeeps ==
  ASSUME IInv, SendEndsSession
  PROVE  IInv'
<1>1. /\ TerminateSession /\ UNCHANGED <<responseTerminated, outboundTerminated, yielded, halves, input>>
      /\ ~aborted /\ at' = "done" /\ aborted' = TRUE /\ stage' = "gone"
  BY DEF SendEndsSession
<1>2. at # "done" /\ ~outboundTerminated /\ returns = 0
  <2>1. at \in {"startRequest", "send", "read"}
    BY DEF SendEndsSession
  <2> QED BY <1>1, <2>1 DEF IInv, LoopInv
<1>3. /\ iterator' \in Iterators /\ iterator' # "open"
      /\ iterator' = "exhausted" => sourceEnded'
      /\ returns' = IF iterator' = "returned" THEN 1 ELSE 0
      /\ sourceEnded' \in BOOLEAN
  <2>1. CASE (ReturnIterator \/ LeaveSource) /\ UNCHANGED sourceEnded
    BY <1>1, <2>1, ClosedLaw DEF IInv, Types
  <2>2. CASE sourceEnded' = TRUE /\ iterator' = "exhausted" /\ UNCHANGED returns
    BY <1>2, <2>2 DEF Iterators
  <2> QED BY <2>1, <2>2 DEF SendEndsSession
<1>4. demand' \in 0..MaxRequestN /\ demand' <= demand
  <2>1. demand \in 0..MaxRequestN /\ demand \in Nat
    BY Constants DEF IInv, Types
  <2>2. CASE demand' = demand
    BY <2>1, <2>2
  <2>3. CASE at = "send" /\ demand' = demand - 1
    BY <2>3, CreditOfItem
  <2> QED BY <2>2, <2>3 DEF SendEndsSession
<1>5. LoopInv'
  BY <1>1, <1>2, <1>3 DEF LoopInv, Before
<1>6. /\ at' \in Places /\ at' \notin Before /\ at' \notin {"awaitSend", "send"} /\ at' # at
      /\ aborted' \in BOOLEAN /\ stage' \in {"starting", "gone"}
  BY <1>1, <1>2 DEF Places, Before
<1> QED BY <1>1, <1>3, <1>4, <1>5, <1>6, TerminateKeeps

LEMMA CancelKeeps ==
  ASSUME IInv, Cancel
  PROVE  IInv'
<1>1. /\ stage # "gone" /\ stage' = "gone" /\ AbortOutbound
      /\ UNCHANGED <<responseTerminated, outboundTerminated, down, halves, input>>
      /\ UNCHANGED <<responder, requesterComplete, responderComplete>>
      /\ UNCHANGED <<subscribed, calls, queued, downstreamDemand, remoteCredits, terminated, draining>>
  BY DEF Cancel, halves, input
<1>2. /\ LoopInv' /\ at' = at /\ demand' = demand
      /\ aborted' \in BOOLEAN /\ iterator' \in Iterators
      /\ yielded' = yielded /\ sourceEnded' = sourceEnded
  BY <1>1, AbortLaw DEF IInv
<1>3. /\ session' \in {"active", "lost", "handshake", "over"} /\ losses' \in 0..MaxLosses
      /\ up' \in Seq(UpFrames) /\ pendingFrames' \in Seq(UpFrames)
      /\ session' \in {"active", "over"} => pendingFrames' = <<>>
      /\ outgoing' = up \/ outgoing' = Append(up, Plain("CANCEL")) \/ outgoing' = outgoing
      /\ at \in Before => outgoing' = <<>>
  <2>1. CASE UNCHANGED transport
    <3>1. UNCHANGED <<session, losses, up, pendingFrames>> /\ outgoing' = outgoing
      BY <2>1 DEF transport, outgoing
    <3> QED BY <3>1 DEF IInv, Types, SessionInv, RequestInv
  <2>2. CASE stage = "open" /\ Send(Plain("CANCEL"))
    <3>1. TransportTypes' /\ (outgoing' = up \/ outgoing' = Append(up, Plain("CANCEL")))
      BY <2>2, SendCancelLaw DEF IInv
    <3>2. at \notin Before
      BY <2>2 DEF IInv, LoopInv
    <3> QED BY <3>1, <3>2 DEF TransportTypes
  <2> QED BY <2>1, <2>2 DEF Cancel, SendIfOpen
<1>4. Types'
  BY <1>1, <1>2, <1>3 DEF IInv, Types
<1>5. SessionInv'
  BY <1>1, <1>3 DEF SessionInv
<1>6. /\ InitialFirst(outgoing') /\ (responder # "none" => NoInitial(outgoing'))
      /\ Nexts(outgoing') \in Nat /\ Nexts(outgoing') <= Nexts(outgoing)
      /\ Nexts(outgoing) = 0 => Nexts(outgoing') = 0
  BY <1>3, GiveUpLaw DEF IInv
<1>7. RequestInv'
  BY <1>1, <1>2, <1>3, <1>6 DEF IInv, RequestInv
<1>8. CreditInv'
  <2>1. Credits(down') = Credits(down) /\ Credits(down) \in Nat /\ Nexts(outgoing) \in Nat
    BY <1>1, OutgoingType DEF IInv
  <2>2. demand \in Nat /\ remoteCredits \in Nat
    BY Constants DEF IInv, Types
  <2>3. /\ demand + Credits(down) <= MaxRequestN
        /\ responder = "open" => demand + Credits(down) + Nexts(outgoing) <= remoteCredits
    BY DEF IInv, CreditInv
  <2>4. responder = "open" => demand + Credits(down) + Nexts(outgoing') <= remoteCredits
    BY <1>6, <2>1, <2>2, <2>3
  <2> QED BY <1>1, <1>2, <2>1, <2>3, <2>4 DEF CreditInv, CreditIsConserved
<1> QED BY <1>1, <1>2, <1>4, <1>5, <1>7, <1>8, InputSame DEF IInv

-------------------------------------------------------------------------------
(***************************************************************************)
(* The requester receives.                                                 *)
(***************************************************************************)
LEMMA ReactiveSum ==
  ASSUME NEW a \in Nat, NEW b \in Nat, a + b <= MaxSafe
  PROVE  AddReactiveDemand(a, b) = a + b
<1>1. MaxSafe \in Nat /\ Unbounded \in Nat /\ Unbounded > MaxSafe
  BY Constants
<1>2. a # Unbounded /\ b # Unbounded
  BY <1>1
<1>3. b >= MaxSafe - a => a + b = MaxSafe
  BY <1>1
<1> QED BY <1>2, <1>3 DEF AddReactiveDemand

\* The requester takes the first frame.
LEMMA TakeDownLaw ==
  ASSUME IInv, down # <<>>, down' = Tail(down)
  PROVE  /\ down' \in Seq(DownFrames) /\ Head(down) \in DownFrames /\ Head(down).n \in Nat
         /\ Credits(down) \in Nat /\ Credits(down') \in Nat
         /\ Credits(down) = Head(down).n + Credits(down')
         /\ responder # "none" /\ at \notin Before /\ stage # "starting"
<1>1. down \in Seq(DownFrames)
  BY DEF IInv, Types
<1>2. /\ down' \in Seq(DownFrames) /\ Head(down) \in DownFrames
      /\ Credits(down) = Head(down).n + Credits(down')
  BY <1>1, CreditsLaw
<1>3. Head(down).n \in Nat
  BY <1>2, CreditWeights
<1>4. responder # "none" /\ at \notin Before /\ stage # "starting"
  BY DEF IInv, RequestInv, LoopInv
<1> QED BY <1>1, <1>2, <1>3, <1>4, CreditsLaw

\* Once the responder has seen the request, its part of the invariant
\* survives whatever leaves the frames under way alone.
LEMMA RequestRuns ==
  ASSUME RequestInv, outgoing' = outgoing, at' = at,
         responder # "none", responder' # "none",
         demand \in Nat, demand' \in Nat, demand' >= demand
  PROVE  RequestInv'
<1> DEFINE o == outgoing
<1>1. o' = o
  OBVIOUS
<1>2. at \notin Before /\ InitialFirst(o) /\ NoInitial(o)
  BY DEF RequestInv
<1> HIDE DEF o
<1>3. at' \notin Before /\ InitialFirst(o') /\ NoInitial(o')
  BY <1>1, <1>2
<1>4. at' \in {"awaitSend", "send"} => demand' > 0
  BY DEF RequestInv
<1> QED BY <1>3, <1>4 DEF RequestInv, o

LEMMA ReceiveRequestNKeeps ==
  ASSUME IInv, ReceiveRequestN
  PROVE  IInv'
<1>1. /\ down # <<>> /\ down' = Tail(down)
      /\ UNCHANGED <<session, losses, up, pendingFrames, stage, responseTerminated, outboundTerminated>>
      /\ UNCHANGED <<at, aborted, yielded, sourceEnded, iterator, returns>>
      /\ UNCHANGED <<responder, requesterComplete, responderComplete>> /\ UNCHANGED <<halves, input>>
      /\ UNCHANGED <<subscribed, calls, queued, downstreamDemand, remoteCredits, terminated, draining>>
      /\ outgoing' = outgoing
  BY DEF ReceiveRequestN, Incoming, transport, subscription, source, halves, input, outgoing
<1>2. /\ down' \in Seq(DownFrames) /\ Head(down).n \in Nat
      /\ Credits(down) \in Nat /\ Credits(down') \in Nat
      /\ Credits(down) = Head(down).n + Credits(down') /\ responder # "none"
  BY <1>1, TakeDownLaw
<1>3. demand \in Nat /\ demand + Credits(down) <= MaxRequestN
  BY Constants DEF IInv, Types, CreditInv
<1>4. \/ stage = "open" /\ ~outboundTerminated /\ demand' = demand + Head(down).n
      \/ ~(stage = "open" /\ ~outboundTerminated) /\ demand' = demand
  <2>1. CASE stage = "open" /\ ~outboundTerminated
    <3>1. AddDemand(Head(down).n)
      BY <2>1 DEF ReceiveRequestN
    <3>2. ~aborted
      BY <2>1 DEF IInv, LoopInv
    <3>3. demand + Head(down).n <= MaxSafe
      BY <1>2, <1>3, Constants
    <3>4. AddReactiveDemand(demand, Head(down).n) = demand + Head(down).n
      BY <1>2, <1>3, <3>3, ReactiveSum
    <3> QED BY <2>1, <3>1, <3>2, <3>4 DEF AddDemand
  <2>2. CASE ~(stage = "open" /\ ~outboundTerminated)
    BY <2>2 DEF ReceiveRequestN
  <2> QED BY <2>1, <2>2
<1>5. demand' \in Nat /\ demand' >= demand /\ demand' + Credits(down') <= demand + Credits(down)
  BY <1>2, <1>3, <1>4
<1>6. demand' \in 0..MaxRequestN
  BY <1>2, <1>3, <1>5, Constants
<1>7. Types'
  BY <1>1, <1>2, <1>6 DEF IInv, Types
<1>8. SessionInv' /\ LoopInv' /\ InputInv'
  BY <1>1, LoopSame, InputSame DEF IInv, SessionInv
<1>9. RequestInv'
  BY <1>1, <1>2, <1>3, <1>5, RequestRuns DEF IInv
<1>10. CreditInv'
  <2> DEFINE x == Nexts(outgoing)
  <2>1. x' = x /\ x \in Nat
    BY <1>1, OutgoingType DEF IInv
  <2>2. remoteCredits \in Nat
    BY Constants DEF IInv, Types
  <2>3. /\ responder = "open" => demand + Credits(down) + x <= remoteCredits
        /\ stage = "open" /\ ~outboundTerminated /\ responder = "open" /\ ~requesterComplete
             => remoteCredits = demand + Credits(down) + x
    BY DEF IInv, CreditInv, CreditIsConserved
  <2> HIDE DEF x
  <2>4. demand' + Credits(down') <= MaxRequestN
    BY <1>2, <1>3, <1>5, Constants
  <2>5. responder' = "open" => demand' + Credits(down') + x' <= remoteCredits'
    <3>1. responder' = responder /\ remoteCredits' = remoteCredits
      BY <1>1
    <3> DEFINE e == demand' + Credits(down')
               d == demand + Credits(down)
    <3>2. e \in Int /\ d \in Int /\ e <= d
      BY <1>2, <1>3, <1>5
    <3>3. responder = "open" => d + x <= remoteCredits
      BY <2>3
    <3> HIDE DEF d, e
    <3>4. responder = "open" => e + x <= remoteCredits
      BY <2>1, <2>2, <3>2, <3>3
    <3> QED BY <2>1, <3>1, <3>4 DEF e
  <2>6. stage' = "open" /\ ~outboundTerminated' /\ responder' = "open" /\ ~requesterComplete'
          => remoteCredits' = demand' + Credits(down') + x'
    BY <1>1, <1>2, <1>3, <1>4, <2>1, <2>2, <2>3
  <2> QED BY <2>4, <2>5, <2>6 DEF CreditInv, CreditIsConserved, x
<1> QED BY <1>7, <1>8, <1>9, <1>10 DEF IInv

\* The response ends: its frame carries no credit, and the requester's side
\* can only become more settled.
LEMMA ResponseEndsLaw ==
  ASSUME IInv, down # <<>>, down' = Tail(down),
         UNCHANGED <<transport, outboundTerminated, at, demand, halves, input>>,
         responseTerminated' \in BOOLEAN, aborted' \in BOOLEAN, yielded' = yielded,
         sourceEnded' = sourceEnded, iterator' \in Iterators,
         stage' = stage \/ stage' = "gone", LoopInv', Head(down).type # "REQUEST_N"
  PROVE  IInv'
<1>1. /\ UNCHANGED <<session, losses, up, pendingFrames>> /\ outgoing' = outgoing
      /\ UNCHANGED <<responder, requesterComplete, responderComplete>> /\ UNCHANGED <<halves, input>>
      /\ UNCHANGED <<subscribed, calls, queued, downstreamDemand, remoteCredits, terminated, draining>>
  BY DEF transport, halves, input, outgoing
<1>2. /\ down' \in Seq(DownFrames) /\ Credits(down') \in Nat
      /\ Credits(down') = Credits(down) /\ responder # "none"
  <2>1. /\ down' \in Seq(DownFrames) /\ Head(down) \in DownFrames
        /\ Credits(down) \in Nat /\ Credits(down') \in Nat
        /\ Credits(down) = Head(down).n + Credits(down') /\ responder # "none"
    BY TakeDownLaw
  <2>2. Head(down).n = 0
    BY <2>1, CreditWeights
  <2> QED BY <2>1, <2>2
<1>3. Types'
  BY <1>1, <1>2 DEF IInv, Types
<1>4. SessionInv' /\ InputInv'
  BY <1>1, InputSame DEF IInv, SessionInv
<1>5. RequestInv'
  <2>1. demand \in Nat /\ demand' = demand /\ demand' >= demand
    BY Constants DEF IInv, Types
  <2> QED BY <1>1, <1>2, <2>1, RequestRuns DEF IInv
<1>6. CreditInv'
  <2> DEFINE x == Nexts(outgoing)
  <2>1. x' = x
    BY <1>1
  <2>2. /\ responder = "open" => demand + Credits(down) + x <= remoteCredits
        /\ stage = "open" /\ ~outboundTerminated /\ responder = "open" /\ ~requesterComplete
             => remoteCredits = demand + Credits(down) + x
        /\ demand + Credits(down) <= MaxRequestN
    BY DEF IInv, CreditInv, CreditIsConserved
  <2> HIDE DEF x
  <2>3. /\ responder' = "open" => demand' + Credits(down') + x' <= remoteCredits'
        /\ stage' = "open" /\ ~outboundTerminated' /\ responder' = "open" /\ ~requesterComplete'
             => remoteCredits' = demand' + Credits(down') + x'
        /\ demand' + Credits(down') <= MaxRequestN
    BY <1>1, <1>2, <2>1, <2>2
  <2> QED BY <2>3 DEF CreditInv, CreditIsConserved, x
<1> QED BY <1>3, <1>4, <1>5, <1>6 DEF IInv

LEMMA ReceiveResponseCompleteKeeps ==
  ASSUME IInv, ReceiveResponseComplete
  PROVE  IInv'
<1>1. /\ down # <<>> /\ down' = Tail(down) /\ Head(down).type = "COMPLETE"
      /\ UNCHANGED <<transport, at, aborted, demand, yielded, sourceEnded, iterator, returns>>
      /\ UNCHANGED <<halves, input>>
  BY DEF ReceiveResponseComplete, Incoming, outbound, source
<1>2. /\ outboundTerminated' = outboundTerminated /\ responseTerminated' \in BOOLEAN
      /\ \/ stage' = stage
         \/ stage' = "gone" /\ outboundTerminated
  <2>1. CASE stage = "open"
    <3>1. HalfDone(TRUE, outboundTerminated)
      BY <2>1 DEF ReceiveResponseComplete
    <3> QED BY <3>1 DEF HalfDone, IInv, Types
  <2>2. CASE stage # "open"
    <3>1. UNCHANGED <<stage, responseTerminated, outboundTerminated>>
      BY <2>2 DEF ReceiveResponseComplete, subscription
    <3> QED BY <3>1 DEF IInv, Types
  <2> QED BY <2>1, <2>2
<1>3. stage # "starting"
  BY <1>1, TakeDownLaw
<1>4. LoopInv'
  BY <1>1, <1>2 DEF IInv, LoopInv
<1>5. UNCHANGED <<transport, outboundTerminated, at, demand, halves, input>>
  BY <1>1, <1>2
<1>6. /\ aborted' \in BOOLEAN /\ yielded' = yielded /\ sourceEnded' = sourceEnded
      /\ iterator' \in Iterators /\ Head(down).type # "REQUEST_N"
      /\ (stage' = stage \/ stage' = "gone")
  BY <1>1, <1>2 DEF IInv, Types
<1> QED BY <1>1, <1>2, <1>4, <1>5, <1>6, ResponseEndsLaw

LEMMA ReceiveResponseErrorKeeps ==
  ASSUME IInv, ReceiveResponseError
  PROVE  IInv'
<1>1. /\ down # <<>> /\ down' = Tail(down) /\ Head(down).type = "ERROR" /\ stage' = "gone"
      /\ UNCHANGED <<transport, responseTerminated, outboundTerminated, halves, input>>
  BY DEF ReceiveResponseError, Incoming
<1>2. /\ LoopInv' /\ at' = at /\ demand' = demand
      /\ aborted' \in BOOLEAN /\ iterator' \in Iterators
      /\ yielded' = yielded /\ sourceEnded' = sourceEnded
  <2>1. CASE stage = "open"
    <3>1. AbortOutbound
      BY <2>1 DEF ReceiveResponseError
    <3> QED BY <1>1, <3>1, AbortLaw DEF IInv
  <2>2. CASE stage # "open"
    <3>1. stage = "gone"
      BY <1>1, <2>2, TakeDownLaw DEF IInv, Types
    <3>2. UNCHANGED <<at, aborted, demand, yielded, sourceEnded, iterator, returns>>
      BY <2>2 DEF ReceiveResponseError, outbound, source
    <3> QED BY <1>1, <3>1, <3>2, LoopSame DEF IInv, Types
  <2> QED BY <2>1, <2>2
<1>3. UNCHANGED <<transport, outboundTerminated, at, demand, halves, input>>
  BY <1>1, <1>2
<1>4. responseTerminated' \in BOOLEAN /\ Head(down).type # "REQUEST_N"
  BY <1>1 DEF IInv, Types
<1> QED BY <1>1, <1>2, <1>3, <1>4, ResponseEndsLaw

-------------------------------------------------------------------------------
(***************************************************************************)
(* The responder.                                                          *)
(***************************************************************************)
ResponderTypes ==
  /\ responder \in {"none", "open", "gone"} /\ down \in Seq(DownFrames)
  /\ requesterComplete \in BOOLEAN /\ responderComplete \in BOOLEAN
  /\ subscribed \in BOOLEAN /\ terminated \in BOOLEAN /\ draining \in BOOLEAN
  /\ remoteCredits \in 0..MaxRequestN /\ queued \in Nat
  /\ downstreamDemand \in 0..MaxSafe \cup {Unbounded}

LEMMA ResponderTypesHold ==
  ASSUME IInv
  PROVE  /\ ResponderTypes
         /\ demand \in Nat /\ remoteCredits \in Nat /\ Credits(down) \in Nat /\ Nexts(outgoing) \in Nat
BY OutgoingType, Constants DEF IInv, Types, ResponderTypes

\* A frame of the responder, on a session that may be over.
LEMMA AnswerLaw ==
  ASSUME IInv, NEW f \in DownFrames, Answer(f)
  PROVE  /\ down' \in Seq(DownFrames)
         /\ session = "over" => Credits(down') = Credits(down)
         /\ session # "over" => Credits(down') = Credits(down) + f.n
         /\ f.n = 0 => Credits(down') = Credits(down)
<1>1. down \in Seq(DownFrames) /\ Credits(down) \in Nat
  BY CreditsLaw DEF IInv, Types
<1>2. CASE session = "over"
  BY <1>1, <1>2 DEF Answer
<1>3. CASE session # "over"
  <2>1. down' = Append(down, f)
    BY <1>3 DEF Answer
  <2>2. down' \in Seq(DownFrames) /\ Credits(down') = Credits(down) + f.n
    BY <1>1, <2>1, CreditsLaw
  <2> QED BY <1>1, <1>3, <2>2
<1> QED BY <1>2, <1>3

\* A step of the responder once it knows the stream, without a frame taken.
LEMMA ResponderStep ==
  ASSUME IInv, UNCHANGED requester, responder # "none", responder' # "none",
         ResponderTypes', CreditInv', InputInv'
  PROVE  IInv'
<1>1. /\ UNCHANGED <<session, losses, up, pendingFrames, stage, responseTerminated, outboundTerminated>>
      /\ UNCHANGED <<at, aborted, demand, yielded, sourceEnded, iterator, returns>>
      /\ outgoing' = outgoing
  BY DEF requester, transport, subscription, outbound, source, outgoing
<1>2. Types'
  BY <1>1 DEF IInv, Types, ResponderTypes
<1>3. SessionInv' /\ LoopInv'
  BY <1>1, LoopSame DEF IInv, SessionInv
<1>4. RequestInv'
  <2>1. demand \in Nat /\ demand' = demand /\ demand' >= demand
    BY <1>1, ResponderTypesHold
  <2> QED BY <1>1, <2>1, RequestRuns DEF IInv
<1> QED BY <1>2, <1>3, <1>4 DEF IInv

\* The credit a stream has, when neither side's count and no frame changes.
LEMMA CreditKept ==
  ASSUME IInv, outgoing' = outgoing, Credits(down') = Credits(down),
         UNCHANGED <<demand, stage, outboundTerminated, remoteCredits>>,
         responder' = "open" => responder = "open",
         requesterComplete => requesterComplete'
  PROVE  CreditInv'
<1> DEFINE x == Nexts(outgoing)
<1>1. x' = x
  OBVIOUS
<1>2. /\ responder = "open" => demand + Credits(down) + x <= remoteCredits
      /\ stage = "open" /\ ~outboundTerminated /\ responder = "open" /\ ~requesterComplete
           => remoteCredits = demand + Credits(down) + x
      /\ demand + Credits(down) <= MaxRequestN
  BY DEF IInv, CreditInv, CreditIsConserved
<1> HIDE DEF x
<1>3. /\ responder' = "open" => demand' + Credits(down') + x' <= remoteCredits'
      /\ stage' = "open" /\ ~outboundTerminated' /\ responder' = "open" /\ ~requesterComplete'
           => remoteCredits' = demand' + Credits(down') + x'
      /\ demand' + Credits(down') <= MaxRequestN
  BY <1>1, <1>2
<1> QED BY <1>3 DEF CreditInv, CreditIsConserved, x

\* Nothing counts any more for a stream the responder has let go.
LEMMA CreditLost ==
  ASSUME IInv, Credits(down') = Credits(down), demand' = demand, responder' # "open"
  PROVE  CreditInv'
BY DEF IInv, CreditInv, CreditIsConserved

LEMMA RequesterSame ==
  ASSUME UNCHANGED requester
  PROVE  UNCHANGED <<demand, stage, outboundTerminated, session>> /\ outgoing' = outgoing
BY DEF requester, transport, subscription, outbound, outgoing

\* The bound on what the input holds follows its demand.
LEMMA PrefetchGrows ==
  ASSUME IInv, ResponderTypes', downstreamDemand' >= downstreamDemand,
         queued' + remoteCredits' = queued + remoteCredits
  PROVE  queued' + remoteCredits' <= MaxRequestN + 1 /\ PrefetchIsBounded'
<1>1. /\ downstreamDemand \in 0..MaxSafe \cup {Unbounded}
      /\ downstreamDemand' \in 0..MaxSafe \cup {Unbounded}
  BY ResponderTypesHold DEF ResponderTypes
<1>2. downstreamDemand = Unbounded => downstreamDemand' = Unbounded
  BY <1>1, Constants
<1>3. /\ queued + remoteCredits <= MaxRequestN + 1
      /\ queued + remoteCredits <=
           IF downstreamDemand = Unbounded THEN MaxRequestN + 1
           ELSE IF downstreamDemand < 2 THEN 2 ELSE downstreamDemand
  BY DEF IInv, InputInv, PrefetchIsBounded
<1>4. queued + remoteCredits \in Nat
  <2>1. queued \in Nat /\ remoteCredits \in Nat
    BY ResponderTypesHold DEF ResponderTypes
  <2> QED BY <2>1
<1>5. PrefetchIsBounded'
  BY <1>1, <1>2, <1>3, <1>4, Constants DEF PrefetchIsBounded
<1> QED BY <1>3, <1>5

LEMMA InputSubscribesKeeps ==
  ASSUME IInv, InputSubscribes
  PROVE  IInv'
<1>1. /\ responder # "none" /\ ~subscribed /\ ~terminated /\ subscribed' = TRUE /\ draining' = TRUE
      /\ UNCHANGED requester
      /\ UNCHANGED <<responder, requesterComplete, responderComplete, down>>
      /\ UNCHANGED <<queued, downstreamDemand, remoteCredits, terminated>>
  BY DEF InputSubscribes, halves
<1>2. ResponderTypes'
  BY <1>1, ResponderTypesHold DEF ResponderTypes
<1>3. CreditInv'
  BY <1>1, RequesterSame, CreditKept
<1>4. queued' + remoteCredits' <= MaxRequestN + 1 /\ PrefetchIsBounded'
  BY <1>1 DEF IInv, InputInv, PrefetchIsBounded
<1>5. InputInv'
  BY <1>1, <1>4 DEF IInv, InputInv
<1> QED BY <1>1, <1>2, <1>3, <1>5, ResponderStep

LEMMA InputRequestsKeeps ==
  ASSUME IInv, NEW n \in Demands, InputRequests(n)
  PROVE  IInv'
<1>1. /\ subscribed /\ ~terminated /\ draining' = TRUE
      /\ downstreamDemand' = AddReactiveDemand(downstreamDemand, n)
      /\ UNCHANGED requester
      /\ UNCHANGED <<responder, requesterComplete, responderComplete, down>>
      /\ UNCHANGED <<subscribed, queued, remoteCredits, terminated>>
  BY DEF InputRequests, halves
<1>2. responder # "none"
  BY <1>1 DEF IInv, RequestInv
<1>3. /\ downstreamDemand' \in 0..MaxSafe \cup {Unbounded}
      /\ downstreamDemand' >= downstreamDemand
  <2>1. downstreamDemand \in 0..MaxSafe \cup {Unbounded}
    BY DEF IInv, Types
  <2>2. n \in Nat /\ n > 0 /\ (n <= MaxSafe \/ n = Unbounded)
    BY Constants
  <2> QED BY <1>1, <2>1, <2>2, Constants DEF AddReactiveDemand
<1>4. ResponderTypes'
  BY <1>1, <1>3, ResponderTypesHold DEF ResponderTypes
<1>5. CreditInv'
  BY <1>1, RequesterSame, CreditKept
<1>6. queued' + remoteCredits' <= MaxRequestN + 1 /\ PrefetchIsBounded'
  BY <1>1, <1>3, <1>4, PrefetchGrows
<1>7. InputInv'
  BY <1>1, <1>6 DEF IInv, InputInv
<1> QED BY <1>1, <1>2, <1>4, <1>5, <1>7, ResponderStep

LEMMA DeliverKeeps ==
  ASSUME IInv, Deliver
  PROVE  IInv'
<1>1. /\ draining /\ subscribed /\ downstreamDemand > 0 /\ queued > 0 /\ queued' = queued - 1
      /\ downstreamDemand' = IF downstreamDemand = Unbounded THEN Unbounded ELSE downstreamDemand - 1
      /\ UNCHANGED requester
      /\ UNCHANGED <<responder, requesterComplete, responderComplete, down>>
      /\ UNCHANGED <<subscribed, remoteCredits, terminated, draining>>
  BY DEF Deliver, Deliverable, halves
<1>2. responder # "none"
  BY <1>1 DEF IInv, RequestInv
<1>3. /\ downstreamDemand \in 0..MaxSafe \cup {Unbounded} /\ queued \in Nat /\ remoteCredits \in Nat
  BY ResponderTypesHold DEF ResponderTypes
<1>4. downstreamDemand' \in 0..MaxSafe \cup {Unbounded} /\ queued' \in Nat
  BY <1>1, <1>3, Constants
<1>5. ResponderTypes'
  BY <1>1, <1>4, ResponderTypesHold DEF ResponderTypes
<1>6. CreditInv'
  BY <1>1, RequesterSame, CreditKept
<1>7. queued' + remoteCredits' <= MaxRequestN + 1 /\ PrefetchIsBounded'
  <2>1. /\ queued + remoteCredits <= MaxRequestN + 1
        /\ queued + remoteCredits <=
             IF downstreamDemand = Unbounded THEN MaxRequestN + 1
             ELSE IF downstreamDemand < 2 THEN 2 ELSE downstreamDemand
    BY DEF IInv, InputInv, PrefetchIsBounded
  <2>2. queued' + remoteCredits' = queued + remoteCredits - 1
    BY <1>1, <1>3
  <2>3. queued' + remoteCredits' <= MaxRequestN + 1
    BY <1>3, <2>1, <2>2, Constants
  <2>4. CASE downstreamDemand = Unbounded
    BY <1>1, <1>3, <2>3, <2>4 DEF PrefetchIsBounded
  <2>5. CASE downstreamDemand # Unbounded
    <3>1. downstreamDemand \in 0..MaxSafe /\ downstreamDemand' = downstreamDemand - 1
      BY <1>1, <1>3, <2>5
    <3>2. downstreamDemand' # Unbounded /\ downstreamDemand' \in Nat
      BY <1>1, <3>1, Constants
    <3>3. queued' + remoteCredits' <= IF downstreamDemand' < 2 THEN 2 ELSE downstreamDemand'
      <4> DEFINE k == queued + remoteCredits
                 l == queued' + remoteCredits'
                 m == downstreamDemand'
      <4>1. k <= (IF downstreamDemand < 2 THEN 2 ELSE downstreamDemand) /\ l = k - 1 /\ k \in Nat
        BY <1>3, <2>1, <2>2, <2>5
      <4>2. downstreamDemand \in Nat
        BY <1>3, <3>1, Constants
      <4> HIDE DEF k, l
      <4>3. m = downstreamDemand - 1
        BY <3>1 DEF m
      <4> HIDE DEF m
      <4>4. l <= IF m < 2 THEN 2 ELSE m
        BY <4>1, <4>2, <4>3
      <4> QED BY <4>4 DEF l, m
    <3> QED BY <2>3, <3>2, <3>3 DEF PrefetchIsBounded
  <2> QED BY <2>3, <2>4, <2>5
<1>8. InputInv'
  BY <1>1, <1>7 DEF IInv, InputInv
<1> QED BY <1>1, <1>2, <1>5, <1>6, <1>8, ResponderStep

\* A grant is for a subscriber that waits: nothing is queued, and what is
\* out afterwards is at most its demand.
LEMMA GrantLaw ==
  ASSUME IInv, ~Deliverable, NEW granted, granted = Smaller(Missing, MaxRequestN - remoteCredits), granted > 0
  PROVE  /\ subscribed /\ queued = 0 /\ granted \in 1..MaxRequestN
         /\ remoteCredits + granted \in 0..MaxRequestN
         /\ downstreamDemand = Unbounded \/ remoteCredits + granted <= downstreamDemand
<1>1. /\ downstreamDemand \in 0..MaxSafe \cup {Unbounded} /\ queued \in Nat /\ remoteCredits \in 0..MaxRequestN
      /\ MaxRequestN \in Nat /\ MaxSafe \in Nat /\ Unbounded \in Nat /\ Unbounded > MaxSafe /\ MaxRequestN > 0
  BY ResponderTypesHold, Constants DEF ResponderTypes
<1>2. downstreamDemand \in Nat /\ remoteCredits \in Nat
  BY <1>1
<1>3. downstreamDemand > 0
  <2>1. ASSUME downstreamDemand = 0 PROVE FALSE
    <3>1. downstreamDemand # Unbounded
      BY <1>1, <2>1
    <3>2. Missing = 0 - (queued + remoteCredits)
      BY <2>1, <3>1 DEF Missing
    <3>3. Missing <= 0 /\ Missing \in Int
      BY <1>1, <1>2, <3>2
    <3> QED BY <1>1, <1>2, <3>3 DEF Smaller
  <2> QED BY <1>2, <2>1
<1>4. subscribed /\ queued = 0
  <2>1. subscribed
    BY <1>3 DEF IInv, InputInv
  <2>2. ~(queued > 0)
    BY <1>3, <2>1 DEF Deliverable
  <2> QED BY <1>1, <2>1, <2>2
<1>5. CASE downstreamDemand = Unbounded
  <2>1. Missing = IF remoteCredits > MaxRequestN \div 2 THEN 0 ELSE MaxRequestN - remoteCredits
    BY <1>2, <1>4, <1>5 DEF Missing
  <2>2. Missing = 0 \/ Missing = MaxRequestN - remoteCredits
    BY <2>1
  <2>3. granted = MaxRequestN - remoteCredits
    BY <1>1, <1>2, <2>2 DEF Smaller
  <2> QED BY <1>1, <1>2, <1>4, <1>5, <2>3
<1>6. CASE downstreamDemand # Unbounded
  <2>1. Missing = downstreamDemand - remoteCredits
    BY <1>2, <1>4, <1>6 DEF Missing
  <2>2. granted <= downstreamDemand - remoteCredits /\ granted <= MaxRequestN - remoteCredits /\ granted \in Int
    BY <1>1, <1>2, <2>1 DEF Smaller
  <2> QED BY <1>1, <1>2, <1>4, <2>2
<1> QED BY <1>5, <1>6

LEMMA DrainEndsKeeps ==
  ASSUME IInv, DrainEnds
  PROVE  IInv'
<1>1. /\ draining /\ ~terminated /\ draining' = FALSE /\ ~Deliverable
      /\ UNCHANGED requester /\ UNCHANGED <<subscribed, calls, queued, downstreamDemand>>
      /\ UNCHANGED <<demand, stage, outboundTerminated, session>> /\ outgoing' = outgoing
  BY RequesterSame DEF DrainEnds, IInv, InputInv
<1>2. /\ UNCHANGED <<requesterComplete, responderComplete>>
      /\ \/ responder' = responder
         \/ responder' = "gone" /\ requesterComplete
  BY DEF DrainEnds, Ended
<1>3. responder # "none" /\ responder' # "none"
  BY <1>1, <1>2 DEF IInv, RequestInv
<1>4. CASE UNCHANGED <<remoteCredits, down>> /\ terminated' \in BOOLEAN /\ (terminated' => requesterComplete)
  <2>1. ResponderTypes'
    BY <1>1, <1>2, <1>4, ResponderTypesHold DEF ResponderTypes
  <2>2. CreditInv'
    BY <1>1, <1>2, <1>4, CreditKept
  <2>3. queued' + remoteCredits' <= MaxRequestN + 1 /\ PrefetchIsBounded'
    BY <1>1, <1>4 DEF IInv, InputInv, PrefetchIsBounded
  <2>4. InputInv'
    BY <1>1, <1>2, <1>4, <2>3 DEF IInv, InputInv
  <2> QED BY <1>1, <1>3, <2>1, <2>2, <2>4, ResponderStep
<1>5. CASE \E granted : /\ granted = Smaller(Missing, MaxRequestN - remoteCredits) /\ granted > 0
                        /\ ~requesterComplete /\ terminated' = terminated
                        /\ remoteCredits' = remoteCredits + granted /\ Answer(RequestN(granted))
  <2>1. PICK granted : /\ granted = Smaller(Missing, MaxRequestN - remoteCredits) /\ granted > 0
                       /\ ~requesterComplete /\ terminated' = terminated
                       /\ remoteCredits' = remoteCredits + granted /\ Answer(RequestN(granted))
    BY <1>5
  <2>2. /\ subscribed /\ queued = 0 /\ granted \in 1..MaxRequestN
        /\ remoteCredits + granted \in 0..MaxRequestN
        /\ downstreamDemand = Unbounded \/ remoteCredits + granted <= downstreamDemand
    BY <1>1, <2>1, GrantLaw
  <2>3. RequestN(granted) \in DownFrames /\ RequestN(granted).n = granted /\ granted \in Nat
    BY <2>2, Frames, Constants
  <2>4. /\ down' \in Seq(DownFrames)
        /\ session = "over" => Credits(down') = Credits(down)
        /\ session # "over" => Credits(down') = Credits(down) + granted
    BY <2>1, <2>3, AnswerLaw
  <2>5. responder = "open" /\ responder' = "open"
    BY <1>1, <1>2, <1>3, <2>1 DEF IInv, InputInv, Types
  <2>6. ResponderTypes'
    BY <1>1, <1>2, <2>1, <2>2, <2>4, ResponderTypesHold DEF ResponderTypes
  <2>7. CreditInv'
    <3> DEFINE x == Nexts(outgoing)
               c == Credits(down)
    <3>1. /\ demand + c + x <= remoteCredits
          /\ stage = "open" /\ ~outboundTerminated => remoteCredits = demand + c + x
      BY <2>1, <2>5 DEF IInv, CreditInv, CreditIsConserved
    <3>2. demand \in Nat /\ c \in Nat /\ x \in Nat /\ remoteCredits \in Nat /\ x' = x
      BY <1>1, ResponderTypesHold
    <3>3. session = "over" => stage # "open"
      BY DEF IInv, SessionInv
    <3>4. c' = c \/ c' = c + granted
      BY <2>4
    <3>5. stage = "open" => c' = c + granted
      BY <2>4, <3>3
    <3>6. remoteCredits + granted <= MaxRequestN /\ MaxRequestN \in Nat
      BY <2>2, Constants
    <3> HIDE DEF x, c
    <3>7. demand + c' <= MaxRequestN
      BY <2>3, <3>1, <3>2, <3>4, <3>6
    <3>8. demand + c' + x' <= remoteCredits + granted
      BY <2>3, <3>1, <3>2, <3>4
    <3>9. stage = "open" /\ ~outboundTerminated => remoteCredits + granted = demand + c' + x'
      BY <2>3, <3>1, <3>2, <3>5
    <3> QED BY <1>1, <2>1, <3>7, <3>8, <3>9 DEF CreditInv, CreditIsConserved, x, c
  <2>8. queued' + remoteCredits' <= MaxRequestN + 1 /\ PrefetchIsBounded'
    <3>1. queued' + remoteCredits' = remoteCredits + granted /\ downstreamDemand' = downstreamDemand
      BY <1>1, <2>1, <2>2, ResponderTypesHold
    <3>2. /\ remoteCredits + granted \in Nat /\ remoteCredits + granted <= MaxRequestN
          /\ downstreamDemand \in Nat /\ MaxRequestN \in Nat
      BY <2>2, ResponderTypesHold, Constants DEF ResponderTypes
    <3> QED BY <2>2, <3>1, <3>2 DEF PrefetchIsBounded
  <2>9. InputInv'
    BY <1>1, <1>2, <2>1, <2>2, <2>5, <2>8 DEF IInv, InputInv
  <2> QED BY <1>1, <1>3, <2>6, <2>7, <2>9, ResponderStep
<1>6. \/ UNCHANGED <<remoteCredits, down>> /\ terminated' \in BOOLEAN /\ (terminated' => requesterComplete)
      \/ \E granted : /\ granted = Smaller(Missing, MaxRequestN - remoteCredits) /\ granted > 0
                      /\ ~requesterComplete /\ terminated' = terminated
                      /\ remoteCredits' = remoteCredits + granted /\ Answer(RequestN(granted))
  <2>1. CASE requesterComplete /\ queued = 0
    BY <2>1 DEF DrainEnds
  <2>2. CASE ~(requesterComplete /\ queued = 0)
    <3>1. Grant /\ terminated' = terminated
      BY <2>2 DEF DrainEnds
    <3>2. Smaller(Missing, MaxRequestN - remoteCredits) \in Int
      <4>1. /\ downstreamDemand \in Nat /\ queued \in Nat /\ remoteCredits \in Nat /\ MaxRequestN \in Nat
        BY ResponderTypesHold, Constants DEF ResponderTypes
      <4>2. Missing \in Int
        BY <4>1 DEF Missing
      <4> QED BY <4>1, <4>2 DEF Smaller
    <3> DEFINE granted == Smaller(Missing, MaxRequestN - remoteCredits)
    <3>3. \/ UNCHANGED <<remoteCredits, down>>
          \/ granted > 0 /\ ~requesterComplete
             /\ remoteCredits' = remoteCredits + granted /\ Answer(RequestN(granted))
      BY <3>1, <3>2 DEF Grant
    <3>4. terminated' \in BOOLEAN /\ (terminated' => requesterComplete)
      BY <1>1, <3>1 DEF IInv, Types
    <3>5. CASE UNCHANGED <<remoteCredits, down>>
      BY <3>4, <3>5
    <3>6. CASE ~UNCHANGED <<remoteCredits, down>>
      BY <3>1, <3>3, <3>6
    <3> QED BY <3>5, <3>6
  <2> QED BY <2>1, <2>2
<1> QED BY <1>4, <1>5, <1>6

\* fail, and terminate: the responder lets go, its input is empty.
LEMMA LetGo ==
  ASSUME IInv, UNCHANGED requester, responder = "open", responder' = "gone", TerminateInput,
         UNCHANGED <<requesterComplete, responderComplete>>,
         down' \in Seq(DownFrames), Credits(down') = Credits(down)
  PROVE  IInv'
<1>1. /\ terminated' = TRUE /\ queued' = 0 /\ downstreamDemand' = 0 /\ remoteCredits' = 0
      /\ draining' = FALSE /\ subscribed' = subscribed
  BY DEF TerminateInput
<1>2. ResponderTypes'
  <2>1. 0 \in 0..MaxRequestN /\ 0 \in 0..MaxSafe /\ 0 \in Nat
    BY Constants
  <2> QED BY <1>1, <2>1, ResponderTypesHold DEF ResponderTypes
<1>3. CreditInv'
  BY RequesterSame, CreditLost
<1>4. InputInv'
  BY <1>1, Constants DEF InputInv, PrefetchIsBounded
<1> QED BY <1>2, <1>3, <1>4, ResponderStep

LEMMA FailKeeps ==
  ASSUME IInv, UNCHANGED requester, Fail
  PROVE  IInv'
<1>1. /\ responder = "open" /\ responder' = "gone" /\ TerminateInput /\ Answer(Plain("ERROR"))
      /\ UNCHANGED <<requesterComplete, responderComplete>>
  BY DEF Fail
<1>2. Plain("ERROR") \in DownFrames /\ Plain("ERROR").n = 0
  BY Frames
<1>3. down' \in Seq(DownFrames) /\ Credits(down') = Credits(down)
  BY <1>1, <1>2, AnswerLaw
<1> QED BY <1>1, <1>3, LetGo

LEMMA ResponderSessionEndsKeeps ==
  ASSUME IInv, ResponderSessionEnds
  PROVE  IInv'
<1>1. /\ responder = "open" /\ responder' = "gone" /\ TerminateInput
      /\ UNCHANGED <<requesterComplete, responderComplete>> /\ UNCHANGED requester /\ down' = down
  BY DEF ResponderSessionEnds, Terminate
<1>2. down' \in Seq(DownFrames) /\ Credits(down') = Credits(down)
  BY <1>1 DEF IInv, Types
<1> QED BY <1>1, <1>2, LetGo

LEMMA ResponseCompletesKeeps ==
  ASSUME IInv, ResponseCompletes
  PROVE  IInv'
<1>1. /\ responder = "open" /\ Answer(Plain("COMPLETE"))
      /\ requesterComplete' = requesterComplete /\ responderComplete' = TRUE
      /\ responder' \in {"open", "gone"} /\ (responder' = "gone" => requesterComplete)
      /\ UNCHANGED requester /\ UNCHANGED input
      /\ UNCHANGED <<subscribed, queued, downstreamDemand, remoteCredits, terminated, draining>>
  BY DEF ResponseCompletes, Ended, input
<1>2. Plain("COMPLETE") \in DownFrames /\ Plain("COMPLETE").n = 0
  BY Frames
<1>3. down' \in Seq(DownFrames) /\ Credits(down') = Credits(down)
  BY <1>1, <1>2, AnswerLaw
<1>4. ResponderTypes'
  BY <1>1, <1>3, ResponderTypesHold DEF ResponderTypes
<1>5. CreditInv'
  <2>1. UNCHANGED <<demand, stage, outboundTerminated, remoteCredits>> /\ outgoing' = outgoing
    BY <1>1, RequesterSame
  <2> QED BY <1>1, <1>3, <2>1, CreditKept
<1>6. queued' + remoteCredits' <= MaxRequestN + 1 /\ PrefetchIsBounded'
  BY <1>1 DEF IInv, InputInv, PrefetchIsBounded
<1>7. InputInv'
  BY <1>1, <1>6 DEF IInv, InputInv
<1> QED BY <1>1, <1>4, <1>5, <1>7, ResponderStep

-------------------------------------------------------------------------------
(***************************************************************************)
(* The responder receives.                                                 *)
(***************************************************************************)
\* What holds once the first frame is taken, before the responder acts on it.
LEMMA UpStep ==
  ASSUME IInv, up # <<>>, up' = Tail(up), UNCHANGED otherwise,
         ResponderTypes', CreditInv', InputInv',
         responder' = "none" => responder = "none" /\ UNCHANGED <<down, halves, input>>
  PROVE  IInv'
<1>1. /\ UNCHANGED <<session, losses, pendingFrames, stage, responseTerminated, outboundTerminated>>
      /\ UNCHANGED <<at, aborted, demand, yielded, sourceEnded, iterator, returns>>
  BY DEF otherwise, subscription, outbound, source
<1>2. /\ up' \in Seq(UpFrames) /\ outgoing # <<>> /\ Nexts(outgoing') \in Nat
      /\ NoInitial(outgoing') /\ InitialFirst(outgoing')
      /\ Nexts(outgoing) = (IF Head(up).type = "NEXT" THEN 1 ELSE 0) + Nexts(outgoing')
  BY <1>1, TakeUpLaw DEF IInv
<1>3. Types'
  BY <1>1, <1>2 DEF IInv, Types, ResponderTypes
<1>4. SessionInv' /\ LoopInv'
  BY <1>1, LoopSame DEF IInv, SessionInv
<1>5. RequestInv'
  <2>1. at' \notin Before /\ (at' \in {"awaitSend", "send"} => demand' > 0)
    BY <1>1, <1>2 DEF IInv, RequestInv
  <2>2. ASSUME responder' = "none"
        PROVE  /\ down' = <<>> /\ demand' = 0
               /\ ~subscribed' /\ queued' = 0 /\ downstreamDemand' = 0 /\ remoteCredits' = 0
               /\ ~terminated' /\ ~draining' /\ ~requesterComplete'
    <3>1. responder = "none" /\ down' = down
          /\ UNCHANGED <<requesterComplete, subscribed, queued, downstreamDemand, remoteCredits, terminated, draining>>
      BY <2>2 DEF halves, input
    <3> QED BY <1>1, <3>1 DEF IInv, RequestInv
  <2>3. responder' = "none" => Nexts(outgoing') = 0
    <3>1. responder' = "none" => Nexts(outgoing) = 0
      BY DEF IInv, RequestInv
    <3> QED BY <1>2, <3>1
  <2> QED BY <1>2, <2>1, <2>2, <2>3 DEF RequestInv
<1> QED BY <1>3, <1>4, <1>5 DEF IInv

\* The frame is ignored.
LEMMA IgnoredKeeps ==
  ASSUME IInv, up # <<>>, up' = Tail(up), UNCHANGED otherwise, UNCHANGED <<down, halves, input>>,
         responder # "open" \/ requesterComplete
  PROVE  IInv'
<1>1. /\ UNCHANGED <<stage, outboundTerminated, demand, pendingFrames>>
      /\ UNCHANGED <<responder, requesterComplete, responderComplete, down>> /\ UNCHANGED <<halves, input>>
      /\ UNCHANGED <<subscribed, queued, downstreamDemand, remoteCredits, terminated, draining>>
  BY DEF otherwise, subscription, outbound, halves, input
<1>2. /\ Nexts(outgoing') \in Nat
      /\ Nexts(outgoing) = (IF Head(up).type = "NEXT" THEN 1 ELSE 0) + Nexts(outgoing')
  BY <1>1, TakeUpLaw DEF IInv
<1>3. ResponderTypes'
  BY <1>1, ResponderTypesHold DEF ResponderTypes
<1>4. InputInv'
  BY <1>1, InputSame DEF IInv
<1>5. CreditInv'
  <2> DEFINE x == Nexts(outgoing)
             y == Nexts(outgoing')
             c == Credits(down)
  <2>1. c' = c
    BY <1>1
  <2>2. y <= x /\ y \in Nat /\ x \in Nat /\ demand \in Nat /\ c \in Nat /\ remoteCredits \in Nat
    BY <1>2, ResponderTypesHold
  <2>3. demand + c <= MaxRequestN /\ (responder = "open" => demand + c + x <= remoteCredits)
    BY DEF IInv, CreditInv
  <2> HIDE DEF x, y, c
  <2>4. responder = "open" => demand + c + y <= remoteCredits
    BY <2>2, <2>3
  <2> QED BY <1>1, <2>1, <2>3, <2>4 DEF CreditInv, CreditIsConserved, y, c
<1> QED BY <1>1, <1>3, <1>4, <1>5, UpStep

\* The responder grants the first credit, and with it may refuse at once.
LEMMA FirstGrant ==
  /\ <<Plain("ERROR")>> \in Seq(DownFrames) /\ Credits(<<Plain("ERROR")>>) = 0
  /\ <<RequestN(1)>> \in Seq(DownFrames) /\ Credits(<<RequestN(1)>>) = 1
  /\ <<RequestN(1), Plain("ERROR")>> \in Seq(DownFrames) /\ Credits(<<RequestN(1), Plain("ERROR")>>) = 1
<1> DEFINE e == Plain("ERROR")
           r == RequestN(1)
<1>1. e \in DownFrames /\ e.n = 0 /\ r \in DownFrames /\ r.n = 1
  <2>1. 1 \in 0..MaxRequestN
    BY Constants
  <2> QED BY <2>1, Frames
<1> HIDE DEF e, r
<1>2. <<>> \in Seq(DownFrames) /\ Credits(<<>>) = 0
  BY EmptySeq, CreditsLaw
<1>3. /\ Append(<<>>, e) \in Seq(DownFrames) /\ Credits(Append(<<>>, e)) = 0
      /\ Append(<<>>, r) \in Seq(DownFrames) /\ Credits(Append(<<>>, r)) = 1
  <2>1. /\ Append(<<>>, e) \in Seq(DownFrames) /\ Credits(Append(<<>>, e)) = Credits(<<>>) + e.n
    BY <1>1, <1>2, CreditsLaw
  <2>2. /\ Append(<<>>, r) \in Seq(DownFrames) /\ Credits(Append(<<>>, r)) = Credits(<<>>) + r.n
    BY <1>1, <1>2, CreditsLaw
  <2> QED BY <1>1, <1>2, <2>1, <2>2
<1>4. Append(<<>>, e) = <<e>> /\ Append(<<>>, r) = <<r>>
  OBVIOUS
<1>5. /\ Append(<<r>>, e) \in Seq(DownFrames) /\ Credits(Append(<<r>>, e)) = 1
  <2>1. <<r>> \in Seq(DownFrames) /\ Credits(<<r>>) = 1
    BY <1>3, <1>4
  <2>2. Append(<<r>>, e) \in Seq(DownFrames) /\ Credits(Append(<<r>>, e)) = Credits(<<r>>) + e.n
    BY <1>1, <2>1, CreditsLaw
  <2> QED BY <1>1, <2>1, <2>2
<1>6. Append(<<r>>, e) = <<r, e>>
  <2> DEFINE a == Append(<<r>>, e)
             b == <<r, e>>
  <2>1. <<r>> \in Seq(DownFrames) /\ Len(<<r>>) = 1 /\ <<r>>[1] = r
    BY <1>1
  <2>2. a \in Seq(DownFrames) /\ Len(a) = 2 /\ a[1] = r /\ a[2] = e
    BY <1>1, <2>1, AppendProperties
  <2>3. b \in Seq(DownFrames) /\ Len(b) = 2 /\ b[1] = r /\ b[2] = e
    BY <1>1
  <2> HIDE DEF a, b
  <2>4. Len(a) = Len(b) /\ \A i \in 1..Len(a) : a[i] = b[i]
    <3>1. \A i \in 1..2 : i = 1 \/ i = 2
      OBVIOUS
    <3> QED BY <2>2, <2>3, <3>1
  <2>5. a = b
    BY <2>2, <2>3, <2>4, SeqEqual
  <2> QED BY <2>5 DEF a, b
<1> QED BY <1>3, <1>4, <1>5, <1>6 DEF e, r

LEMMA ReceiveChannelKeeps ==
  ASSUME IInv, ReceiveChannel
  PROVE  IInv'
<1>1. /\ up # <<>> /\ up' = Tail(up) /\ Head(up).type \in Initials /\ UNCHANGED otherwise
      /\ UNCHANGED <<stage, outboundTerminated, demand, pendingFrames, session>>
  BY DEF ReceiveChannel, NextUp, otherwise, subscription, outbound
<1>2. /\ responder = "none" /\ Nexts(outgoing') \in Nat
      /\ Nexts(outgoing) = (IF Head(up).type = "NEXT" THEN 1 ELSE 0) + Nexts(outgoing')
  BY <1>1, TakeUpLaw DEF IInv
<1>3. /\ down = <<>> /\ demand = 0 /\ Nexts(outgoing) = 0
      /\ ~subscribed /\ queued = 0 /\ downstreamDemand = 0 /\ remoteCredits = 0
      /\ ~terminated /\ ~draining /\ ~requesterComplete
  BY <1>2 DEF IInv, RequestInv
<1>4. Nexts(outgoing') = 0
  <2>1. Head(up).type # "NEXT"
    BY <1>1 DEF Initials
  <2> QED BY <1>2, <1>3, <2>1
<1>5. /\ 1 \in 0..MaxRequestN /\ 0 \in 0..MaxRequestN /\ 1 \in Nat /\ 0 \in Nat
      /\ 1 <= MaxRequestN /\ MaxRequestN \in Nat
  BY Constants
<1>6. down' \in Seq(DownFrames) /\ Credits(down') \in {0, 1}
  <2>1. down' \in {down, <<Plain("ERROR")>>, <<RequestN(1)>>, <<RequestN(1), Plain("ERROR")>>}
    <3>1. \/ Answer(Plain("ERROR")) \/ Answer(RequestN(1))
          \/ down' = down \o <<RequestN(1), Plain("ERROR")>>
      BY DEF ReceiveChannel
    <3>2. /\ Append(<<>>, Plain("ERROR")) = <<Plain("ERROR")>>
          /\ Append(<<>>, RequestN(1)) = <<RequestN(1)>>
          /\ <<>> \o <<RequestN(1), Plain("ERROR")>> = <<RequestN(1), Plain("ERROR")>>
      <4>1. <<RequestN(1), Plain("ERROR")>> \in Seq(DownFrames)
        BY FirstGrant
      <4> QED BY <4>1, ConcatEmptySeq
    <3> QED BY <1>3, <3>1, <3>2 DEF Answer
  <2>2. down \in Seq(DownFrames) /\ Credits(down) = 0
    BY <1>3, EmptySeq, CreditsLaw
  <2> QED BY <2>1, <2>2, FirstGrant
<1>7. CASE /\ responder' = "gone" /\ terminated' = TRUE
           /\ UNCHANGED <<requesterComplete, responderComplete, subscribed, queued,
                          downstreamDemand, remoteCredits, draining>>
  <2>1. ResponderTypes'
    BY <1>6, <1>7, ResponderTypesHold DEF ResponderTypes
  <2>2. CreditInv'
    BY <1>1, <1>3, <1>5, <1>6, <1>7 DEF CreditInv, CreditIsConserved
  <2>3. InputInv'
    BY <1>3, <1>5, <1>7, Constants DEF InputInv, PrefetchIsBounded
  <2> QED BY <1>1, <1>7, <2>1, <2>2, <2>3, UpStep
<1>8. CASE /\ responder' = "open" /\ requesterComplete' \in BOOLEAN
           /\ queued' \in {0, 1} /\ remoteCredits' = 1 /\ terminated' = requesterComplete'
           /\ Answer(RequestN(1))
           /\ UNCHANGED <<responderComplete, subscribed, downstreamDemand, draining>>
  <2>1. ResponderTypes'
    BY <1>5, <1>6, <1>8, ResponderTypesHold DEF ResponderTypes
  <2>2. stage = "open" => Credits(down') = 1
    <3>1. session = "over" => stage # "open"
      BY DEF IInv, SessionInv
    <3>2. session # "over" => down' = Append(<<>>, RequestN(1))
      BY <1>3, <1>8 DEF Answer
    <3>3. Append(<<>>, RequestN(1)) = <<RequestN(1)>>
      OBVIOUS
    <3> QED BY <3>1, <3>2, <3>3, FirstGrant
  <2>3. CreditInv'
    BY <1>1, <1>3, <1>4, <1>5, <1>6, <1>8, <2>2 DEF CreditInv, CreditIsConserved
  <2>4. PrefetchIsBounded' /\ queued' + remoteCredits' <= MaxRequestN + 1
    <3>1. queued' + remoteCredits' \in {1, 2} /\ downstreamDemand' = 0 /\ Unbounded # 0
      <4>1. queued' = 0 \/ queued' = 1
        BY <1>8
      <4>2. remoteCredits' = 1 /\ downstreamDemand' = downstreamDemand
        BY <1>8
      <4>3. queued' + remoteCredits' = 1 \/ queued' + remoteCredits' = 2
        BY ONLY <4>1, <4>2
      <4>4. downstreamDemand' = 0 /\ Unbounded # 0
        BY <1>3, <4>2, Constants
      <4> QED BY ONLY <4>3, <4>4
    <3> QED BY <1>5, <3>1 DEF PrefetchIsBounded
  <2>5. InputInv'
    BY <1>3, <1>8, <2>4 DEF InputInv
  <2> QED BY <1>1, <1>8, <2>1, <2>3, <2>5, UpStep
<1> QED BY <1>7, <1>8 DEF ReceiveChannel

LEMMA ReceiveNextKeeps ==
  ASSUME IInv, ReceiveNext
  PROVE  IInv'
<1>1. /\ up # <<>> /\ up' = Tail(up) /\ Head(up).type = "NEXT" /\ UNCHANGED otherwise
      /\ UNCHANGED <<stage, outboundTerminated, demand, pendingFrames, session>>
  BY DEF ReceiveNext, NextUp, otherwise, subscription, outbound
<1>2. /\ Nexts(outgoing') \in Nat /\ Nexts(outgoing) = 1 + Nexts(outgoing')
  BY <1>1, TakeUpLaw DEF IInv
<1>3. CASE responder # "open" \/ requesterComplete
  BY <1>1, <1>3, IgnoredKeeps DEF ReceiveNext
<1>4. CASE responder = "open" /\ ~requesterComplete
  <2> DEFINE x == Nexts(outgoing)
             y == Nexts(outgoing')
             c == Credits(down)
  <2>1. /\ demand + c <= MaxRequestN /\ demand + c + x <= remoteCredits
        /\ stage = "open" /\ ~outboundTerminated => remoteCredits = demand + c + x
    BY <1>4 DEF IInv, CreditInv, CreditIsConserved
  <2>2. /\ x = 1 + y /\ y \in Nat /\ demand \in Nat /\ c \in Nat
        /\ remoteCredits \in Nat /\ remoteCredits <= MaxRequestN /\ queued \in Nat
    BY <1>2, ResponderTypesHold, Constants DEF ResponderTypes
  <2> HIDE DEF x, y, c
  <2>3. remoteCredits > 0
    BY <2>1, <2>2
  <2>4. /\ remoteCredits' = remoteCredits - 1 /\ queued' = queued + 1 /\ draining' = TRUE
        /\ UNCHANGED <<responder, requesterComplete, responderComplete>>
        /\ UNCHANGED <<down, subscribed, downstreamDemand, terminated>>
    BY <1>4, <2>2, <2>3 DEF ReceiveNext, halves
  <2>5. remoteCredits' \in 0..MaxRequestN /\ queued' \in Nat
    BY <2>2, <2>3, <2>4, Constants
  <2>6. ResponderTypes'
    BY <2>4, <2>5, ResponderTypesHold DEF ResponderTypes
  <2>7. CreditInv'
    <3>1. /\ demand + c + y <= remoteCredits - 1
          /\ stage = "open" /\ ~outboundTerminated => remoteCredits - 1 = demand + c + y
      BY <2>1, <2>2
    <3>2. Credits(down') = c
      BY <2>4 DEF c
    <3> QED BY <1>1, <2>1, <2>4, <3>1, <3>2 DEF CreditInv, CreditIsConserved, y
  <2>8. queued' + remoteCredits' <= MaxRequestN + 1 /\ PrefetchIsBounded'
    <3>1. queued' + remoteCredits' = queued + remoteCredits /\ downstreamDemand' >= downstreamDemand
      BY <2>2, <2>4, ResponderTypesHold, Constants DEF ResponderTypes
    <3> QED BY <2>6, <3>1, PrefetchGrows
  <2>9. ~terminated
    BY <1>4 DEF IInv, InputInv
  <2>10. InputInv'
    BY <1>4, <2>4, <2>8, <2>9 DEF IInv, InputInv
  <2> QED BY <1>1, <1>4, <2>4, <2>6, <2>7, <2>10, UpStep
<1>5. (responder = "open" /\ ~requesterComplete) \/ responder # "open" \/ requesterComplete
  OBVIOUS
<1> QED BY <1>3, <1>4, <1>5

LEMMA ReceiveCompleteKeeps ==
  ASSUME IInv, ReceiveComplete
  PROVE  IInv'
<1>1. /\ up # <<>> /\ up' = Tail(up) /\ Head(up).type = "COMPLETE" /\ UNCHANGED otherwise
      /\ UNCHANGED <<down, subscribed, calls, queued, downstreamDemand, remoteCredits, terminated>>
      /\ UNCHANGED <<stage, outboundTerminated, demand, pendingFrames, session>>
  BY DEF ReceiveComplete, NextUp, otherwise, subscription, outbound
<1>2. /\ Nexts(outgoing') \in Nat /\ Nexts(outgoing) = 0 + Nexts(outgoing')
  BY <1>1, TakeUpLaw DEF IInv
<1>3. CASE responder # "open" \/ requesterComplete
  <2>1. UNCHANGED <<down, halves, input>>
    BY <1>1, <1>3 DEF ReceiveComplete, input
  <2> QED BY <1>1, <1>3, <2>1, IgnoredKeeps
<1>4. CASE responder = "open" /\ ~requesterComplete
  <2>1. /\ requesterComplete' = TRUE /\ draining' = TRUE
        /\ responder' = responder /\ responderComplete' = responderComplete
    BY <1>4 DEF ReceiveComplete
  <2>2. ResponderTypes'
    BY <1>1, <2>1, ResponderTypesHold DEF ResponderTypes
  <2>3. CreditInv'
    <3>1. Nexts(outgoing') = Nexts(outgoing)
      BY <1>2
    <3>2. Credits(down') = Credits(down)
      BY <1>1
    <3> QED BY <1>1, <2>1, <3>1, <3>2 DEF IInv, CreditInv, CreditIsConserved
  <2>4. PrefetchIsBounded' /\ queued' + remoteCredits' <= MaxRequestN + 1
    BY <1>1 DEF IInv, InputInv, PrefetchIsBounded
  <2>5. ~terminated
    BY <1>4 DEF IInv, InputInv
  <2>6. InputInv'
    BY <1>1, <1>4, <2>1, <2>4, <2>5 DEF IInv, InputInv
  <2> QED BY <1>1, <1>4, <2>1, <2>2, <2>3, <2>6, UpStep
<1>5. (responder = "open" /\ ~requesterComplete) \/ responder # "open" \/ requesterComplete
  OBVIOUS
<1> QED BY <1>3, <1>4, <1>5

LEMMA ReceiveEndKeeps ==
  ASSUME IInv, ReceiveEnd
  PROVE  IInv'
<1>1. /\ up # <<>> /\ up' = Tail(up) /\ UNCHANGED otherwise /\ down' = down
      /\ UNCHANGED <<stage, outboundTerminated, demand, pendingFrames, session>>
  BY DEF ReceiveEnd, NextUp, otherwise, subscription, outbound
<1>2. CASE responder # "open"
  <2>1. UNCHANGED <<down, halves, input>>
    BY <1>1, <1>2 DEF ReceiveEnd, Terminate
  <2> QED BY <1>1, <1>2, <2>1, IgnoredKeeps
<1>3. CASE responder = "open"
  <2>1. /\ responder' = "gone" /\ UNCHANGED <<requesterComplete, responderComplete>>
        /\ terminated' = TRUE /\ queued' = 0 /\ downstreamDemand' = 0 /\ remoteCredits' = 0
        /\ draining' = FALSE /\ subscribed' = subscribed
    BY <1>3 DEF ReceiveEnd, Terminate, TerminateInput
  <2>2. ResponderTypes'
    <3>1. 0 \in 0..MaxRequestN /\ 0 \in 0..MaxSafe /\ 0 \in Nat
      BY Constants
    <3> QED BY <1>1, <2>1, <3>1, ResponderTypesHold DEF ResponderTypes
  <2>3. CreditInv'
    <3>1. Credits(down') = Credits(down)
      BY <1>1
    <3> QED BY <1>1, <2>1, <3>1, CreditLost
  <2>4. InputInv'
    BY <2>1, Constants DEF InputInv, PrefetchIsBounded
  <2> QED BY <1>1, <1>3, <2>1, <2>2, <2>3, <2>4, UpStep
<1> QED BY <1>2, <1>3

-------------------------------------------------------------------------------
(***************************************************************************)
(* The theorems.                                                           *)
(***************************************************************************)
LEMMA StepKeeps ==
  ASSUME IInv, [Next]_vars
  PROVE  IInv'
<1>1. CASE UNCHANGED vars
  BY <1>1, StutterKeeps
<1>2. CASE TransportLost \/ BeginResume \/ FinishResume
  BY <1>2, SessionMovesKeep
<1>3. CASE SessionEnds
  BY <1>3, SessionEndsKeeps
<1>4. CASE Outbound
  BY <1>4, UnwindKeeps, AwaitsKeep, StartRequestKeeps, SendNextKeeps, FailuresKeep, SendEndsSessionKeeps
     DEF Outbound
<1>5. CASE Source
  BY <1>5, OpenSourceKeeps, AwaitsKeep, CompletesKeeps, FailuresKeep DEF Source
<1>7. CASE Cancel
  BY <1>7, CancelKeeps
<1>8. CASE ReceiveDown
  BY <1>8, ReceiveRequestNKeeps, ReceiveResponseCompleteKeeps, ReceiveResponseErrorKeeps DEF ReceiveDown
<1>9. CASE ReceiveUp
  BY <1>9, ReceiveChannelKeeps, ReceiveNextKeeps, ReceiveCompleteKeeps, ReceiveEndKeeps DEF ReceiveUp
<1>10. CASE Drain
  BY <1>10, DeliverKeeps, DrainEndsKeeps DEF Drain
<1>11. CASE InputSubscribes
  BY <1>11, InputSubscribesKeeps
<1>12. CASE InputFails \/ ResponseFails
  BY <1>12, FailKeeps DEF InputFails, ResponseFails
<1>13. CASE \E n \in Demands : InputRequests(n)
  BY <1>13, InputRequestsKeeps
<1>14. CASE ResponseCompletes
  BY <1>14, ResponseCompletesKeeps
<1>15. CASE ResponderSessionEnds
  BY <1>15, ResponderSessionEndsKeeps
<1> QED
  BY <1>1, <1>2, <1>3, <1>4, <1>5, <1>7, <1>8, <1>9, <1>10, <1>11, <1>12, <1>13, <1>14, <1>15
     DEF Next

\* The inductive invariant of a channel: it holds from the first request on
\* and every step of either side, of the session or of the controllers keeps
\* it (outbound.ts, channel-input.ts, channel-responder.ts).
THEOREM Invariant == Spec => []IInv
<1>1. Init => IInv
  BY InitEstablishes
<1>2. IInv /\ [Next]_vars => IInv'
  BY StepKeeps
<1> QED BY <1>1, <1>2, PTL DEF Spec

\* Every counter of credit fits what one frame can carry, and so does every
\* grant under way, whatever the demands and the limit (MAX_REQUEST_N,
\* channel-input.ts grant, outbound.ts addDemand).
THEOREM ChannelTypes == Spec => []TypeOK
<1>1. IInv => TypeOK
  <2> SUFFICES ASSUME IInv PROVE TypeOK
    OBVIOUS
  <2>1. \A i \in DOMAIN down : down[i].n \in 0..MaxRequestN
    <3>1. down \in Seq(DownFrames)
      BY DEF IInv, Types
    <3>2. DOMAIN down = 1..Len(down) /\ \A i \in 1..Len(down) : down[i] \in DownFrames
      BY <3>1, LenProperties, ElementOfSeq
    <3> QED BY <3>2, CreditWeights
  <2>2. downstreamDemand \in Nat
    BY Constants DEF IInv, Types
  <2> QED BY <2>1, <2>2 DEF IInv, Types, TypeOK, Places, Iterators
<1> QED BY <1>1, Invariant, PTL

\* Credit is conserved across outages, for any frame limit, demands and
\* number of items: what the responder counts as granted is what the
\* requester holds, what is on its way and what comes back (channel-input.ts
\* remoteCredits against outbound.ts demand).
THEOREM ChannelCredit == Spec => []CreditIsConserved
<1>1. IInv => CreditIsConserved
  BY DEF IInv, CreditInv
<1> QED BY <1>1, Invariant, PTL

\* What a responder holds is bounded by what its controller asked for, apart
\* from the one-element prefetch (channel-input.ts grantForDemand).
THEOREM ChannelPrefetch == Spec => []PrefetchIsBounded
<1>1. IInv => PrefetchIsBounded
  BY DEF IInv, InputInv
<1> QED BY <1>1, Invariant, PTL

\* The source of a channel is closed at most once, and by the time its loop
\* is over it has ended or been closed (closeIterator, outbound.ts).
THEOREM ChannelSource == Spec => []SourceIsReleased
<1>1. IInv => SourceIsReleased
  BY DEF IInv, LoopInv, SourceIsReleased
<1> QED BY <1>1, Invariant, PTL

\* An item that arrives is one the responder has granted: next never finds
\* its credit at zero (handlePayload, channel-input.ts).
NeverOverrun ==
  up # <<>> /\ Head(up).type = "NEXT" /\ responder = "open" /\ ~requesterComplete => remoteCredits > 0

THEOREM ChannelNeverOverrun == Spec => []NeverOverrun
<1>1. IInv => NeverOverrun
  <2> SUFFICES ASSUME IInv, up # <<>>, Head(up).type = "NEXT", responder = "open"
               PROVE  remoteCredits > 0
    BY DEF NeverOverrun
  <2>1. up \in Seq(UpFrames) /\ pendingFrames \in Seq(UpFrames)
    BY DEF IInv, Types
  <2>2. outgoing # <<>> /\ Head(outgoing) = Head(up) /\ outgoing \in Seq(UpFrames)
    BY <2>1, HeadTailOfConcat, OutgoingType DEF outgoing, IInv
  <2> DEFINE o == outgoing
  <2>3. o # <<>> /\ Head(o).type = "NEXT" /\ o \in Seq(UpFrames)
    BY <2>2
  <2> HIDE DEF o
  <2>4. Nexts(o) = 1 + Nexts(Tail(o)) /\ Nexts(Tail(o)) \in Nat
    <3>1. Tail(o) \in Seq(UpFrames)
      BY <2>3, HeadTailProperties
    <3> QED BY <2>3, <3>1, NextsLaw
  <2>5. demand + Credits(down) + Nexts(o) <= remoteCredits
    BY DEF IInv, CreditInv, o
  <2>6. demand \in Nat /\ Credits(down) \in Nat /\ remoteCredits \in Nat
    BY ResponderTypesHold
  <2> QED BY <2>4, <2>5, <2>6
<1> QED BY <1>1, Invariant, PTL

\* Who adds to the frames under way: a loop that is not over, for a stream
\* that is not given up, or the cancellation of one that was not.
LEMMA WhoSends ==
  ASSUME IInv, [Next]_vars
  PROVE  \/ Len(outgoing') <= Len(outgoing)
         \/ stage # "gone" /\ ~outboundTerminated
         \/ stage # "gone" /\ outgoing' = Append(up, Plain("CANCEL"))
<1>1. /\ up \in Seq(UpFrames) /\ pendingFrames \in Seq(UpFrames) /\ outgoing \in Seq(UpFrames)
      /\ Len(outgoing) = Len(up) + Len(pendingFrames)
      /\ Len(up) \in Nat /\ Len(pendingFrames) \in Nat /\ Len(outgoing) \in Nat
  BY OutgoingType, ConcatProperties, LenProperties DEF IInv, Types, outgoing
<1>2. outgoing' = outgoing \/ outgoing' = up => Len(outgoing') <= Len(outgoing)
  BY <1>1
<1>3. ASSUME ~aborted, at # "done" PROVE stage # "gone" /\ ~outboundTerminated
  BY <1>3 DEF IInv, LoopInv
<1>4. CASE UNCHANGED vars
  <2>1. outgoing' = outgoing
    BY <1>4 DEF vars, requester, transport, outgoing
  <2> QED BY <1>2, <2>1
<1>5. CASE TransportLost \/ BeginResume
  <2>1. outgoing' = outgoing
    BY <1>5 DEF TransportLost, BeginResume, outgoing
  <2> QED BY <1>2, <2>1
<1>6. CASE FinishResume
  BY <1>2, <1>6, FinishResumeLaw
<1>7. CASE SessionEnds \/ SendEndsSession
  <2>1. outgoing' = up
    BY <1>1, <1>7, ConcatEmptySeq DEF SessionEnds, SendEndsSession, TerminateSession, outgoing
  <2> QED BY <1>2, <2>1
<1>8. CASE Unwind \/ BecomesWritable \/ HasDemand \/ OpenSource \/ Yields \/ EndsEmpty
  <2>1. outgoing' = outgoing
    BY <1>8 DEF Unwind, BecomesWritable, HasDemand, OpenSource, Yields, EndsEmpty, transport, outgoing
  <2> QED BY <1>2, <2>1
<1>9. CASE \/ StartRequest \/ SendNext \/ Completes
           \/ OpenThrows \/ SourceThrows \/ WritableRejected \/ StartFails \/ ItemFails
  <2>1. ~aborted /\ at # "done"
    BY <1>9 DEF StartRequest, SendNext, Completes, Goes, FailOutbound,
                OpenThrows, SourceThrows, WritableRejected, StartFails, ItemFails
  <2> QED BY <1>3, <2>1
<1>10. CASE Cancel
  <2>1. stage # "gone"
    BY <1>10 DEF Cancel
  <2>2. CASE UNCHANGED transport
    <3>1. outgoing' = outgoing
      BY <2>2 DEF transport, outgoing
    <3> QED BY <1>2, <3>1
  <2>3. CASE Send(Plain("CANCEL"))
    <3>1. outgoing' = up \/ outgoing' = Append(up, Plain("CANCEL"))
      BY <2>3, SendCancelLaw DEF IInv
    <3> QED BY <1>2, <2>1, <3>1
  <2> QED BY <1>10, <2>2, <2>3 DEF Cancel, SendIfOpen
<1>11. CASE ReceiveDown
  <2>1. outgoing' = outgoing
    BY <1>11 DEF ReceiveDown, ReceiveRequestN, ReceiveResponseComplete, ReceiveResponseError,
                 transport, outgoing
  <2> QED BY <1>2, <2>1
<1>12. CASE ReceiveUp
  <2>1. up # <<>> /\ up' = Tail(up) /\ pendingFrames' = pendingFrames
    BY <1>12 DEF ReceiveUp, ReceiveChannel, ReceiveNext, ReceiveComplete, ReceiveEnd, NextUp, otherwise
  <2>2. outgoing' = Tail(outgoing) /\ outgoing # <<>>
    BY <2>1, TakeUpLaw DEF IInv
  <2> DEFINE o == outgoing
  <2>3. o \in Seq(UpFrames) /\ o # <<>> /\ outgoing' = Tail(o)
    BY <1>1, <2>2
  <2> HIDE DEF o
  <2>4. Len(Tail(o)) = Len(o) - 1 /\ Len(o) \in Nat
    BY <2>3, HeadTailProperties, LenProperties
  <2>5. Len(outgoing') <= Len(o)
    BY <2>3, <2>4
  <2> QED BY <2>5 DEF o
<1>13. CASE \/ Drain \/ InputSubscribes \/ InputFails \/ (\E n \in Demands : InputRequests(n))
            \/ ResponseCompletes \/ ResponseFails \/ ResponderSessionEnds
  <2>1. UNCHANGED requester
    BY <1>13 DEF Drain, Deliver, DrainEnds, InputSubscribes, InputFails, InputRequests,
                 ResponseCompletes, ResponseFails, ResponderSessionEnds
  <2>2. outgoing' = outgoing
    BY <2>1, RequesterSame
  <2> QED BY <1>2, <2>2
<1> QED
  BY <1>4, <1>5, <1>6, <1>7, <1>8, <1>9, <1>10, <1>11, <1>12, <1>13 DEF Next, Outbound, Source

\* An end is final: no step adds a frame to a stream that was cancelled, has
\* failed or has ended, and a requester whose half is complete can only
\* cancel (outbound.ts, stream/session.ts disposeIfDone and cancel).
THEOREM ChannelEndIsFinal == Spec => EndIsFinal
<1> DEFINE A == /\ stage = "gone" => Len(outgoing') <= Len(outgoing)
                /\ outboundTerminated /\ Len(outgoing') > Len(outgoing) => Last(outgoing').type = "CANCEL"
<1>1. IInv /\ [Next]_vars => A
  <2> SUFFICES ASSUME IInv, [Next]_vars PROVE A
    OBVIOUS
  <2>1. up \in Seq(UpFrames) /\ Plain("CANCEL") \in UpFrames /\ Plain("CANCEL").type = "CANCEL"
    BY Frames DEF IInv, Types
  <2> DEFINE r == Append(up, Plain("CANCEL"))
  <2>2. Last(r).type = "CANCEL"
    <3>1. r \in Seq(UpFrames) /\ Len(r) = Len(up) + 1 /\ r[Len(up) + 1] = Plain("CANCEL")
      BY <2>1, AppendProperties
    <3>2. r[Len(r)] = Plain("CANCEL")
      BY <3>1
    <3> HIDE DEF r
    <3> QED BY <2>1, <3>2 DEF Last
  <2> HIDE DEF r
  <2> DEFINE k == Len(outgoing)
             l == Len(outgoing')
  <2>3. \/ l <= k
        \/ stage # "gone" /\ ~outboundTerminated
        \/ stage # "gone" /\ outgoing' = r
    BY WhoSends DEF r
  <2>4. k \in Nat /\ l \in Nat
    <3>1. outgoing \in Seq(UpFrames) /\ outgoing' \in Seq(UpFrames)
      <4>1. Types /\ Types'
        BY StepKeeps DEF IInv
      <4>2. /\ up \in Seq(UpFrames) /\ pendingFrames \in Seq(UpFrames)
            /\ up' \in Seq(UpFrames) /\ pendingFrames' \in Seq(UpFrames)
        BY <4>1 DEF Types
      <4> QED BY <4>2, ConcatProperties DEF outgoing
    <3> QED BY <3>1, LenProperties
  <2> HIDE DEF k, l
  <2>5. stage = "gone" => l <= k
    BY <2>3
  <2>6. outboundTerminated /\ l > k => Last(outgoing').type = "CANCEL"
    BY <2>2, <2>3, <2>4
  <2> QED BY <2>5, <2>6 DEF k, l
<1>2. A => [A]_<<stage, outboundTerminated, up, pendingFrames>>
  OBVIOUS
<1>3. IInv /\ [Next]_vars => [A]_<<stage, outboundTerminated, up, pendingFrames>>
  BY <1>1, <1>2
<1> HIDE DEF A
<1>4. Spec => [][A]_<<stage, outboundTerminated, up, pendingFrames>>
  BY <1>3, Invariant, PTL DEF Spec
<1> QED BY <1>4 DEF EndIsFinal, A
===============================================================================

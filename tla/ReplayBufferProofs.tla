-------------------------- MODULE ReplayBufferProofs --------------------------
(***************************************************************************)
(* Proofs about ReplayBuffer, for every capacity, compaction threshold and *)
(* set of frame sizes.                                                     *)
(***************************************************************************)
EXTENDS ReplayBuffer, SequenceTheorems, TLAPS

(***************************************************************************)
(* The inductive invariant.  The properties of ReplayBuffer lean on each   *)
(* other: releasing frames is correct because the acknowledged position is *)
(* the start of the head, which is so because offsets increase and the     *)
(* last one is where the next frame will start.                            *)
(***************************************************************************)
OffsetsIncrease ==
  \A i, j \in 0..Len(entries) : i < j => EndOffset(i) < EndOffset(j)

HeadIsRetained == entries = <<>> \/ head < Len(entries)

EndIsCurrent == entries # <<>> => endPosition = currentPosition

BytesAreCounted == retainedBytes = EndOffset(Len(entries)) - EndOffset(head)

ReleasedWhenOver == ~live => entries = <<>> /\ ~pass.running

StorageInv ==
  /\ OffsetsIncrease
  /\ HeadIsRetained
  /\ BytesAreCounted
  /\ RetainedFramesAreContiguous

IInv ==
  /\ TypeOK
  /\ StorageInv
  /\ EndIsCurrent
  /\ ReleasedWhenOver
  /\ FirstAvailableIsAcknowledged
  /\ PassMeetsRetainedFrames

-------------------------------------------------------------------------------
(***************************************************************************)
(* Sequences written as functions, and offsets.                            *)
(***************************************************************************)
\* A function on 1..n is a sequence of length n (the arrays after a compaction).
LEMMA FunctionIsSequence ==
  ASSUME NEW S, NEW n \in Nat, NEW f \in [1..n -> S]
  PROVE  f \in Seq(S) /\ Len(f) = n
<1>1. f \in Seq(S)
  BY SeqDef
<1>2. DOMAIN f = 1..n /\ DOMAIN f = 1..Len(f) /\ Len(f) \in Nat
  BY <1>1, LenProperties
<1> QED
  BY <1>1, <1>2

\* End offsets are natural numbers that grow with the index.
LEMMA Offsets ==
  ASSUME TypeOK, OffsetsIncrease
  PROVE  /\ \A i \in 0..Len(entries) : EndOffset(i) \in Nat
         /\ \A i, j \in 0..Len(entries) : i <= j => EndOffset(i) <= EndOffset(j)
<1>1. \A i \in 0..Len(entries) : EndOffset(i) \in Nat
  BY ElementOfSeq DEF TypeOK, EndOffset
<1>2. ASSUME NEW i \in 0..Len(entries), NEW j \in 0..Len(entries), i <= j
      PROVE  EndOffset(i) <= EndOffset(j)
  <2>1. Len(entries) \in Nat /\ EndOffset(i) \in Nat /\ EndOffset(j) \in Nat
    BY <1>1 DEF TypeOK
  <2>2. i = j \/ i < j
    BY <2>1, <1>2
  <2>3. i < j => EndOffset(i) < EndOffset(j)
    BY DEF OffsetsIncrease
  <2> QED
    BY <2>1, <2>2, <2>3
<1> QED
  BY <1>1, <1>2

\* The first available position lies before the current one, and is where the
\* frame after the head starts.
LEMMA FirstAvailable ==
  ASSUME TypeOK, StorageInv
  PROVE  /\ FirstAvailablePosition \in Nat
         /\ entries # <<>> => FirstAvailablePosition = originPosition + EndOffset(head)
         /\ entries = <<>> => FirstAvailablePosition = currentPosition /\ head = 0
<1>1. Len(entries) \in Nat /\ (entries = <<>> <=> Len(entries) = 0)
  BY EmptySeq DEF TypeOK
<1>2. head \in 0..Len(entries) /\ originPosition \in Nat /\ currentPosition \in Nat
  BY DEF TypeOK
<1>3. EndOffset(head) \in Nat
  BY <1>2, Offsets DEF StorageInv
<1> QED
  BY <1>1, <1>2, <1>3 DEF StorageInv, HeadIsRetained, FirstAvailablePosition

\* positionIndex returns an index whose end offset is the position asked for,
\* never before the head.
LEMMA PositionIndexFinds ==
  ASSUME TypeOK, StorageInv, NEW position \in Nat,
         PositionIndex(position) # Thrown
  PROVE  /\ PositionIndex(position) \in head..Len(entries)
         /\ entries # <<>> => originPosition + EndOffset(PositionIndex(position)) = position
         /\ entries = <<>> => position = currentPosition
         /\ position <= currentPosition
<1> DEFINE offset == position - originPosition
           hits == {i \in (head + 1)..Len(entries) : entries[i] = offset}
<1>1. /\ Len(entries) \in Nat /\ head \in 0..Len(entries)
      /\ originPosition \in Nat /\ currentPosition \in Nat
      /\ entries = <<>> <=> Len(entries) = 0
  BY EmptySeq DEF TypeOK
<1>2. position <= currentPosition
  BY <1>1 DEF PositionIndex
<1>3. CASE position = currentPosition
  <2>1. PositionIndex(position) = Len(entries)
    BY <1>3, <1>1 DEF PositionIndex, Thrown
  <2>2. entries # <<>> => originPosition + EndOffset(Len(entries)) = currentPosition
    BY DEF StorageInv, RetainedFramesAreContiguous
  <2> QED
    BY <2>1, <2>2, <1>1, <1>2, <1>3
<1>4. CASE position # currentPosition /\ position = FirstAvailablePosition
  <2>1. PositionIndex(position) = head
    BY <1>2, <1>4, <1>1 DEF PositionIndex
  <2> QED
    BY <2>1, <1>1, <1>2, <1>4, FirstAvailable
<1>5. CASE position # currentPosition /\ position # FirstAvailablePosition
  <2>1. hits # {} /\ PositionIndex(position) = CHOOSE i \in hits : TRUE
    BY <1>2, <1>5, <1>1 DEF PositionIndex
  <2>2. PositionIndex(position) \in hits
    BY <2>1
  <2>3. PositionIndex(position) \in (head + 1)..Len(entries)
        /\ entries[PositionIndex(position)] = offset
    BY <2>2
  <2>4. EndOffset(PositionIndex(position)) = offset
    BY <2>3, <1>1 DEF EndOffset
  <2> QED
    BY <2>3, <2>4, <1>1, <1>2
<1> QED
  BY <1>3, <1>4, <1>5

-------------------------------------------------------------------------------
(***************************************************************************)
(* Releasing frames: advanceHead and compact.                              *)
(***************************************************************************)
Stored == [start : Int, size : Nat]

StorageTypes ==
  /\ entries \in Seq(Nat) /\ bytes \in Seq(Stored)
  /\ Len(bytes) = Len(entries)
  /\ head \in 0..Len(entries)
  /\ retainedBytes \in 0..MaximumBytes
  /\ originPosition \in Nat

\* What storage is like after the frames before position a were released.
Released(a) == StorageTypes /\ StorageInv /\ FirstAvailablePosition = a

\* The hypotheses under which advanceHead runs: h is the index of position a.
ReleasesUpTo(h, a) ==
  /\ h \in head..Len(entries) /\ a \in Nat
  /\ entries # <<>> => originPosition + EndOffset(h) = a
  /\ entries = <<>> => a = currentPosition

\* Bytes retained once the frames up to h are gone.
LEMMA ReleasedBytes ==
  ASSUME TypeOK, StorageInv, NEW h, NEW a, ReleasesUpTo(h, a),
         AdvanceHeadAndCompact(h, a)
  PROVE  /\ retainedBytes' = EndOffset(Len(entries)) - EndOffset(h)
         /\ retainedBytes' \in 0..MaximumBytes
         /\ Len(entries) \in Nat /\ h \in 0..Len(entries)
         /\ EndOffset(h) \in Nat
<1>1. Len(entries) \in Nat /\ h \in 0..Len(entries) /\ head \in 0..Len(entries) /\ head <= h
      /\ retainedBytes \in 0..MaximumBytes /\ MaximumBytes \in Nat
  BY ReplayBufferAssumption DEF TypeOK, ReleasesUpTo
<1>2. /\ EndOffset(h) \in Nat /\ EndOffset(head) \in Nat /\ EndOffset(Len(entries)) \in Nat
      /\ EndOffset(head) <= EndOffset(h) /\ EndOffset(h) <= EndOffset(Len(entries))
  BY <1>1, Offsets DEF StorageInv
<1>3. /\ retainedBytes = EndOffset(Len(entries)) - EndOffset(head)
      /\ retainedBytes' = retainedBytes - (EndOffset(h) - EndOffset(head))
  BY DEF StorageInv, BytesAreCounted, AdvanceHeadAndCompact
<1> QED
  BY <1>1, <1>2, <1>3

\* Every retained frame is released: the arrays are emptied.
LEMMA ReleaseAll ==
  ASSUME TypeOK, StorageInv, NEW a, ReleasesUpTo(Len(entries), a),
         AdvanceHeadAndCompact(Len(entries), a), UNCHANGED currentPosition
  PROVE  Released(a)'
<1>1. /\ entries' = <<>> /\ bytes' = <<>> /\ head' = 0 /\ originPosition' = a
      /\ retainedBytes' = EndOffset(Len(entries)) - EndOffset(Len(entries))
      /\ EndOffset(Len(entries)) \in Nat
  BY ReleasedBytes DEF AdvanceHeadAndCompact
<1>2. retainedBytes' = 0
  BY <1>1
<1>3. a = currentPosition /\ a \in Nat
  BY DEF StorageInv, RetainedFramesAreContiguous, ReleasesUpTo
<1>4. /\ <<>> \in Seq(Nat) /\ <<>> \in Seq(Stored) /\ Len(<<>>) = 0
  BY EmptySeq
<1>5. StorageTypes'
  BY <1>1, <1>2, <1>3, <1>4, ReplayBufferAssumption DEF StorageTypes
<1>6. StorageInv'
  BY <1>1, <1>2, <1>4 DEF StorageInv, OffsetsIncrease, HeadIsRetained, BytesAreCounted,
                          RetainedFramesAreContiguous, Retained, EndOffset
<1>7. FirstAvailablePosition' = a
  BY <1>1, <1>3, <1>4 DEF FirstAvailablePosition
<1> QED
  BY <1>5, <1>6, <1>7 DEF Released

\* The released prefix is kept as undefined slots.
LEMMA ReleaseInPlace ==
  ASSUME TypeOK, StorageInv, NEW h, NEW a, ReleasesUpTo(h, a), h # Len(entries),
         ~CompactedFrom(h), AdvanceHeadAndCompact(h, a), UNCHANGED currentPosition
  PROVE  Released(a)'
<1> DEFINE L == Len(entries)
<1>1. /\ entries' = entries /\ head' = h /\ originPosition' = originPosition
      /\ bytes' = [i \in 1..L |-> IF i <= h THEN Undefined ELSE bytes[i]]
      /\ retainedBytes' = EndOffset(L) - EndOffset(h)
      /\ retainedBytes' \in 0..MaximumBytes
      /\ L \in Nat /\ h \in 0..L /\ h < L /\ head \in 0..L /\ head <= h
  <2>1. /\ entries' = entries /\ head' = h /\ originPosition' = originPosition
        /\ bytes' = [i \in 1..L |-> IF i <= h THEN Undefined ELSE bytes[i]]
    BY DEF AdvanceHeadAndCompact
  <2>2. L \in Nat /\ head \in 0..L /\ h \in head..L
    BY DEF ReleasesUpTo, TypeOK
  <2> QED
    BY <2>1, <2>2, ReleasedBytes
<1>2. \A i \in 1..L : bytes[i] \in Stored
  BY <1>1, ElementOfSeq DEF TypeOK, Stored
<1>3. Undefined \in Stored
  BY DEF Undefined, Frame, Stored
<1>4. bytes' \in [1..L -> Stored]
  BY <1>1, <1>2, <1>3
<1>5. bytes' \in Seq(Stored) /\ Len(bytes') = L
  BY <1>1, <1>4, FunctionIsSequence
<1>6. StorageTypes'
  BY <1>1, <1>5 DEF StorageTypes, TypeOK
<1>7. \A i : EndOffset(i)' = EndOffset(i)
  BY <1>1 DEF EndOffset
<1>8. OffsetsIncrease' /\ HeadIsRetained' /\ BytesAreCounted'
  BY <1>1, <1>7 DEF StorageInv, OffsetsIncrease, HeadIsRetained, BytesAreCounted
<1>9. RetainedFramesAreContiguous'
  <2>1. ASSUME NEW i \in (h + 1)..L
        PROVE  bytes'[i] = Frame(originPosition + EndOffset(i - 1),
                                 EndOffset(i) - EndOffset(i - 1))
    <3>1. i \in (head + 1)..L /\ i \in 1..L /\ ~(i <= h)
      BY <1>1
    <3>2. bytes'[i] = bytes[i]
      BY <1>1, <3>1
    <3> QED
      BY <3>1, <3>2 DEF StorageInv, RetainedFramesAreContiguous, Retained
  <2>2. entries # <<>> => originPosition + EndOffset(L) = currentPosition
    BY DEF StorageInv, RetainedFramesAreContiguous
  <2> QED
    BY <1>1, <1>7, <2>1, <2>2 DEF RetainedFramesAreContiguous, Retained
<1>10. entries # <<>>
  BY <1>1, EmptySeq
<1>11. FirstAvailablePosition' = a
  BY <1>1, <1>7, <1>10 DEF FirstAvailablePosition, ReleasesUpTo
<1> QED
  BY <1>6, <1>8, <1>9, <1>11 DEF Released, StorageInv

\* Storage is compacted: the offsets are rebased and their origin moves along.
LEMMA ReleaseAndCompact ==
  ASSUME TypeOK, StorageInv, NEW h, NEW a, ReleasesUpTo(h, a), h # Len(entries),
         NEW n, n = Len(entries) - h,
         CompactedFrom(h), AdvanceHeadAndCompact(h, a), UNCHANGED currentPosition
  PROVE  Released(a)'
<1> DEFINE L == Len(entries)
           off == EndOffset(h)
<1>1. /\ entries' = [i \in 1..n |-> entries[i + h] - off]
      /\ bytes' = [i \in 1..n |-> bytes[i + h]]
      /\ head' = 0
      /\ originPosition' = originPosition + off
  BY DEF AdvanceHeadAndCompact
<1>2. /\ L \in Nat /\ h \in 0..L /\ h < L /\ head \in 0..L /\ head <= h
      /\ n \in Nat /\ n > 0 /\ n + h = L /\ off \in Nat
      /\ originPosition \in Nat
  <2>1. L \in Nat /\ head \in 0..L /\ h \in head..L /\ originPosition \in Nat
    BY DEF ReleasesUpTo, TypeOK
  <2> QED
    BY <2>1, ReleasedBytes
<1>3. /\ retainedBytes' = EndOffset(L) - off
      /\ retainedBytes' \in 0..MaximumBytes
  BY ReleasedBytes
<1>4. \A i \in 1..n : i + h \in 1..L /\ EndOffset(i + h) = entries[i + h]
                             /\ EndOffset(i + h) - off \in Nat
                             /\ bytes[i + h] \in Stored
  <2> TAKE i \in 1..n
  <2>1. i + h \in 1..L /\ i + h \in 0..L /\ h <= i + h /\ i + h # 0
    BY <1>2
  <2>2. EndOffset(i + h) \in Nat /\ off <= EndOffset(i + h)
    BY <2>1, <1>2, Offsets DEF StorageInv
  <2>3. bytes[i + h] \in Stored
    BY <2>1, ElementOfSeq DEF TypeOK, Stored
  <2> QED
    BY <2>1, <2>2, <2>3, <1>2 DEF EndOffset
<1>5. entries' \in [1..n -> Nat] /\ bytes' \in [1..n -> Stored]
  BY <1>1, <1>4
<1>6. /\ entries' \in Seq(Nat) /\ Len(entries') = n
      /\ bytes' \in Seq(Stored) /\ Len(bytes') = n
  BY <1>2, <1>5, FunctionIsSequence
<1>7. originPosition' \in Nat
  BY <1>1, <1>2
<1>8. StorageTypes'
  <2>1. head' \in 0..Len(entries') /\ Len(bytes') = Len(entries')
    BY <1>1, <1>2, <1>6
  <2> QED
    BY <2>1, <1>3, <1>6, <1>7 DEF StorageTypes
<1>9. \A i \in 0..n : EndOffset(i)' = EndOffset(i + h) - off
  <2> TAKE i \in 0..n
  <2>1. CASE i = 0
    <3>1. EndOffset(i)' = 0 /\ i + h = h
      BY <2>1, <1>2 DEF EndOffset
    <3> QED
      BY <3>1, <1>2
  <2>2. CASE i # 0
    <3>1. i \in 1..n
      BY <2>2, <1>2
    <3>2. EndOffset(i)' = entries'[i] /\ entries'[i] = entries[i + h] - off
      BY <2>2, <3>1, <1>1 DEF EndOffset
    <3> QED
      BY <3>1, <3>2, <1>4
  <2> QED
    BY <2>1, <2>2
<1>10. OffsetsIncrease'
  <2> SUFFICES ASSUME NEW i \in 0..n, NEW j \in 0..n, i < j
               PROVE  EndOffset(i)' < EndOffset(j)'
    BY <1>6 DEF OffsetsIncrease
  <2>1. i + h \in 0..L /\ j + h \in 0..L /\ i + h < j + h
    BY <1>2
  <2>2. EndOffset(i + h) < EndOffset(j + h) /\ EndOffset(i + h) \in Nat /\ EndOffset(j + h) \in Nat
    BY <2>1, Offsets DEF StorageInv, OffsetsIncrease
  <2> QED
    BY <2>2, <1>9, <1>2
<1>11. HeadIsRetained'
  BY <1>1, <1>2, <1>6 DEF HeadIsRetained
<1>12. BytesAreCounted'
  <2>1. EndOffset(n)' = EndOffset(n + h) - off /\ n + h = L
    BY <1>9, <1>2
  <2>2. EndOffset(0)' = 0
    BY DEF EndOffset
  <2> QED
    BY <2>1, <2>2, <1>1, <1>3, <1>6, <1>2 DEF BytesAreCounted
<1>13. RetainedFramesAreContiguous'
  <2>1. ASSUME NEW i \in 1..n
        PROVE  bytes'[i] = Frame(originPosition' + EndOffset(i - 1)',
                                 EndOffset(i)' - EndOffset(i - 1)')
    <3>1. i + h \in (head + 1)..L /\ i \in 0..n /\ i - 1 \in 0..n
          /\ i + h \in 0..L /\ (i + h) - 1 \in 0..L /\ (i - 1) + h = (i + h) - 1
      BY <1>2
    <3>2. bytes'[i] = Frame(originPosition + EndOffset((i + h) - 1),
                            EndOffset(i + h) - EndOffset((i + h) - 1))
      <4>1. bytes'[i] = bytes[i + h]
        BY <1>1
      <4>2. i + h \in Retained
        BY <3>1 DEF Retained
      <4>3. bytes[i + h] = Frame(originPosition + EndOffset((i + h) - 1),
                                 EndOffset(i + h) - EndOffset((i + h) - 1))
        BY <4>2 DEF StorageInv, RetainedFramesAreContiguous
      <4> QED
        BY <4>1, <4>3
    <3>3. EndOffset(i + h) \in Nat /\ EndOffset((i + h) - 1) \in Nat
      BY <3>1, Offsets DEF StorageInv
    <3>4. EndOffset(i)' = EndOffset(i + h) - off /\ EndOffset(i - 1)' = EndOffset((i + h) - 1) - off
      BY <3>1, <1>9
    <3>5. /\ originPosition' + EndOffset(i - 1)' = originPosition + EndOffset((i + h) - 1)
          /\ EndOffset(i)' - EndOffset(i - 1)' = EndOffset(i + h) - EndOffset((i + h) - 1)
      BY <3>3, <3>4, <1>1, <1>2, SMTT(30)
    <3> QED
      BY <3>2, <3>5
  <2>2. originPosition' + EndOffset(n)' = currentPosition'
    <3>1. originPosition + EndOffset(L) = currentPosition
      BY <1>2, EmptySeq DEF StorageInv, RetainedFramesAreContiguous
    <3>2. EndOffset(L) \in Nat /\ EndOffset(n)' = EndOffset(L) - off
      BY <1>2, <1>9, Offsets DEF StorageInv
    <3> QED
      BY <3>1, <3>2, <1>1, <1>2
  <2>3. Retained' = 1..n
    <3>1. head' = 0 /\ Len(entries') = n
      BY <1>1, <1>6
    <3> QED
      BY <3>1 DEF Retained
  <2> QED
    BY <2>1, <2>2, <2>3, <1>6 DEF RetainedFramesAreContiguous
<1>14. FirstAvailablePosition' = a
  <2>1. originPosition + off = a
    BY <1>2, EmptySeq DEF ReleasesUpTo
  <2>2. EndOffset(0)' = 0
    BY DEF EndOffset
  <2> QED
    BY <2>1, <2>2, <1>1, <1>2, <1>6 DEF FirstAvailablePosition
<1> QED
  BY <1>8, <1>10, <1>11, <1>12, <1>13, <1>14 DEF Released, StorageInv

\* Whatever branch compact takes, storage stays consistent and the first
\* available position becomes the one released up to.
LEMMA ReleaseKeepsStorage ==
  ASSUME TypeOK, StorageInv, NEW h, NEW a, ReleasesUpTo(h, a),
         AdvanceHeadAndCompact(h, a), UNCHANGED currentPosition
  PROVE  Released(a)'
<1>1. CASE h = Len(entries)
  BY <1>1, ReleaseAll
<1>2. CASE h # Len(entries) /\ ~CompactedFrom(h)
  BY <1>2, ReleaseInPlace
<1>3. CASE h # Len(entries) /\ CompactedFrom(h)
  <2>1. \E m : m = Len(entries) - h
    OBVIOUS
  <2> QED
    BY <2>1, <1>3, ReleaseAndCompact
<1> QED
  BY <1>1, <1>2, <1>3

-------------------------------------------------------------------------------
(***************************************************************************)
(* The invariant is inductive: one lemma per action.                       *)
(***************************************************************************)
LEMMA InitEstablishes == Init => IInv
<1> SUFFICES ASSUME Init PROVE IInv
  OBVIOUS
<1>1. /\ entries = <<>> /\ bytes = <<>> /\ head = 0 /\ retainedBytes = 0
      /\ originPosition = 0 /\ endPosition = 0 /\ acknowledgedPosition = 0
      /\ currentPosition = 0 /\ pass = Idle /\ live = TRUE
      /\ Len(<<>>) = 0 /\ 0 \in 0..MaximumBytes
  BY EmptySeq, ReplayBufferAssumption DEF Init
<1>2. /\ <<>> \in Seq(Nat) /\ <<>> \in Seq([start : Int, size : Nat])
      /\ Idle \in [running : BOOLEAN, index : Nat, replayEnd : Nat] /\ ~Idle.running
  BY EmptySeq DEF Idle
<1>3. TypeOK
  BY <1>1, <1>2 DEF TypeOK
<1>4. StorageInv
  BY <1>1 DEF StorageInv, OffsetsIncrease, HeadIsRetained, BytesAreCounted, EndOffset,
              RetainedFramesAreContiguous, Retained
<1> QED
  BY <1>1, <1>2, <1>3, <1>4 DEF IInv, EndIsCurrent, ReleasedWhenOver, PassMeetsRetainedFrames,
                                FirstAvailableIsAcknowledged, FirstAvailablePosition

\* A recorded frame extends the tiling at its end; a running pass keeps its snapshot.
LEMMA RecordKeeps ==
  ASSUME IInv, NEW size \in FrameSizes, Record(size)
  PROVE  IInv'
<1> DEFINE L == Len(entries)
           n == EndOffset(L) + size
<1>1. /\ L \in Nat /\ head \in 0..L /\ size \in Nat /\ size > 0 /\ live
      /\ currentPosition \in Nat /\ originPosition \in Nat /\ retainedBytes \in 0..MaximumBytes
      /\ MaximumBytes \in Nat /\ Len(bytes) = L
      /\ (entries = <<>> <=> L = 0)
  BY EmptySeq, ReplayBufferAssumption DEF IInv, TypeOK, Record
<1>2. EndOffset(L) \in Nat /\ n \in Nat /\ EndOffset(L) < n
  BY <1>1, Offsets DEF IInv, StorageInv
<1>3. /\ entries' = Append(entries, n) /\ bytes' = Append(bytes, Frame(currentPosition, size))
      /\ retainedBytes' = retainedBytes + size /\ retainedBytes + size <= MaximumBytes
      /\ originPosition' = (IF entries = <<>> THEN currentPosition ELSE originPosition)
      /\ endPosition' = currentPosition' /\ currentPosition' = currentPosition + size
      /\ head' = head /\ acknowledgedPosition' = acknowledgedPosition
      /\ pass' = pass /\ live' = live
  BY DEF Record
<1>4. /\ entries' \in Seq(Nat) /\ Len(entries') = L + 1 /\ entries'[L + 1] = n
      /\ \A i \in 1..L : entries'[i] = entries[i]
  BY <1>1, <1>2, <1>3 DEF IInv, TypeOK
<1>5. Frame(currentPosition, size) \in [start : Int, size : Nat]
  BY <1>1 DEF Frame
<1>6. /\ bytes' \in Seq([start : Int, size : Nat]) /\ Len(bytes') = L + 1
      /\ bytes'[L + 1] = Frame(currentPosition, size)
      /\ \A i \in 1..L : bytes'[i] = bytes[i]
  BY <1>1, <1>3, <1>5 DEF IInv, TypeOK
<1>7. TypeOK'
  BY <1>1, <1>3, <1>4, <1>6 DEF IInv, TypeOK
<1>8. \A i \in 0..L : EndOffset(i)' = EndOffset(i) /\ EndOffset(i) \in Nat
  BY <1>1, <1>4, Offsets DEF EndOffset, IInv, StorageInv
<1>9. \A m : m = L + 1 => EndOffset(m)' = n
  BY <1>1, <1>4 DEF EndOffset
<1>10. OffsetsIncrease'
  <2> SUFFICES ASSUME NEW i \in 0..(L + 1), NEW j \in 0..(L + 1), i < j
               PROVE  EndOffset(i)' < EndOffset(j)'
    BY <1>4 DEF OffsetsIncrease
  <2>1. CASE j \in 0..L
    <3>1. i \in 0..L
      BY <2>1, <1>1
    <3> QED
      BY <2>1, <3>1, <1>8 DEF IInv, StorageInv, OffsetsIncrease
  <2>2. CASE j = L + 1
    <3>1. i \in 0..L /\ L \in 0..L /\ i <= L
      BY <2>2, <1>1
    <3>2. EndOffset(i) <= EndOffset(L)
      BY <3>1, Offsets DEF IInv, StorageInv
    <3> QED
      BY <2>2, <3>1, <3>2, <1>2, <1>8, <1>9
  <2> QED
    BY <2>1, <2>2, <1>1
<1>11. HeadIsRetained'
  BY <1>1, <1>3, <1>4 DEF HeadIsRetained
<1>12. BytesAreCounted'
  <2>1. retainedBytes = EndOffset(L) - EndOffset(head)
    BY DEF IInv, StorageInv, BytesAreCounted
  <2>2. EndOffset(head)' = EndOffset(head) /\ EndOffset(head) \in Nat
    BY <1>1, <1>3, <1>8
  <2>3. EndOffset(Len(entries))' = n
    BY <1>4, <1>9
  <2> QED
    BY <2>1, <2>2, <2>3, <1>1, <1>2, <1>3 DEF BytesAreCounted
<1>13. originPosition' + EndOffset(L) = currentPosition /\ originPosition' \in Nat
  BY <1>1, <1>3 DEF IInv, StorageInv, RetainedFramesAreContiguous, EndOffset
<1>14. RetainedFramesAreContiguous'
  <2>1. ASSUME NEW i \in (head + 1)..(L + 1)
        PROVE  bytes'[i] = Frame(originPosition' + EndOffset(i - 1)',
                                 EndOffset(i)' - EndOffset(i - 1)')
    <3>1. CASE i \in 1..L
      <4>1. i \in Retained /\ originPosition' = originPosition /\ i \in 0..L /\ i - 1 \in 0..L
        BY <3>1, <1>1, <1>3 DEF Retained
      <4> QED
        BY <3>1, <4>1, <1>6, <1>8 DEF IInv, StorageInv, RetainedFramesAreContiguous
    <3>2. CASE i = L + 1
      <4>1. EndOffset(i)' = n /\ i - 1 = L /\ EndOffset(i - 1)' = EndOffset(L)
        BY <3>2, <1>1, <1>8, <1>9
      <4>2. n - EndOffset(L) = size
        BY <1>1, <1>2
      <4> QED
        BY <3>2, <4>1, <4>2, <1>6, <1>13
    <3> QED
      BY <3>1, <3>2, <1>1
  <2>2. originPosition' + n = currentPosition'
    <3>1. currentPosition' = currentPosition + size
      BY <1>3
    <3> QED
      BY <3>1, <1>1, <1>2, <1>13, SMTT(30)
  <2>3. EndOffset(Len(entries))' = n
    BY <1>4, <1>9
  <2> QED
    BY <2>1, <2>2, <2>3, <1>3, <1>4 DEF RetainedFramesAreContiguous, Retained
<1>15. FirstAvailableIsAcknowledged'
  <2>1. FirstAvailablePosition = acknowledgedPosition
    BY <1>1 DEF IInv, FirstAvailableIsAcknowledged
  <2>2. FirstAvailablePosition' = originPosition' + EndOffset(head)
    BY <1>1, <1>3, <1>4, <1>8 DEF FirstAvailablePosition
  <2>3. FirstAvailablePosition = originPosition' + EndOffset(head)
    BY <1>1, <1>3, FirstAvailable DEF IInv, EndOffset
  <2> QED
    BY <2>1, <2>2, <2>3, <1>3 DEF FirstAvailableIsAcknowledged
<1>16. EndIsCurrent' /\ ReleasedWhenOver'
  BY <1>1, <1>3 DEF EndIsCurrent, ReleasedWhenOver
<1>17. PassMeetsRetainedFrames'
  BY <1>1, <1>3, <1>4, SMTT(30) DEF IInv, PassMeetsRetainedFrames, Retained
<1> QED
  BY <1>7, <1>10, <1>11, <1>12, <1>14, <1>15, <1>16, <1>17 DEF IInv, StorageInv

\* What advanceHead and compact leave to the actions that call them.
LEMMA ReleaseKeeps ==
  ASSUME IInv, live, NEW position \in Nat, PositionIndex(position) # Thrown,
         AdvanceHeadAndCompact(PositionIndex(position), position),
         UNCHANGED <<currentPosition, endPosition, live>>,
         acknowledgedPosition' = position
  PROVE  /\ Released(position)'
         /\ EndIsCurrent' /\ FirstAvailableIsAcknowledged'
         /\ endPosition' \in Nat /\ acknowledgedPosition' \in Nat
         /\ currentPosition' \in Nat /\ live' \in BOOLEAN
<1>1. ReleasesUpTo(PositionIndex(position), position)
  BY PositionIndexFinds DEF IInv, ReleasesUpTo
<1>2. Released(position)'
  BY <1>1, ReleaseKeepsStorage DEF IInv
<1>3. entries' # <<>> => entries # <<>>
  <2>1. CASE entries = <<>>
    <3>1. PositionIndex(position) = Len(entries)
      BY <2>1, <1>1, EmptySeq DEF ReleasesUpTo, IInv, TypeOK
    <3> QED
      BY <3>1 DEF AdvanceHeadAndCompact
  <2> QED
    BY <2>1
<1>4. EndIsCurrent'
  BY <1>3 DEF IInv, EndIsCurrent
<1>5. FirstAvailableIsAcknowledged'
  BY <1>2 DEF Released, FirstAvailableIsAcknowledged
<1> QED
  BY <1>2, <1>4, <1>5 DEF IInv, TypeOK

\* An acknowledgement releases exactly the frames before it.
LEMMA AcknowledgeKeeps ==
  ASSUME IInv, NEW position \in Nat, Acknowledge(position)
  PROVE  IInv'
<1> DEFINE nextHead == PositionIndex(position)
<1>1. /\ live /\ ~pass.running /\ position > acknowledgedPosition /\ nextHead # Thrown
      /\ acknowledgedPosition' = position
      /\ UNCHANGED <<endPosition, currentPosition, pass, live>>
      /\ IF nextHead <= head THEN UNCHANGED storage ELSE AdvanceHeadAndCompact(nextHead, position)
  BY DEF Acknowledge
<1>2. ~(nextHead <= head)
  <2>1. nextHead \in head..Len(entries) /\ head \in 0..Len(entries) /\ Len(entries) \in Nat
    BY <1>1, PositionIndexFinds DEF IInv, TypeOK
  <2>2. FirstAvailablePosition = acknowledgedPosition /\ acknowledgedPosition \in Nat
    BY <1>1 DEF IInv, FirstAvailableIsAcknowledged, TypeOK
  <2>3. CASE entries = <<>>
    BY <2>2, <2>3, <1>1, PositionIndexFinds, FirstAvailable DEF IInv
  <2>4. CASE entries # <<>>
    <3>1. originPosition + EndOffset(nextHead) = position
          /\ originPosition + EndOffset(head) = acknowledgedPosition
      BY <2>2, <2>4, <1>1, PositionIndexFinds, FirstAvailable DEF IInv
    <3>2. nextHead # head
      BY <3>1, <2>2, <1>1
    <3> QED
      BY <3>2, <2>1
  <2> QED
    BY <2>3, <2>4
<1>3. /\ Released(position)'
      /\ EndIsCurrent' /\ FirstAvailableIsAcknowledged'
      /\ endPosition' \in Nat /\ acknowledgedPosition' \in Nat
      /\ currentPosition' \in Nat /\ live' \in BOOLEAN
  BY <1>1, <1>2, ReleaseKeeps
<1>4. pass' \in [running : BOOLEAN, index : Nat, replayEnd : Nat] /\ ~pass'.running
  BY <1>1 DEF IInv, TypeOK
<1>5. TypeOK'
  BY <1>3, <1>4 DEF TypeOK, Released, StorageTypes, Stored
<1> QED
  BY <1>1, <1>3, <1>4, <1>5 DEF IInv, Released, ReleasedWhenOver, PassMeetsRetainedFrames

\* A replay releases what the peer has and starts its pass at the new head.
LEMMA ReplayFromKeeps ==
  ASSUME IInv, NEW position \in Nat, ReplayFrom(position)
  PROVE  IInv'
<1> DEFINE nextHead == PositionIndex(position)
           acknowledged == IF position > acknowledgedPosition THEN position
                           ELSE acknowledgedPosition
<1>1. /\ live /\ ~pass.running /\ nextHead # Thrown /\ position >= FirstAvailablePosition
      /\ acknowledgedPosition' = acknowledged
      /\ AdvanceHeadAndCompact(nextHead, acknowledged)
      /\ pass' = (IF head' = Len(entries') THEN Idle
                  ELSE [running |-> TRUE, index |-> head' + 1, replayEnd |-> Len(entries')])
      /\ UNCHANGED <<endPosition, currentPosition, live>>
  BY DEF ReplayFrom, CanReplayFrom
<1>2. acknowledged = position
  <2>1. FirstAvailablePosition = acknowledgedPosition /\ acknowledgedPosition \in Nat
    BY <1>1 DEF IInv, FirstAvailableIsAcknowledged, TypeOK
  <2> QED
    BY <2>1, <1>1
<1>3. /\ Released(position)'
      /\ EndIsCurrent' /\ FirstAvailableIsAcknowledged'
      /\ endPosition' \in Nat /\ acknowledgedPosition' \in Nat
      /\ currentPosition' \in Nat /\ live' \in BOOLEAN
  BY <1>1, <1>2, ReleaseKeeps
<1>4. Len(entries') \in Nat /\ head' \in 0..Len(entries')
  BY <1>3 DEF Released, StorageTypes
<1>5. /\ pass' \in [running : BOOLEAN, index : Nat, replayEnd : Nat]
      /\ PassMeetsRetainedFrames'
  <2>1. CASE head' = Len(entries')
    <3>1. pass' = Idle
      BY <2>1, <1>1
    <3> QED
      BY <3>1 DEF Idle, PassMeetsRetainedFrames
  <2>2. CASE head' # Len(entries')
    <3>1. pass' = [running |-> TRUE, index |-> head' + 1, replayEnd |-> Len(entries')]
      BY <2>2, <1>1
    <3>2. head' + 1 \in (head' + 1)..Len(entries') /\ Len(entries') \in (head' + 1)..Len(entries')
          /\ head' + 1 \in Nat /\ head' + 1 <= Len(entries')
      <4>1. \A a, b \in Nat : a < b => /\ a + 1 \in (a + 1)..b /\ b \in (a + 1)..b
                                       /\ a + 1 \in Nat /\ a + 1 <= b
        OBVIOUS
      <4>2. Len(entries') \in Nat /\ head' \in Nat /\ head' < Len(entries')
        BY <2>2, <1>4
      <4> QED
        BY <4>1, <4>2
    <3> QED
      BY <3>1, <3>2, <1>4 DEF PassMeetsRetainedFrames, Retained
  <2> QED
    BY <2>1, <2>2
<1>6. TypeOK'
  BY <1>3, <1>5 DEF TypeOK, Released, StorageTypes, Stored
<1> QED
  BY <1>1, <1>3, <1>5, <1>6 DEF IInv, Released, ReleasedWhenOver

\* The other steps leave storage alone or empty it.
LEMMA PassStepKeeps ==
  ASSUME IInv, Emit \/ EmitThrows
  PROVE  IInv'
<1>1. UNCHANGED <<storage, endPosition, acknowledgedPosition, currentPosition, live>>
  BY DEF Emit, EmitThrows
<1>2. pass.running /\ PassMeetsRetainedFrames /\ Len(entries) \in Nat /\ head \in 0..Len(entries)
      /\ pass \in [running : BOOLEAN, index : Nat, replayEnd : Nat]
  BY DEF Emit, EmitThrows, IInv, TypeOK
<1>3. \/ pass' = Idle
      \/ pass.index # pass.replayEnd /\ pass' = [pass EXCEPT !.index = @ + 1]
  BY DEF Emit, EmitThrows
<1>4. pass' \in [running : BOOLEAN, index : Nat, replayEnd : Nat]
  <2>1. Idle \in [running : BOOLEAN, index : Nat, replayEnd : Nat]
    BY DEF Idle
  <2>2. pass.index + 1 \in Nat
    BY <1>2
  <2>3. [pass EXCEPT !.index = @ + 1] \in [running : BOOLEAN, index : Nat, replayEnd : Nat]
    BY <2>2, <1>2
  <2> QED
    BY <2>1, <2>3, <1>3
<1>5. PassMeetsRetainedFrames' /\ ReleasedWhenOver'
  <2>1. CASE pass' = Idle
    BY <2>1, <1>1 DEF Idle, PassMeetsRetainedFrames, IInv, ReleasedWhenOver, storage
  <2>2. CASE pass.index # pass.replayEnd /\ pass' = [pass EXCEPT !.index = @ + 1]
    <3>1. pass'.index = pass.index + 1 /\ pass'.replayEnd = pass.replayEnd /\ pass'.running = pass.running
      BY <2>2, <1>2
    <3>2. pass.index \in Retained /\ pass.replayEnd \in Retained /\ pass.index <= pass.replayEnd
      BY <1>2 DEF PassMeetsRetainedFrames
    <3>3. pass'.index \in Retained /\ pass'.index <= pass'.replayEnd
      BY <2>2, <3>1, <3>2, <1>2 DEF Retained
    <3>4. Retained' = Retained
      BY <1>1 DEF Retained, storage
    <3> QED
      <4>1. PassMeetsRetainedFrames'
        BY <3>1, <3>2, <3>3, <3>4 DEF PassMeetsRetainedFrames
      <4>2. live' = live /\ live
        BY <1>1, <1>2 DEF IInv, ReleasedWhenOver
      <4> QED
        BY <4>1, <4>2 DEF ReleasedWhenOver
  <2> QED
    BY <1>3, <2>1, <2>2
<1>6. TypeOK'
  BY <1>1, <1>4 DEF IInv, TypeOK, storage
<1>7. StorageInv' /\ EndIsCurrent' /\ FirstAvailableIsAcknowledged'
  BY <1>1 DEF IInv, storage, StorageInv, EndIsCurrent, FirstAvailableIsAcknowledged,
              FirstAvailablePosition, OffsetsIncrease, HeadIsRetained, BytesAreCounted,
              RetainedFramesAreContiguous, Retained, EndOffset
<1> QED
  BY <1>5, <1>6, <1>7 DEF IInv

LEMMA ClearKeeps ==
  ASSUME IInv, Clear
  PROVE  IInv'
<1>1. /\ entries' = <<>> /\ bytes' = <<>> /\ head' = 0 /\ retainedBytes' = 0
      /\ originPosition' = 0 /\ endPosition' = 0 /\ acknowledgedPosition' = 0
      /\ currentPosition' = currentPosition /\ pass' = Idle /\ live' = FALSE
      /\ Len(<<>>) = 0 /\ 0 \in 0..MaximumBytes
  BY EmptySeq, ReplayBufferAssumption DEF Clear
<1>2. /\ <<>> \in Seq(Nat) /\ <<>> \in Seq([start : Int, size : Nat])
      /\ Idle \in [running : BOOLEAN, index : Nat, replayEnd : Nat] /\ ~Idle.running
  BY EmptySeq DEF Idle
<1>3. TypeOK'
  <2>1. currentPosition' \in Nat
    BY <1>1 DEF IInv, TypeOK
  <2>2. Len(entries') = 0 /\ Len(bytes') = 0 /\ head' \in 0..Len(entries')
    BY <1>1
  <2>3. entries' \in Seq(Nat) /\ bytes' \in Seq([start : Int, size : Nat])
    BY <1>1, <1>2
  <2>4. /\ retainedBytes' \in 0..MaximumBytes /\ originPosition' \in Nat
        /\ endPosition' \in Nat /\ acknowledgedPosition' \in Nat
        /\ pass' \in [running : BOOLEAN, index : Nat, replayEnd : Nat]
        /\ live' \in BOOLEAN
    BY <1>1, <1>2
  <2> QED
    BY <2>1, <2>2, <2>3, <2>4 DEF TypeOK
<1>4. StorageInv'
  BY <1>1 DEF StorageInv, OffsetsIncrease, HeadIsRetained, BytesAreCounted, EndOffset,
              RetainedFramesAreContiguous, Retained
<1> QED
  BY <1>1, <1>2, <1>3, <1>4 DEF IInv, EndIsCurrent, ReleasedWhenOver, PassMeetsRetainedFrames,
                                FirstAvailableIsAcknowledged

-------------------------------------------------------------------------------
(***************************************************************************)
(* The theorems.                                                           *)
(***************************************************************************)
\* Every reachable state of the replay buffer satisfies the inductive invariant.
THEOREM Inductive == Spec => []IInv
<1>1. Init => IInv
  BY InitEstablishes
<1>2. IInv /\ [Next]_vars => IInv'
  <2> SUFFICES ASSUME IInv, [Next]_vars PROVE IInv'
    OBVIOUS
  <2>1. ASSUME NEW size \in FrameSizes, Record(size) PROVE IInv'
    BY <2>1, RecordKeeps
  <2>2. ASSUME NEW position \in 0..MaxPosition, Acknowledge(position) PROVE IInv'
    <3>1. position \in Nat
      BY ReplayBufferAssumption
    <3> QED
      BY <2>2, <3>1, AcknowledgeKeeps
  <2>3. ASSUME NEW position \in 0..MaxPosition, ReplayFrom(position) PROVE IInv'
    <3>1. position \in Nat
      BY ReplayBufferAssumption
    <3> QED
      BY <2>3, <3>1, ReplayFromKeeps
  <2>4. CASE Emit \/ EmitThrows
    BY <2>4, PassStepKeeps
  <2>5. CASE Clear
    BY <2>5, ClearKeeps
  <2>6. CASE UNCHANGED vars
    BY <2>6 DEF vars, storage, IInv, TypeOK, StorageInv, EndIsCurrent, ReleasedWhenOver,
                FirstAvailableIsAcknowledged, PassMeetsRetainedFrames, OffsetsIncrease,
                HeadIsRetained, BytesAreCounted, RetainedFramesAreContiguous, Retained,
                EndOffset, FirstAvailablePosition
  <2> QED
    BY <2>1, <2>2, <2>3, <2>4, <2>5, <2>6 DEF Next
<1> QED
  BY <1>1, <1>2, PTL DEF Spec

\* Type correctness; retainedBytes within the maxBytes of the constructor.
THEOREM TypeCorrect == Spec => []TypeOK
<1>1. IInv => TypeOK
  BY DEF IInv
<1> QED
  BY <1>1, Inductive, PTL

\* The retained frames tile the interval up to the current position.
THEOREM FramesAreContiguous == Spec => []RetainedFramesAreContiguous
<1>1. IInv => RetainedFramesAreContiguous
  BY DEF IInv, StorageInv
<1> QED
  BY <1>1, Inductive, PTL

\* Exactly what the peer has confirmed is released.
THEOREM ReleasedIsAcknowledged == Spec => []FirstAvailableIsAcknowledged
<1>1. IInv => FirstAvailableIsAcknowledged
  BY DEF IInv
<1> QED
  BY <1>1, Inductive, PTL

\* A replay pass never meets a released slot, whatever is recorded meanwhile.
THEOREM PassIsSafe == Spec => []PassMeetsRetainedFrames
<1>1. IInv => PassMeetsRetainedFrames
  BY DEF IInv
<1> QED
  BY <1>1, Inductive, PTL

\* The byte counter is the distance of the two positions it is meant to bound.
THEOREM BytesAreExact == Spec => []RetainedBytesAreExact
<1>1. IInv => RetainedBytesAreExact
  <2> SUFFICES ASSUME IInv, live PROVE retainedBytes = currentPosition - FirstAvailablePosition
    BY DEF RetainedBytesAreExact
  <2>1. /\ Len(entries) \in Nat /\ head \in 0..Len(entries)
        /\ originPosition \in Nat /\ currentPosition \in Nat
        /\ entries = <<>> <=> Len(entries) = 0
    BY EmptySeq DEF IInv, TypeOK
  <2>2. retainedBytes = EndOffset(Len(entries)) - EndOffset(head)
        /\ EndOffset(Len(entries)) \in Nat /\ EndOffset(head) \in Nat
    BY <2>1, Offsets DEF IInv, StorageInv, BytesAreCounted
  <2>3. CASE entries = <<>>
    BY <2>1, <2>2, <2>3, FirstAvailable DEF IInv
  <2>4. CASE entries # <<>>
    <3>1. /\ FirstAvailablePosition = originPosition + EndOffset(head)
          /\ originPosition + EndOffset(Len(entries)) = currentPosition
      BY <2>4, FirstAvailable DEF IInv, StorageInv, RetainedFramesAreContiguous
    <3> QED
      BY <3>1, <2>1, <2>2
  <2> QED
    BY <2>3, <2>4
<1> QED
  BY <1>1, Inductive, PTL

\* A position the peer reports is accepted for replay exactly when it is a
\* frame boundary that is still retained, or the current position.
THEOREM ReplayStartsAtBoundaries == Spec => []ReplayableExactlyAtBoundaries
<1> DEFINE Starts == {bytes[i].start : i \in Retained} \cup {currentPosition}
<1>1. ASSUME IInv, live, NEW p \in 0..(currentPosition + 1)
      PROVE  CanReplayFrom(p) <=> p \in Starts
  <2> DEFINE L == Len(entries)
  <2>1. /\ TypeOK /\ StorageInv /\ L \in Nat /\ head \in 0..L /\ currentPosition \in Nat
        /\ originPosition \in Nat /\ p \in Nat /\ p >= 0
        /\ entries = <<>> <=> L = 0
    BY <1>1, EmptySeq DEF IInv, TypeOK
  <2>2. \A i \in Retained : /\ i \in 1..L /\ i - 1 \in head..L /\ i - 1 < L
                            /\ bytes[i].start = originPosition + EndOffset(i - 1)
    <3> TAKE i \in Retained
    <3>1. bytes[i] = Frame(originPosition + EndOffset(i - 1), EndOffset(i) - EndOffset(i - 1))
      BY <2>1 DEF StorageInv, RetainedFramesAreContiguous
    <3>2. i \in (head + 1)..L
      BY DEF Retained
    <3>3. i \in 1..L /\ i - 1 \in head..L /\ i - 1 < L
      BY <2>1, <3>2
    <3> QED BY <3>1, <3>3 DEF Frame
  <2>3. /\ \A i \in 0..L : EndOffset(i) \in Nat
        /\ \A i, j \in 0..L : i <= j => EndOffset(i) <= EndOffset(j)
        /\ \A i, j \in 0..L : i < j => EndOffset(i) < EndOffset(j)
    BY <2>1, Offsets DEF StorageInv, OffsetsIncrease
  <2>4. /\ entries # <<>> => /\ FirstAvailablePosition = originPosition + EndOffset(head)
                             /\ currentPosition = originPosition + EndOffset(L)
        /\ entries = <<>> => FirstAvailablePosition = currentPosition /\ head = 0
        /\ FirstAvailablePosition \in Nat
    BY <2>1, FirstAvailable DEF StorageInv, RetainedFramesAreContiguous
  <2>5. FirstAvailablePosition <= currentPosition
    BY <2>1, <2>3, <2>4
  <2>6. ASSUME CanReplayFrom(p) PROVE p \in Starts
    <3>1. PositionIndex(p) # Thrown
      BY <2>6 DEF CanReplayFrom
    <3> DEFINE k == PositionIndex(p)
    <3>2. /\ k \in head..L
          /\ entries = <<>> => p = currentPosition
          /\ entries # <<>> => originPosition + EndOffset(k) = p
      BY <2>1, <3>1, PositionIndexFinds
    <3> HIDE DEF k
    <3>3. CASE entries = <<>> \/ k = L
      BY <2>4, <3>2, <3>3
    <3>4. CASE entries # <<>> /\ k # L
      <4>1. k + 1 \in Retained /\ (k + 1) - 1 = k
        BY <2>1, <3>2, <3>4 DEF Retained
      <4>2. bytes[k + 1].start = originPosition + EndOffset((k + 1) - 1)
        BY <2>2, <4>1
      <4>3. bytes[k + 1].start = p
        BY <3>2, <3>4, <4>1, <4>2
      <4> QED BY <4>1, <4>3
    <3> QED BY <3>3, <3>4
  <2>7. CASE p = currentPosition
    <3>1. PositionIndex(p) = L
      BY <2>1, <2>7 DEF PositionIndex
    <3> QED BY <2>1, <2>5, <2>7, <3>1 DEF CanReplayFrom, Thrown
  <2>8. ASSUME NEW i \in Retained, p = bytes[i].start, p # currentPosition
        PROVE  CanReplayFrom(p)
    <3> DEFINE o == originPosition
               hits == {n \in (head + 1)..L : entries[n] = p - o}
    <3>1. /\ i - 1 \in head..L /\ i - 1 < L /\ p = o + EndOffset(i - 1) /\ entries # <<>>
      BY <2>1, <2>2, <2>8
    <3>2. /\ EndOffset(i - 1) \in Nat /\ EndOffset(head) \in Nat /\ EndOffset(L) \in Nat
          /\ EndOffset(head) <= EndOffset(i - 1) /\ EndOffset(i - 1) < EndOffset(L)
      BY <2>1, <2>3, <3>1
    <3>3. p >= FirstAvailablePosition /\ p < currentPosition /\ p >= o /\ p - o = EndOffset(i - 1)
      BY <2>1, <2>4, <3>1, <3>2
    <3>4. CASE p = FirstAvailablePosition
      <4>1. PositionIndex(p) = head
        BY <2>1, <2>8, <3>3, <3>4 DEF PositionIndex
      <4> QED BY <2>1, <3>3, <4>1 DEF CanReplayFrom, Thrown
    <3>5. CASE p # FirstAvailablePosition
      <4>1. i - 1 # head
        BY <2>4, <3>1, <3>5
      <4>2. i - 1 \in (head + 1)..L /\ i - 1 # 0
        BY <2>1, <3>1, <4>1
      <4>3. entries[i - 1] = p - o
        BY <3>3, <4>2 DEF EndOffset
      <4>4. hits # {}
        BY <4>2, <4>3
      <4>5. PositionIndex(p) = CHOOSE n \in hits : TRUE
        <5>1. ~(p < 0 \/ p > currentPosition) /\ ~(p < FirstAvailablePosition \/ p < o)
          BY <2>1, <2>4, <3>3
        <5> QED BY <2>8, <3>5, <4>4, <5>1 DEF PositionIndex
      <4>6. PositionIndex(p) \in hits
        BY <4>4, <4>5
      <4>7. PositionIndex(p) # Thrown
        BY <2>1, <4>6 DEF Thrown
      <4> QED BY <3>3, <4>7 DEF CanReplayFrom
    <3> QED BY <3>4, <3>5
  <2> QED BY <2>6, <2>7, <2>8
<1>2. IInv => ReplayableExactlyAtBoundaries
  BY <1>1 DEF ReplayableExactlyAtBoundaries
<1> QED BY <1>2, Inductive, PTL

-------------------------------------------------------------------------------
(***************************************************************************)
(* The refinement.  The log is what the arrays hold after the head, the    *)
(* frames due are the rest of the snapshot.                                *)
(***************************************************************************)
Held == SubSeq(bytes, head + 1, Len(bytes))
Due == IF pass.running THEN SubSeq(bytes, pass.index, pass.replayEnd) ELSE <<>>

\* A cut out of a sequence, element by element.
LEMMA CutOf ==
  ASSUME NEW S, NEW s \in Seq(S), NEW m \in Nat, NEW n \in Nat, n <= Len(s), m <= n
  PROVE  /\ SubSeq(s, m + 1, n) \in Seq(S) /\ Len(SubSeq(s, m + 1, n)) = n - m
         /\ \A i \in 1..(n - m) : SubSeq(s, m + 1, n)[i] = s[m + i]
<1>1. \A i \in (m + 1)..n : s[i] \in S
  BY ElementOfSeq
<1>2. /\ SubSeq(s, m + 1, n) \in Seq(S)
      /\ Len(SubSeq(s, m + 1, n)) = IF m + 1 <= n THEN n - (m + 1) + 1 ELSE 0
      /\ \A i \in 1..(n - (m + 1) + 1) : SubSeq(s, m + 1, n)[i] = s[(m + 1) + i - 1]
  BY <1>1, SubSeqProperties
<1>3. /\ n - (m + 1) + 1 = n - m /\ (m + 1 <= n \/ n - m = 0)
      /\ \A i \in 1..(n - m) : (m + 1) + i - 1 = m + i
  OBVIOUS
<1> QED BY <1>2, <1>3

LEMMA HeldFrames ==
  ASSUME TypeOK
  PROVE  /\ Held \in Seq(Stored) /\ Len(Held) = Len(entries) - head
         /\ Len(entries) \in Nat /\ head \in 0..Len(entries) /\ Len(bytes) = Len(entries)
         /\ \A i \in 1..(Len(entries) - head) : Held[i] = bytes[head + i]
<1>1. /\ bytes \in Seq(Stored) /\ Len(bytes) = Len(entries) /\ Len(entries) \in Nat
      /\ head \in 0..Len(entries) /\ head \in Nat /\ head <= Len(bytes)
  BY DEF TypeOK, Stored
<1> QED BY <1>1, CutOf DEF Held

\* Releasing up to index h drops the first h - head frames of the log.
LEMMA ReleaseDrops ==
  ASSUME TypeOK, StorageInv, NEW h, NEW a, ReleasesUpTo(h, a),
         AdvanceHeadAndCompact(h, a), UNCHANGED currentPosition
  PROVE  /\ h - head \in 0..Len(Held)
         /\ Held' = SubSeq(Held, (h - head) + 1, Len(Held))
         /\ Len(Held') = Len(entries') - head'
<1> DEFINE L == Len(entries)
           k == h - head
<1>1. /\ Held \in Seq(Stored) /\ Len(Held) = L - head /\ L \in Nat /\ head \in 0..L
      /\ \A i \in 1..(L - head) : Held[i] = bytes[head + i]
      /\ bytes \in Seq(Stored) /\ Len(bytes) = L
  BY HeldFrames DEF TypeOK, Stored
<1>2. h \in head..L /\ k \in Nat /\ k <= Len(Held) /\ k \in 0..Len(Held) /\ Len(Held) \in Nat
  BY <1>1 DEF ReleasesUpTo
<1>3. bytes' \in Seq(Stored) /\ head' \in 0..Len(bytes') /\ Len(bytes') = Len(entries')
      /\ Len(bytes') \in Nat
  BY ReleaseKeepsStorage DEF Released, StorageTypes
<1>4. /\ Len(bytes') - head' = L - h
      /\ \A i \in 1..(L - h) : bytes'[head' + i] = bytes[h + i]
  <2>1. CASE h = L
    <3>1. bytes' = <<>> /\ head' = 0 /\ Len(<<>>) = 0 /\ L - h = 0
      BY <1>1, <2>1, EmptySeq DEF AdvanceHeadAndCompact
    <3> QED BY <3>1
  <2>2. CASE h # L /\ CompactedFrom(h)
    <3>1. bytes' = [i \in 1..(L - h) |-> bytes[i + h]] /\ head' = 0
      BY <2>2 DEF AdvanceHeadAndCompact
    <3>2. L - h \in Nat /\ \A i \in 1..(L - h) : i + h \in 1..L /\ 0 + i = i /\ i + h = h + i
      BY <1>1, <1>2
    <3>3. \A i \in 1..(L - h) : bytes[i + h] \in Stored
      BY <1>1, <3>2, ElementOfSeq
    <3>4. bytes' \in [1..(L - h) -> Stored]
      BY <3>1, <3>3
    <3>5. Len(bytes') = L - h
      BY <3>2, <3>4, FunctionIsSequence
    <3>6. \A i \in 1..(L - h) : bytes'[i] = bytes[h + i]
      BY <3>1, <3>2
    <3> QED BY <3>1, <3>2, <3>5, <3>6
  <2>3. CASE h # L /\ ~CompactedFrom(h)
    <3>1. /\ bytes' = [i \in 1..L |-> IF i <= h THEN Undefined ELSE bytes[i]]
          /\ head' = h /\ entries' = entries
      BY <2>3 DEF AdvanceHeadAndCompact
    <3>2. \A i \in 1..(L - h) : h + i \in 1..L /\ ~(h + i <= h)
      BY <1>1, <1>2
    <3>3. \A i \in 1..(L - h) : bytes'[h + i] = bytes[h + i]
      BY <3>1, <3>2
    <3> QED BY <1>3, <3>1, <3>3
  <2> QED BY <2>1, <2>2, <2>3
<1> DEFINE after == SubSeq(Held, k + 1, Len(Held))
<1>5. /\ Held' \in Seq(Stored) /\ Len(Held') = L - h
      /\ \A i \in 1..(L - h) : Held'[i] = bytes[h + i]
  <2>1. /\ Held' = SubSeq(bytes', head' + 1, Len(bytes'))
        /\ head' \in Nat /\ head' <= Len(bytes')
    BY <1>3 DEF Held
  <2> DEFINE b == bytes'
             d == head'
             r == SubSeq(b, d + 1, Len(b))
  <2>2. b \in Seq(Stored) /\ d \in Nat /\ Len(b) \in Nat /\ d <= Len(b)
    BY <1>3, <2>1
  <2> HIDE DEF b, d
  <2>3. /\ r \in Seq(Stored) /\ Len(r) = Len(b) - d
        /\ \A i \in 1..(Len(b) - d) : r[i] = b[d + i]
    BY <2>2, CutOf
  <2> QED BY <1>4, <2>1, <2>3 DEF b, d
<1>6. /\ after \in Seq(Stored) /\ Len(after) = L - h
      /\ \A i \in 1..(L - h) : after[i] = bytes[h + i]
  <2>1. /\ after \in Seq(Stored) /\ Len(after) = Len(Held) - k
        /\ \A i \in 1..(Len(Held) - k) : after[i] = Held[k + i]
    BY <1>1, <1>2, CutOf
  <2>2. /\ Len(Held) - k = L - h
        /\ \A i \in 1..(L - h) : k + i \in 1..(L - head) /\ head + (k + i) = h + i
    BY <1>1, <1>2
  <2> HIDE DEF after, k
  <2>3. \A i \in 1..(L - h) : after[i] = bytes[head + (k + i)]
    BY <1>1, <2>1, <2>2
  <2> QED BY <2>1, <2>2, <2>3
<1>7. Held' = after
  <2> HIDE DEF after
  <2>1. \A i \in 1..Len(Held') : Held'[i] = after[i]
    BY <1>5, <1>6
  <2> QED BY <1>5, <1>6, <2>1, SeqEqual
<1>8. Len(Held') = Len(entries') - head'
  BY <1>3, <1>4, <1>5
<1> QED BY <1>2, <1>7, <1>8

\* Nothing is due outside a pass.
LEMMA NothingDue == ~pass.running => Due = <<>>
BY DEF Due

LEMMA RecordStores ==
  ASSUME IInv, NEW size \in FrameSizes, Record(size)
  PROVE  Log!Store(size)
<1> DEFINE L == Len(entries)
           f == Frame(currentPosition, size)
<1>1. /\ live /\ live' = live /\ retainedBytes + size <= MaximumBytes
      /\ retainedBytes' = retainedBytes + size /\ currentPosition' = currentPosition + size
      /\ bytes' = Append(bytes, f) /\ head' = head /\ pass' = pass
  BY DEF Record
<1>2. /\ bytes \in Seq(Stored) /\ Len(bytes) = L /\ L \in Nat /\ head \in 0..L /\ f \in Stored
      /\ Held \in Seq(Stored) /\ Len(Held) = L - head
      /\ \A i \in 1..(L - head) : Held[i] = bytes[head + i]
  <2>1. size \in Nat /\ currentPosition \in Nat
    BY ReplayBufferAssumption DEF IInv, TypeOK
  <2>2. f \in Stored
    BY <2>1 DEF Frame, Stored
  <2>3. TypeOK
    BY DEF IInv
  <2> QED BY <2>2, <2>3, HeldFrames DEF TypeOK, Stored
<1> HIDE DEF f
<1>3. /\ bytes' \in Seq(Stored) /\ Len(bytes') = L + 1 /\ bytes'[L + 1] = f
      /\ \A i \in 1..L : bytes'[i] = bytes[i]
  BY <1>1, <1>2, AppendProperties
<1>4. Held' = Append(Held, f)
  <2> DEFINE b == bytes'
             r == SubSeq(b, head + 1, L + 1)
             s == Append(Held, f)
  <2>1. Held' = r
    BY <1>1, <1>3 DEF Held
  <2>2. b \in Seq(Stored) /\ head \in Nat /\ L + 1 \in Nat /\ L + 1 <= Len(b) /\ head <= L + 1
    BY <1>2, <1>3
  <2>3. b[L + 1] = f /\ \A i \in 1..L : b[i] = bytes[i]
    BY <1>3
  <2> HIDE DEF b
  <2>4. /\ r \in Seq(Stored) /\ Len(r) = (L + 1) - head
        /\ \A i \in 1..((L + 1) - head) : r[i] = b[head + i]
    BY <2>2, CutOf
  <2>5. /\ s \in Seq(Stored) /\ Len(s) = (L - head) + 1 /\ s[(L - head) + 1] = f
        /\ \A i \in 1..(L - head) : s[i] = Held[i]
    BY <1>2, AppendProperties
  <2> HIDE DEF r, s
  <2>6. ASSUME NEW i \in 1..Len(r) PROVE r[i] = s[i]
    <3>1. i \in 1..(L - head) \/ i = (L - head) + 1
      <4>1. i \in 1..((L + 1) - head)
        BY <2>4
      <4>2. L \in Nat /\ head \in Nat /\ head <= L
        BY <1>2
      <4> HIDE DEF L
      <4> QED BY <4>1, <4>2
    <3>2. CASE i \in 1..(L - head)
      <4>1. head + i \in 1..L /\ i \in 1..((L + 1) - head)
        BY <1>2, <3>2
      <4> QED BY <1>2, <2>3, <2>4, <2>5, <3>2, <4>1
    <3>3. CASE i = (L - head) + 1
      <4>1. head + i = L + 1 /\ i \in 1..((L + 1) - head)
        BY <1>2, <3>3
      <4> QED BY <2>3, <2>4, <2>5, <3>3, <4>1
    <3> QED BY <3>1, <3>2, <3>3
  <2>7. Len(r) = Len(s)
    BY <1>2, <2>4, <2>5
  <2>8. r = s
    BY <2>4, <2>5, <2>6, <2>7, SeqEqual
  <2> QED BY <2>1, <2>8 DEF s
<1>5. Due' = Due
  <2>1. CASE ~pass.running
    BY <1>1, <2>1 DEF Due
  <2>2. CASE pass.running
    <3> DEFINE i == pass.index
               n == pass.replayEnd
               b == bytes'
    <3>1. /\ i \in (head + 1)..L /\ n \in (head + 1)..L /\ i <= n
      BY <1>2, <2>2 DEF IInv, PassMeetsRetainedFrames, Retained
    <3>2. Due = SubSeq(bytes, i, n) /\ Due' = SubSeq(b, i, n)
      BY <1>1, <2>2 DEF Due
    <3>3. b \in Seq(Stored) /\ \A m \in 1..L : b[m] = bytes[m]
      BY <1>3
    <3>4. Len(b) = L + 1
      BY <1>3
    <3> HIDE DEF i, n, b
    <3>5. i \in Int /\ n \in Int /\ i - 1 \in Nat /\ n \in Nat /\ i - 1 <= n /\ n <= L /\ n <= Len(b)
          /\ (i - 1) + 1 = i
      BY <1>2, <3>1, <3>4
    <3> DEFINE s == SubSeq(bytes, i, n)
               t == SubSeq(b, i, n)
    <3>6. /\ s \in Seq(Stored) /\ Len(s) = n - (i - 1)
          /\ \A m \in 1..(n - (i - 1)) : s[m] = bytes[(i - 1) + m]
      BY <1>2, <3>5, CutOf
    <3>7. /\ t \in Seq(Stored) /\ Len(t) = n - (i - 1)
          /\ \A m \in 1..(n - (i - 1)) : t[m] = b[(i - 1) + m]
      BY <3>3, <3>5, CutOf
    <3>8. \A m \in 1..(n - (i - 1)) : (i - 1) + m \in 1..L
      BY <1>2, <3>1
    <3> HIDE DEF s, t
    <3>9. \A m \in 1..Len(s) : s[m] = t[m]
      BY <3>3, <3>6, <3>7, <3>8
    <3>10. s = t
      BY <3>6, <3>7, <3>9, SeqEqual
    <3> QED BY <3>2, <3>10 DEF s, t
  <2> QED BY <2>1, <2>2
<1> QED BY <1>1, <1>4, <1>5 DEF Log!Store, Log!Frame, Held, Due, f, Frame

\* A release at a position is a drop at the frame that starts there.
LEMMA ReleaseImplements ==
  ASSUME IInv, live, live' = live, currentPosition' = currentPosition,
         NEW h, NEW position \in Nat, ReleasesUpTo(h, position),
         AdvanceHeadAndCompact(h, position)
  PROVE  /\ h - head \in 0..Len(Held) /\ Len(Held') = Len(entries') - head'
         /\ Log!DropFirst(h - head) /\ Held' = SubSeq(Held, (h - head) + 1, Len(Held))
<1> DEFINE L == Len(entries)
           k == h - head
<1>1. TypeOK /\ StorageInv
  BY DEF IInv
<1>2. k \in 0..Len(Held) /\ Held' = SubSeq(Held, k + 1, Len(Held)) /\ Len(Held') = Len(entries') - head'
  BY <1>1, ReleaseDrops
<1>3. /\ Len(Held) = L - head /\ L \in Nat /\ head \in 0..L
      /\ \A i \in 1..(L - head) : Held[i] = bytes[head + i]
      /\ currentPosition \in Nat /\ originPosition \in Nat
      /\ entries = <<>> <=> L = 0
  BY <1>1, HeldFrames, EmptySeq DEF TypeOK
<1>4. /\ h \in head..L
      /\ entries # <<>> => originPosition + EndOffset(h) = position
      /\ entries = <<>> => position = currentPosition
  BY DEF ReleasesUpTo
<1>5. /\ retainedBytes' = EndOffset(L) - EndOffset(h) /\ EndOffset(h) \in Nat
      /\ EndOffset(L) \in Nat
  BY <1>1, <1>3, ReleasedBytes, Offsets DEF StorageInv
<1>6. entries # <<>> => originPosition + EndOffset(L) = currentPosition
  BY <1>1 DEF StorageInv, RetainedFramesAreContiguous
<1>7. position = IF k = Len(Held) THEN currentPosition ELSE Held[k + 1].start
  <2>1. CASE h = L
    <3>1. k = Len(Held)
      BY <1>3, <2>1
    <3>2. position = currentPosition
      BY <1>4, <1>6, <2>1
    <3> QED BY <3>1, <3>2
  <2>2. CASE h # L
    <3>1. /\ k # Len(Held) /\ k + 1 \in 1..(L - head) /\ head + (k + 1) = h + 1
          /\ entries # <<>> /\ h + 1 \in (head + 1)..L /\ (h + 1) - 1 = h
      BY <1>3, <1>4, <2>2
    <3>2. Held[k + 1] = bytes[h + 1]
      BY <1>3, <3>1
    <3>3. bytes[h + 1] = Frame(originPosition + EndOffset((h + 1) - 1), EndOffset(h + 1) - EndOffset((h + 1) - 1))
      BY <1>1, <3>1 DEF StorageInv, RetainedFramesAreContiguous, Retained
    <3>4. bytes[h + 1].start = originPosition + EndOffset(h)
      BY <3>1, <3>3 DEF Frame
    <3> QED BY <1>4, <3>1, <3>2, <3>4
  <2> QED BY <2>1, <2>2
<1>8. retainedBytes' = currentPosition - position
  <2>1. CASE entries = <<>>
    <3>1. h = L
      BY <1>3, <1>4, <2>1
    <3> QED BY <1>3, <1>4, <1>5, <2>1, <3>1
  <2>2. CASE entries # <<>>
    BY <1>3, <1>4, <1>5, <1>6, <2>2
  <2> QED BY <2>1, <2>2
<1>9. retainedBytes' = currentPosition - IF k = Len(Held) THEN currentPosition ELSE Held[k + 1].start
  BY <1>7, <1>8
<1>10. Log!DropFirst(k)
  BY <1>2, <1>9 DEF Log!DropFirst, Log!Boundary, Held
<1> QED BY <1>2, <1>10

LEMMA AcknowledgeImplements ==
  ASSUME IInv, NEW position \in Nat, Acknowledge(position)
  PROVE  \E k \in 0..Len(Held) : Log!Acknowledge(k)
<1> DEFINE h == PositionIndex(position)
<1>1. /\ live /\ live' = live /\ ~pass.running /\ position > acknowledgedPosition /\ h # Thrown
      /\ currentPosition' = currentPosition /\ pass' = pass
      /\ IF h <= head THEN UNCHANGED storage ELSE AdvanceHeadAndCompact(h, position)
  BY DEF Acknowledge
<1>2. ReleasesUpTo(h, position)
  BY <1>1, PositionIndexFinds DEF IInv, ReleasesUpTo
<1>3. ~(h <= head)
  <2>1. h \in head..Len(entries) /\ head \in 0..Len(entries) /\ Len(entries) \in Nat
    BY <1>2 DEF IInv, TypeOK, ReleasesUpTo
  <2>2. FirstAvailablePosition = acknowledgedPosition /\ acknowledgedPosition \in Nat
    BY <1>1 DEF IInv, FirstAvailableIsAcknowledged, TypeOK
  <2>3. CASE entries = <<>>
    BY <2>2, <2>3, <1>1, <1>2, FirstAvailable DEF IInv, ReleasesUpTo
  <2>4. CASE entries # <<>>
    <3>1. /\ originPosition + EndOffset(h) = position
          /\ originPosition + EndOffset(head) = acknowledgedPosition
      BY <2>2, <2>4, <1>2, FirstAvailable DEF IInv, ReleasesUpTo
    <3>2. h # head
      BY <3>1, <2>2, <1>1
    <3> QED BY <3>2, <2>1
  <2> QED BY <2>3, <2>4
<1>4. h - head \in 0..Len(Held) /\ Log!DropFirst(h - head)
  <2>1. AdvanceHeadAndCompact(h, position)
    BY <1>1, <1>3
  <2> HIDE DEF h
  <2> QED BY <1>1, <1>2, <2>1, ReleaseImplements
<1>5. Due = <<>> /\ Due' = Due
  BY <1>1, NothingDue DEF Due
<1>6. Log!Acknowledge(h - head)
  BY <1>4, <1>5 DEF Log!Acknowledge, Due
<1> QED BY <1>4, <1>6

LEMMA ReplayFromImplements ==
  ASSUME IInv, NEW position \in Nat, ReplayFrom(position)
  PROVE  \E k \in 0..Len(Held) : Log!StartReplay(k)
<1> DEFINE h == PositionIndex(position)
<1>1. /\ live /\ live' = live /\ ~pass.running /\ h # Thrown /\ position >= FirstAvailablePosition
      /\ currentPosition' = currentPosition
      /\ AdvanceHeadAndCompact(h, IF position > acknowledgedPosition THEN position
                                  ELSE acknowledgedPosition)
      /\ pass' = IF head' = Len(entries') THEN Idle
                 ELSE [running |-> TRUE, index |-> head' + 1, replayEnd |-> Len(entries')]
  BY DEF ReplayFrom, CanReplayFrom
<1>2. ReleasesUpTo(h, position)
  BY <1>1, PositionIndexFinds DEF IInv, ReleasesUpTo
<1>3. AdvanceHeadAndCompact(h, position)
  <2>1. FirstAvailablePosition = acknowledgedPosition /\ acknowledgedPosition \in Nat
    BY <1>1 DEF IInv, FirstAvailableIsAcknowledged, TypeOK
  <2>2. (IF position > acknowledgedPosition THEN position ELSE acknowledgedPosition) = position
    BY <1>1, <2>1
  <2> QED BY <1>1, <2>2
<1>4. /\ h - head \in 0..Len(Held) /\ Log!DropFirst(h - head) /\ Len(Held') = Len(entries') - head'
      /\ Released(position)'
  <2>1. Released(position)'
    BY <1>1, <1>2, <1>3, ReleaseKeepsStorage DEF IInv
  <2> HIDE DEF h
  <2> QED BY <1>1, <1>2, <1>3, <2>1, ReleaseImplements
<1>5. Due' = Held'
  <2>1. /\ Len(bytes') = Len(entries') /\ Len(entries') \in Nat /\ head' \in 0..Len(entries')
        /\ bytes' \in Seq(Stored)
    BY <1>4 DEF Released, StorageTypes
  <2>2. CASE head' = Len(entries')
    <3>1. Due' = <<>>
      BY <1>1, <2>2 DEF Due, Idle
    <3>2. Held' = <<>>
      <4>1. Held' = SubSeq(bytes', head' + 1, Len(bytes'))
        BY DEF Held
      <4>2. \A n \in Nat : n + 1 \in Int /\ n \in Int /\ n < n + 1
        OBVIOUS
      <4> QED BY <2>1, <2>2, <4>1, <4>2, SubSeqEmpty
    <3> QED BY <3>1, <3>2
  <2>3. CASE head' # Len(entries')
    <3>1. pass' = [running |-> TRUE, index |-> head' + 1, replayEnd |-> Len(entries')]
      BY <1>1, <2>3
    <3>2. pass'.running /\ pass'.index = head' + 1 /\ pass'.replayEnd = Len(bytes')
      BY <2>1, <3>1
    <3> QED BY <3>2 DEF Due, Held
  <2> QED BY <2>2, <2>3
<1>6. Due = <<>>
  BY <1>1, NothingDue
<1>7. Log!StartReplay(h - head)
  BY <1>4, <1>5, <1>6 DEF Log!StartReplay, Due, Held
<1> QED BY <1>4, <1>7

LEMMA EmitHandsOut ==
  ASSUME IInv, Emit \/ EmitThrows
  PROVE  Log!HandOut \/ Log!AbandonReplay
<1> DEFINE i == pass.index
           n == pass.replayEnd
<1>1. /\ bytes' = bytes /\ head' = head /\ retainedBytes' = retainedBytes
      /\ currentPosition' = currentPosition /\ live' = live /\ pass.running
  BY DEF Emit, EmitThrows, storage
<1>2. /\ i \in 1..Len(bytes) /\ n \in i..Len(bytes) /\ bytes \in Seq(Stored)
      /\ pass \in [running : BOOLEAN, index : Nat, replayEnd : Nat]
  <2>1. /\ Len(bytes) = Len(entries) /\ Len(entries) \in Nat /\ head \in 0..Len(entries)
        /\ bytes \in Seq(Stored)
        /\ pass \in [running : BOOLEAN, index : Nat, replayEnd : Nat]
    BY DEF IInv, TypeOK, Stored
  <2>2. i \in (head + 1)..Len(entries) /\ n \in (head + 1)..Len(entries) /\ i <= n
    BY <1>1 DEF IInv, PassMeetsRetainedFrames, Retained
  <2> QED BY <2>1, <2>2
<1>3. Due = SubSeq(bytes, i, n)
  BY <1>1 DEF Due
<1>4. Due # <<>> /\ Tail(Due) = SubSeq(bytes, i + 1, n)
  <2>1. Tail(SubSeq(bytes, i, n)) = SubSeq(bytes, i + 1, n)
    BY <1>2, HeadTailOfSubSeq
  <2>2. \A m \in i..n : bytes[m] \in Stored
    BY <1>2, ElementOfSeq
  <2>3. i \in Int /\ n \in Int /\ i <= n /\ n - i + 1 # 0
    BY <1>2
  <2>4. Len(SubSeq(bytes, i, n)) = n - i + 1
    BY <2>2, <2>3, SubSeqProperties
  <2>5. Len(<<>>) = 0
    OBVIOUS
  <2> QED BY <1>3, <2>1, <2>3, <2>4, <2>5
<1>5. Held' = Held
  BY <1>1 DEF Held
<1>6. CASE pass' = Idle
  <2>1. Due' = <<>>
    BY <1>6 DEF Due, Idle
  <2> QED BY <1>1, <1>4, <1>5, <2>1 DEF Log!AbandonReplay, Due, Held
<1>7. CASE pass' = [pass EXCEPT !.index = @ + 1]
  <2>1. pass'.running /\ pass'.index = i + 1 /\ pass'.replayEnd = n
    BY <1>1, <1>2, <1>7
  <2>2. Due' = SubSeq(bytes, i + 1, n)
    BY <1>1, <2>1 DEF Due
  <2> QED BY <1>1, <1>4, <1>5, <2>2 DEF Log!HandOut, Due, Held
<1> QED BY <1>6, <1>7 DEF Emit, EmitThrows

LEMMA ClearReleases ==
  ASSUME IInv, Clear
  PROVE  Log!Release
<1>1. /\ live /\ live' = FALSE /\ bytes' = <<>> /\ head' = 0 /\ retainedBytes' = 0
      /\ pass' = Idle /\ currentPosition' = currentPosition
  BY DEF Clear
<1>2. Held' = <<>>
  <2>1. Held' = SubSeq(<<>>, 0 + 1, Len(<<>>)) /\ Len(<<>>) = 0
    BY <1>1 DEF Held
  <2>2. 0 + 1 \in Int /\ 0 \in Int /\ 0 < 0 + 1
    OBVIOUS
  <2> QED BY <2>1, <2>2, SubSeqEmpty
<1>3. Due' = <<>>
  BY <1>1 DEF Due, Idle
<1> QED BY <1>1, <1>2, <1>3 DEF Log!Release, Held, Due

\* The buffer implements the log a session relies on: it only grows at its end,
\* only loses frames that a reported boundary covers, and a replay writes a
\* snapshot of it in order, each frame once, whatever is recorded meanwhile and
\* whenever the arrays are compacted.
THEOREM ImplementsTheLog == Spec => ImplementsRetainedLog
<1>1. Init => Log!Init
  <2> SUFFICES ASSUME Init PROVE Log!Init
    OBVIOUS
  <2>1. /\ bytes = <<>> /\ head = 0 /\ retainedBytes = 0 /\ currentPosition = 0
        /\ pass = Idle /\ live = TRUE
    BY DEF Init
  <2>2. SubSeq(bytes, head + 1, Len(bytes)) = <<>>
    <3>1. Len(<<>>) = 0 /\ 0 + 1 \in Int /\ 0 \in Int /\ 0 < 0 + 1
      OBVIOUS
    <3> QED BY <2>1, <3>1, SubSeqEmpty
  <2> QED BY <2>1, <2>2 DEF Log!Init, Idle
<1>2. IInv /\ [Next]_vars => [Log!Next]_(Log!logVars)
  <2> SUFFICES ASSUME IInv, [Next]_vars PROVE [Log!Next]_(Log!logVars)
    OBVIOUS
  <2>1. ASSUME NEW size \in FrameSizes, Record(size) PROVE Log!Next
    BY <2>1, RecordStores DEF Log!Next
  <2>2. ASSUME NEW position \in 0..MaxPosition, Acknowledge(position) \/ ReplayFrom(position)
        PROVE  Log!Next
    <3>1. position \in Nat
      BY ReplayBufferAssumption
    <3> QED BY <2>2, <3>1, AcknowledgeImplements, ReplayFromImplements DEF Log!Next, Held
  <2>3. CASE Emit \/ EmitThrows
    BY <2>3, EmitHandsOut DEF Log!Next
  <2>4. CASE Clear
    BY <2>4, ClearReleases DEF Log!Next
  <2>5. CASE UNCHANGED vars
    BY <2>5 DEF vars, storage, Log!logVars
  <2> QED BY <2>1, <2>2, <2>3, <2>4, <2>5 DEF Next
<1> QED BY <1>1, <1>2, Inductive, PTL DEF Spec, ImplementsRetainedLog, Log!Spec
===============================================================================

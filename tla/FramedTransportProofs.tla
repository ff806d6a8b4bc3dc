------------------------- MODULE FramedTransportProofs -------------------------
(***************************************************************************)
(* The way of a logical frame from a requester to a controller: its        *)
(* fragments, the transport that carries them, and the server session that *)
(* glues together those of each stream.                                    *)
(***************************************************************************)
EXTENDS FragmentExchange, FramedTransport, SequenceTheorems, WellFoundedInduction, TLAPS

\* The cursors of an emission loop: metadata is exhausted before data is touched.
Cursors(B) ==
  {c \in [frame : FramesOf(B), metadata : Nat, data : Nat, first : BOOLEAN] :
     /\ c.metadata <= Len(c.frame.metadata)
     /\ c.data <= Len(c.frame.data)
     /\ c.first => c.metadata = 0 /\ c.data = 0
     /\ c.data > 0 => c.metadata = Len(c.frame.metadata)}

\* What the fields of a cursor's frame are.
LEMMA FrameFields ==
  ASSUME NEW B, NEW c \in Cursors(B)
  PROVE  /\ c.frame.type \in Requests \cup {"payload"} /\ c.frame.stream \in Nat
         /\ c.frame.follows = FALSE /\ c.frame.next \in BOOLEAN /\ c.frame.complete \in BOOLEAN
         /\ c.frame.hasMetadata \in BOOLEAN
         /\ c.frame.metadata \in Seq(B) /\ c.frame.data \in Seq(B)
         /\ Len(c.frame.metadata) \in Nat /\ Len(c.frame.data) \in Nat
         /\ c.metadata \in 0..Len(c.frame.metadata) /\ c.data \in 0..Len(c.frame.data)
         /\ c.first \in BOOLEAN
         /\ c.first => c.metadata = 0 /\ c.data = 0
         /\ c.data > 0 => c.metadata = Len(c.frame.metadata)
         /\ Len(c.frame.metadata) > 0 => c.frame.hasMetadata
<1>1. /\ c \in [frame : FramesOf(B), metadata : Nat, data : Nat, first : BOOLEAN]
      /\ c.metadata <= Len(c.frame.metadata) /\ c.data <= Len(c.frame.data)
      /\ c.first => c.metadata = 0 /\ c.data = 0
      /\ c.data > 0 => c.metadata = Len(c.frame.metadata)
  BY Zenon DEF Cursors
<1>2. c.frame \in FramesOf(B) /\ c.metadata \in Nat /\ c.data \in Nat /\ c.first \in BOOLEAN
  BY <1>1
<1> DEFINE f == c.frame
<1> HIDE DEF f
<1>3. /\ f \in [type : Requests \cup {"payload"}, stream : Nat, follows : {FALSE}, next : BOOLEAN,
                complete : BOOLEAN, hasMetadata : BOOLEAN, metadata : Seq(B), data : Seq(B)]
      /\ Sendable(f)
  BY <1>2, Zenon DEF FramesOf, f
<1>4. /\ f.type \in Requests \cup {"payload"} /\ f.stream \in Nat /\ f.follows \in {FALSE}
      /\ f.next \in BOOLEAN /\ f.complete \in BOOLEAN /\ f.hasMetadata \in BOOLEAN
      /\ f.metadata \in Seq(B) /\ f.data \in Seq(B)
  BY <1>3
<1>5. Len(f.metadata) \in Nat /\ Len(f.data) \in Nat
  BY <1>4, LenProperties
<1>6. Len(f.metadata) > 0 => f.hasMetadata
  BY <1>3, Zenon DEF Sendable
<1>7. c.metadata \in 0..Len(f.metadata) /\ c.data \in 0..Len(f.data)
  BY <1>1, <1>2, <1>5 DEF f
<1> QED BY <1>1, <1>2, <1>4, <1>5, <1>6, <1>7, Zenon DEF f

\* The numbers of a cursor.
LEMMA CursorNumbers ==
  ASSUME NEW B, NEW c \in Cursors(B)
  PROVE  /\ Len(c.frame.metadata) \in Nat /\ Len(c.frame.data) \in Nat
         /\ c.metadata \in 0..Len(c.frame.metadata) /\ c.data \in 0..Len(c.frame.data)
         /\ c.first => c.metadata = 0 /\ c.data = 0
         /\ c.data > 0 => c.metadata = Len(c.frame.metadata)
         /\ MetadataLeft(c) = Len(c.frame.metadata) - c.metadata /\ MetadataLeft(c) \in Nat
         /\ DataLeft(c) = Len(c.frame.data) - c.data /\ DataLeft(c) \in Nat
         /\ MetadataLeft(c) > 0 => IncludesMetadata(c)
<1>1. /\ Len(c.frame.metadata) \in Nat /\ Len(c.frame.data) \in Nat
      /\ c.metadata \in 0..Len(c.frame.metadata) /\ c.data \in 0..Len(c.frame.data)
      /\ c.first => c.metadata = 0 /\ c.data = 0
      /\ c.data > 0 => c.metadata = Len(c.frame.metadata)
  BY FrameFields, Zenon
<1>2. MetadataLeft(c) = Len(c.frame.metadata) - c.metadata /\ DataLeft(c) = Len(c.frame.data) - c.data
  BY DEF MetadataLeft, DataLeft
<1>3. MetadataLeft(c) \in Nat /\ DataLeft(c) \in Nat
  BY <1>1, <1>2, SMTT(30)
<1>4. MetadataLeft(c) > 0 => IncludesMetadata(c)
  BY Zenon DEF IncludesMetadata
<1> QED BY <1>1, <1>2, <1>3, <1>4, Zenon

\* The bytes of the next fragment before its metadata and data.
HeadLength(c) == Overhead(Kind(c), IncludesMetadata(c))

\* A head is 6 to 13 bytes long, and that of a continuation is the shortest of its kind.
LEMMA HeadLengths ==
  ASSUME NEW B, NEW c \in Cursors(B)
  PROVE  /\ IncludesMetadata(c) \in BOOLEAN /\ MaxFrameLength \in Nat /\ HeadLength(c) \in 6..13
         /\ Capacity(c) = MaxFrameLength - HeadLength(c) /\ Capacity(c) \in Int
         /\ IncludesMetadata(c) => HeadLength(c) \in {9, 13}
         /\ ~IncludesMetadata(c) => HeadLength(c) \in {6, 10}
         /\ (~c.first /\ IncludesMetadata(c)) => HeadLength(c) = 9
         /\ (~c.first /\ ~IncludesMetadata(c)) => HeadLength(c) = 6
<1>1. \A type : Overhead(type, TRUE) \in {9, 13} /\ Overhead(type, FALSE) \in {6, 10}
  BY DEF Overhead, HeaderLength, RequestNLength, MetadataLengthField
<1>2. Overhead("payload", TRUE) = 9 /\ Overhead("payload", FALSE) = 6
  BY DEF Overhead, HeaderLength, RequestNLength, MetadataLengthField
<1>3. c.frame.hasMetadata \in BOOLEAN /\ c.first \in BOOLEAN
  BY FrameFields, Zenon
<1>4. IncludesMetadata(c) = TRUE \/ IncludesMetadata(c) = FALSE
  BY <1>3, Zenon DEF IncludesMetadata
<1>5. ~c.first => Kind(c) = "payload"
  BY Zenon DEF Kind
<1>6. /\ IncludesMetadata(c) = TRUE => HeadLength(c) = Overhead(Kind(c), TRUE)
      /\ IncludesMetadata(c) = FALSE => HeadLength(c) = Overhead(Kind(c), FALSE)
  BY Zenon DEF HeadLength
<1>7. /\ IncludesMetadata(c) => HeadLength(c) \in {9, 13}
      /\ ~IncludesMetadata(c) => HeadLength(c) \in {6, 10}
  BY <1>1, <1>4, <1>6, Zenon
<1>8. /\ (~c.first /\ IncludesMetadata(c)) => HeadLength(c) = 9
      /\ (~c.first /\ ~IncludesMetadata(c)) => HeadLength(c) = 6
  BY <1>2, <1>4, <1>5, <1>6, Zenon
<1>9. HeadLength(c) \in 6..13
  BY <1>7
<1>10. Capacity(c) = MaxFrameLength - HeadLength(c) /\ MaxFrameLength \in Nat
  BY MaxFrameLengthAssumption, Zenon DEF Capacity, HeadLength
<1>11. Capacity(c) \in Int
  BY <1>9, <1>10
<1> QED BY <1>4, <1>7, <1>8, <1>9, <1>10, <1>11, Zenon

\* The two shares of a fragment that the loop does not refuse.
LEMMA Shares ==
  ASSUME NEW B, NEW c \in Cursors(B), Feasible(c), ~Whole(c)
  PROVE  /\ MetadataShare(c) \in 0..MetadataLeft(c) /\ DataShare(c) \in 0..DataLeft(c)
         /\ DataShare(c) > 0 => MetadataShare(c) = MetadataLeft(c)
         /\ HeadLength(c) + MetadataShare(c) + DataShare(c) <= MaxFrameLength
         /\ MetadataShare(c) > 0 \/ DataShare(c) > 0 \/ (c.first /\ IncludesMetadata(c) /\ MetadataLeft(c) = 0)
         /\ IncludesMetadata(c) => Capacity(c) >= (IF MetadataLeft(c) > 0 THEN 1 ELSE 0)
         /\ ~IncludesMetadata(c) => Capacity(c) > 0
         /\ Fragmentable(c.frame.type)
         /\ Len(c.frame.metadata) > 0 \/ Len(c.frame.data) > 0
<1>1. MetadataLeft(c) \in Nat /\ DataLeft(c) \in Nat
  BY CursorNumbers, Zenon
<1>2. ~IncludesMetadata(c) => MetadataLeft(c) = 0
  BY CursorNumbers
<1>3. /\ HeadLength(c) \in 6..13 /\ MaxFrameLength \in Nat /\ Capacity(c) \in Int
      /\ Capacity(c) = MaxFrameLength - HeadLength(c)
  BY HeadLengths, Zenon
<1>4. /\ Fragmentable(c.frame.type)
      /\ Len(c.frame.metadata) > 0 \/ Len(c.frame.data) > 0
      /\ IF IncludesMetadata(c) THEN Capacity(c) >= (IF MetadataLeft(c) > 0 THEN 1 ELSE 0)
                                ELSE Capacity(c) > 0
      /\ MetadataShare(c) > 0 \/ DataShare(c) > 0 \/ (c.first /\ IncludesMetadata(c) /\ MetadataLeft(c) = 0)
  BY Zenon DEF Feasible
<1>5. /\ IncludesMetadata(c) => Capacity(c) >= (IF MetadataLeft(c) > 0 THEN 1 ELSE 0)
      /\ ~IncludesMetadata(c) => Capacity(c) > 0
  BY <1>4, Zenon
<1>6. /\ MetadataShare(c) \in 0..MetadataLeft(c) /\ DataShare(c) \in 0..DataLeft(c)
      /\ DataShare(c) > 0 => MetadataShare(c) = MetadataLeft(c)
      /\ MetadataShare(c) + DataShare(c) <= Capacity(c)
  <2>1. CASE IncludesMetadata(c)
    <3>1. Capacity(c) \in Nat
      BY <1>1, <1>3, <1>5, <2>1
    <3>2. MetadataShare(c) = Smaller(MetadataLeft(c), Capacity(c))
      BY <2>1, Zenon DEF MetadataShare
    <3>3. DataShare(c) = IF MetadataShare(c) = MetadataLeft(c)
                         THEN Smaller(DataLeft(c), Larger(0, Capacity(c) - MetadataShare(c)))
                         ELSE 0
      BY <2>1, Zenon DEF DataShare
    <3>4. MetadataShare(c) \in 0..MetadataLeft(c) /\ MetadataShare(c) <= Capacity(c)
      BY <1>1, <3>1, <3>2 DEF Smaller
    <3> QED BY <1>1, <3>1, <3>3, <3>4 DEF Smaller, Larger
  <2>2. CASE ~IncludesMetadata(c)
    <3>1. MetadataShare(c) = 0 /\ DataShare(c) = Smaller(DataLeft(c), Capacity(c))
      BY <2>2, Zenon DEF MetadataShare, DataShare
    <3>2. Capacity(c) > 0 /\ MetadataLeft(c) = 0
      BY <1>2, <1>5, <2>2
    <3> QED BY <1>1, <1>3, <3>1, <3>2 DEF Smaller
  <2> QED BY <2>1, <2>2
<1>7. HeadLength(c) + MetadataShare(c) + DataShare(c) <= MaxFrameLength
  BY <1>1, <1>3, <1>6
<1> QED BY <1>4, <1>5, <1>6, <1>7, Zenon

\* The loop's next cursor.
LEMMA Advances ==
  ASSUME NEW B, NEW c \in Cursors(B), Feasible(c), ~Exhausted(c)
  PROVE  /\ Advance(c) \in Cursors(B)
         /\ Advance(c).frame = c.frame /\ Advance(c).first = FALSE
         /\ ~Whole(c) => /\ Advance(c).metadata = c.metadata + MetadataShare(c)
                         /\ Advance(c).data = c.data + DataShare(c)
         /\ Whole(c) => Exhausted(Advance(c))
<1>1. CASE Whole(c)
  <2>1. Advance(c) = [frame |-> c.frame, metadata |-> Len(c.frame.metadata),
                      data |-> Len(c.frame.data), first |-> FALSE]
    BY <1>1 DEF Advance, Cursors
  <2> QED BY <1>1, <2>1, FrameFields DEF Cursors, Exhausted, MetadataLeft, DataLeft
<1>2. CASE ~Whole(c)
  <2>1. Advance(c) = [frame |-> c.frame, metadata |-> c.metadata + MetadataShare(c),
                      data |-> c.data + DataShare(c), first |-> FALSE]
    BY <1>2 DEF Advance, Cursors
  <2>2. /\ MetadataShare(c) \in 0..(Len(c.frame.metadata) - c.metadata)
        /\ DataShare(c) \in 0..(Len(c.frame.data) - c.data)
        /\ DataShare(c) > 0 => MetadataShare(c) = Len(c.frame.metadata) - c.metadata
    BY <1>2, Shares DEF MetadataLeft, DataLeft
  <2>3. c.frame \in FramesOf(B)
    BY DEF Cursors
  <2>4. /\ Len(c.frame.metadata) \in Nat /\ Len(c.frame.data) \in Nat
        /\ c.metadata \in 0..Len(c.frame.metadata) /\ c.data \in 0..Len(c.frame.data)
        /\ c.data > 0 => c.metadata = Len(c.frame.metadata)
    BY CursorNumbers, Zenon
  <2>5. Advance(c) \in [frame : FramesOf(B), metadata : Nat, data : Nat, first : BOOLEAN]
    BY <2>1, <2>2, <2>3, <2>4, SMTT(30)
  <2>6. /\ Advance(c).frame = c.frame /\ Advance(c).first = FALSE
        /\ Advance(c).metadata = c.metadata + MetadataShare(c)
        /\ Advance(c).data = c.data + DataShare(c)
    BY <2>1
  <2>7. /\ Advance(c).metadata <= Len(c.frame.metadata) /\ Advance(c).data <= Len(c.frame.data)
        /\ Advance(c).data > 0 => Advance(c).metadata = Len(c.frame.metadata)
    <3> DEFINE M == Len(c.frame.metadata)
               D == Len(c.frame.data)
               m == c.metadata
               d == c.data
               x == MetadataShare(c)
               y == DataShare(c)
    <3>1. /\ M \in Nat /\ D \in Nat /\ m \in 0..M /\ d \in 0..D /\ (d > 0 => m = M)
          /\ x \in 0..(M - m) /\ y \in 0..(D - d) /\ (y > 0 => x = M - m)
      BY <2>2, <2>4, Zenon
    <3>2. Advance(c).metadata = m + x /\ Advance(c).data = d + y
      BY <2>6, Zenon
    <3> HIDE DEF M, D, m, d, x, y
    <3>3. m + x <= M /\ d + y <= D /\ (d + y > 0 => m + x = M)
      BY <3>1
    <3> QED BY <3>2, <3>3, Zenon DEF M, D
  <2>8. Advance(c) \in Cursors(B)
    BY <2>5, <2>6, <2>7, Zenon DEF Cursors
  <2> QED BY <1>2, <2>6, <2>8
<1> QED BY <1>1, <1>2

\* Once a fragment was emitted, the loop refuses none of the others.
LEMMA FeasibleToTheEnd ==
  ASSUME NEW B, NEW c \in Cursors(B), Feasible(c), ~Exhausted(c), ~Exhausted(Advance(c))
  PROVE  Feasible(Advance(c))
<1> DEFINE d == Advance(c)
<1>1. /\ ~Whole(c) /\ d \in Cursors(B) /\ d.frame = c.frame /\ d.first = FALSE /\ ~Exhausted(d)
      /\ d.metadata = c.metadata + MetadataShare(c) /\ d.data = c.data + DataShare(c)
  BY Advances
<1> HIDE DEF d
<1> SUFFICES Feasible(d)
  BY DEF d
<1>2. /\ MetadataLeft(d) \in Nat /\ DataLeft(d) \in Nat /\ MetadataLeft(c) \in Nat
      /\ MetadataLeft(c) > 0 => IncludesMetadata(c)
      /\ MetadataLeft(d) > 0 => IncludesMetadata(d)
  BY <1>1, CursorNumbers, Zenon
<1>3. /\ MetadataShare(c) \in Nat /\ DataShare(c) \in Nat
      /\ HeadLength(c) + MetadataShare(c) + DataShare(c) <= MaxFrameLength
      /\ MetadataShare(c) > 0 \/ DataShare(c) > 0 \/ (c.first /\ IncludesMetadata(c) /\ MetadataLeft(c) = 0)
      /\ IncludesMetadata(c) => Capacity(c) >= (IF MetadataLeft(c) > 0 THEN 1 ELSE 0)
      /\ ~IncludesMetadata(c) => Capacity(c) > 0
  BY <1>1, <1>2, Shares
<1>4. /\ HeadLength(c) \in 6..13 /\ MaxFrameLength \in Nat
      /\ Capacity(c) = MaxFrameLength - HeadLength(c)
      /\ IncludesMetadata(c) => HeadLength(c) \in {9, 13}
      /\ Capacity(d) = MaxFrameLength - HeadLength(d)
      /\ IncludesMetadata(d) => HeadLength(d) = 9
      /\ ~IncludesMetadata(d) => HeadLength(d) = 6
  BY <1>1, HeadLengths, Zenon
<1>5. MetadataLeft(d) = MetadataLeft(c) - MetadataShare(c)
  <2>1. /\ MetadataLeft(d) = Len(c.frame.metadata) - d.metadata /\ Len(c.frame.metadata) \in Nat
        /\ MetadataLeft(c) = Len(c.frame.metadata) - c.metadata /\ c.metadata \in Nat
    BY <1>1, CursorNumbers
  <2> QED BY <1>1, <1>3, <2>1
<1>6. IncludesMetadata(d) <=> MetadataLeft(d) > 0
  BY <1>1, Zenon DEF IncludesMetadata
<1>9. Fragmentable(d.frame.type) /\ (Len(d.frame.metadata) > 0 \/ Len(d.frame.data) > 0)
  BY <1>1, Shares
<1>7. CASE MetadataLeft(d) > 0
  <2>1. MetadataLeft(c) > 0
    BY <1>2, <1>3, <1>5, <1>7
  <2>2. MaxFrameLength >= 10
    BY <1>2, <1>3, <1>4, <2>1
  <2>3. Capacity(d) >= 1 /\ Capacity(d) \in Int
    BY <1>4, <1>6, <1>7, <2>2
  <2>4. MetadataShare(d) = Smaller(MetadataLeft(d), Capacity(d))
    BY <1>6, <1>7, Zenon DEF MetadataShare
  <2>5. MetadataShare(d) > 0
    BY <1>2, <2>3, <2>4, <1>7 DEF Smaller
  <2>6. IF IncludesMetadata(d) THEN Capacity(d) >= (IF MetadataLeft(d) > 0 THEN 1 ELSE 0)
                               ELSE Capacity(d) > 0
    BY <1>6, <1>7, <2>3
  <2> QED BY <1>9, <2>5, <2>6, Zenon DEF Feasible
<1>8. CASE ~(MetadataLeft(d) > 0)
  <2>1. MaxFrameLength > 6
    <3>1. CASE IncludesMetadata(c)
      BY <1>3, <1>4, <3>1
    <3>2. CASE ~IncludesMetadata(c)
      BY <1>3, <1>4, <3>2
    <3> QED BY <3>1, <3>2
  <2>2. Capacity(d) > 0 /\ Capacity(d) \in Int
    BY <1>4, <1>6, <1>8, <2>1
  <2>3. ~(MetadataLeft(d) = 0 /\ DataLeft(d) = 0)
    BY <1>1, Zenon DEF Exhausted
  <2>4. DataShare(d) = Smaller(DataLeft(d), Capacity(d))
    BY <1>6, <1>8, Zenon DEF DataShare
  <2>5. DataShare(d) > 0
    BY <1>2, <1>8, <2>2, <2>3, <2>4 DEF Smaller
  <2>6. IF IncludesMetadata(d) THEN Capacity(d) >= (IF MetadataLeft(d) > 0 THEN 1 ELSE 0)
                               ELSE Capacity(d) > 0
    BY <1>6, <1>8, <2>2
  <2> QED BY <1>9, <2>5, <2>6, Zenon DEF Feasible
<1> QED BY <1>7, <1>8

----------------------------------------------------------------------------
(* The fragments.                                                          *)

\* Adjacent pieces of a sequence.
LEMMA Pieces ==
  ASSUME NEW B, NEW s \in Seq(B), NEW a \in 0..Len(s), NEW n \in 0..(Len(s) - a)
  PROVE  /\ SubSeq(s, 1, a) \o SubSeq(s, a + 1, a + n) = SubSeq(s, 1, a + n)
         /\ SubSeq(s, a + 1, a + n) \in Seq(B) /\ Len(SubSeq(s, a + 1, a + n)) = n
         /\ SubSeq(s, 1, a) \in Seq(B) /\ Len(SubSeq(s, 1, a)) = a
         /\ SubSeq(s, 1, Len(s)) = s
<1>1. Len(s) \in Nat /\ DOMAIN s = 1..Len(s) /\ \A i \in 1..Len(s) : s[i] \in B
  BY LenProperties, ElementOfSeq
<1>2. SubSeq(s, 1, a) \o SubSeq(s, a + 1, a + n) = SubSeq(s, 1, a + n)
  <2>1. 1 \in 1..(Len(s) + 1) /\ a \in (1 - 1)..Len(s) /\ a + n \in a..Len(s)
    BY <1>1
  <2> QED BY <2>1, ConcatAdjacentSubSeq
<1>3. SubSeq(s, a + 1, a + n) \in Seq(B) /\ Len(SubSeq(s, a + 1, a + n)) = n
  <2>1. a + 1 \in Int /\ a + n \in Int /\ \A i \in (a + 1)..(a + n) : s[i] \in B
    BY <1>1
  <2>2. /\ SubSeq(s, a + 1, a + n) \in Seq(B)
        /\ Len(SubSeq(s, a + 1, a + n)) = IF a + 1 <= a + n THEN (a + n) - (a + 1) + 1 ELSE 0
    BY <2>1, SubSeqProperties
  <2> QED BY <1>1, <2>2
<1>4. SubSeq(s, 1, a) \in Seq(B) /\ Len(SubSeq(s, 1, a)) = a
  <2>1. a \in Int /\ 1 \in Int /\ \A i \in 1..a : s[i] \in B
    BY <1>1
  <2>2. SubSeq(s, 1, a) \in Seq(B) /\ Len(SubSeq(s, 1, a)) = IF 1 <= a THEN a - 1 + 1 ELSE 0
    BY <2>1, SubSeqProperties
  <2> QED BY <1>1, <2>2
<1>5. SubSeq(s, 1, Len(s)) = s
  BY SubSeqFull
<1> QED BY <1>2, <1>3, <1>4, <1>5

\* A logical frame is the record of its fields.
LEMMA FrameIsItsFields ==
  ASSUME NEW B, NEW f \in FramesOf(B)
  PROVE  f = [type |-> f.type, stream |-> f.stream, follows |-> FALSE, next |-> f.next,
              complete |-> f.complete, hasMetadata |-> f.hasMetadata,
              metadata |-> f.metadata, data |-> f.data]
<1>1. f \in [type : Requests \cup {"payload"}, stream : Nat, follows : {FALSE}, next : BOOLEAN,
             complete : BOOLEAN, hasMetadata : BOOLEAN, metadata : Seq(B), data : Seq(B)]
  BY Zenon DEF FramesOf
<1> QED BY <1>1

MetadataPiece(c) == SubSeq(c.frame.metadata, c.metadata + 1, c.metadata + MetadataShare(c))
DataPiece(c) == SubSeq(c.frame.data, c.data + 1, c.data + DataShare(c))
Ends(c) == Exhausted(Advance(c))
NextFlag(c) == IF c.first THEN c.frame.next
               ELSE IF c.frame.type = "payload" THEN ~Ends(c) \/ c.frame.next ELSE TRUE

\* What a fragment that is not the whole frame carries.
LEMMA FragmentFields ==
  ASSUME NEW B, NEW c \in Cursors(B), Feasible(c), ~Whole(c)
  PROVE  /\ Fragment(c) = [type |-> Kind(c), stream |-> c.frame.stream, follows |-> ~Ends(c),
                           next |-> NextFlag(c), complete |-> ~(~Ends(c)) /\ c.frame.complete,
                           hasMetadata |-> IncludesMetadata(c),
                           metadata |-> MetadataPiece(c), data |-> DataPiece(c)]
         /\ MetadataPiece(c) \in Seq(B) /\ Len(MetadataPiece(c)) = MetadataShare(c)
         /\ DataPiece(c) \in Seq(B) /\ Len(DataPiece(c)) = DataShare(c)
         /\ SubSeq(c.frame.metadata, 1, c.metadata) \o MetadataPiece(c)
               = SubSeq(c.frame.metadata, 1, c.metadata + MetadataShare(c))
         /\ SubSeq(c.frame.data, 1, c.data) \o DataPiece(c)
               = SubSeq(c.frame.data, 1, c.data + DataShare(c))
<1>1. /\ c.frame.metadata \in Seq(B) /\ c.frame.data \in Seq(B)
      /\ c.metadata \in 0..Len(c.frame.metadata) /\ c.data \in 0..Len(c.frame.data)
  BY FrameFields, Zenon
<1>2. /\ MetadataShare(c) \in 0..(Len(c.frame.metadata) - c.metadata)
      /\ DataShare(c) \in 0..(Len(c.frame.data) - c.data)
  BY Shares, CursorNumbers
<1>3. Fragment(c) = [type |-> Kind(c), stream |-> c.frame.stream, follows |-> ~Ends(c),
                     next |-> NextFlag(c), complete |-> ~(~Ends(c)) /\ c.frame.complete,
                     hasMetadata |-> IncludesMetadata(c),
                     metadata |-> MetadataPiece(c), data |-> DataPiece(c)]
  BY Zenon DEF Fragment, Ends, NextFlag, MetadataPiece, DataPiece
<1>4. /\ MetadataPiece(c) \in Seq(B) /\ Len(MetadataPiece(c)) = MetadataShare(c)
      /\ SubSeq(c.frame.metadata, 1, c.metadata) \o MetadataPiece(c)
            = SubSeq(c.frame.metadata, 1, c.metadata + MetadataShare(c))
  <2> DEFINE s == c.frame.metadata
             a == c.metadata
             n == MetadataShare(c)
  <2>1. s \in Seq(B) /\ a \in 0..Len(s) /\ n \in 0..(Len(s) - a)
    BY <1>1, <1>2
  <2> HIDE DEF s, a, n
  <2>2. /\ SubSeq(s, a + 1, a + n) \in Seq(B) /\ Len(SubSeq(s, a + 1, a + n)) = n
        /\ SubSeq(s, 1, a) \o SubSeq(s, a + 1, a + n) = SubSeq(s, 1, a + n)
    BY <2>1, Pieces
  <2> QED BY <2>2, Zenon DEF MetadataPiece, s, a, n
<1>5. /\ DataPiece(c) \in Seq(B) /\ Len(DataPiece(c)) = DataShare(c)
      /\ SubSeq(c.frame.data, 1, c.data) \o DataPiece(c)
            = SubSeq(c.frame.data, 1, c.data + DataShare(c))
  <2> DEFINE s == c.frame.data
             a == c.data
             n == DataShare(c)
  <2>1. s \in Seq(B) /\ a \in 0..Len(s) /\ n \in 0..(Len(s) - a)
    BY <1>1, <1>2
  <2> HIDE DEF s, a, n
  <2>2. /\ SubSeq(s, a + 1, a + n) \in Seq(B) /\ Len(SubSeq(s, a + 1, a + n)) = n
        /\ SubSeq(s, 1, a) \o SubSeq(s, a + 1, a + n) = SubSeq(s, 1, a + n)
    BY <2>1, Pieces
  <2> QED BY <2>2, Zenon DEF DataPiece, s, a, n
<1> QED BY <1>3, <1>4, <1>5, Zenon

\* Every fragment, and a frame sent whole, is as long as the peer accepts, at most.
LEMMA FragmentLength ==
  ASSUME NEW B, NEW c \in Cursors(B), Feasible(c), ~Exhausted(c)
  PROVE  FrameLength(Fragment(c)) <= MaxFrameLength
<1>1. CASE Whole(c)
  <2>1. Fragment(c) = c.frame
    BY <1>1, Zenon DEF Fragment
  <2> QED BY <1>1, <2>1, Zenon DEF Whole
<1>2. CASE ~Whole(c)
  <2> DEFINE x == Fragment(c)
  <2>1. /\ x.type = Kind(c) /\ x.hasMetadata = IncludesMetadata(c)
        /\ Len(x.metadata) = MetadataShare(c) /\ Len(x.data) = DataShare(c)
    BY <1>2, FragmentFields
  <2> HIDE DEF x
  <2>2. FrameLength(x) = HeadLength(c) + MetadataShare(c) + DataShare(c)
    BY <2>1, Zenon DEF FrameLength, HeadLength
  <2>3. FrameLength(x) <= MaxFrameLength
    BY <1>2, <2>2, Shares
  <2> QED BY <2>3 DEF x
<1> QED BY <1>1, <1>2

----------------------------------------------------------------------------
(* The gathering.                                                          *)

\* The beginning of frame f that a receiver holds before the fragment at offsets m and d.
Gathered(p, f, m, d) ==
  \E x, y : p = [kind |-> "parts",
                initial |-> [type |-> f.type, stream |-> f.stream, follows |-> TRUE, next |-> f.next,
                             complete |-> FALSE, hasMetadata |-> f.hasMetadata,
                             metadata |-> x, data |-> y],
                hasMetadata |-> f.hasMetadata,
                metadata |-> SubSeq(f.metadata, 1, m),
                data |-> SubSeq(f.data, 1, d)]

\* Records updated field by field, whatever the values.
LEMMA UpdatedParts ==
  ASSUME NEW k, NEW i, NEW h, NEW m, NEW d, NEW h2, NEW m2, NEW d2, NEW p,
         p = [kind |-> k, initial |-> i, hasMetadata |-> h, metadata |-> m, data |-> d]
  PROVE  [p EXCEPT !.hasMetadata = h2, !.metadata = m2, !.data = d2]
         = [kind |-> k, initial |-> i, hasMetadata |-> h2, metadata |-> m2, data |-> d2]
<1> DEFINE fields == {"kind", "initial", "hasMetadata", "metadata", "data"}
           q == [p EXCEPT !.hasMetadata = h2, !.metadata = m2, !.data = d2]
           r == [kind |-> k, initial |-> i, hasMetadata |-> h2, metadata |-> m2, data |-> d2]
<1>1. q = [x \in fields |-> q[x]]
  <2>1. DOMAIN q = fields
    OBVIOUS
  <2> QED BY <2>1
<1>2. r = [x \in fields |-> r[x]]
  OBVIOUS
<1>3. q.kind = k /\ q.initial = i /\ q.hasMetadata = h2 /\ q.metadata = m2 /\ q.data = d2
  OBVIOUS
<1>4. r.kind = k /\ r.initial = i /\ r.hasMetadata = h2 /\ r.metadata = m2 /\ r.data = d2
  OBVIOUS
<1> HIDE DEF q, r
<1>5. ASSUME NEW x \in fields PROVE q[x] = r[x]
  BY <1>3, <1>4
<1> QED BY <1>1, <1>2, <1>5, Zenon DEF q, r

LEMMA UpdatedRequest ==
  ASSUME NEW t, NEW s, NEW w, NEW n, NEW e, NEW h, NEW m, NEW d,
         NEW w2, NEW e2, NEW h2, NEW m2, NEW d2, NEW p,
         p = [type |-> t, stream |-> s, follows |-> w, next |-> n, complete |-> e,
              hasMetadata |-> h, metadata |-> m, data |-> d]
  PROVE  [p EXCEPT !.follows = w2, !.complete = e2, !.hasMetadata = h2, !.metadata = m2, !.data = d2]
            = [type |-> t, stream |-> s, follows |-> w2, next |-> n, complete |-> e2,
               hasMetadata |-> h2, metadata |-> m2, data |-> d2]
<1> DEFINE fields == {"type", "stream", "follows", "next", "complete", "hasMetadata", "metadata", "data"}
           q == [p EXCEPT !.follows = w2, !.complete = e2, !.hasMetadata = h2, !.metadata = m2, !.data = d2]
           r == [type |-> t, stream |-> s, follows |-> w2, next |-> n, complete |-> e2,
                 hasMetadata |-> h2, metadata |-> m2, data |-> d2]
<1>1. q = [x \in fields |-> q[x]]
  <2>1. DOMAIN q = fields
    OBVIOUS
  <2> QED BY <2>1
<1>2. r = [x \in fields |-> r[x]]
  OBVIOUS
<1>3. q.type = t /\ q.stream = s /\ q.follows = w2 /\ q.next = n /\ q.complete = e2 /\ q.hasMetadata = h2 /\ q.metadata = m2 /\ q.data = d2
  OBVIOUS
<1>4. r.type = t /\ r.stream = s /\ r.follows = w2 /\ r.next = n /\ r.complete = e2 /\ r.hasMetadata = h2 /\ r.metadata = m2 /\ r.data = d2
  OBVIOUS
<1> HIDE DEF q, r
<1>5. ASSUME NEW x \in fields PROVE q[x] = r[x]
  BY <1>3, <1>4
<1> QED BY <1>1, <1>2, <1>5, Zenon DEF q, r

LEMMA UpdatedPayload ==
  ASSUME NEW t, NEW s, NEW w, NEW n, NEW e, NEW h, NEW m, NEW d,
         NEW w2, NEW h2, NEW m2, NEW d2, NEW p,
         p = [type |-> t, stream |-> s, follows |-> w, next |-> n, complete |-> e,
              hasMetadata |-> h, metadata |-> m, data |-> d]
  PROVE  [p EXCEPT !.follows = w2, !.hasMetadata = h2, !.metadata = m2, !.data = d2]
            = [type |-> t, stream |-> s, follows |-> w2, next |-> n, complete |-> e,
               hasMetadata |-> h2, metadata |-> m2, data |-> d2]
<1> DEFINE fields == {"type", "stream", "follows", "next", "complete", "hasMetadata", "metadata", "data"}
           q == [p EXCEPT !.follows = w2, !.hasMetadata = h2, !.metadata = m2, !.data = d2]
           r == [type |-> t, stream |-> s, follows |-> w2, next |-> n, complete |-> e,
                 hasMetadata |-> h2, metadata |-> m2, data |-> d2]
<1>1. q = [x \in fields |-> q[x]]
  <2>1. DOMAIN q = fields
    OBVIOUS
  <2> QED BY <2>1
<1>2. r = [x \in fields |-> r[x]]
  OBVIOUS
<1>3. q.type = t /\ q.stream = s /\ q.follows = w2 /\ q.next = n /\ q.complete = e /\ q.hasMetadata = h2 /\ q.metadata = m2 /\ q.data = d2
  OBVIOUS
<1>4. r.type = t /\ r.stream = s /\ r.follows = w2 /\ r.next = n /\ r.complete = e /\ r.hasMetadata = h2 /\ r.metadata = m2 /\ r.data = d2
  OBVIOUS
<1> HIDE DEF q, r
<1>5. ASSUME NEW x \in fields PROVE q[x] = r[x]
  BY <1>3, <1>4
<1> QED BY <1>1, <1>2, <1>5, Zenon DEF q, r

\* The first of several fragments: it cannot be the last, and starts the gathering.
LEMMA FirstFragment ==
  ASSUME NEW B, NEW c \in Cursors(B), c.first, Feasible(c), ~Whole(c)
  PROVE  /\ ~Ends(c)
         /\ Gathered(AppendParts(NoParts(Fragment(c)), Fragment(c)), c.frame,
                     c.metadata + MetadataShare(c), c.data + DataShare(c))
<1>1. /\ c.metadata = 0 /\ c.data = 0 /\ Kind(c) = c.frame.type
      /\ c.frame.hasMetadata \in BOOLEAN
      /\ Len(c.frame.metadata) > 0 => c.frame.hasMetadata
      /\ c.frame.metadata \in Seq(B) /\ c.frame.data \in Seq(B)
  BY FrameFields, Zenon DEF Kind
<1>2. /\ Len(c.frame.metadata) \in Nat /\ Len(c.frame.data) \in Nat
      /\ MetadataLeft(c) = Len(c.frame.metadata) /\ DataLeft(c) = Len(c.frame.data)
  BY <1>1, CursorNumbers
<1>3. IncludesMetadata(c) = c.frame.hasMetadata
  <2>1. MetadataLeft(c) > 0 => c.frame.hasMetadata
    BY <1>1, <1>2
  <2>2. c.frame.hasMetadata = TRUE \/ c.frame.hasMetadata = FALSE
    BY <1>1
  <2>3. IncludesMetadata(c) <=> c.frame.hasMetadata
    BY <2>1, Zenon DEF IncludesMetadata
  <2>4. IncludesMetadata(c) = TRUE \/ IncludesMetadata(c) = FALSE
    BY HeadLengths, Zenon
  <2> QED BY <2>2, <2>3, <2>4, Zenon
<1>4. ~Ends(c)
  <2>1. SUFFICES ASSUME Ends(c) PROVE FALSE
    OBVIOUS
  <2> DEFINE d == Advance(c)
  <2>2. /\ d.frame = c.frame /\ d.metadata = c.metadata + MetadataShare(c)
        /\ d.data = c.data + DataShare(c) /\ Exhausted(d)
    <3>1. ~Exhausted(c)
      BY Zenon DEF Exhausted
    <3> QED BY <2>1, <3>1, Advances, Zenon DEF Ends
  <2> HIDE DEF d
  <2>3. /\ Len(c.frame.metadata) - d.metadata = 0 /\ Len(c.frame.data) - d.data = 0
    BY <2>2, Zenon DEF Exhausted, MetadataLeft, DataLeft
  <2>4. /\ MetadataShare(c) \in Int /\ DataShare(c) \in Int /\ HeadLength(c) \in Int
        /\ HeadLength(c) + MetadataShare(c) + DataShare(c) <= MaxFrameLength
    BY <1>2, Shares, HeadLengths
  <2>5. HeadLength(c) + Len(c.frame.metadata) + Len(c.frame.data) <= MaxFrameLength
    <3>1. d.metadata = MetadataShare(c) /\ d.data = DataShare(c)
      BY <1>1, <2>2, <2>4
    <3>2. MaxFrameLength \in Nat
      BY MaxFrameLengthAssumption
    <3> QED BY <1>2, <2>3, <2>4, <3>1, <3>2, SMTT(30)
  <2>6. FrameLength(c.frame) <= MaxFrameLength
    BY <1>1, <1>3, <2>5, Zenon DEF FrameLength, HeadLength
  <2> QED BY <2>6, Zenon DEF Whole
<1>5. SubSeq(c.frame.metadata, 1, 0) = <<>> /\ SubSeq(c.frame.data, 1, 0) = <<>>
  BY SubSeqEmpty
<1>6. /\ <<>> \o MetadataPiece(c) = SubSeq(c.frame.metadata, 1, c.metadata + MetadataShare(c))
      /\ <<>> \o DataPiece(c) = SubSeq(c.frame.data, 1, c.data + DataShare(c))
  BY <1>1, <1>5, FragmentFields
<1>7. Fragment(c) = [type |-> c.frame.type, stream |-> c.frame.stream, follows |-> TRUE,
                     next |-> c.frame.next, complete |-> FALSE, hasMetadata |-> c.frame.hasMetadata,
                     metadata |-> MetadataPiece(c), data |-> DataPiece(c)]
  <2>1. NextFlag(c) = c.frame.next
    BY Zenon DEF NextFlag
  <2>2. (~Ends(c)) = TRUE /\ (~(~Ends(c)) /\ c.frame.complete) = FALSE
    BY <1>4, Zenon
  <2> QED BY <1>1, <1>3, <2>1, <2>2, FragmentFields, Zenon
<1>8. AppendParts(NoParts(Fragment(c)), Fragment(c)) =
        [kind |-> "parts", initial |-> Fragment(c), hasMetadata |-> c.frame.hasMetadata,
         metadata |-> <<>> \o MetadataPiece(c), data |-> <<>> \o DataPiece(c)]
  <2> DEFINE x == Fragment(c)
  <2>1. /\ x.hasMetadata = c.frame.hasMetadata /\ x.metadata = MetadataPiece(c)
        /\ x.data = DataPiece(c)
    BY <1>7
  <2> HIDE DEF x
  <2>2. /\ NoParts(x) = [kind |-> "parts", initial |-> x, hasMetadata |-> FALSE,
                         metadata |-> <<>>, data |-> <<>>]
        /\ NoParts(x).hasMetadata = FALSE /\ NoParts(x).metadata = <<>> /\ NoParts(x).data = <<>>
    BY DEF NoParts
  <2>3. (NoParts(x).hasMetadata \/ x.hasMetadata) = c.frame.hasMetadata
    BY <1>1, <2>1, <2>2, Zenon
  <2>4. AppendParts(NoParts(x), x) =
          [NoParts(x) EXCEPT !.hasMetadata = c.frame.hasMetadata,
                             !.metadata = <<>> \o MetadataPiece(c),
                             !.data = <<>> \o DataPiece(c)]
    BY <2>1, <2>2, <2>3, Zenon DEF AppendParts
  <2>5. AppendParts(NoParts(x), x) =
          [kind |-> "parts", initial |-> x, hasMetadata |-> c.frame.hasMetadata,
           metadata |-> <<>> \o MetadataPiece(c), data |-> <<>> \o DataPiece(c)]
    <3> DEFINE q == NoParts(x)
               no == FALSE
               m == <<>> \o MetadataPiece(c)
               d == <<>> \o DataPiece(c)
               h == c.frame.hasMetadata
               e == <<>>
    <3>1. /\ q = [kind |-> "parts", initial |-> x, hasMetadata |-> no, metadata |-> e, data |-> e]
          /\ AppendParts(q, x) = [q EXCEPT !.hasMetadata = h, !.metadata = m, !.data = d]
      BY <2>2, <2>4, Zenon
    <3> HIDE DEF q, no, m, d, h, e
    <3>2. [q EXCEPT !.hasMetadata = h, !.metadata = m, !.data = d]
            = [kind |-> "parts", initial |-> x, hasMetadata |-> h, metadata |-> m, data |-> d]
      BY <3>1, UpdatedParts
    <3> QED BY <3>1, <3>2, Zenon DEF q, m, d, h
  <2> QED BY <2>5 DEF x
<1>9. Gathered(AppendParts(NoParts(Fragment(c)), Fragment(c)), c.frame,
               c.metadata + MetadataShare(c), c.data + DataShare(c))
  BY <1>6, <1>7, <1>8, Zenon DEF Gathered
<1> QED BY <1>4, <1>9

\* Any other fragment: well-formed after those before it, and gathered behind them.
LEMMA LaterFragment ==
  ASSUME NEW B, NEW c \in Cursors(B), ~c.first, ~Exhausted(c), Feasible(c),
         NEW p, Gathered(p, c.frame, c.metadata, c.data)
  PROVE  /\ Appendable(p, Fragment(c))
         /\ Gathered(AppendParts(p, Fragment(c)), c.frame,
                     c.metadata + MetadataShare(c), c.data + DataShare(c))
         /\ Fragment(c).type = "payload" /\ Fragment(c).stream = c.frame.stream
<1>1. ~Whole(c)
  BY Zenon DEF Whole
<1>2. PICK x, y : p = [kind |-> "parts",
                initial |-> [type |-> c.frame.type, stream |-> c.frame.stream, follows |-> TRUE,
                             next |-> c.frame.next, complete |-> FALSE,
                             hasMetadata |-> c.frame.hasMetadata, metadata |-> x, data |-> y],
                hasMetadata |-> c.frame.hasMetadata,
                metadata |-> SubSeq(c.frame.metadata, 1, c.metadata),
                data |-> SubSeq(c.frame.data, 1, c.data)]
  BY Zenon DEF Gathered
<1>3. /\ p.hasMetadata = c.frame.hasMetadata
      /\ p.metadata = SubSeq(c.frame.metadata, 1, c.metadata)
      /\ p.data = SubSeq(c.frame.data, 1, c.data)
  BY <1>2
<1>4. /\ Fragment(c).type = Kind(c) /\ Fragment(c).stream = c.frame.stream
      /\ Fragment(c).hasMetadata = IncludesMetadata(c)
      /\ Fragment(c).metadata = MetadataPiece(c) /\ Fragment(c).data = DataPiece(c)
  BY <1>1, FragmentFields
<1>5. /\ c.frame.hasMetadata \in BOOLEAN
      /\ Len(c.frame.metadata) > 0 => c.frame.hasMetadata
      /\ c.frame.data \in Seq(B) /\ c.data \in 0..Len(c.frame.data)
      /\ c.data > 0 => c.metadata = Len(c.frame.metadata)
  BY FrameFields, Zenon
<1>6. IncludesMetadata(c) => MetadataLeft(c) > 0
  BY Zenon DEF IncludesMetadata
<1>7. IncludesMetadata(c) => c.frame.hasMetadata
  <2>1. MetadataLeft(c) > 0 => Len(c.frame.metadata) > 0
    BY CursorNumbers
  <2> QED BY <1>5, <1>6, <2>1, Zenon
<1>8. Appendable(p, Fragment(c))
  <2>1. Len(SubSeq(c.frame.data, 1, c.data)) = c.data
    <3>1. 0 \in 0..(Len(c.frame.data) - c.data)
      BY <1>5, CursorNumbers
    <3> QED BY <1>5, <3>1, Pieces
  <2>2. ~(c.data > 0 /\ IncludesMetadata(c))
    BY <1>5, <1>6, CursorNumbers
  <2> QED BY <1>3, <1>4, <2>1, <2>2, Zenon DEF Appendable
<1>9. AppendParts(p, Fragment(c)) =
        [p EXCEPT !.hasMetadata = c.frame.hasMetadata,
                  !.metadata = SubSeq(c.frame.metadata, 1, c.metadata + MetadataShare(c)),
                  !.data = SubSeq(c.frame.data, 1, c.data + DataShare(c))]
  <2>1. (p.hasMetadata \/ Fragment(c).hasMetadata) = c.frame.hasMetadata
    BY <1>3, <1>4, <1>5, <1>7, Zenon
  <2>2. /\ p.metadata \o Fragment(c).metadata
             = SubSeq(c.frame.metadata, 1, c.metadata + MetadataShare(c))
        /\ p.data \o Fragment(c).data = SubSeq(c.frame.data, 1, c.data + DataShare(c))
    BY <1>1, <1>3, <1>4, FragmentFields
  <2> QED BY <2>1, <2>2, Zenon DEF AppendParts
<1>10. Gathered(AppendParts(p, Fragment(c)), c.frame,
                c.metadata + MetadataShare(c), c.data + DataShare(c))
  <2>1. AppendParts(p, Fragment(c)) = [kind |-> "parts",
                initial |-> [type |-> c.frame.type, stream |-> c.frame.stream, follows |-> TRUE,
                             next |-> c.frame.next, complete |-> FALSE,
                             hasMetadata |-> c.frame.hasMetadata, metadata |-> x, data |-> y],
                hasMetadata |-> c.frame.hasMetadata,
                metadata |-> SubSeq(c.frame.metadata, 1, c.metadata + MetadataShare(c)),
                data |-> SubSeq(c.frame.data, 1, c.data + DataShare(c))]
    BY <1>2, <1>9
  <2> QED BY <2>1, Zenon DEF Gathered
<1>11. Kind(c) = "payload"
  BY Zenon DEF Kind
<1> QED BY <1>4, <1>8, <1>10, <1>11

\* The last of several fragments: what is rebuilt is the frame.
LEMMA LastFragment ==
  ASSUME NEW B, NEW c \in Cursors(B), ~c.first, ~Exhausted(c), Feasible(c), Ends(c),
         NEW p, Gathered(p, c.frame, c.metadata, c.data)
  PROVE  LET after == AppendParts(p, Fragment(c))
         IN  c.frame = IF p.initial.type = "payload" THEN RebuildPayload(after, Fragment(c))
                       ELSE RebuildRequest(after, Fragment(c))
<1> DEFINE f == c.frame
           after == AppendParts(p, Fragment(c))
<1>1. /\ f \in FramesOf(B) /\ f.complete \in BOOLEAN /\ f.next \in BOOLEAN
      /\ f.type # "payload" => (f.complete => f.type = "request_channel")
      /\ f.metadata \in Seq(B) /\ f.data \in Seq(B)
      /\ Len(f.metadata) \in Nat /\ Len(f.data) \in Nat
  <2>1. f \in FramesOf(B)
    BY Zenon DEF Cursors
  <2>2. Sendable(f)
    BY <2>1, Zenon DEF FramesOf
  <2>3. f.complete => f.type \in {"payload", "request_channel"}
    BY <2>2, Zenon DEF Sendable
  <2> QED BY <2>1, <2>3, FrameFields
<1>2. ~Whole(c)
  BY Zenon DEF Whole
<1>3. /\ c.metadata + MetadataShare(c) = Len(f.metadata)
      /\ c.data + DataShare(c) = Len(f.data)
  <2> DEFINE d == Advance(c)
  <2>1. /\ d.frame = f /\ d.metadata = c.metadata + MetadataShare(c)
        /\ d.data = c.data + DataShare(c) /\ Exhausted(d)
    BY <1>2, Advances, Zenon DEF Ends
  <2> HIDE DEF d
  <2>2. Len(f.metadata) - d.metadata = 0 /\ Len(f.data) - d.data = 0
    BY <2>1, Zenon DEF Exhausted, MetadataLeft, DataLeft
  <2>3. /\ c.metadata \in Nat /\ c.data \in Nat /\ MetadataShare(c) \in Nat /\ DataShare(c) \in Nat
    BY <1>2, Shares, CursorNumbers
  <2>4. d.metadata \in Nat /\ d.data \in Nat
    BY <2>1, <2>3
  <2>5. d.metadata = Len(f.metadata) /\ d.data = Len(f.data)
    BY <1>1, <2>2, <2>4
  <2> QED BY <2>1, <2>5
<1>4. SubSeq(f.metadata, 1, Len(f.metadata)) = f.metadata /\ SubSeq(f.data, 1, Len(f.data)) = f.data
  BY <1>1, SubSeqFull
<1>5. Gathered(after, f, Len(f.metadata), Len(f.data))
  BY <1>3, LaterFragment, Zenon
<1>6. PICK x, y : after = [kind |-> "parts",
                initial |-> [type |-> f.type, stream |-> f.stream, follows |-> TRUE, next |-> f.next,
                             complete |-> FALSE, hasMetadata |-> f.hasMetadata,
                             metadata |-> x, data |-> y],
                hasMetadata |-> f.hasMetadata, metadata |-> f.metadata, data |-> f.data]
  BY <1>4, <1>5, Zenon DEF Gathered
<1>7. p.initial.type = f.type
  <2>1. PICK u, v : p = [kind |-> "parts",
                initial |-> [type |-> f.type, stream |-> f.stream, follows |-> TRUE,
                             next |-> f.next, complete |-> FALSE,
                             hasMetadata |-> f.hasMetadata, metadata |-> u, data |-> v],
                hasMetadata |-> f.hasMetadata,
                metadata |-> SubSeq(f.metadata, 1, c.metadata),
                data |-> SubSeq(f.data, 1, c.data)]
    BY Zenon DEF Gathered
  <2> QED BY <2>1
<1> DEFINE last == Fragment(c)
<1>8. /\ last = [type |-> "payload", stream |-> f.stream, follows |-> FALSE, next |-> NextFlag(c),
                complete |-> f.complete, hasMetadata |-> IncludesMetadata(c),
                metadata |-> MetadataPiece(c), data |-> DataPiece(c)]
      /\ f.type = "payload" => NextFlag(c) = f.next
  <2>1. Kind(c) = "payload"
    BY Zenon DEF Kind
  <2>2. (~Ends(c)) = FALSE /\ (~(~Ends(c)) /\ f.complete) = f.complete
    BY <1>1
  <2>3. f.type = "payload" => NextFlag(c) = (FALSE \/ f.next)
    BY <2>2, Zenon DEF NextFlag
  <2>4. (FALSE \/ f.next) = f.next
    BY <1>1
  <2> QED BY <1>2, <2>1, <2>2, <2>3, <2>4, FragmentFields, Zenon
<1>9. f = [type |-> f.type, stream |-> f.stream, follows |-> FALSE, next |-> f.next,
           complete |-> f.complete, hasMetadata |-> f.hasMetadata,
           metadata |-> f.metadata, data |-> f.data]
  BY <1>1, FrameIsItsFields
<1> HIDE DEF f, after, last
<1>10. /\ after.hasMetadata = f.hasMetadata /\ after.metadata = f.metadata /\ after.data = f.data
       /\ after.initial = [type |-> f.type, stream |-> f.stream, follows |-> TRUE, next |-> f.next,
                           complete |-> FALSE, hasMetadata |-> f.hasMetadata,
                           metadata |-> x, data |-> y]
  BY <1>6
<1>11. CASE f.type = "payload"
  <2>1. RebuildPayload(after, last) = [type |-> "payload", stream |-> f.stream, follows |-> FALSE,
                next |-> f.next, complete |-> f.complete, hasMetadata |-> f.hasMetadata,
                metadata |-> f.metadata, data |-> f.data]
    <3>1. RebuildPayload(after, last) =
            [last EXCEPT !.follows = FALSE, !.hasMetadata = f.hasMetadata,
                         !.metadata = f.metadata, !.data = f.data]
      BY <1>10, Zenon DEF RebuildPayload
    <3> QED BY <1>8, <1>11, <3>1, UpdatedPayload
  <2>2. RebuildPayload(after, last) = f
    BY <1>9, <1>11, <2>1, Zenon
  <2> QED BY <1>7, <1>11, <2>2 DEF f, after, last
<1>12. CASE f.type # "payload"
  <2>1. last.complete = f.complete /\ after.initial.complete = FALSE /\ after.initial.type = f.type
    BY <1>8, <1>10
  <2>2. (after.initial.complete \/ (after.initial.type = "request_channel" /\ last.complete)) = f.complete
    BY <1>1, <1>12, <2>1, Zenon DEF f
  <2>3. RebuildRequest(after, last) =
          [after.initial EXCEPT !.follows = FALSE, !.complete = f.complete, !.hasMetadata = f.hasMetadata,
                                !.metadata = f.metadata, !.data = f.data]
    BY <1>10, <2>2, Zenon DEF RebuildRequest
  <2>4. RebuildRequest(after, last) = [type |-> f.type, stream |-> f.stream, follows |-> FALSE,
                next |-> f.next, complete |-> f.complete, hasMetadata |-> f.hasMetadata,
                metadata |-> f.metadata, data |-> f.data]
    <3> DEFINE q == after.initial
               yes == TRUE
               no == FALSE
    <3>1. /\ q = [type |-> f.type, stream |-> f.stream, follows |-> yes, next |-> f.next,
                  complete |-> no, hasMetadata |-> f.hasMetadata, metadata |-> x, data |-> y]
          /\ RebuildRequest(after, last) =
               [q EXCEPT !.follows = no, !.complete = f.complete, !.hasMetadata = f.hasMetadata,
                         !.metadata = f.metadata, !.data = f.data]
      BY <1>10, <2>3, Zenon
    <3> HIDE DEF q, yes, no
    <3>2. [q EXCEPT !.follows = no, !.complete = f.complete, !.hasMetadata = f.hasMetadata,
                    !.metadata = f.metadata, !.data = f.data]
            = [type |-> f.type, stream |-> f.stream, follows |-> no, next |-> f.next,
               complete |-> f.complete, hasMetadata |-> f.hasMetadata,
               metadata |-> f.metadata, data |-> f.data]
      BY <3>1, UpdatedRequest
    <3> QED BY <3>1, <3>2, Zenon DEF no
  <2>5. RebuildRequest(after, last) = f
    BY <1>9, <2>4, Zenon
  <2> QED BY <1>7, <1>12, <2>5 DEF f, after, last
<1> QED BY <1>11, <1>12

----------------------------------------------------------------------------
(* The exchange.                                                           *)

\* The inductive invariant: between the first fragment and the last, the receiver holds exactly
\* what the cursor has passed, and the loop cannot throw any more.
Between == ~cursor.first /\ ~Exhausted(cursor)

ExchangeInv ==
  /\ cursor \in Cursors(Byte) /\ thrown \in BOOLEAN
  /\ thrown => cursor.first
  /\ cursor.first => parts = None
  /\ received = IF Exhausted(cursor) THEN cursor.frame ELSE None
  /\ Exhausted(cursor) => parts = None
  /\ Between => /\ Feasible(cursor)
                /\ Gathered(parts, cursor.frame, cursor.metadata, cursor.data)

\* A receiver that has gathered something is not one that has not.
LEMMA GatheredIsSomething ==
  ASSUME NEW p, NEW f, NEW m, NEW d, Gathered(p, f, m, d)
  PROVE  p # None
<1>1. p.kind = "parts"
  BY DEF Gathered
<1>2. None.kind = "none"
  BY DEF None
<1> QED BY <1>1, <1>2

\* Initially: any sendable frame at the beginning of the loop.
LEMMA ExchangeInitEstablishes == ExchangeInit => ExchangeInv
<1> SUFFICES ASSUME ExchangeInit PROVE ExchangeInv
  OBVIOUS
<1>1. PICK f \in FramesOf(Byte) : cursor = [frame |-> f, metadata |-> 0, data |-> 0, first |-> TRUE]
  BY Zenon DEF ExchangeInit, Cursor
<1>2. cursor.frame = f /\ cursor.metadata = 0 /\ cursor.data = 0 /\ cursor.first = TRUE
  BY <1>1
<1>3. cursor \in [frame : FramesOf(Byte), metadata : Nat, data : Nat, first : BOOLEAN]
  BY <1>1
<1>4. Len(f.metadata) \in Nat /\ Len(f.data) \in Nat
  <2>1. f.metadata \in Seq(Byte) /\ f.data \in Seq(Byte)
    <3>1. f \in [type : Requests \cup {"payload"}, stream : Nat, follows : {FALSE}, next : BOOLEAN,
                 complete : BOOLEAN, hasMetadata : BOOLEAN, metadata : Seq(Byte), data : Seq(Byte)]
      BY Zenon DEF FramesOf
    <3> QED BY <3>1
  <2> QED BY <2>1, LenProperties
<1>5. /\ cursor.metadata <= Len(cursor.frame.metadata) /\ cursor.data <= Len(cursor.frame.data)
      /\ ~(cursor.data > 0)
  BY <1>2, <1>4
<1>6. cursor \in Cursors(Byte)
  BY <1>2, <1>3, <1>5, Zenon DEF Cursors
<1>7. ~Exhausted(cursor)
  BY <1>2, Zenon DEF Exhausted
<1> QED BY <1>2, <1>6, <1>7, Zenon DEF ExchangeInv, ExchangeInit, Between

\* Emitting a frame whole, the first of its fragments, or any later one.
LEMMA EmitPreserves ==
  ASSUME ExchangeInv, Emit
  PROVE  ExchangeInv'
<1>1. /\ cursor \in Cursors(Byte) /\ ~Exhausted(cursor) /\ Feasible(cursor) /\ ~thrown
      /\ Gather(Fragment(cursor)) /\ cursor' = Advance(cursor) /\ thrown' = FALSE
  BY Zenon DEF ExchangeInv, Emit
<1> DEFINE c == cursor
           x == Fragment(c)
<1>2. /\ Advance(c) \in Cursors(Byte) /\ Advance(c).frame = c.frame /\ Advance(c).first = FALSE
      /\ ~Whole(c) => /\ Advance(c).metadata = c.metadata + MetadataShare(c)
                      /\ Advance(c).data = c.data + DataShare(c)
      /\ Whole(c) => Exhausted(Advance(c))
  BY <1>1, Advances
<1>3. received = None
  BY <1>1, Zenon DEF ExchangeInv
<1>4. /\ cursor' \in Cursors(Byte) /\ cursor'.frame = c.frame /\ ~cursor'.first
      /\ Exhausted(cursor') <=> Ends(c)
      /\ ~Whole(c) => /\ cursor'.metadata = c.metadata + MetadataShare(c)
                      /\ cursor'.data = c.data + DataShare(c)
  BY <1>1, <1>2, Zenon DEF Ends
<1>5. ~Exhausted(cursor') => Feasible(cursor')
  BY <1>1, FeasibleToTheEnd, Zenon
<1>6. SUFFICES IF Ends(c) THEN parts' = None /\ received' = c.frame
               ELSE received' = None /\ Gathered(parts', c.frame, c.metadata + MetadataShare(c),
                                                  c.data + DataShare(c))
  <2>1. CASE Ends(c)
    BY <1>1, <1>4, <1>6, <2>1, Zenon DEF ExchangeInv, Between
  <2>2. CASE ~Ends(c)
    <3>1. ~Whole(c)
      BY <1>2, <2>2, Zenon DEF Ends
    <3> QED BY <1>1, <1>4, <1>5, <1>6, <2>2, <3>1, Zenon DEF ExchangeInv, Between
  <2> QED BY <2>1, <2>2
<1>7. CASE Whole(c)
  <2>1. x = c.frame /\ parts = None /\ Ends(c)
    BY <1>1, <1>2, <1>7, Zenon DEF Fragment, Whole, ExchangeInv, Ends
  <2>2. c.frame.follows = FALSE
    BY <1>1, FrameFields, Zenon
  <2> QED BY <1>1, <2>1, <2>2, Zenon DEF Gather
<1>8. CASE ~Whole(c) /\ c.first
  <2>1. parts = None /\ ~Ends(c)
    BY <1>1, <1>8, FirstFragment, Zenon DEF ExchangeInv
  <2>2. x.follows = TRUE /\ x.complete = FALSE
    <3>1. (~Ends(c)) = TRUE /\ (~(~Ends(c)) /\ c.frame.complete) = FALSE
      BY <2>1, Zenon
    <3>2. x.follows = (~Ends(c)) /\ x.complete = (~(~Ends(c)) /\ c.frame.complete)
      BY <1>1, <1>8, FragmentFields
    <3> QED BY <3>1, <3>2, Zenon
  <2>3. MoreFollows(x)
    BY <2>2, Zenon DEF MoreFollows
  <2>4. parts' = AppendParts(NoParts(x), x) /\ received' = received
    BY <1>1, <2>1, <2>2, <2>3, Zenon DEF Gather
  <2> QED BY <1>1, <1>3, <1>8, <2>1, <2>4, FirstFragment, Zenon
<1>9. CASE ~c.first
  <2>1. Gathered(parts, c.frame, c.metadata, c.data) /\ ~Whole(c)
    BY <1>1, <1>9, Zenon DEF ExchangeInv, Between, Whole
  <2>2. parts # None
    BY <2>1, GatheredIsSomething
  <2>3. x.follows = (~Ends(c)) /\ x.complete = (~(~Ends(c)) /\ c.frame.complete)
    BY <1>1, <2>1, FragmentFields
  <2>4. MoreFollows(x) <=> ~Ends(c)
    BY <2>3, Zenon DEF MoreFollows
  <2>5. CASE Ends(c)
    <3>1. /\ parts' = None
          /\ received' = IF parts.initial.type = "payload"
                         THEN RebuildPayload(AppendParts(parts, x), x)
                         ELSE RebuildRequest(AppendParts(parts, x), x)
      BY <1>1, <2>2, <2>4, <2>5, Zenon DEF Gather
    <3> QED BY <1>1, <1>9, <2>1, <2>5, <3>1, LastFragment, Zenon
  <2>6. CASE ~Ends(c)
    <3>1. parts' = AppendParts(parts, x) /\ received' = received
      BY <1>1, <2>2, <2>4, <2>6, Zenon DEF Gather
    <3> QED BY <1>1, <1>3, <1>9, <2>1, <2>6, <3>1, LaterFragment, Zenon
  <2> QED BY <2>5, <2>6
<1> QED BY <1>7, <1>8, <1>9

\* The loop throws before its first fragment or never.
LEMMA ThrowPreserves ==
  ASSUME ExchangeInv, Throw
  PROVE  ExchangeInv'
<1>1. cursor.first
  BY Zenon DEF ExchangeInv, Throw, Between
<1> QED BY <1>1, Zenon DEF ExchangeInv, Throw, Between

LEMMA ExchangeInductive == ExchangeSpec => []ExchangeInv
<1>1. ExchangeInv /\ [ExchangeNext]_exchangeVars => ExchangeInv'
  <2> SUFFICES ASSUME ExchangeInv, [ExchangeNext]_exchangeVars PROVE ExchangeInv'
    OBVIOUS
  <2>1. CASE Emit
    BY <2>1, EmitPreserves
  <2>2. CASE Throw
    BY <2>2, ThrowPreserves
  <2>3. CASE UNCHANGED exchangeVars
    BY <2>3, Zenon DEF exchangeVars, ExchangeInv, Between
  <2> QED BY <2>1, <2>2, <2>3, Zenon DEF ExchangeNext
<1> QED BY ExchangeInitEstablishes, <1>1, PTL DEF ExchangeSpec

\* No fragment is longer than maxFrameLength, whatever the frame and the flags
\* (fragmentation/index.ts, emitFragmentFrames).
THEOREM FragmentsAlwaysFit == ExchangeSpec => []FragmentsFit
<1>1. ExchangeInv => FragmentsFit
  BY FragmentLength, Zenon DEF ExchangeInv, FragmentsFit
<1> QED BY <1>1, ExchangeInductive, PTL

\* The RSocketFrameSizeErrors of emitFragmentFrames come before the first fragment: what has been
\* started can be finished.
THEOREM RefusedWholeAlways == ExchangeSpec => []RefusedWhole
<1>1. ExchangeInv => RefusedWhole
  BY Zenon DEF ExchangeInv, RefusedWhole
<1> QED BY <1>1, ExchangeInductive, PTL

\* Reassembly is the inverse of fragmentation (reassembly/request.ts, reassembly/index.ts).
THEOREM RebuiltExactlyAlways == ExchangeSpec => []RebuiltExactly
<1>1. ExchangeInv => RebuiltExactly
  <2> SUFFICES ASSUME ExchangeInv PROVE RebuiltExactly
    OBVIOUS
  <2>1. ASSUME ~Exhausted(cursor), Feasible(cursor), parts # None
        PROVE  Appendable(parts, Fragment(cursor))
    <3>1. ~cursor.first
      BY <2>1, Zenon DEF ExchangeInv
    <3> QED BY <2>1, <3>1, LaterFragment, Zenon DEF ExchangeInv, Between
  <2> QED BY <2>1, Zenon DEF ExchangeInv, RebuiltExactly
<1> QED BY <1>1, ExchangeInductive, PTL

\* Induction over the naturals, for a set.
LEMMA Least ==
  ASSUME NEW T \in SUBSET Nat, T # {}
  PROVE  \E m \in T : \A k \in T : m <= k
<1> DEFINE R == OpToRel(<, Nat)
<1>1. \E x \in T : \A y \in T : ~ (<<y, x>> \in R)
  BY WFMin, NatLessThanWellFounded
<1>2. \A x, y \in T : y < x => <<y, x>> \in R
  BY DEF OpToRel
<1>3. PICK x \in T : \A y \in T : ~(<<y, x>> \in R)
  BY <1>1 DEF R, OpToRel
<1>4. \A y \in T : ~(y < x)
  BY <1>2, <1>3, Zenon
<1>5. \A y \in T : y \in Nat /\ x \in Nat
  OBVIOUS
<1> HIDE DEF R
<1> QED BY <1>4, <1>5

LEMMA SetInduction ==
  ASSUME NEW T, 0 \in T, \A n \in Nat : n \in T => n + 1 \in T
  PROVE  \A n \in Nat : n \in T
<1>1. SUFFICES ASSUME NEW q \in Nat, q \notin T PROVE FALSE
  OBVIOUS
<1> DEFINE U == {n \in Nat : n \notin T}
<1>2. PICK m \in U : \A k \in U : m <= k
  <2>1. q \in U /\ U \in SUBSET Nat
    BY <1>1
  <2> HIDE DEF U
  <2> QED BY <2>1, Least
<1>3. m \in Nat /\ m # 0 /\ m - 1 \in Nat /\ m \notin T
  OBVIOUS
<1>4. m - 1 \in T
  BY <1>2, <1>3
<1> QED BY <1>3, <1>4

----------------------------------------------------------------------------
(* The octets of a wire.  What a frame may be, and the sum of its packets. *)

Octet == Nat \X Nat \X {"metadata", "data"} \X Nat     \* of a logical frame's parts

AnyFrame ==
  [type : Requests \cup {"payload", "cancel", "error"}, stream : Nat, follows : BOOLEAN,
   next : BOOLEAN, complete : BOOLEAN, hasMetadata : BOOLEAN,
   metadata : Seq(Octet), data : Seq(Octet)]

SizedFrame == {f \in AnyFrame : FrameLength(f) \in 6..MaxFrameLength}

Cell == Nat \X Nat                                     \* a TCP byte

PacketOf(w, k) == [i \in 1..PacketLength(w[k]) |-> <<k, i>>]

SumStep(w, F, k) == IF k = 0 THEN 0 ELSE F[k - 1] + PacketLength(w[k])
BytesOf(w, n) == LET sum[k \in 0..n] == IF k = 0 THEN 0 ELSE sum[k - 1] + PacketLength(w[k])
                 IN  sum[n]
StreamOf(w) == FlattenSeq([k \in 1..Len(w) |-> PacketOf(w, k)])

LEMMA StreamOfWire ==
  /\ ByteStream = StreamOf(wire)
  /\ \A n : Bytes(n) = BytesOf(wire, n)
  /\ \A k : Packet(k) = PacketOf(wire, k)
<1>1. \A k : Packet(k) = PacketOf(wire, k)
  BY DEF Packet, PacketOf
<1>2. \A n : Bytes(n) = BytesOf(wire, n)
  BY DEF Bytes, BytesOf
<1>3. ByteStream = StreamOf(wire)
  BY DEF ByteStream, StreamOf, Packet, PacketOf
<1> QED BY <1>1, <1>2, <1>3

LEMMA PacketsAreLong ==
  ASSUME NEW w \in Seq(SizedFrame)
  PROVE  /\ Len(w) \in Nat
         /\ \A k \in 1..Len(w) : /\ w[k] \in SizedFrame
                                 /\ FrameLength(w[k]) \in 6..MaxFrameLength
                                 /\ PacketLength(w[k]) = 3 + FrameLength(w[k])
                                 /\ PacketLength(w[k]) \in Nat /\ PacketLength(w[k]) >= 9
<1>1. MaxFrameLength \in Nat
  BY MaxFrameLengthAssumption
<1>2. Len(w) \in Nat /\ \A k \in 1..Len(w) : w[k] \in SizedFrame
  BY LenProperties, ElementOfSeq
<1>3. \A k \in 1..Len(w) : FrameLength(w[k]) \in 6..MaxFrameLength
  BY <1>2, Zenon DEF SizedFrame
<1> QED BY <1>1, <1>2, <1>3 DEF PacketLength, PrefixLength

LEMMA SumExists ==
  ASSUME NEW w, NEW n \in Nat
  PROVE  \E F : F = [i \in 0..n |-> SumStep(w, F, i)]
<1> DEFINE T == {m \in Nat : \E F : F = [i \in 0..m |-> SumStep(w, F, i)]}
<1>1. 0 \in T
  <2> DEFINE F == [i \in 0..0 |-> 0]
  <2>1. F = [i \in 0..0 |-> SumStep(w, F, i)]
    BY DEF SumStep
  <2> QED BY <2>1
<1>2. ASSUME NEW m \in Nat, m \in T PROVE m + 1 \in T
  <2>1. PICK F : F = [i \in 0..m |-> SumStep(w, F, i)]
    BY <1>2
  <2> DEFINE G == [i \in 0..(m + 1) |-> IF i <= m THEN F[i] ELSE SumStep(w, F, i)]
  <2>2. \A i \in 0..m : G[i] = F[i]
    OBVIOUS
  <2>3. ASSUME NEW i \in 0..(m + 1) PROVE G[i] = SumStep(w, G, i)
    <3>1. i # 0 => i - 1 \in 0..m
      BY <2>3
    <3>2. SumStep(w, G, i) = SumStep(w, F, i)
      BY <2>2, <3>1 DEF SumStep
    <3>3. CASE i <= m
      <4>1. i \in 0..m
        BY <2>3, <3>3
      <4>2. F[i] = SumStep(w, F, i)
        BY <2>1, <4>1
      <4> QED BY <2>2, <3>2, <4>1, <4>2
    <3>4. CASE ~(i <= m)
      BY <3>2, <3>4
    <3> QED BY <3>3, <3>4
  <2>4. G = [i \in 0..(m + 1) |-> SumStep(w, G, i)]
    <3>1. G = [i \in 0..(m + 1) |-> G[i]]
      OBVIOUS
    <3> HIDE DEF G
    <3> QED BY <2>3, <3>1
  <2> HIDE DEF G
  <2>5. \E H : H = [i \in 0..(m + 1) |-> SumStep(w, H, i)]
    BY <2>4
  <2> QED BY <2>5
<1> HIDE DEF T
<1>3. n \in T
  BY <1>1, <1>2, SetInduction
<1> QED BY <1>3 DEF T

\* Bytes(n) is the last of the running sums its definition speaks of.
LEMMA RunningSums ==
  ASSUME NEW w, NEW n \in Nat
  PROVE  \E F : /\ BytesOf(w, n) = F[n] /\ F[0] = 0
                /\ \A i \in 1..n : F[i] = F[i - 1] + PacketLength(w[i])
<1> DEFINE K == CHOOSE F : F = [i \in 0..n |-> SumStep(w, F, i)]
<1>1. K = [i \in 0..n |-> SumStep(w, K, i)]
  BY SumExists
<1>2. BytesOf(w, n) = K[n]
  BY DEF BytesOf, SumStep
<1> HIDE DEF K
<1>3. K[0] = 0
  BY <1>1 DEF SumStep
<1>4. ASSUME NEW i \in 1..n PROVE K[i] = K[i - 1] + PacketLength(w[i])
  <2>1. i \in 0..n /\ i # 0
    OBVIOUS
  <2>2. K[i] = SumStep(w, K, i)
    BY <1>1, <2>1
  <2> QED BY <2>1, <2>2 DEF SumStep
<1> QED BY <1>2, <1>3, <1>4

Sums(F, w, n) == \A i \in 1..n : /\ PacketLength(w[i]) \in Nat
                                  /\ F[i] = F[i - 1] + PacketLength(w[i])

LEMMA SumsAgree ==
  ASSUME NEW n \in Nat, NEW w, NEW F, NEW G, F[0] = 0, G[0] = 0, Sums(F, w, n), Sums(G, w, n)
  PROVE  F[n] \in Nat /\ F[n] = G[n]
<1> DEFINE T == {i \in Nat : i <= n => F[i] \in Nat /\ F[i] = G[i]}
<1>1. 0 \in T
  OBVIOUS
<1>2. ASSUME NEW i \in Nat, i \in T PROVE i + 1 \in T
  <2> SUFFICES ASSUME i + 1 <= n PROVE F[i + 1] \in Nat /\ F[i + 1] = G[i + 1]
    OBVIOUS
  <2>1. F[i] \in Nat /\ F[i] = G[i]
    BY <1>2
  <2>2. i + 1 \in 1..n /\ (i + 1) - 1 = i
    OBVIOUS
  <2>3. /\ PacketLength(w[i + 1]) \in Nat
        /\ F[i + 1] = F[i] + PacketLength(w[i + 1]) /\ G[i + 1] = G[i] + PacketLength(w[i + 1])
    BY <2>2 DEF Sums
  <2> QED BY <2>1, <2>3
<1> HIDE DEF T
<1>3. n \in T
  BY <1>1, <1>2, SetInduction
<1> QED BY <1>3 DEF T

\* Two wires that agree up to a frame have the same bytes up to it.
LEMMA BytesAgree ==
  ASSUME NEW w \in Seq(SizedFrame), NEW v, NEW n \in 0..Len(w), \A i \in 1..n : v[i] = w[i]
  PROVE  BytesOf(w, n) \in Nat /\ BytesOf(v, n) = BytesOf(w, n)
<1>1. n \in Nat /\ \A i \in 1..n : PacketLength(w[i]) \in Nat /\ PacketLength(v[i]) = PacketLength(w[i])
  BY PacketsAreLong
<1>2. PICK F : /\ BytesOf(w, n) = F[n] /\ F[0] = 0
               /\ \A i \in 1..n : F[i] = F[i - 1] + PacketLength(w[i])
  BY <1>1, RunningSums
<1>3. PICK G : /\ BytesOf(v, n) = G[n] /\ G[0] = 0
               /\ \A i \in 1..n : G[i] = G[i - 1] + PacketLength(v[i])
  BY <1>1, RunningSums
<1>4. Sums(F, w, n) /\ Sums(G, w, n)
  BY <1>1, <1>2, <1>3 DEF Sums
<1>5. F[n] \in Nat /\ F[n] = G[n]
  BY <1>1, <1>2, <1>3, <1>4, SumsAgree
<1> QED BY <1>2, <1>3, <1>5

\* The sum, one packet at a time.
LEMMA BytesStep ==
  ASSUME NEW w \in Seq(SizedFrame)
  PROVE  /\ BytesOf(w, 0) = 0
         /\ \A n \in 1..Len(w) : /\ BytesOf(w, n - 1) \in Nat /\ BytesOf(w, n) \in Nat
                                 /\ BytesOf(w, n) = BytesOf(w, n - 1) + PacketLength(w[n])
<1>0. Len(w) \in Nat /\ \A k \in 1..Len(w) : PacketLength(w[k]) \in Nat
  BY PacketsAreLong
<1>1. BytesOf(w, 0) = 0
  BY RunningSums
<1>2. ASSUME NEW n \in 1..Len(w)
      PROVE  /\ BytesOf(w, n - 1) \in Nat /\ BytesOf(w, n) \in Nat
             /\ BytesOf(w, n) = BytesOf(w, n - 1) + PacketLength(w[n])
  <2>0. n \in Nat /\ n - 1 \in Nat /\ 1..(n - 1) \subseteq 1..n /\ 1..n \subseteq 1..Len(w) /\ n \in 1..n
    BY <1>0
  <2>1. PICK F : /\ BytesOf(w, n) = F[n] /\ F[0] = 0
                 /\ \A i \in 1..n : F[i] = F[i - 1] + PacketLength(w[i])
    BY <2>0, RunningSums
  <2>2. PICK G : /\ BytesOf(w, n - 1) = G[n - 1] /\ G[0] = 0
                 /\ \A i \in 1..(n - 1) : G[i] = G[i - 1] + PacketLength(w[i])
    BY <2>0, RunningSums
  <2>3. Sums(F, w, n - 1) /\ Sums(G, w, n - 1)
    BY <1>0, <2>0, <2>1, <2>2 DEF Sums
  <2>4. F[n - 1] \in Nat /\ F[n - 1] = G[n - 1]
    BY <2>0, <2>1, <2>2, <2>3, SumsAgree
  <2>5. F[n] = F[n - 1] + PacketLength(w[n]) /\ PacketLength(w[n]) \in Nat
    BY <1>0, <2>0, <2>1
  <2> QED BY <2>1, <2>2, <2>4, <2>5
<1> QED BY <1>1, <1>2

LEMMA BytesGrow ==
  ASSUME NEW w \in Seq(SizedFrame), NEW i \in 0..Len(w), NEW j \in i..Len(w)
  PROVE  /\ BytesOf(w, i) \in Nat /\ BytesOf(w, j) \in Nat /\ BytesOf(w, i) <= BytesOf(w, j)
         /\ i < j => BytesOf(w, i + 1) <= BytesOf(w, j) /\ BytesOf(w, i) < BytesOf(w, i + 1)
<1>0. Len(w) \in Nat /\ \A k \in 1..Len(w) : PacketLength(w[k]) \in Nat /\ PacketLength(w[k]) >= 9
  BY PacketsAreLong
<1> DEFINE B(n) == BytesOf(w, n)
<1>1. \A n \in 0..Len(w) : B(n) \in Nat
  <2> TAKE n \in 0..Len(w)
  <2>1. CASE n = 0
    BY <2>1, BytesStep
  <2>2. CASE n # 0
    <3>1. n \in 1..Len(w)
      BY <1>0, <2>2
    <3> QED BY <3>1, BytesStep
  <2> QED BY <2>1, <2>2
<1>2. \A n \in 1..Len(w) : B(n) = B(n - 1) + PacketLength(w[n])
  BY BytesStep
<1> HIDE DEF B
<1>3. ASSUME NEW a \in 0..Len(w) PROVE \A d \in Nat : a + d <= Len(w) => B(a) <= B(a + d)
  <2> DEFINE T == {d \in Nat : a + d <= Len(w) => B(a) <= B(a + d)}
  <2>0. a \in Nat /\ B(a) \in Nat
    BY <1>1
  <2>1. 0 \in T
    <3>1. a + 0 = a
      BY <2>0
    <3> QED BY <2>0, <3>1
  <2>2. ASSUME NEW d \in Nat, d \in T PROVE d + 1 \in T
    <3> SUFFICES ASSUME a + (d + 1) <= Len(w) PROVE B(a) <= B(a + (d + 1))
      OBVIOUS
    <3>1. a + (d + 1) \in 1..Len(w) /\ (a + (d + 1)) - 1 = a + d /\ a + d <= Len(w) /\ a + d \in 0..Len(w)
      BY <1>0, <2>0
    <3>2. B(a + (d + 1)) = B(a + d) + PacketLength(w[a + (d + 1)]) /\ PacketLength(w[a + (d + 1)]) \in Nat
      BY <1>0, <1>2, <3>1
    <3>3. B(a) <= B(a + d) /\ B(a + d) \in Nat
      BY <1>1, <2>2, <3>1
    <3> QED BY <2>0, <3>2, <3>3
  <2> HIDE DEF T
  <2>3. \A d \in Nat : d \in T
    BY <2>1, <2>2, SetInduction
  <2> QED BY <2>3 DEF T
<1>4. \A a \in 0..Len(w), b \in 0..Len(w) : a <= b => B(a) <= B(b)
  <2> SUFFICES ASSUME NEW a \in 0..Len(w), NEW b \in 0..Len(w), a <= b PROVE B(a) <= B(b)
    OBVIOUS
  <2>1. b - a \in Nat /\ a + (b - a) = b /\ b <= Len(w)
    BY <1>0
  <2> QED BY <1>3, <2>1
<1>5. i \in 0..Len(w) /\ j \in 0..Len(w) /\ i <= j
  BY <1>0
<1>6. ASSUME i < j PROVE B(i + 1) <= B(j) /\ B(i) < B(i + 1)
  <2>1. i + 1 \in 0..Len(w) /\ i + 1 <= j /\ i + 1 \in 1..Len(w) /\ (i + 1) - 1 = i
    BY <1>0, <1>5, <1>6
  <2>2. B(i + 1) = B(i) + PacketLength(w[i + 1]) /\ PacketLength(w[i + 1]) >= 9 /\ PacketLength(w[i + 1]) \in Nat
    BY <1>0, <1>2, <2>1
  <2> QED BY <1>1, <1>4, <1>5, <2>1, <2>2
<1> QED BY <1>1, <1>4, <1>5, <1>6 DEF B

----------------------------------------------------------------------------
(* The byte stream: byte j of packet k is where the sum of the packets     *)
(* before it says.                                                         *)
FlattenStep(seqs, F, i) == IF i = 1 THEN seqs[i] ELSE F[i - 1] \o seqs[i]

LEMMA FlattenExists ==
  ASSUME NEW seqs, NEW n \in Nat
  PROVE  \E F : F = [i \in 1..n |-> FlattenStep(seqs, F, i)]
<1> DEFINE T == {m \in Nat : \E F : F = [i \in 1..m |-> FlattenStep(seqs, F, i)]}
<1>1. 0 \in T
  <2> DEFINE F == [i \in 1..0 |-> 0]
  <2>1. F = [i \in 1..0 |-> FlattenStep(seqs, F, i)]
    OBVIOUS
  <2> QED BY <2>1
<1>2. ASSUME NEW m \in Nat, m \in T PROVE m + 1 \in T
  <2>1. PICK F : F = [i \in 1..m |-> FlattenStep(seqs, F, i)]
    BY <1>2
  <2> DEFINE G == [i \in 1..(m + 1) |-> IF i <= m THEN F[i] ELSE FlattenStep(seqs, F, i)]
  <2>2. \A i \in 1..m : G[i] = F[i]
    OBVIOUS
  <2>3. ASSUME NEW i \in 1..(m + 1) PROVE G[i] = FlattenStep(seqs, G, i)
    <3>1. i # 1 => i - 1 \in 1..m
      BY <2>3
    <3>2. FlattenStep(seqs, G, i) = FlattenStep(seqs, F, i)
      BY <2>2, <3>1 DEF FlattenStep
    <3>3. CASE i <= m
      <4>1. i \in 1..m
        BY <2>3, <3>3
      <4>2. F[i] = FlattenStep(seqs, F, i)
        BY <2>1, <4>1
      <4> QED BY <2>2, <3>2, <4>1, <4>2
    <3>4. CASE ~(i <= m)
      BY <3>2, <3>4
    <3> QED BY <3>3, <3>4
  <2>4. G = [i \in 1..(m + 1) |-> FlattenStep(seqs, G, i)]
    <3>1. G = [i \in 1..(m + 1) |-> G[i]]
      OBVIOUS
    <3> HIDE DEF G
    <3> QED BY <2>3, <3>1
  <2> HIDE DEF G
  <2>5. \E H : H = [i \in 1..(m + 1) |-> FlattenStep(seqs, H, i)]
    BY <2>4
  <2> QED BY <2>5
<1> HIDE DEF T
<1>3. n \in T
  BY <1>1, <1>2, SetInduction
<1> QED BY <1>3 DEF T

LEMMA Concatenations ==
  ASSUME NEW seqs, Len(seqs) \in Nat, Len(seqs) # 0
  PROVE  \E F : /\ FlattenSeq(seqs) = F[Len(seqs)] /\ F[1] = seqs[1]
                /\ \A i \in 2..Len(seqs) : F[i] = F[i - 1] \o seqs[i]
<1> DEFINE n == Len(seqs)
<1> DEFINE K == CHOOSE F : F = [i \in 1..n |-> FlattenStep(seqs, F, i)]
<1>1. K = [i \in 1..n |-> FlattenStep(seqs, K, i)]
  BY FlattenExists
<1>2. FlattenSeq(seqs) = K[n]
  BY DEF FlattenSeq, FlattenStep
<1> HIDE DEF K
<1>3. K[1] = seqs[1]
  <2>1. 1 \in 1..n
    OBVIOUS
  <2>2. K[1] = FlattenStep(seqs, K, 1)
    BY <1>1, <2>1
  <2> QED BY <2>2 DEF FlattenStep
<1>4. ASSUME NEW i \in 2..n PROVE K[i] = K[i - 1] \o seqs[i]
  <2>1. i \in 1..n /\ i # 1
    OBVIOUS
  <2>2. K[i] = FlattenStep(seqs, K, i)
    BY <1>1, <2>1
  <2> QED BY <2>1, <2>2 DEF FlattenStep
<1> QED BY <1>2, <1>3, <1>4

LEMMA PacketCells ==
  ASSUME NEW w \in Seq(SizedFrame), NEW k \in 1..Len(w)
  PROVE  /\ PacketOf(w, k) \in Seq(Cell) /\ Len(PacketOf(w, k)) = PacketLength(w[k])
         /\ \A j \in 1..PacketLength(w[k]) : PacketOf(w, k)[j] = <<k, j>>
<1>1. PacketLength(w[k]) \in Nat /\ k \in Nat
  BY PacketsAreLong
<1>2. \A j \in 1..PacketLength(w[k]) : <<k, j>> \in Cell
  BY <1>1 DEF Cell
<1> QED BY <1>1, <1>2 DEF PacketOf

\* A sequence of cells that holds the first i packets.
Carries(s, w, i) ==
  /\ s \in Seq(Cell) /\ Len(s) = BytesOf(w, i)
  /\ \A k \in 1..i : \A j \in 1..PacketLength(w[k]) : s[BytesOf(w, k - 1) + j] = <<k, j>>

LEMMA CarriesOneMore ==
  ASSUME NEW w \in Seq(SizedFrame), NEW i \in 1..Len(w), NEW s, Carries(s, w, i - 1)
  PROVE  Carries(s \o PacketOf(w, i), w, i)
<1> DEFINE p == PacketOf(w, i)
           B(k) == BytesOf(w, k)
           P(k) == PacketLength(w[k])
<1>0. Len(w) \in Nat /\ i \in Nat /\ i - 1 \in 0..Len(w) /\ i \in 0..Len(w)
  BY PacketsAreLong
<1>1. p \in Seq(Cell) /\ Len(p) = P(i) /\ \A j \in 1..P(i) : p[j] = <<i, j>>
  BY PacketCells
<1>2. \A k \in 1..Len(w) : /\ P(k) \in Nat /\ B(k - 1) \in Nat /\ B(k) \in Nat /\ B(k) = B(k - 1) + P(k)
  BY PacketsAreLong, BytesStep
<1>3. s \in Seq(Cell) /\ Len(s) = B(i - 1)
      /\ \A k \in 1..(i - 1) : \A j \in 1..P(k) : s[B(k - 1) + j] = <<k, j>>
  BY DEF Carries
<1>4. \A k \in 1..(i - 1) : B(k) <= B(i - 1)
  <2> TAKE k \in 1..(i - 1)
  <2>1. k \in 0..Len(w) /\ i - 1 \in k..Len(w)
    BY <1>0
  <2> QED BY <2>1, BytesGrow
<1> HIDE DEF p, B, P
<1>5. /\ s \o p \in Seq(Cell) /\ Len(s \o p) = B(i)
      /\ \A x \in 1..B(i - 1) : (s \o p)[x] = s[x]
      /\ \A x \in 1..P(i) : (s \o p)[B(i - 1) + x] = p[x]
  <2>1. P(i) \in Nat /\ B(i - 1) \in Nat /\ B(i) = B(i - 1) + P(i)
    BY <1>2
  <2>2. /\ s \o p \in Seq(Cell) /\ Len(s \o p) = Len(s) + Len(p)
        /\ \A x \in 1 .. Len(s) + Len(p) : (s \o p)[x] = IF x <= Len(s) THEN s[x] ELSE p[x - Len(s)]
    BY <1>1, <1>3, ConcatProperties
  <2> QED BY <1>1, <1>3, <2>1, <2>2, SMTT(30)
<1>6. ASSUME NEW k \in 1..i, NEW j \in 1..P(k) PROVE (s \o p)[B(k - 1) + j] = <<k, j>>
  <2>1. CASE k = i
    <3>1. j \in 1..P(i)
      BY <2>1
    <3>2. (s \o p)[B(i - 1) + j] = p[j]
      BY <1>5, <3>1, Zenon
    <3>3. p[j] = <<i, j>>
      BY <1>1, <3>1, Zenon
    <3> QED BY <2>1, <3>2, <3>3, Zenon
  <2>2. CASE k # i
    <3>1. k \in 1..(i - 1) /\ k \in 1..Len(w)
      BY <1>0, <2>2
    <3>2. B(k - 1) + j \in 1..B(i - 1)
      BY <1>0, <1>2, <1>4, <3>1, SMTT(30)
    <3> QED BY <1>3, <1>5, <3>1, <3>2
  <2> QED BY <2>1, <2>2
<1> QED BY <1>5, <1>6 DEF Carries, B, P, p

LEMMA StreamCarriesAll ==
  ASSUME NEW w \in Seq(SizedFrame)
  PROVE  Carries(StreamOf(w), w, Len(w))
<1> DEFINE seqs == [k \in 1..Len(w) |-> PacketOf(w, k)]
<1>0. Len(w) \in Nat
  BY PacketsAreLong
<1>1. Len(seqs) = Len(w) /\ (\A k \in 1..Len(w) : seqs[k] = PacketOf(w, k)) /\ StreamOf(w) = FlattenSeq(seqs)
  BY <1>0 DEF StreamOf
<1>2. CASE Len(w) = 0
  <2>1. seqs = <<>>
    BY <1>2
  <2>2. StreamOf(w) = <<>>
    BY <1>1, <1>2, <2>1 DEF FlattenSeq
  <2>3. BytesOf(w, 0) = 0
    BY BytesStep
  <2> QED BY <1>2, <2>2, <2>3 DEF Carries
<1>3. CASE Len(w) # 0
  <2> HIDE DEF seqs
  <2>1. PICK F : /\ FlattenSeq(seqs) = F[Len(w)] /\ F[1] = seqs[1]
                 /\ \A i \in 2..Len(w) : F[i] = F[i - 1] \o seqs[i]
    <3>1. Len(seqs) \in Nat /\ Len(seqs) # 0
      BY <1>0, <1>1, <1>3
    <3>2. \E F : /\ FlattenSeq(seqs) = F[Len(seqs)] /\ F[1] = seqs[1]
                 /\ \A i \in 2..Len(seqs) : F[i] = F[i - 1] \o seqs[i]
      BY <3>1, Concatenations
    <3> QED BY <1>1, <3>2
  <2> DEFINE T == {i \in Nat : i + 1 <= Len(w) => Carries(F[i + 1], w, i + 1)}
  <2>2. 0 \in T
    <3>1. Carries(<<>>, w, 0)
      BY BytesStep DEF Carries
    <3>2. 1 \in 1..Len(w) /\ 1 - 1 = 0 /\ 0 + 1 = 1
      BY <1>0, <1>3
    <3>3. PacketOf(w, 1) \in Seq(Cell)
      BY <3>2, PacketCells
    <3>4. <<>> \o PacketOf(w, 1) = PacketOf(w, 1)
      BY <3>3, ConcatEmptySeq
    <3>5. Carries(<<>> \o PacketOf(w, 1), w, 1)
      BY <3>1, <3>2, CarriesOneMore
    <3> QED BY <1>1, <2>1, <3>2, <3>4, <3>5
  <2>3. ASSUME NEW i \in Nat, i \in T PROVE i + 1 \in T
    <3> SUFFICES ASSUME (i + 1) + 1 <= Len(w) PROVE Carries(F[(i + 1) + 1], w, (i + 1) + 1)
      OBVIOUS
    <3>1. (i + 1) + 1 \in 2..Len(w) /\ (i + 1) + 1 \in 1..Len(w) /\ ((i + 1) + 1) - 1 = i + 1 /\ i + 1 <= Len(w)
      BY <1>0
    <3>2. Carries(F[i + 1], w, i + 1)
      BY <2>3, <3>1
    <3>3. F[(i + 1) + 1] = F[i + 1] \o PacketOf(w, (i + 1) + 1)
      BY <1>1, <2>1, <3>1
    <3> QED BY <3>1, <3>2, <3>3, CarriesOneMore
  <2> HIDE DEF T
  <2>4. Len(w) - 1 \in Nat /\ (Len(w) - 1) + 1 = Len(w)
    BY <1>0, <1>3
  <2>5. Len(w) - 1 \in T
    BY <2>2, <2>3, <2>4, SetInduction
  <2> QED BY <1>1, <2>1, <2>4, <2>5 DEF T
<1> QED BY <1>2, <1>3

----------------------------------------------------------------------------
(* Pieces of the byte stream: the bytes of w that follow the first "from". *)

Run(bytes, w, from) ==
  /\ bytes \in Seq(Cell)
  /\ \A k \in 1..Len(w) : \A j \in 1..PacketLength(w[k]) :
       (BytesOf(w, k - 1) + j) - from \in 1..Len(bytes) =>
         bytes[(BytesOf(w, k - 1) + j) - from] = <<k, j>>

LEMMA RunPositions ==
  ASSUME NEW w \in Seq(SizedFrame), NEW k \in 1..Len(w), NEW j \in 1..PacketLength(w[k])
  PROVE  /\ BytesOf(w, k - 1) \in Nat /\ BytesOf(w, k - 1) + j \in 1..BytesOf(w, Len(w))
         /\ BytesOf(w, Len(w)) \in Nat
<1>1. /\ Len(w) \in Nat /\ PacketLength(w[k]) \in Nat /\ BytesOf(w, k - 1) \in Nat
      /\ BytesOf(w, k) = BytesOf(w, k - 1) + PacketLength(w[k])
  BY PacketsAreLong, BytesStep
<1>2. k \in 0..Len(w) /\ Len(w) \in k..Len(w)
  BY <1>1
<1>3. BytesOf(w, k) <= BytesOf(w, Len(w)) /\ BytesOf(w, Len(w)) \in Nat
  BY <1>2, BytesGrow
<1> QED BY <1>1, <1>3, SMTT(30)

LEMMA RunOfStream ==
  ASSUME NEW w \in Seq(SizedFrame), NEW a \in Nat, NEW b \in a..BytesOf(w, Len(w))
  PROVE  /\ Run(SubSeq(StreamOf(w), a + 1, b), w, a)
         /\ Len(SubSeq(StreamOf(w), a + 1, b)) = b - a
<1> DEFINE s == StreamOf(w)
           total == BytesOf(w, Len(w))
           r == SubSeq(s, a + 1, b)
<1>0. /\ s \in Seq(Cell) /\ Len(s) = total
      /\ \A k \in 1..Len(w) : \A j \in 1..PacketLength(w[k]) : s[BytesOf(w, k - 1) + j] = <<k, j>>
  BY StreamCarriesAll DEF Carries
<1>1. total \in Nat /\ b \in Nat /\ a <= b /\ b <= total
  BY <1>0, LenProperties
<1>2. \A i \in (a + 1)..b : s[i] \in Cell
  BY <1>0, <1>1, ElementOfSeq
<1> HIDE DEF s
<1>3. /\ r \in Seq(Cell) /\ Len(r) = b - a
      /\ \A i \in 1..(b - a) : r[i] = s[a + i]
  <2>1. /\ SubSeq(s, a + 1, b) \in Seq(Cell)
        /\ Len(SubSeq(s, a + 1, b)) = IF a + 1 <= b THEN b - (a + 1) + 1 ELSE 0
        /\ \A i \in 1 .. b - (a + 1) + 1 : SubSeq(s, a + 1, b)[i] = s[(a + 1) + i - 1]
    <3>1. a + 1 \in Int /\ b \in Int
      BY <1>1
    <3> QED BY <1>2, <3>1, SubSeqProperties, SMTT(30)
  <2>2. b - (a + 1) + 1 = b - a /\ \A i \in 1..(b - a) : (a + 1) + i - 1 = a + i
    BY <1>1
  <2> QED BY <1>1, <2>1, <2>2
<1> HIDE DEF r
<1>4. ASSUME NEW k \in 1..Len(w), NEW j \in 1..PacketLength(w[k]),
             (BytesOf(w, k - 1) + j) - a \in 1..Len(r)
      PROVE  r[(BytesOf(w, k - 1) + j) - a] = <<k, j>>
  <2>1. a + ((BytesOf(w, k - 1) + j) - a) = BytesOf(w, k - 1) + j
    BY RunPositions, SMTT(30)
  <2> QED BY <1>0, <1>3, <1>4, <2>1
<1> QED BY <1>3, <1>4 DEF Run, r, s

LEMMA RunSplit ==
  ASSUME NEW w \in Seq(SizedFrame), NEW from \in Nat, NEW bytes, Run(bytes, w, from),
         NEW n \in 0..Len(bytes)
  PROVE  /\ Run(Take(bytes, n), w, from) /\ Len(Take(bytes, n)) = n
         /\ Run(Drop(bytes, n), w, from + n) /\ Len(Drop(bytes, n)) = Len(bytes) - n
<1> DEFINE t == Take(bytes, n)
           d == Drop(bytes, n)
<1>0. /\ bytes \in Seq(Cell) /\ Len(bytes) \in Nat /\ n \in Nat /\ n <= Len(bytes)
      /\ \A i \in 1..Len(bytes) : bytes[i] \in Cell
  BY LenProperties, ElementOfSeq DEF Run
<1>1. \A k \in 1..Len(w) : \A j \in 1..PacketLength(w[k]) :
        (BytesOf(w, k - 1) + j) - from \in 1..Len(bytes) =>
          bytes[(BytesOf(w, k - 1) + j) - from] = <<k, j>>
  BY DEF Run
<1>2. t \in Seq(Cell) /\ Len(t) = n /\ \A i \in 1..n : t[i] = bytes[i]
  <2>1. /\ SubSeq(bytes, 1, n) \in Seq(Cell)
        /\ Len(SubSeq(bytes, 1, n)) = IF 1 <= n THEN n - 1 + 1 ELSE 0
        /\ \A i \in 1 .. n - 1 + 1 : SubSeq(bytes, 1, n)[i] = bytes[1 + i - 1]
    <3>1. \A i \in 1..n : bytes[i] \in Cell
      BY <1>0
    <3>2. 1 \in Int /\ n \in Int
      BY <1>0
    <3> QED BY <3>1, <3>2, SubSeqProperties
  <2>2. n - 1 + 1 = n /\ \A i \in 1..n : 1 + i - 1 = i
    BY <1>0
  <2> QED BY <1>0, <2>1, <2>2 DEF Take
<1>3. d \in Seq(Cell) /\ Len(d) = Len(bytes) - n /\ \A i \in 1..(Len(bytes) - n) : d[i] = bytes[n + i]
  <2>1. /\ SubSeq(bytes, n + 1, Len(bytes)) \in Seq(Cell)
        /\ Len(SubSeq(bytes, n + 1, Len(bytes))) =
             IF n + 1 <= Len(bytes) THEN Len(bytes) - (n + 1) + 1 ELSE 0
        /\ \A i \in 1 .. Len(bytes) - (n + 1) + 1 :
             SubSeq(bytes, n + 1, Len(bytes))[i] = bytes[(n + 1) + i - 1]
    <3>1. \A i \in (n + 1)..Len(bytes) : bytes[i] \in Cell
      BY <1>0
    <3>2. n + 1 \in Int /\ Len(bytes) \in Int
      BY <1>0
    <3> QED BY <3>1, <3>2, SubSeqProperties
  <2>2. ASSUME NEW i \in 1..(Len(bytes) - n)
        PROVE  SubSeq(bytes, n + 1, Len(bytes))[i] = bytes[n + i]
    <3>1. i \in 1 .. Len(bytes) - (n + 1) + 1 /\ (n + 1) + i - 1 = n + i
      BY <1>0
    <3> QED BY <2>1, <3>1
  <2>3. Len(SubSeq(bytes, n + 1, Len(bytes))) = Len(bytes) - n
    BY <1>0, <2>1
  <2> QED BY <2>1, <2>2, <2>3 DEF Drop
<1> HIDE DEF t, d
<1>4. ASSUME NEW k \in 1..Len(w), NEW j \in 1..PacketLength(w[k])
      PROVE  /\ (BytesOf(w, k - 1) + j) - from \in 1..n => t[(BytesOf(w, k - 1) + j) - from] = <<k, j>>
             /\ (BytesOf(w, k - 1) + j) - (from + n) \in 1..(Len(bytes) - n) =>
                  d[(BytesOf(w, k - 1) + j) - (from + n)] = <<k, j>>
  <2> DEFINE p == BytesOf(w, k - 1) + j
  <2>1. p \in Nat
    BY RunPositions, SMTT(30)
  <2>2. p - from \in 1..Len(bytes) => bytes[p - from] = <<k, j>>
    BY <1>1
  <2> HIDE DEF p
  <2>3. p - from \in 1..n => p - from \in 1..Len(bytes)
    BY <1>0, <2>1
  <2>4. ASSUME p - (from + n) \in 1..(Len(bytes) - n) PROVE d[p - (from + n)] = <<k, j>>
    <3>1. n + (p - (from + n)) = p - from /\ p - from \in 1..Len(bytes)
      BY <1>0, <2>1, <2>4
    <3> QED BY <1>3, <2>2, <2>4, <3>1
  <2> QED BY <1>2, <2>2, <2>3, <2>4 DEF p
<1> QED BY <1>2, <1>3, <1>4 DEF Run, t, d

LEMMA RunConcat ==
  ASSUME NEW w \in Seq(SizedFrame), NEW from \in Nat, NEW a, NEW b,
         Run(a, w, from), Run(b, w, from + Len(a))
  PROVE  Run(a \o b, w, from) /\ Len(a \o b) = Len(a) + Len(b) /\ Len(a) \in Nat /\ Len(b) \in Nat
<1>0. a \in Seq(Cell) /\ b \in Seq(Cell) /\ Len(a) \in Nat /\ Len(b) \in Nat
  BY LenProperties DEF Run
<1>1. /\ a \o b \in Seq(Cell) /\ Len(a \o b) = Len(a) + Len(b)
      /\ \A x \in 1 .. Len(a) + Len(b) : (a \o b)[x] = IF x <= Len(a) THEN a[x] ELSE b[x - Len(a)]
  BY <1>0, ConcatProperties
<1>2. ASSUME NEW k \in 1..Len(w), NEW j \in 1..PacketLength(w[k]),
             (BytesOf(w, k - 1) + j) - from \in 1..Len(a \o b)
      PROVE  (a \o b)[(BytesOf(w, k - 1) + j) - from] = <<k, j>>
  <2> DEFINE p == BytesOf(w, k - 1) + j
  <2>1. p \in Nat
    BY RunPositions
  <2>2. p - from \in 1..Len(a) => a[p - from] = <<k, j>>
    BY DEF Run
  <2>3. p - (from + Len(a)) \in 1..Len(b) => b[p - (from + Len(a))] = <<k, j>>
    BY DEF Run
  <2>4. p - from \in 1..(Len(a) + Len(b))
    BY <1>1, <1>2
  <2> HIDE DEF p
  <2>5. CASE p - from <= Len(a)
    <3>1. p - from \in 1..Len(a)
      BY <1>0, <2>1, <2>4, <2>5
    <3>2. (a \o b)[p - from] = a[p - from]
      BY <1>1, <2>4, <2>5
    <3> QED BY <2>2, <3>1, <3>2 DEF p
  <2>6. CASE ~(p - from <= Len(a))
    <3>1. p - (from + Len(a)) \in 1..Len(b) /\ (p - from) - Len(a) = p - (from + Len(a))
      BY <1>0, <2>1, <2>4, <2>6
    <3>2. (a \o b)[p - from] = b[(p - from) - Len(a)]
      BY <1>1, <2>4, <2>6
    <3> QED BY <2>3, <3>1, <3>2 DEF p
  <2> QED BY <2>5, <2>6 DEF p
<1> QED BY <1>0, <1>1, <1>2 DEF Run

LEMMA AppendedWire ==
  ASSUME NEW w \in Seq(SizedFrame), NEW f \in SizedFrame
  PROVE  /\ Append(w, f) \in Seq(SizedFrame) /\ Len(Append(w, f)) = Len(w) + 1 /\ Len(w) \in Nat
         /\ \A i \in 1..Len(w) : Append(w, f)[i] = w[i]
         /\ Append(w, f)[Len(w) + 1] = f
         /\ \A n \in 0..Len(w) : BytesOf(Append(w, f), n) = BytesOf(w, n) /\ BytesOf(w, n) \in Nat
         /\ BytesOf(w, Len(w)) <= BytesOf(Append(w, f), Len(w) + 1)
         /\ BytesOf(Append(w, f), Len(w) + 1) \in Nat
<1> DEFINE v == Append(w, f)
<1>1. /\ v \in Seq(SizedFrame) /\ Len(v) = Len(w) + 1 /\ Len(w) \in Nat
      /\ \A i \in 1..Len(w) : v[i] = w[i]
      /\ v[Len(w) + 1] = f
  BY AppendProperties, LenProperties
<1> HIDE DEF v
<1>2. ASSUME NEW n \in 0..Len(w) PROVE BytesOf(v, n) = BytesOf(w, n) /\ BytesOf(w, n) \in Nat
  <2>1. \A i \in 1..n : v[i] = w[i]
    BY <1>1
  <2> QED BY <2>1, BytesAgree
<1>3. Len(w) \in 0..Len(v) /\ Len(w) + 1 \in Len(w)..Len(v) /\ Len(w) \in 0..Len(w)
  BY <1>1
<1>4. BytesOf(v, Len(w)) <= BytesOf(v, Len(w) + 1) /\ BytesOf(v, Len(w) + 1) \in Nat
  BY <1>1, <1>3, BytesGrow
<1> QED BY <1>1, <1>2, <1>3, <1>4 DEF v

LEMMA RunGrows ==
  ASSUME NEW w \in Seq(SizedFrame), NEW f \in SizedFrame, NEW from \in Nat, NEW bytes,
         Run(bytes, w, from), from + Len(bytes) <= BytesOf(w, Len(w))
  PROVE  Run(bytes, Append(w, f), from)
<1> DEFINE v == Append(w, f)
<1>1. /\ v \in Seq(SizedFrame) /\ Len(v) = Len(w) + 1 /\ Len(w) \in Nat
      /\ \A i \in 1..Len(w) : v[i] = w[i]
      /\ \A n \in 0..Len(w) : BytesOf(v, n) = BytesOf(w, n) /\ BytesOf(w, n) \in Nat
  BY AppendedWire
<1>2. bytes \in Seq(Cell) /\ Len(bytes) \in Nat
  BY LenProperties DEF Run
<1> HIDE DEF v
<1> SUFFICES ASSUME NEW k \in 1..Len(v), NEW j \in 1..PacketLength(v[k]),
                    (BytesOf(v, k - 1) + j) - from \in 1..Len(bytes)
             PROVE  bytes[(BytesOf(v, k - 1) + j) - from] = <<k, j>>
  BY <1>2 DEF Run, v
<1>3. BytesOf(v, k - 1) \in Nat /\ PacketLength(v[k]) \in Nat
  BY <1>1, RunPositions, PacketsAreLong
<1>4. k # Len(w) + 1
  <2> SUFFICES ASSUME k = Len(w) + 1 PROVE FALSE
    OBVIOUS
  <2>1. k - 1 = Len(w) /\ Len(w) \in 0..Len(w)
    BY <1>1
  <2>2. BytesOf(v, k - 1) = BytesOf(w, Len(w))
    BY <1>1, <2>1
  <2> QED BY <1>2, <1>3, <2>2, SMTT(30)
<1>5. k \in 1..Len(w) /\ k - 1 \in 0..Len(w)
  BY <1>1, <1>4, SMTT(30)
<1>6. v[k] = w[k] /\ BytesOf(v, k - 1) = BytesOf(w, k - 1)
  BY <1>1, <1>5
<1>7. j \in 1..PacketLength(w[k]) /\ (BytesOf(w, k - 1) + j) - from \in 1..Len(bytes)
  BY <1>6
<1>8. bytes[(BytesOf(w, k - 1) + j) - from] = <<k, j>>
  BY <1>5, <1>7 DEF Run
<1> QED BY <1>6, <1>8

\* What begins at a frame boundary begins with the next packet.
LEMMA RunAtBoundary ==
  ASSUME NEW w \in Seq(SizedFrame), NEW n \in 0..Len(w), n < Len(w),
         NEW bytes, Run(bytes, w, BytesOf(w, n))
  PROVE  /\ n + 1 \in 1..Len(w) /\ BytesOf(w, n) \in Nat
         /\ BytesOf(w, n + 1) = BytesOf(w, n) + PacketLength(w[n + 1])
         /\ PacketLength(w[n + 1]) \in Nat /\ PacketLength(w[n + 1]) >= 9
         /\ bytes \in Seq(Cell) /\ Len(bytes) \in Nat
         /\ \A j \in 1..PacketLength(w[n + 1]) : j <= Len(bytes) => bytes[j] = <<n + 1, j>>
<1>1. /\ n + 1 \in 1..Len(w) /\ (n + 1) - 1 = n
  BY PacketsAreLong
<1>2. /\ BytesOf(w, n) \in Nat /\ BytesOf(w, n + 1) = BytesOf(w, n) + PacketLength(w[n + 1])
      /\ PacketLength(w[n + 1]) \in Nat /\ PacketLength(w[n + 1]) >= 9
  BY <1>1, PacketsAreLong, BytesStep
<1>3. bytes \in Seq(Cell) /\ Len(bytes) \in Nat
  BY LenProperties DEF Run
<1>4. ASSUME NEW j \in 1..PacketLength(w[n + 1]), j <= Len(bytes) PROVE bytes[j] = <<n + 1, j>>
  <2>1. (BytesOf(w, (n + 1) - 1) + j) - BytesOf(w, n) \in 1..Len(bytes) =>
          bytes[(BytesOf(w, (n + 1) - 1) + j) - BytesOf(w, n)] = <<n + 1, j>>
    BY <1>1 DEF Run
  <2>2. BytesOf(w, (n + 1) - 1) = BytesOf(w, n)
    BY <1>1
  <2>3. (BytesOf(w, n) + j) - BytesOf(w, n) = j /\ j \in 1..Len(bytes)
    BY <1>2, <1>3, <1>4
  <2> QED BY <2>1, <2>2, <2>3
<1> QED BY <1>1, <1>2, <1>3, <1>4

----------------------------------------------------------------------------
(* The decoder.                                                            *)

\* A prefix is read as the length of its frame, a whole packet as its frame.
LEMMA PrefixIsRead ==
  ASSUME NEW k, NEW bytes, \A i \in 1..3 : bytes[i] = <<k, i>>
  PROVE  ReadFrameSize(bytes) = FrameLength(wire[k])
<1>1. bytes[1] = <<k, 1>>
  OBVIOUS
<1>2. bytes[1][1] = k
  BY <1>1
<1> QED BY <1>2 DEF ReadFrameSize, PrefixLength

LEMMA PacketIsRead ==
  ASSUME wire \in Seq(SizedFrame), NEW k \in 1..Len(wire), NEW packet \in Seq(Cell),
         Len(packet) = PacketLength(wire[k]),
         \A j \in 1..PacketLength(wire[k]) : packet[j] = <<k, j>>
  PROVE  FrameOf(packet) = wire[k]
<1>1. PacketLength(wire[k]) \in Nat /\ PacketLength(wire[k]) >= 9
  BY PacketsAreLong
<1>2. packet = PacketOf(wire, k)
  <2> DEFINE p == PacketOf(wire, k)
  <2>1. /\ p \in Seq(Cell) /\ Len(p) = PacketLength(wire[k])
        /\ \A j \in 1..PacketLength(wire[k]) : p[j] = <<k, j>>
    BY PacketCells
  <2> HIDE DEF p
  <2>2. Len(packet) = Len(p) /\ \A j \in 1..Len(packet) : packet[j] = p[j]
    BY <2>1
  <2>3. packet = p
    BY <2>1, <2>2, SeqEqual
  <2> QED BY <2>3 DEF p
<1>3. packet = Packet(k)
  BY <1>2, StreamOfWire
<1>4. 1 \in 1..PacketLength(wire[k])
  BY <1>1
<1>5. packet[1] = <<k, 1>>
  BY <1>4
<1>6. packet[1][1] = k
  BY <1>5
<1> QED BY <1>3, <1>6 DEF FrameOf

\* What a decoder that has delivered n frames holds.
Holds(n) ==
  /\ wire \in Seq(SizedFrame) /\ n \in 0..Len(wire)
  /\ Run(storage, wire, BytesOf(wire, n))
  /\ Run(chunk, wire, BytesOf(wire, n) + Len(storage))
  /\ chunk # <<>>
  /\ BytesOf(wire, n) + Len(storage) + Len(chunk) <= BytesOf(wire, Len(wire))
  /\ storage # <<>> => Len(storage) < PacketLength(wire[n + 1])

\* What it does with it: never an error.
Decodes(n, push) ==
  LET size == PacketLength(wire[n + 1])
      held == Len(storage) + Len(chunk)
  IN  \/ /\ held >= size
         /\ push.outcome = "frame" /\ push.frame = wire[n + 1] /\ push.storage = <<>>
         /\ Run(push.chunk, wire, BytesOf(wire, n + 1)) /\ Len(push.chunk) = held - size
      \/ /\ held < size
         /\ push.outcome = "more" /\ push.chunk = <<>> /\ push.storage # <<>>
         /\ Run(push.storage, wire, BytesOf(wire, n)) /\ Len(push.storage) = held

LEMMA HoldsNumbers ==
  ASSUME NEW n, Holds(n)
  PROVE  /\ wire \in Seq(SizedFrame) /\ n \in 0..Len(wire) /\ n < Len(wire)
         /\ Len(wire) \in Nat /\ n \in Nat /\ n + 1 \in 1..Len(wire)
         /\ storage \in Seq(Cell) /\ chunk \in Seq(Cell)
         /\ Len(storage) \in Nat /\ Len(chunk) \in Nat /\ Len(chunk) > 0
         /\ BytesOf(wire, n) \in Nat /\ BytesOf(wire, n + 1) \in Nat
         /\ BytesOf(wire, n + 1) = BytesOf(wire, n) + PacketLength(wire[n + 1])
         /\ PacketLength(wire[n + 1]) \in Nat /\ PacketLength(wire[n + 1]) >= 9
         /\ FrameLength(wire[n + 1]) \in 6..MaxFrameLength
         /\ PacketLength(wire[n + 1]) = 3 + FrameLength(wire[n + 1])
<1>1. /\ wire \in Seq(SizedFrame) /\ n \in 0..Len(wire) /\ Len(wire) \in Nat /\ n \in Nat
      /\ Len(wire) \in n..Len(wire)
  BY PacketsAreLong DEF Holds
<1>2. storage \in Seq(Cell) /\ chunk \in Seq(Cell)
  BY DEF Holds, Run
<1>3. Len(storage) \in Nat /\ Len(chunk) \in Nat /\ Len(chunk) > 0
  <2>1. Len(storage) \in Nat /\ Len(chunk) \in Nat /\ chunk # <<>>
    BY <1>2, LenProperties DEF Holds
  <2>2. Len(chunk) \in Nat \ {0}
    BY <1>2, <2>1, EmptySeq
  <2> QED BY <2>1, <2>2
<1>4. BytesOf(wire, n) \in Nat /\ BytesOf(wire, Len(wire)) \in Nat
  BY <1>1, BytesGrow
<1>5. n < Len(wire)
  <2>1. BytesOf(wire, n) + Len(storage) + Len(chunk) <= BytesOf(wire, Len(wire))
    BY DEF Holds
  <2>2. n # Len(wire)
    BY <1>3, <1>4, <2>1
  <2> QED BY <1>1, <2>2
<1>6. n + 1 \in 1..Len(wire) /\ (n + 1) - 1 = n
  BY <1>1, <1>5
<1>7. /\ BytesOf(wire, n + 1) \in Nat
      /\ BytesOf(wire, n + 1) = BytesOf(wire, n) + PacketLength(wire[n + 1])
  BY <1>1, <1>6, BytesStep
<1>8. /\ PacketLength(wire[n + 1]) \in Nat /\ PacketLength(wire[n + 1]) >= 9
      /\ FrameLength(wire[n + 1]) \in 6..MaxFrameLength
      /\ PacketLength(wire[n + 1]) = 3 + FrameLength(wire[n + 1])
  BY <1>1, <1>6, PacketsAreLong
<1> QED BY <1>1, <1>2, <1>3, <1>4, <1>5, <1>6, <1>7, <1>8

LEMMA NonEmpty ==
  ASSUME NEW s \in Seq(Cell)
  PROVE  Len(s) \in Nat /\ (s # <<>> <=> Len(s) > 0)
<1>1. Len(s) \in Nat
  BY LenProperties
<1>2. s # <<>> => Len(s) \in Nat \ {0}
  BY EmptySeq
<1>3. s = <<>> => Len(s) = 0
  BY EmptySeq
<1> QED BY <1>1, <1>2, <1>3

LEMMA WholePackets ==
  ASSUME NEW n, Holds(n), storage = <<>>
  PROVE  Decodes(n, DecodeCompleteFrame)
<1> DEFINE size == PacketLength(wire[n + 1])
           base == BytesOf(wire, n)
<1>0. /\ wire \in Seq(SizedFrame) /\ n \in 0..Len(wire) /\ n < Len(wire)
      /\ n + 1 \in 1..Len(wire) /\ n \in Nat
      /\ chunk \in Seq(Cell) /\ Len(chunk) \in Nat /\ Len(chunk) > 0 /\ Len(storage) = 0
      /\ base \in Nat /\ BytesOf(wire, n + 1) = base + size
      /\ size \in Nat /\ size >= 9
      /\ FrameLength(wire[n + 1]) \in 6..MaxFrameLength
      /\ size = 3 + FrameLength(wire[n + 1])
      /\ MaxFrameLength \in Nat
  BY HoldsNumbers, MaxFrameLengthAssumption
<1>1. Run(chunk, wire, base)
  <2>1. Run(chunk, wire, base + Len(storage))
    BY DEF Holds
  <2>2. base + Len(storage) = base
    BY <1>0
  <2> QED BY <2>1, <2>2
<1>2. \A j \in 1..size : j <= Len(chunk) => chunk[j] = <<n + 1, j>>
  BY <1>0, <1>1, RunAtBoundary, SMTT(30)
<1> HIDE DEF size, base
<1>3. CASE Len(chunk) < 3
  <2>1. DecodeCompleteFrame = Retains(chunk)
    BY <1>3 DEF DecodeCompleteFrame, PrefixLength
  <2> QED BY <1>0, <1>1, <1>3, <2>1 DEF Decodes, size, base, Retains, Holds
<1>4. CASE ~(Len(chunk) < 3)
  <2>1. \A i \in 1..3 : chunk[i] = <<n + 1, i>>
    <3> TAKE i \in 1..3
    <3>1. i \in 1..size /\ i <= Len(chunk)
      BY <1>0, <1>4, SMTT(30)
    <3> QED BY <1>2, <3>1
  <2>2. ReadFrameSize(chunk) = FrameLength(wire[n + 1])
    BY <2>1, PrefixIsRead
  <2>3. PrefixLength + ReadFrameSize(chunk) = size /\ ValidSize(size - PrefixLength)
    BY <1>0, <2>2, SMTT(30) DEF PrefixLength, ValidSize
  <2>4. DecodeCompleteFrame = IF Len(chunk) < size THEN Retains(chunk)
                              ELSE Emits(Take(chunk, size), Drop(chunk, size))
    BY <1>4, <2>3 DEF DecodeCompleteFrame, PrefixLength
  <2>5. CASE Len(chunk) < size
    <3>1. DecodeCompleteFrame = Retains(chunk)
      BY <2>4, <2>5
    <3> QED BY <1>0, <1>1, <2>5, <3>1 DEF Decodes, size, base, Retains, Holds
  <2>6. CASE ~(Len(chunk) < size)
    <3>0. size \in 0..Len(chunk)
      BY <1>0, <2>6
    <3> DEFINE t == Take(chunk, size)
               d == Drop(chunk, size)
    <3>1. /\ Run(t, wire, base) /\ Len(t) = size
          /\ Run(d, wire, base + size) /\ Len(d) = Len(chunk) - size
      <4>1. wire \in Seq(SizedFrame) /\ base \in Nat
        BY <1>0
      <4> QED BY <1>1, <3>0, <4>1, RunSplit
    <3> HIDE DEF t, d
    <3>2. t \in Seq(Cell) /\ \A j \in 1..size : t[j] = <<n + 1, j>>
      <4>1. t \in Seq(Cell) /\ \A j \in 1..size : j <= Len(t) => t[j] = <<n + 1, j>>
        <5>1. wire \in Seq(SizedFrame) /\ n \in 0..Len(wire) /\ n < Len(wire)
          BY <1>0
        <5>2. Run(t, wire, BytesOf(wire, n))
          BY <3>1 DEF base
        <5> QED BY <5>1, <5>2, RunAtBoundary DEF size
      <4>2. \A j \in 1..size : j <= Len(t)
        BY <1>0, <3>1
      <4> QED BY <4>1, <4>2
    <3>3. FrameOf(t) = wire[n + 1]
      BY <1>0, <3>1, <3>2, PacketIsRead DEF size
    <3>4. DecodeCompleteFrame = Emits(t, d)
      BY <2>4, <2>6 DEF t, d
    <3>5. /\ Emits(t, d).outcome = "frame" /\ Emits(t, d).frame = wire[n + 1]
          /\ Emits(t, d).storage = <<>> /\ Emits(t, d).chunk = d
      BY <3>3 DEF Emits
    <3>6. Len(storage) + Len(chunk) = Len(chunk) /\ Len(chunk) >= size
      BY <1>0, <2>6
    <3> QED BY <1>0, <3>1, <3>4, <3>5, <3>6 DEF Decodes, size, base
  <2> QED BY <2>5, <2>6
<1> QED BY <1>3, <1>4

\* The lengths of the decoder's pieces: a bytes are retained, b arrive, the packet has z.
LEMMA LackingOfPacket ==
  ASSUME NEW a \in Nat, NEW b \in Nat, NEW z \in Nat, NEW h \in Nat, NEW r \in Nat,
         h <= z, h + r = a + b, h > 0, NEW c, c = Smaller(z - h, r)
  PROVE  /\ c \in 0..r /\ h + c \in Nat
         /\ h + c < z => h + c = a + b /\ a + b < z /\ h + c > 0
         /\ ~(h + c < z) => h + c = z /\ r - c = (a + b) - z /\ a + b >= z
BY DEF Smaller

\* The decoder's two emissions, and what it retains.
LEMMA Retained ==
  ASSUME NEW n, NEW bytes, Run(bytes, wire, BytesOf(wire, n)),
         Len(bytes) = Len(storage) + Len(chunk), Len(bytes) < PacketLength(wire[n + 1]),
         Len(bytes) > 0
  PROVE  Decodes(n, Retains(bytes))
<1>1. bytes # <<>>
  BY NonEmpty DEF Run
<1>2. /\ Retains(bytes).outcome = "more" /\ Retains(bytes).chunk = <<>>
      /\ Retains(bytes).storage = bytes
  BY DEF Retains
<1> QED BY <1>1, <1>2 DEF Decodes

LEMMA Emitted ==
  ASSUME NEW n \in 0..Len(wire), n < Len(wire), wire \in Seq(SizedFrame),
         NEW packet, Run(packet, wire, BytesOf(wire, n)), Len(packet) = PacketLength(wire[n + 1]),
         NEW d, Run(d, wire, BytesOf(wire, n + 1)),
         Len(storage) + Len(chunk) >= PacketLength(wire[n + 1]),
         Len(d) = (Len(storage) + Len(chunk)) - PacketLength(wire[n + 1])
  PROVE  Decodes(n, Emits(packet, d))
<1>1. /\ packet \in Seq(Cell) /\ n + 1 \in 1..Len(wire)
      /\ \A j \in 1..PacketLength(wire[n + 1]) : packet[j] = <<n + 1, j>>
  <2>1. /\ packet \in Seq(Cell) /\ n + 1 \in 1..Len(wire) /\ PacketLength(wire[n + 1]) \in Nat
        /\ \A j \in 1..PacketLength(wire[n + 1]) : j <= Len(packet) => packet[j] = <<n + 1, j>>
    BY RunAtBoundary
  <2>2. \A j \in 1..PacketLength(wire[n + 1]) : j <= Len(packet)
    BY <2>1
  <2> QED BY <2>1, <2>2
<1>2. FrameOf(packet) = wire[n + 1]
  BY <1>1, PacketIsRead
<1>3. /\ Emits(packet, d).outcome = "frame" /\ Emits(packet, d).frame = wire[n + 1]
      /\ Emits(packet, d).storage = <<>> /\ Emits(packet, d).chunk = d
  BY <1>2 DEF Emits
<1> QED BY <1>3 DEF Decodes

LEMMA PendingPacket ==
  ASSUME NEW n, Holds(n), storage # <<>>
  PROVE  Decodes(n, CompletePendingFrame)
<1> DEFINE size == PacketLength(wire[n + 1])
           base == BytesOf(wire, n)
           from == base + Len(storage)
<1>0. /\ wire \in Seq(SizedFrame) /\ n \in 0..Len(wire) /\ n < Len(wire)
      /\ chunk \in Seq(Cell) /\ Len(chunk) \in Nat /\ Len(chunk) > 0
      /\ storage \in Seq(Cell) /\ Len(storage) \in Nat /\ Len(storage) > 0
      /\ base \in Nat /\ BytesOf(wire, n + 1) = base + size
      /\ size \in Nat /\ size >= 9
      /\ FrameLength(wire[n + 1]) \in 6..MaxFrameLength
      /\ size = 3 + FrameLength(wire[n + 1])
      /\ MaxFrameLength \in Nat
  BY HoldsNumbers, NonEmpty, MaxFrameLengthAssumption
<1>1. /\ Run(storage, wire, base) /\ Run(chunk, wire, from) /\ Len(storage) < size
      /\ base \in Nat /\ from \in Nat /\ from = base + Len(storage)
  BY <1>0, SMTT(30) DEF Holds
<1> DEFINE lacking == Smaller(IF Len(storage) < PrefixLength THEN PrefixLength - Len(storage) ELSE 0, Len(chunk))
           early == Take(chunk, lacking)
           head == storage \o early
           rest == Drop(chunk, lacking)
           packetSize == PrefixLength + ReadFrameSize(head)
           count == Smaller(packetSize - Len(head), Len(rest))
           late == Take(rest, count)
           packet == head \o late
           d == Drop(rest, count)
<1>2. CompletePendingFrame =
        IF Len(head) < PrefixLength THEN Retains(head)
        ELSE IF ~ValidSize(packetSize - PrefixLength) THEN Rejects
        ELSE IF Len(packet) < packetSize THEN Retains(packet)
        ELSE Emits(packet, d)
  BY DEF CompletePendingFrame
<1> HIDE DEF size, base, from
<1>3. /\ lacking \in 0..Len(chunk) /\ Len(storage) + lacking \in Nat /\ Len(storage) + lacking <= size
      /\ Len(storage) + lacking < 3 =>
           /\ Len(storage) + lacking = Len(storage) + Len(chunk)
           /\ Len(storage) + lacking < size /\ Len(storage) + lacking > 0
  <2>1. /\ Len(storage) \in Nat /\ Len(chunk) \in Nat /\ size \in Nat
        /\ Len(storage) > 0 /\ Len(chunk) > 0 /\ Len(storage) < size /\ size >= 9
    BY <1>0, <1>1
  <2> QED BY <2>1 DEF Smaller, PrefixLength
<1> HIDE DEF lacking
<1>4. /\ Run(early, wire, from) /\ Len(early) = lacking
      /\ Run(rest, wire, from + lacking) /\ Len(rest) = Len(chunk) - lacking
  <2>1. wire \in Seq(SizedFrame)
    BY <1>0
  <2>2. from \in Nat
    BY <1>1
  <2>3. Run(chunk, wire, from)
    BY <1>1
  <2>4. lacking \in 0..Len(chunk)
    BY <1>3
  <2> QED BY <2>1, <2>2, <2>3, <2>4, RunSplit
<1> HIDE DEF early
<1>5. Run(head, wire, base) /\ Len(head) = Len(storage) + lacking
  <2>1. wire \in Seq(SizedFrame) /\ base \in Nat
    BY <1>0
  <2>2. Run(storage, wire, base)
    BY <1>1
  <2>3. Run(early, wire, base + Len(storage))
    BY <1>1, <1>4
  <2>4. /\ Run(storage \o early, wire, base)
        /\ Len(storage \o early) = Len(storage) + Len(early)
    BY <2>1, <2>2, <2>3, RunConcat
  <2> QED BY <1>4, <2>4
<1> HIDE DEF head, rest
<1>7. CASE Len(head) < 3
  <2>1. CompletePendingFrame = Retains(head)
    BY <1>2, <1>7 DEF PrefixLength
  <2>2. Len(head) = Len(storage) + Len(chunk) /\ Len(head) < size /\ Len(head) > 0
    BY <1>3, <1>5, <1>7
  <2>3. Run(head, wire, BytesOf(wire, n)) /\ Len(head) < PacketLength(wire[n + 1])
    BY <1>5, <2>2 DEF size, base
  <2> QED BY <2>1, <2>2, <2>3, Retained
<1>8. CASE ~(Len(head) < 3)
  <2>1. \A i \in 1..3 : head[i] = <<n + 1, i>>
    <3>1. \A j \in 1..size : j <= Len(head) => head[j] = <<n + 1, j>>
      <4>1. wire \in Seq(SizedFrame) /\ n \in 0..Len(wire) /\ n < Len(wire)
        BY <1>0
      <4>2. Run(head, wire, BytesOf(wire, n))
        BY <1>5 DEF base
      <4> QED BY <4>1, <4>2, RunAtBoundary DEF size
    <3>2. size \in Nat /\ size >= 9 /\ Len(head) \in Nat
      BY <1>0, <1>3, <1>5
    <3>3. \A i \in 1..3 : i \in 1..size /\ i <= Len(head)
      BY <1>8, <3>2
    <3> QED BY <3>1, <3>3
  <2>2. ReadFrameSize(head) = FrameLength(wire[n + 1])
    BY <2>1, PrefixIsRead
  <2>3. packetSize = size /\ ValidSize(packetSize - PrefixLength)
    BY <1>0, <2>2, SMTT(30) DEF PrefixLength, ValidSize
  <2> HIDE DEF packetSize
  <2>4. /\ Len(head) \in Nat /\ Len(head) <= size /\ Len(head) > 0 /\ Len(rest) \in Nat
        /\ Len(head) + Len(rest) = Len(storage) + Len(chunk)
        /\ from + lacking = base + Len(head)
    <3>1. \A a, b, l, h, r, z, x, y \in Int :
            a + l <= z /\ h = a + l /\ r = b - l /\ l \in 0..b /\ ~(h < 3) /\ x = y + a =>
              h <= z /\ h > 0 /\ r \in Nat /\ h \in Nat /\ h + r = a + b /\ x + l = y + h
      OBVIOUS
    <3>2. lacking \in Int
      BY <1>3
    <3> QED BY <1>0, <1>1, <1>3, <1>4, <1>5, <1>8, <3>1, <3>2
  <2>5. /\ count \in 0..Len(rest) /\ Len(head) + count \in Nat
        /\ Len(head) + count < size =>
             /\ Len(head) + count = Len(storage) + Len(chunk) /\ Len(storage) + Len(chunk) < size
             /\ Len(head) + count > 0
        /\ ~(Len(head) + count < size) =>
             /\ Len(head) + count = size /\ Len(rest) - count = (Len(storage) + Len(chunk)) - size
             /\ Len(storage) + Len(chunk) >= size
    <3>1. count = Smaller(size - Len(head), Len(rest))
      BY <2>3
    <3> HIDE DEF count
    <3>2. Len(storage) \in Nat /\ Len(chunk) \in Nat /\ size \in Nat
      BY <1>0
    <3> QED BY <2>4, <3>1, <3>2, LackingOfPacket
  <2> HIDE DEF count
  <2>7. /\ Run(late, wire, base + Len(head)) /\ Len(late) = count
        /\ Run(d, wire, (base + Len(head)) + count) /\ Len(d) = Len(rest) - count
    <3>1. wire \in Seq(SizedFrame)
      BY <1>0
    <3>2. base + Len(head) \in Nat
      BY <1>0, <2>4, SMTT(30)
    <3>3. Run(rest, wire, base + Len(head))
      BY <1>4, <2>4
    <3>4. count \in 0..Len(rest)
      BY <2>5
    <3> QED BY <3>1, <3>2, <3>3, <3>4, RunSplit
  <2> HIDE DEF late, d
  <2>8. Run(packet, wire, base) /\ Len(packet) = Len(head) + count
    <3>1. wire \in Seq(SizedFrame) /\ base \in Nat
      BY <1>0
    <3>2. Run(head, wire, base)
      BY <1>5
    <3>3. Run(late, wire, base + Len(head))
      BY <2>7
    <3>4. Run(head \o late, wire, base) /\ Len(head \o late) = Len(head) + Len(late)
      BY <3>1, <3>2, <3>3, RunConcat
    <3> QED BY <2>7, <3>4
  <2> HIDE DEF packet
  <2>9. CASE Len(packet) < size
    <3>1. CompletePendingFrame = Retains(packet)
      BY <1>2, <1>8, <2>3, <2>9 DEF PrefixLength
    <3>2. /\ Run(packet, wire, BytesOf(wire, n)) /\ Len(packet) = Len(storage) + Len(chunk)
          /\ Len(packet) < PacketLength(wire[n + 1]) /\ Len(packet) > 0
      BY <2>5, <2>8, <2>9 DEF size, base
    <3> QED BY <3>1, <3>2, Retained
  <2>10. CASE ~(Len(packet) < size)
    <3>1. CompletePendingFrame = Emits(packet, d)
      BY <1>2, <1>8, <2>3, <2>10 DEF PrefixLength
    <3>2. /\ Len(head) + count = size /\ Len(packet) = size
          /\ Len(d) = (Len(storage) + Len(chunk)) - size /\ Len(storage) + Len(chunk) >= size
      BY <2>5, <2>7, <2>8, <2>10
    <3>3. (base + Len(head)) + count = BytesOf(wire, n + 1)
      <4>1. \A b, h, c, z \in Int : h + c = z => (b + h) + c = b + z
        OBVIOUS
      <4>2. count \in Int /\ Len(head) \in Int
        BY <2>4, <2>5
      <4> QED BY <1>0, <3>2, <4>1, <4>2
    <3>4. /\ Run(packet, wire, BytesOf(wire, n)) /\ Len(packet) = PacketLength(wire[n + 1])
          /\ Run(d, wire, BytesOf(wire, n + 1))
          /\ Len(d) = (Len(storage) + Len(chunk)) - PacketLength(wire[n + 1])
          /\ Len(storage) + Len(chunk) >= PacketLength(wire[n + 1])
      BY <2>7, <2>8, <3>2, <3>3 DEF size, base
    <3>5. wire \in Seq(SizedFrame) /\ n \in 0..Len(wire) /\ n < Len(wire)
      BY <1>0
    <3> QED BY <3>1, <3>4, <3>5, Emitted
  <2> QED BY <2>9, <2>10
<1> QED BY <1>7, <1>8

LEMMA PushDecodes ==
  ASSUME NEW n, Holds(n)
  PROVE  Decodes(n, Push)
BY WholePackets, PendingPacket DEF Push

----------------------------------------------------------------------------
(* The chunks queued behind the decoder's: consecutive pieces of the       *)
(* stream, from one position to another.                                   *)
QueueRun(q, w, from, to) ==
  /\ q \in Seq(Seq(Cell)) /\ to \in Nat
  /\ \E e \in [0..Len(q) -> 0..to] :
       /\ e[0] = from /\ e[Len(q)] = to
       /\ \A i \in 1..Len(q) : e[i] = e[i - 1] + Len(q[i]) /\ Run(q[i], w, e[i - 1])

LEMMA EmptyRun ==
  ASSUME NEW w, NEW from
  PROVE  Run(<<>>, w, from) /\ Len(<<>>) = 0
BY DEF Run

LEMMA QueueBounds ==
  ASSUME NEW q, NEW w, NEW from, NEW to, QueueRun(q, w, from, to)
  PROVE  from \in Nat /\ to \in Nat /\ from <= to /\ (q = <<>> => from = to)
<1>1. q \in Seq(Seq(Cell)) /\ to \in Nat /\ Len(q) \in Nat
  BY LenProperties DEF QueueRun
<1>2. PICK e \in [0..Len(q) -> 0..to] : e[0] = from /\ e[Len(q)] = to
  BY DEF QueueRun
<1>3. 0 \in 0..Len(q)
  BY <1>1
<1>4. e[0] \in 0..to
  BY <1>2, <1>3
<1>5. q = <<>> => Len(q) = 0
  OBVIOUS
<1> QED BY <1>1, <1>2, <1>4, <1>5

LEMMA QueueEmpty ==
  ASSUME NEW w, NEW to \in Nat
  PROVE  QueueRun(<<>>, w, to, to)
<1> DEFINE e == [i \in 0..0 |-> to]
<1>1. e \in [0..Len(<<>>) -> 0..to] /\ e[0] = to /\ e[Len(<<>>)] = to
  OBVIOUS
<1>2. \A i \in 1..Len(<<>>) : FALSE
  OBVIOUS
<1> HIDE DEF e
<1> QED BY <1>1, <1>2 DEF QueueRun

LEMMA QueueAppend ==
  ASSUME NEW q, NEW w, NEW from, NEW to, QueueRun(q, w, from, to), NEW c, Run(c, w, to)
  PROVE  QueueRun(Append(q, c), w, from, to + Len(c))
<1> DEFINE r == Append(q, c)
           m == Len(q)
<1>1. q \in Seq(Seq(Cell)) /\ to \in Nat /\ m \in Nat /\ c \in Seq(Cell) /\ Len(c) \in Nat
  BY LenProperties DEF QueueRun, Run
<1>2. PICK e \in [0..m -> 0..to] :
        /\ e[0] = from /\ e[m] = to
        /\ \A i \in 1..m : e[i] = e[i - 1] + Len(q[i]) /\ Run(q[i], w, e[i - 1])
  BY DEF QueueRun
<1>3. /\ r \in Seq(Seq(Cell)) /\ Len(r) = m + 1 /\ (\A i \in 1..m : r[i] = q[i]) /\ r[m + 1] = c
  BY <1>1, AppendProperties
<1> HIDE DEF r, m
<1> DEFINE g == [i \in 0..(m + 1) |-> IF i <= m THEN e[i] ELSE to + Len(c)]
<1>4. g \in [0..Len(r) -> 0..(to + Len(c))]
  <2>1. \A i \in 0..(m + 1) : (IF i <= m THEN e[i] ELSE to + Len(c)) \in 0..(to + Len(c))
    <3> TAKE i \in 0..(m + 1)
    <3>1. i <= m => e[i] \in 0..to
      BY <1>1, <1>2
    <3> QED BY <1>1, <3>1
  <2> QED BY <1>3, <2>1
<1>5. /\ (\A i \in 0..m : g[i] = e[i]) /\ g[m + 1] = to + Len(c) /\ g[0] = from
  BY <1>1, <1>2
<1> HIDE DEF g
<1>6. ASSUME NEW i \in 1..(m + 1) PROVE g[i] = g[i - 1] + Len(r[i]) /\ Run(r[i], w, g[i - 1])
  <2>1. CASE i <= m
    <3>1. i \in 1..m /\ i \in 0..m /\ i - 1 \in 0..m
      BY <1>1, <2>1
    <3> QED BY <1>2, <1>3, <1>5, <3>1
  <2>2. CASE ~(i <= m)
    <3>1. i = m + 1 /\ i - 1 = m /\ m \in 0..m
      BY <1>1, <2>2
    <3>2. g[i - 1] = to /\ g[i] = to + Len(c) /\ r[i] = c
      BY <1>2, <1>3, <1>5, <3>1
    <3> QED BY <3>2
  <2> QED BY <2>1, <2>2
<1>7. to + Len(c) \in Nat
  BY <1>1
<1> QED BY <1>3, <1>4, <1>5, <1>6, <1>7 DEF QueueRun, r

LEMMA QueueTail ==
  ASSUME NEW q, NEW w, NEW from, NEW to, QueueRun(q, w, from, to), q # <<>>
  PROVE  Run(Head(q), w, from) /\ QueueRun(Tail(q), w, from + Len(Head(q)), to)
<1> DEFINE m == Len(q)
           t == Tail(q)
<1>1. q \in Seq(Seq(Cell)) /\ to \in Nat /\ m \in Nat /\ m > 0
  <2>1. q \in Seq(Seq(Cell)) /\ to \in Nat
    BY DEF QueueRun
  <2>2. m \in Nat /\ m # 0
    BY <2>1, EmptySeq, LenProperties
  <2> QED BY <2>1, <2>2
<1>2. PICK e \in [0..m -> 0..to] :
        /\ e[0] = from /\ e[m] = to
        /\ \A i \in 1..m : e[i] = e[i - 1] + Len(q[i]) /\ Run(q[i], w, e[i - 1])
  BY DEF QueueRun
<1>3. /\ Head(q) = q[1] /\ t \in Seq(Seq(Cell)) /\ Len(t) = m - 1
      /\ \A i \in 1..(m - 1) : t[i] = q[i + 1]
  BY <1>1, HeadTailProperties
<1> HIDE DEF m, t
<1>4. Run(q[1], w, from) /\ e[1] = from + Len(q[1])
  <2>1. 1 \in 1..m /\ 1 - 1 = 0
    BY <1>1
  <2>2. e[1] = e[1 - 1] + Len(q[1]) /\ Run(q[1], w, e[1 - 1])
    BY <1>2, <2>1
  <2> QED BY <1>2, <2>1, <2>2
<1> DEFINE g == [i \in 0..(m - 1) |-> e[i + 1]]
<1>5. g \in [0..Len(t) -> 0..to] /\ g[0] = e[1] /\ g[Len(t)] = to
  <2>1. \A i \in 0..(m - 1) : i + 1 \in 0..m
    BY <1>1
  <2>2. 0 \in 0..(m - 1) /\ m - 1 \in 0..(m - 1) /\ (m - 1) + 1 = m /\ 0 + 1 = 1
    BY <1>1
  <2> QED BY <1>2, <1>3, <2>1, <2>2
<1>6. ASSUME NEW i \in 1..(m - 1) PROVE g[i] = g[i - 1] + Len(t[i]) /\ Run(t[i], w, g[i - 1])
  <2>1. i + 1 \in 1..m /\ (i + 1) - 1 = i /\ i \in 0..(m - 1) /\ i - 1 \in 0..(m - 1) /\ (i - 1) + 1 = i
    BY <1>1
  <2>2. e[i + 1] = e[i] + Len(q[i + 1]) /\ Run(q[i + 1], w, e[i])
    BY <1>2, <2>1
  <2>3. g[i] = e[i + 1] /\ g[i - 1] = e[i] /\ t[i] = q[i + 1]
    BY <1>3, <2>1
  <2> QED BY <2>2, <2>3
<1> HIDE DEF g
<1>7. QueueRun(t, w, e[1], to)
  BY <1>1, <1>3, <1>5, <1>6 DEF QueueRun
<1> QED BY <1>3, <1>4, <1>7 DEF t

LEMMA QueueGrows ==
  ASSUME NEW q, NEW w \in Seq(SizedFrame), NEW from, NEW to, QueueRun(q, w, from, to),
         to <= BytesOf(w, Len(w)), NEW f \in SizedFrame
  PROVE  QueueRun(q, Append(w, f), from, to)
<1> DEFINE m == Len(q)
<1>1. q \in Seq(Seq(Cell)) /\ to \in Nat /\ m \in Nat
  BY LenProperties DEF QueueRun
<1>2. PICK e \in [0..m -> 0..to] :
        /\ e[0] = from /\ e[m] = to
        /\ \A i \in 1..m : e[i] = e[i - 1] + Len(q[i]) /\ Run(q[i], w, e[i - 1])
  BY DEF QueueRun
<1>3. BytesOf(w, Len(w)) \in Nat
  <2>1. Len(w) \in 0..Len(w) /\ Len(w) \in Len(w)..Len(w)
    BY PacketsAreLong
  <2> QED BY <2>1, BytesGrow
<1> HIDE DEF m
<1>4. ASSUME NEW i \in 1..m PROVE Run(q[i], Append(w, f), e[i - 1])
  <2>1. i \in 0..m /\ i - 1 \in 0..m
    BY <1>1
  <2>2. e[i] \in 0..to /\ e[i - 1] \in 0..to
    BY <1>2, <2>1
  <2>3. e[i] = e[i - 1] + Len(q[i]) /\ Run(q[i], w, e[i - 1])
    BY <1>2
  <2>4. e[i - 1] \in Nat /\ e[i - 1] + Len(q[i]) <= BytesOf(w, Len(w))
    BY <1>1, <1>3, <2>2, <2>3, SMTT(30)
  <2> QED BY <2>3, <2>4, RunGrows
<1> QED BY <1>1, <1>2, <1>4 DEF QueueRun, m

----------------------------------------------------------------------------
(* The inductive invariant of the receiving transport.                     *)

\* Frames are handed over from the wire, in order.
DeliveredInv ==
  /\ wire \in Seq(SizedFrame) /\ delivered \in Seq(SizedFrame)
  /\ Len(delivered) <= Len(wire)
  /\ \A i \in 1..Len(delivered) : delivered[i] = wire[i]
  /\ arrived \in Nat

Base == BytesOf(wire, Len(delivered))

\* The bytes retained, the rest of the chunk and the queued chunks are, one after the other, the
\* part of the stream between the last frame delivered and the last byte raised.
DecodingInv ==
  /\ phase = "idle" => chunk = <<>> /\ pending = <<>>
  /\ Run(storage, wire, Base)
  /\ storage # <<>> => /\ Len(delivered) < Len(wire)
                       /\ Len(storage) < PacketLength(wire[Len(delivered) + 1])
  /\ Run(chunk, wire, Base + Len(storage))
  /\ QueueRun(pending, wire, (Base + Len(storage)) + Len(chunk), arrived)

InsideNext ==
  /\ Len(delivered) < Len(wire)
  /\ arrived > Base /\ arrived < BytesOf(wire, Len(delivered) + 1)

TcpInv ==
  /\ arrived <= BytesOf(wire, Len(wire))
  /\ status = "open" => DecodingInv
  /\ status = "completed" => Base = arrived
  /\ status = "failed" => InsideNext

\* The messages raised are the frames delivered, those of the dispatcher and those of the
\* promise queue, whose head may have been delivered already.
Taken == IF phase = "task" THEN 1 ELSE 0

MessagesInv ==
  /\ pending \in Seq(SizedFrame) /\ tasks \in Seq([frame : SizedFrame, state : {"converting", "ready", "rejected"}])
  /\ phase # "handling" => pending = <<>>
  /\ Taken <= Len(tasks)
  /\ Len(delivered) + Len(pending) + Len(tasks) - Taken = arrived
  /\ \A i \in 1..Len(pending) : pending[i] = wire[Len(delivered) + i]
  /\ \A i \in (Taken + 1)..Len(tasks) :
       tasks[i].frame = wire[Len(delivered) + Len(pending) + i - Taken]

SocketInv ==
  /\ arrived <= Len(wire)
  /\ status = "open" => MessagesInv

StreamInv ==
  /\ DeliveredInv
  /\ transport \in {"tcp", "websocket"}
  /\ transport = "tcp" => TcpInv
  /\ transport = "websocket" => SocketInv

LEMMA DeliveredNumbers ==
  ASSUME DeliveredInv
  PROVE  /\ Len(wire) \in Nat /\ Len(delivered) \in 0..Len(wire) /\ Len(delivered) \in Nat
         /\ Base \in Nat /\ BytesOf(wire, Len(wire)) \in Nat /\ Base <= BytesOf(wire, Len(wire))
         /\ Len(delivered) < Len(wire) =>
              /\ Len(delivered) + 1 \in 1..Len(wire)
              /\ BytesOf(wire, Len(delivered) + 1) = Base + PacketLength(wire[Len(delivered) + 1])
              /\ PacketLength(wire[Len(delivered) + 1]) \in Nat
<1>1. /\ wire \in Seq(SizedFrame) /\ Len(wire) \in Nat /\ Len(delivered) \in Nat
      /\ Len(delivered) <= Len(wire)
  BY LenProperties DEF DeliveredInv
<1>2. Len(delivered) \in 0..Len(wire) /\ Len(wire) \in Len(delivered)..Len(wire)
  BY <1>1
<1>3. Base \in Nat /\ BytesOf(wire, Len(wire)) \in Nat /\ Base <= BytesOf(wire, Len(wire))
  BY <1>1, <1>2, BytesGrow DEF Base
<1>4. ASSUME Len(delivered) < Len(wire)
      PROVE  /\ Len(delivered) + 1 \in 1..Len(wire)
             /\ BytesOf(wire, Len(delivered) + 1) = Base + PacketLength(wire[Len(delivered) + 1])
             /\ PacketLength(wire[Len(delivered) + 1]) \in Nat
  <2>1. Len(delivered) + 1 \in 1..Len(wire) /\ (Len(delivered) + 1) - 1 = Len(delivered)
    BY <1>1, <1>4
  <2>2. PacketLength(wire[Len(delivered) + 1]) \in Nat
    BY <1>1, <2>1, PacketsAreLong
  <2>3. BytesOf(wire, Len(delivered) + 1) =
          BytesOf(wire, (Len(delivered) + 1) - 1) + PacketLength(wire[Len(delivered) + 1])
    BY <1>1, <2>1, BytesStep
  <2> QED BY <2>1, <2>2, <2>3 DEF Base
<1> QED BY <1>1, <1>2, <1>3, <1>4

LEMMA StreamInitEstablishes == StreamInit => StreamInv
<1> SUFFICES ASSUME StreamInit PROVE StreamInv
  OBVIOUS
<1> USE DEF StreamInit
<1>1. wire = <<>> /\ delivered = <<>> /\ Len(wire) = 0 /\ Len(delivered) = 0
  OBVIOUS
<1>2. BytesOf(wire, 0) = 0
  <2>1. wire \in Seq(SizedFrame)
    BY <1>1
  <2> QED BY <2>1, BytesStep
<1>3. DeliveredInv
  BY <1>1 DEF DeliveredInv
<1>4. Base = 0
  BY <1>1, <1>2 DEF Base
<1>5. TcpInv
  <2>1. QueueRun(<<>>, wire, 0, 0)
    BY QueueEmpty
  <2>2. Run(storage, wire, Base) /\ Run(chunk, wire, Base + Len(storage))
    BY EmptyRun
  <2>3. (Base + Len(storage)) + Len(chunk) = 0
    BY <1>4
  <2> QED BY <1>1, <1>2, <2>1, <2>2, <2>3 DEF TcpInv, DecodingInv
<1>6. SocketInv
  BY <1>1 DEF SocketInv, MessagesInv, Taken
<1> QED BY <1>3, <1>5, <1>6 DEF StreamInv

LEMMA AppendDelivers ==
  ASSUME DeliveredInv, Len(delivered) < Len(wire),
         wire' = wire, delivered' = Append(delivered, wire[Len(delivered) + 1]), arrived' \in Nat
  PROVE  DeliveredInv' /\ Len(delivered') = Len(delivered) + 1
         /\ Base' = BytesOf(wire, Len(delivered) + 1)
<1>1. /\ Len(wire) \in Nat /\ Len(delivered) \in Nat /\ Len(delivered) + 1 \in 1..Len(wire)
  BY DeliveredNumbers
<1>2. wire[Len(delivered) + 1] \in SizedFrame
  BY <1>1, ElementOfSeq DEF DeliveredInv
<1>3. /\ delivered' \in Seq(SizedFrame) /\ Len(delivered') = Len(delivered) + 1
      /\ \A i \in 1..Len(delivered) : delivered'[i] = delivered[i]
      /\ delivered'[Len(delivered) + 1] = wire[Len(delivered) + 1]
  BY <1>2, AppendProperties DEF DeliveredInv
<1>4. ASSUME NEW i \in 1..(Len(delivered) + 1) PROVE delivered'[i] = wire[i]
  <2>1. i \in 1..Len(delivered) \/ i = Len(delivered) + 1
    BY <1>1
  <2> QED BY <1>3, <2>1 DEF DeliveredInv
<1>5. Base' = BytesOf(wire, Len(delivered) + 1)
  BY <1>3 DEF Base
<1> QED BY <1>1, <1>3, <1>4, <1>5 DEF DeliveredInv

LEMMA WriteKeeps ==
  ASSUME StreamInv, NEW f \in SizedFrame, Write(f)
  PROVE  StreamInv'
<1>1. /\ wire' = Append(wire, f) /\ transport' = transport /\ arrived' = arrived /\ phase' = phase
      /\ chunk' = chunk /\ storage' = storage /\ pending' = pending /\ tasks' = tasks
      /\ status' = status /\ delivered' = delivered
  BY DEF Write
<1>2. wire \in Seq(SizedFrame) /\ DeliveredInv /\ arrived \in Nat
  BY DEF StreamInv, DeliveredInv
<1>3. /\ Len(wire) \in Nat /\ Len(delivered) \in 0..Len(wire) /\ Len(delivered) \in Nat
      /\ Base \in Nat /\ BytesOf(wire, Len(wire)) \in Nat
  BY <1>2, DeliveredNumbers
<1>4. /\ wire' \in Seq(SizedFrame) /\ Len(wire') = Len(wire) + 1
      /\ \A i \in 1..Len(wire) : wire'[i] = wire[i]
      /\ \A n \in 0..Len(wire) : BytesOf(wire', n) = BytesOf(wire, n)
      /\ BytesOf(wire, Len(wire)) <= BytesOf(wire', Len(wire')) /\ BytesOf(wire', Len(wire')) \in Nat
  BY <1>1, <1>2, AppendedWire
<1>5. DeliveredInv' /\ Base' = Base
  BY <1>1, <1>2, <1>3, <1>4 DEF DeliveredInv, Base
<1>6. ASSUME TcpInv PROVE TcpInv'
  <2>1. arrived' <= BytesOf(wire', Len(wire'))
    BY <1>1, <1>2, <1>3, <1>4, <1>6 DEF TcpInv
  <2>2. ASSUME status = "open" PROVE DecodingInv'
    <3>1. DecodingInv
      BY <1>6, <2>2 DEF TcpInv
    <3>2. QueueRun(pending, wire, (Base + Len(storage)) + Len(chunk), arrived)
      BY <3>1 DEF DecodingInv
    <3>3. /\ arrived <= BytesOf(wire, Len(wire)) /\ (Base + Len(storage)) + Len(chunk) <= arrived
      BY <1>6, <3>2, QueueBounds DEF TcpInv
    <3>4. Len(storage) \in Nat /\ Len(chunk) \in Nat
      BY <3>1, LenProperties DEF DecodingInv, Run
    <3>5. QueueRun(pending', wire', (Base + Len(storage)) + Len(chunk), arrived)
      BY <1>1, <1>2, <3>2, <3>3, QueueGrows
    <3>6. Run(storage, wire', Base)
      <4>1. Base + Len(storage) <= BytesOf(wire, Len(wire))
        BY <1>2, <1>3, <3>3, <3>4
      <4>2. Run(storage, wire, Base)
        BY <3>1 DEF DecodingInv
      <4> QED BY <1>1, <1>2, <1>3, <4>1, <4>2, RunGrows
    <3>7. Run(chunk, wire', Base + Len(storage))
      <4>1. (Base + Len(storage)) + Len(chunk) <= BytesOf(wire, Len(wire)) /\ Base + Len(storage) \in Nat
        BY <1>2, <1>3, <3>3, <3>4
      <4>2. Run(chunk, wire, Base + Len(storage))
        BY <3>1 DEF DecodingInv
      <4> QED BY <1>1, <1>2, <4>1, <4>2, RunGrows
    <3>8. ASSUME storage # <<>> PROVE /\ Len(delivered) < Len(wire')
                                      /\ Len(storage) < PacketLength(wire'[Len(delivered) + 1])
      <4>1. /\ Len(delivered) < Len(wire)
            /\ Len(storage) < PacketLength(wire[Len(delivered) + 1])
        BY <3>1, <3>8 DEF DecodingInv
      <4>2. Len(delivered) + 1 \in 1..Len(wire)
        BY <1>3, <4>1
      <4> QED BY <1>3, <1>4, <4>1, <4>2
    <3> QED BY <1>1, <1>5, <3>1, <3>5, <3>6, <3>7, <3>8 DEF DecodingInv
  <2>3. status = "completed" => Base' = arrived'
    BY <1>1, <1>5, <1>6 DEF TcpInv
  <2>4. ASSUME status = "failed" PROVE InsideNext'
    <3>1. InsideNext
      BY <1>6, <2>4 DEF TcpInv
    <3>2. Len(delivered) + 1 \in 0..Len(wire) /\ Len(delivered) < Len(wire')
      BY <1>3, <1>4, <3>1 DEF InsideNext
    <3> QED BY <1>1, <1>4, <1>5, <3>1, <3>2 DEF InsideNext
  <2> QED BY <1>1, <2>1, <2>2, <2>3, <2>4 DEF TcpInv
<1>7. ASSUME SocketInv PROVE SocketInv'
  <2>1. arrived' <= Len(wire')
    BY <1>1, <1>2, <1>3, <1>4, <1>7 DEF SocketInv
  <2>2. ASSUME status = "open" PROVE MessagesInv'
    <3>1. MessagesInv /\ arrived <= Len(wire)
      BY <1>7, <2>2 DEF SocketInv
    <3>2. Taken' = Taken /\ Taken \in {0, 1}
      BY <1>1 DEF Taken
    <3>3. Len(pending) \in Nat /\ Len(tasks) \in Nat
      BY <3>1, LenProperties DEF MessagesInv
    <3>4. ASSUME NEW i \in 1..Len(pending) PROVE pending[i] = wire'[Len(delivered) + i]
      <4>1. pending[i] = wire[Len(delivered) + i]
        BY <3>1 DEF MessagesInv
      <4>2. Len(delivered) + i \in 1..Len(wire)
        BY <1>2, <1>3, <3>1, <3>2, <3>3 DEF MessagesInv
      <4> QED BY <1>4, <4>1, <4>2
    <3>5. ASSUME NEW i \in (Taken + 1)..Len(tasks)
          PROVE  tasks[i].frame = wire'[Len(delivered) + Len(pending) + i - Taken]
      <4>1. tasks[i].frame = wire[Len(delivered) + Len(pending) + i - Taken]
        BY <3>1 DEF MessagesInv
      <4>2. Len(delivered) + Len(pending) + i - Taken \in 1..Len(wire)
        BY <1>2, <1>3, <3>1, <3>2, <3>3 DEF MessagesInv
      <4> QED BY <1>4, <4>1, <4>2
    <3> QED BY <1>1, <3>1, <3>2, <3>4, <3>5 DEF MessagesInv
  <2> QED BY <1>1, <2>1, <2>2 DEF SocketInv
<1> QED BY <1>1, <1>5, <1>6, <1>7 DEF StreamInv

LEMMA TcpState ==
  ASSUME StreamInv, transport = "tcp", status = "open"
  PROVE  /\ DeliveredInv /\ DecodingInv /\ arrived <= BytesOf(wire, Len(wire)) /\ arrived \in Nat
         /\ wire \in Seq(SizedFrame) /\ Base \in Nat /\ BytesOf(wire, Len(wire)) \in Nat
         /\ Len(storage) \in Nat /\ Len(chunk) \in Nat
         /\ (Base + Len(storage)) + Len(chunk) \in Nat /\ (Base + Len(storage)) + Len(chunk) <= arrived
         /\ pending = <<>> => (Base + Len(storage)) + Len(chunk) = arrived
<1>1. /\ DeliveredInv /\ DecodingInv /\ arrived <= BytesOf(wire, Len(wire)) /\ arrived \in Nat
      /\ wire \in Seq(SizedFrame)
  BY DEF StreamInv, TcpInv, DeliveredInv
<1>2. Base \in Nat /\ BytesOf(wire, Len(wire)) \in Nat
  BY <1>1, DeliveredNumbers
<1>3. Len(storage) \in Nat /\ Len(chunk) \in Nat
  BY <1>1, LenProperties DEF DecodingInv, Run
<1>4. QueueRun(pending, wire, (Base + Len(storage)) + Len(chunk), arrived)
  BY <1>1 DEF DecodingInv
<1> QED BY <1>1, <1>2, <1>3, <1>4, QueueBounds

\* What Terminate leaves is claimed only of a TCP stream that ends.
LEMMA TerminatedKeeps ==
  ASSUME StreamInv, NEW outcome, outcome # "open", Terminate(outcome),
         UNCHANGED <<transport, wire, arrived, delivered>>,
         transport = "tcp" => /\ outcome = "completed" => Base = arrived
                              /\ outcome = "failed" => InsideNext
  PROVE  StreamInv'
<1>1. status' = outcome
  BY DEF Terminate
<1>2. DeliveredInv' /\ Base' = Base /\ (InsideNext => InsideNext')
  BY DEF StreamInv, DeliveredInv, Base, InsideNext
<1>3. transport = "tcp" => TcpInv'
  BY <1>1, <1>2 DEF StreamInv, TcpInv
<1>4. transport = "websocket" => SocketInv'
  BY <1>1 DEF StreamInv, SocketInv
<1> QED BY <1>2, <1>3, <1>4 DEF StreamInv

LEMMA OnDataKeeps ==
  ASSUME StreamInv, NEW to, OnData(to)
  PROVE  StreamInv'
<1> DEFINE bytes == SubSeq(ByteStream, arrived + 1, to)
<1>0. /\ transport = "tcp" /\ status = "open" /\ phase \in {"idle", "handling"}
      /\ to \in (arrived + 1)..Written /\ arrived' = to
      /\ transport' = transport /\ wire' = wire /\ storage' = storage /\ status' = status
      /\ delivered' = delivered
      /\ phase = "handling" => pending' = Append(pending, bytes) /\ phase' = phase /\ chunk' = chunk
      /\ phase # "handling" => phase' = "decoding" /\ chunk' = bytes /\ pending' = pending
  BY DEF OnData
<1>1. /\ DeliveredInv /\ DecodingInv /\ arrived \in Nat /\ wire \in Seq(SizedFrame)
      /\ Base \in Nat /\ BytesOf(wire, Len(wire)) \in Nat /\ Len(storage) \in Nat
      /\ pending = <<>> => (Base + Len(storage)) + Len(chunk) = arrived
  BY <1>0, TcpState
<1>2. to \in Nat /\ arrived < to /\ to <= BytesOf(wire, Len(wire))
  <2>1. Written = BytesOf(wire, Len(wire))
    BY <1>0, StreamOfWire DEF Written
  <2> QED BY <1>0, <1>1, <2>1
<1>3. Run(bytes, wire, arrived) /\ Len(bytes) = to - arrived
  <2>1. to \in arrived..BytesOf(wire, Len(wire))
    BY <1>1, <1>2
  <2>2. bytes = SubSeq(StreamOf(wire), arrived + 1, to)
    BY StreamOfWire
  <2> QED BY <1>1, <2>1, <2>2, RunOfStream
<1> HIDE DEF bytes
<1>4. DeliveredInv' /\ Base' = Base
  BY <1>0, <1>1, <1>2 DEF DeliveredInv, Base
<1>5. CASE phase = "handling"
  <2>1. QueueRun(pending', wire, (Base + Len(storage)) + Len(chunk), arrived + Len(bytes))
    BY <1>0, <1>1, <1>3, <1>5, QueueAppend DEF DecodingInv
  <2>2. arrived + Len(bytes) = to
    BY <1>1, <1>2, <1>3
  <2>3. DecodingInv'
    BY <1>0, <1>1, <1>4, <1>5, <2>1, <2>2 DEF DecodingInv
  <2> QED BY <1>0, <1>2, <1>4, <2>3 DEF StreamInv, TcpInv
<1>6. CASE phase # "handling"
  <2>1. chunk = <<>> /\ pending = <<>> /\ Len(chunk) = 0
    BY <1>0, <1>1, <1>6 DEF DecodingInv
  <2>2. Base + Len(storage) = arrived
    BY <1>1, <2>1
  <2>3. (Base + Len(storage)) + Len(bytes) = to
    BY <1>1, <1>2, <1>3, <2>2
  <2>4. QueueRun(pending', wire, to, to)
    BY <1>0, <1>2, <1>6, <2>1, QueueEmpty
  <2>5. DecodingInv'
    BY <1>0, <1>1, <1>3, <1>4, <1>6, <2>2, <2>3, <2>4 DEF DecodingInv
  <2> QED BY <1>0, <1>2, <1>4, <2>5 DEF StreamInv, TcpInv
<1> QED BY <1>5, <1>6

\* With nothing left in the chunk and in the queue, what is retained tells how the stream ends.
LEMMA EndKeeps ==
  ASSUME StreamInv, transport = "tcp", status = "open", chunk = <<>>, pending = <<>>,
         FinishEnd, UNCHANGED <<transport, wire, arrived, delivered>>
  PROVE  StreamInv'
<1>1. /\ DeliveredInv /\ DecodingInv /\ arrived \in Nat /\ Base \in Nat /\ Len(storage) \in Nat
      /\ (Base + Len(storage)) + Len(chunk) = arrived
  BY TcpState
<1>2. Base + Len(storage) = arrived
  BY <1>1
<1>3. CASE storage = <<>>
  <2>1. Terminate("completed") /\ Base = arrived
    BY <1>1, <1>2, <1>3 DEF FinishEnd
  <2> QED BY <2>1, TerminatedKeeps
<1>4. CASE storage # <<>>
  <2>1. Len(storage) > 0
    BY <1>1, <1>4, NonEmpty DEF DecodingInv, Run
  <2>2. /\ Len(delivered) < Len(wire) /\ Len(storage) < PacketLength(wire[Len(delivered) + 1])
    BY <1>1, <1>4 DEF DecodingInv
  <2>3. BytesOf(wire, Len(delivered) + 1) = Base + PacketLength(wire[Len(delivered) + 1])
        /\ PacketLength(wire[Len(delivered) + 1]) \in Nat
    BY <1>1, <2>2, DeliveredNumbers
  <2>4. InsideNext
    BY <1>1, <1>2, <2>1, <2>2, <2>3 DEF InsideNext
  <2>5. Terminate("failed")
    BY <1>4 DEF FinishEnd
  <2> QED BY <2>4, <2>5, TerminatedKeeps
<1> QED BY <1>3, <1>4

LEMMA OnEndKeeps ==
  ASSUME StreamInv, OnEnd
  PROVE  StreamInv'
<1>0. /\ transport = "tcp" /\ status = "open" /\ phase \in {"idle", "handling"}
      /\ UNCHANGED <<transport, wire, arrived, delivered>>
      /\ phase = "handling" => UNCHANGED <<status, phase, chunk, storage, pending>>
      /\ phase # "handling" => FinishEnd
  BY DEF OnEnd
<1>1. CASE phase = "handling"
  <2>1. DecodingInv
    BY <1>0, TcpState
  <2>2. DecodingInv' /\ DeliveredInv'
    BY <1>0, <1>1, <2>1 DEF DecodingInv, DeliveredInv, StreamInv, Base
  <2> QED BY <1>0, <1>1, <2>2 DEF StreamInv, TcpInv
<1>2. CASE phase # "handling"
  <2>1. chunk = <<>> /\ pending = <<>>
    BY <1>0, <1>2, TcpState DEF DecodingInv
  <2> QED BY <1>0, <1>2, <2>1, EndKeeps
<1> QED BY <1>1, <1>2

LEMMA PushKeeps ==
  ASSUME StreamInv, Decode, chunk # <<>>
  PROVE  StreamInv'
<1> DEFINE n == Len(delivered)
           size == PacketLength(wire[n + 1])
           held == Len(storage) + Len(chunk)
<1>0. /\ transport = "tcp" /\ status = "open" /\ UNCHANGED <<transport, wire, arrived>>
  BY DEF Decode
<1>1. /\ DeliveredInv /\ DecodingInv /\ arrived <= BytesOf(wire, Len(wire)) /\ arrived \in Nat
      /\ wire \in Seq(SizedFrame) /\ Base \in Nat /\ BytesOf(wire, Len(wire)) \in Nat
      /\ Len(storage) \in Nat /\ Len(chunk) \in Nat
      /\ (Base + Len(storage)) + Len(chunk) <= arrived
  BY <1>0, TcpState
<1>2. Holds(n)
  <2>1. n \in 0..Len(wire)
    BY <1>1, DeliveredNumbers
  <2>2. Base + Len(storage) + Len(chunk) <= BytesOf(wire, Len(wire))
    BY <1>1
  <2> QED BY <1>1, <2>1, <2>2 DEF Holds, DecodingInv, Base
<1>3. Decodes(n, Push)
  BY <1>2, PushDecodes
<1>4. n < Len(wire)
  BY <1>2, HoldsNumbers
<1>5. /\ BytesOf(wire, n + 1) = Base + size /\ size \in Nat
  BY <1>1, <1>4, DeliveredNumbers
<1> DEFINE push == Push
<1>6. \/ push.outcome = "error"
      \/ /\ push.outcome # "error"
         /\ storage' = push.storage /\ chunk' = push.chunk /\ pending' = pending /\ status' = status
         /\ push.outcome = "frame" => phase' = "handling" /\ delivered' = Append(delivered, push.frame)
         /\ push.outcome # "frame" => /\ phase' = IF pending = <<>> /\ ~endPending THEN "idle" ELSE "decoding"
                                      /\ delivered' = delivered
  BY DEF Decode
<1> HIDE DEF push
<1>7. \/ /\ held >= size
         /\ push.outcome = "frame" /\ push.frame = wire[n + 1] /\ push.storage = <<>>
         /\ Run(push.chunk, wire, BytesOf(wire, n + 1)) /\ Len(push.chunk) = held - size
      \/ /\ held < size
         /\ push.outcome = "more" /\ push.chunk = <<>> /\ push.storage # <<>>
         /\ Run(push.storage, wire, BytesOf(wire, n)) /\ Len(push.storage) = held
  BY <1>3 DEF Decodes, push
<1>8. QueueRun(pending, wire, (Base + Len(storage)) + Len(chunk), arrived)
  BY <1>1 DEF DecodingInv
<1> HIDE DEF n, size, held
<1>9. CASE push.outcome = "frame"
  <2>1. /\ push.frame = wire[n + 1] /\ push.storage = <<>>
        /\ Run(push.chunk, wire, BytesOf(wire, n + 1)) /\ Len(push.chunk) = held - size
    BY <1>7, <1>9
  <2>2. /\ storage' = <<>> /\ chunk' = push.chunk /\ pending' = pending /\ status' = status
        /\ phase' = "handling" /\ delivered' = Append(delivered, wire[n + 1])
    BY <1>6, <1>9, <2>1
  <2>3. DeliveredInv' /\ Base' = BytesOf(wire, n + 1)
    BY <1>0, <1>1, <1>4, <2>2, AppendDelivers DEF n
  <2>4. (Base' + Len(storage')) + Len(chunk') = (Base + Len(storage)) + Len(chunk)
    <3>1. Len(storage') = 0 /\ Len(chunk') = (Len(storage) + Len(chunk)) - size /\ Base' = Base + size
      BY <1>5, <2>1, <2>2, <2>3 DEF held
    <3> QED BY <1>1, <1>5, <3>1
  <2>5. Base' + Len(storage') = Base'
    BY <1>1, <1>5, <2>2, <2>3
  <2>6. DecodingInv'
    <3>1. Run(storage', wire', Base')
      BY <2>2, EmptyRun
    <3>2. Run(chunk', wire', Base' + Len(storage'))
      BY <1>0, <2>1, <2>2, <2>3, <2>5
    <3>3. QueueRun(pending', wire', (Base' + Len(storage')) + Len(chunk'), arrived')
      BY <1>0, <1>8, <2>2, <2>4
    <3> QED BY <2>2, <3>1, <3>2, <3>3 DEF DecodingInv
  <2>7. TcpInv'
    BY <1>0, <1>1, <2>2, <2>6 DEF TcpInv
  <2> QED BY <1>0, <2>3, <2>7 DEF StreamInv
<1>10. CASE push.outcome # "frame"
  <2>1. /\ held < size /\ push.outcome = "more" /\ push.chunk = <<>> /\ push.storage # <<>>
        /\ Run(push.storage, wire, BytesOf(wire, n)) /\ Len(push.storage) = held
    BY <1>7, <1>10
  <2>2. /\ storage' = push.storage /\ chunk' = <<>> /\ pending' = pending /\ status' = status
        /\ phase' = IF pending = <<>> /\ ~endPending THEN "idle" ELSE "decoding"
        /\ delivered' = delivered
    BY <1>6, <1>10, <2>1
  <2>3. DeliveredInv' /\ Base' = Base
    BY <1>0, <1>1, <2>2 DEF DeliveredInv, Base
  <2>4. (Base' + Len(storage')) + Len(chunk') = (Base + Len(storage)) + Len(chunk)
    <3>1. Len(chunk') = 0 /\ Len(storage') = Len(storage) + Len(chunk)
      BY <2>1, <2>2 DEF held
    <3> QED BY <1>1, <2>3, <3>1
  <2>5. DecodingInv'
    <3>1. Run(storage', wire', Base')
      BY <1>0, <2>1, <2>2, <2>3 DEF Base, n
    <3>2. Run(chunk', wire', Base' + Len(storage'))
      BY <2>2, EmptyRun
    <3>3. QueueRun(pending', wire', (Base' + Len(storage')) + Len(chunk'), arrived')
      BY <1>0, <1>8, <2>2, <2>4
    <3>4. phase' = "idle" => chunk' = <<>> /\ pending' = <<>>
      BY <2>2
    <3>5. Len(delivered') < Len(wire') /\ Len(storage') < PacketLength(wire'[Len(delivered') + 1])
      BY <1>0, <1>4, <2>1, <2>2 DEF n, size
    <3> QED BY <3>1, <3>2, <3>3, <3>4, <3>5 DEF DecodingInv
  <2>6. TcpInv'
    BY <1>0, <1>1, <2>2, <2>5 DEF TcpInv
  <2> QED BY <1>0, <2>3, <2>6 DEF StreamInv
<1> QED BY <1>9, <1>10

LEMMA DecodeKeeps ==
  ASSUME StreamInv, Decode
  PROVE  StreamInv'
<1>0. /\ transport = "tcp" /\ status = "open" /\ UNCHANGED <<transport, wire, arrived>>
  BY DEF Decode
<1>1. CASE chunk # <<>>
  BY <1>1, PushKeeps
<1>2. CASE chunk = <<>> /\ pending # <<>>
  <2>1. /\ chunk' = Head(pending) /\ pending' = Tail(pending) /\ phase' = "decoding"
        /\ UNCHANGED <<storage, tasks, endPending, status, delivered>>
    BY <1>2 DEF Decode
  <2>2. /\ DeliveredInv /\ DecodingInv /\ arrived <= BytesOf(wire, Len(wire)) /\ Base \in Nat
        /\ Len(storage) \in Nat
    BY <1>0, TcpState
  <2>3. Len(chunk) = 0 /\ (Base + Len(storage)) + Len(chunk) = Base + Len(storage)
    BY <1>2, <2>2
  <2>4. QueueRun(pending, wire, Base + Len(storage), arrived)
    BY <2>2, <2>3 DEF DecodingInv
  <2>5. Run(chunk', wire, Base + Len(storage))
        /\ QueueRun(pending', wire, (Base + Len(storage)) + Len(chunk'), arrived)
    BY <1>2, <2>1, <2>4, QueueTail
  <2>6. DeliveredInv' /\ Base' = Base
    BY <1>0, <2>1, <2>2 DEF DeliveredInv, Base
  <2>7. DecodingInv'
    BY <1>0, <2>1, <2>2, <2>5, <2>6 DEF DecodingInv
  <2> QED BY <1>0, <2>1, <2>2, <2>6, <2>7 DEF StreamInv, TcpInv
<1>3. CASE chunk = <<>> /\ pending = <<>> /\ endPending
  <2>1. FinishEnd /\ delivered' = delivered
    BY <1>3 DEF Decode
  <2> QED BY <1>0, <1>3, <2>1, EndKeeps
<1>4. CASE chunk = <<>> /\ pending = <<>> /\ ~endPending
  <2>1. UNCHANGED <<chunk, storage, pending, tasks, endPending, status, delivered>>
    BY <1>4 DEF Decode
  <2>2. DeliveredInv /\ DecodingInv /\ arrived <= BytesOf(wire, Len(wire))
    BY <1>0, TcpState
  <2>3. DeliveredInv' /\ DecodingInv'
    BY <1>0, <1>4, <2>1, <2>2 DEF DeliveredInv, DecodingInv, Base
  <2> QED BY <1>0, <2>1, <2>2, <2>3 DEF StreamInv, TcpInv
<1> QED BY <1>1, <1>2, <1>3, <1>4

Task == [frame : SizedFrame, state : {"converting", "ready", "rejected"}]

LEMMA SocketState ==
  ASSUME StreamInv, transport = "websocket", status = "open"
  PROVE  /\ DeliveredInv /\ MessagesInv /\ arrived <= Len(wire) /\ arrived \in Nat
         /\ wire \in Seq(SizedFrame) /\ Len(wire) \in Nat /\ Len(delivered) \in Nat
         /\ pending \in Seq(SizedFrame) /\ tasks \in Seq(Task)
         /\ Len(pending) \in Nat /\ Len(tasks) \in Nat
         /\ Taken = IF phase = "task" THEN 1 ELSE 0
<1>1. /\ DeliveredInv /\ MessagesInv /\ arrived <= Len(wire) /\ arrived \in Nat
      /\ wire \in Seq(SizedFrame)
  BY DEF StreamInv, SocketInv, DeliveredInv
<1>2. pending \in Seq(SizedFrame) /\ tasks \in Seq(Task)
  BY <1>1 DEF MessagesInv, Task
<1>3. Len(pending) \in Nat /\ Len(tasks) \in Nat /\ Len(wire) \in Nat /\ Len(delivered) \in Nat
  BY <1>1, <1>2, LenProperties DEF DeliveredInv
<1> QED BY <1>1, <1>2, <1>3 DEF Taken

LEMMA SocketKept ==
  ASSUME StreamInv, transport = "websocket", UNCHANGED <<transport, wire>>,
         DeliveredInv', arrived' <= Len(wire), MessagesInv'
  PROVE  StreamInv'
BY DEF StreamInv, SocketInv

LEMMA OnMessageKeeps ==
  ASSUME StreamInv, NEW asBlob \in BOOLEAN, OnMessage(asBlob)
  PROVE  StreamInv'
<1> DEFINE n == Len(delivered)
           p == Len(pending)
           m == Len(tasks)
           f == wire[arrived + 1]
<1>0. /\ transport = "websocket" /\ status = "open" /\ arrived < Written /\ arrived' = arrived + 1
      /\ UNCHANGED <<transport, wire, status>>
      /\ ~asBlob /\ tasks = <<>> =>
           /\ phase = "handling" => pending' = Append(pending, f) /\ phase' = phase /\ delivered' = delivered
           /\ phase # "handling" => phase' = "handling" /\ delivered' = Append(delivered, f) /\ pending' = pending
           /\ tasks' = tasks
      /\ ~(~asBlob /\ tasks = <<>>) =>
           /\ tasks' = Append(tasks, [frame |-> f, state |-> IF asBlob THEN "converting" ELSE "ready"])
           /\ UNCHANGED <<phase, pending, delivered>>
  BY DEF OnMessage
<1>1. /\ DeliveredInv /\ MessagesInv /\ arrived \in Nat /\ wire \in Seq(SizedFrame) /\ Len(wire) \in Nat
      /\ n \in Nat /\ pending \in Seq(SizedFrame) /\ tasks \in Seq(Task) /\ p \in Nat /\ m \in Nat
      /\ Taken = IF phase = "task" THEN 1 ELSE 0
  BY <1>0, SocketState
<1>2. arrived < Len(wire) /\ arrived + 1 \in 1..Len(wire) /\ f \in SizedFrame
  <2>1. arrived < Len(wire)
    BY <1>0 DEF Written
  <2>2. arrived + 1 \in 1..Len(wire)
    BY <1>1, <2>1
  <2> QED BY <1>1, <2>1, <2>2, ElementOfSeq
<1>3. /\ phase # "handling" => pending = <<>> /\ p = 0
      /\ Taken <= m /\ n + p + m - Taken = arrived
      /\ \A i \in 1..p : pending[i] = wire[n + i]
      /\ \A i \in (Taken + 1)..m : tasks[i].frame = wire[n + p + i - Taken]
  BY <1>1 DEF MessagesInv
<1>4. arrived' <= Len(wire) /\ arrived' \in Nat
  BY <1>0, <1>1, <1>2
<1>5. tasks = <<>> => m = 0
  OBVIOUS
<1> HIDE DEF f
<1>6. CASE ~asBlob /\ tasks = <<>> /\ phase = "handling"
  <2>1. /\ pending' = Append(pending, f) /\ phase' = phase /\ delivered' = delivered /\ tasks' = tasks
        /\ Taken = 0 /\ Taken' = 0
    BY <1>0, <1>1, <1>6 DEF Taken
  <2>2. /\ pending' \in Seq(SizedFrame) /\ Len(pending') = p + 1
        /\ (\A i \in 1..p : pending'[i] = pending[i]) /\ pending'[p + 1] = f
    BY <1>1, <1>2, <2>1, AppendProperties
  <2>3. DeliveredInv'
    BY <1>0, <1>1, <1>4, <2>1 DEF DeliveredInv
  <2>4. m = 0 /\ n + p = arrived
    BY <1>1, <1>3, <1>5, <1>6, <2>1
  <2>5. ASSUME NEW i \in 1..(p + 1) PROVE pending'[i] = wire[n + i]
    <3>1. i \in 1..p \/ i = p + 1
      BY <1>1
    <3>2. n + (p + 1) = arrived + 1
      BY <1>1, <2>4
    <3> QED BY <1>3, <2>2, <3>1, <3>2 DEF f
  <2>6. n + (p + 1) + m - 0 = arrived'
    BY <1>0, <1>1, <2>4
  <2>7. MessagesInv'
    BY <1>0, <1>1, <1>6, <2>1, <2>2, <2>4, <2>5, <2>6 DEF MessagesInv, Task
  <2> QED BY <1>0, <1>4, <2>3, <2>7, SocketKept
<1>7. CASE ~asBlob /\ tasks = <<>> /\ phase # "handling"
  <2>1. /\ pending' = pending /\ phase' = "handling" /\ delivered' = Append(delivered, f) /\ tasks' = tasks
        /\ Taken' = 0
    BY <1>0, <1>7 DEF Taken
  <2>2. m = 0 /\ Taken = 0 /\ p = 0 /\ pending = <<>> /\ n = arrived
    BY <1>1, <1>3, <1>5, <1>7
  <2>3. DeliveredInv' /\ Len(delivered') = n + 1
    BY <1>0, <1>1, <1>2, <1>4, <2>1, <2>2, AppendDelivers DEF f
  <2>4. (n + 1) + p + m - 0 = arrived'
    BY <1>0, <1>1, <2>2
  <2>5. MessagesInv'
    BY <1>0, <1>1, <2>1, <2>2, <2>3, <2>4 DEF MessagesInv, Task
  <2> QED BY <1>0, <1>4, <2>3, <2>5, SocketKept
<1>8. CASE ~(~asBlob /\ tasks = <<>>)
  <2> DEFINE t == [frame |-> f, state |-> IF asBlob THEN "converting" ELSE "ready"]
  <2>1. /\ tasks' = Append(tasks, t) /\ UNCHANGED <<phase, pending, delivered>> /\ Taken' = Taken
    BY <1>0, <1>8 DEF Taken
  <2>2. t \in Task /\ t.frame = f
    <3>1. CASE asBlob
      BY <1>2, <3>1 DEF Task
    <3>2. CASE ~asBlob
      BY <1>2, <3>2 DEF Task
    <3> QED BY <3>1, <3>2
  <2> HIDE DEF t
  <2>3. /\ tasks' \in Seq(Task) /\ Len(tasks') = m + 1
        /\ (\A i \in 1..m : tasks'[i] = tasks[i]) /\ tasks'[m + 1] = t
    BY <1>1, <2>1, <2>2, AppendProperties
  <2>4. DeliveredInv'
    BY <1>0, <1>1, <1>4, <2>1 DEF DeliveredInv
  <2>5. ASSUME NEW i \in (Taken + 1)..(m + 1)
        PROVE  tasks'[i].frame = wire[n + p + i - Taken]
    <3>1. Taken \in Nat
      BY <1>1
    <3>2. i \in (Taken + 1)..m \/ i = m + 1
      BY <1>1, <3>1
    <3>3. i \in (Taken + 1)..m => i \in 1..m
      BY <1>1, <3>1
    <3>4. n + p + (m + 1) - Taken = arrived + 1
      BY <1>1, <1>3, <3>1, SMTT(30)
    <3> QED BY <1>3, <2>2, <2>3, <3>2, <3>3, <3>4 DEF f
  <2>6. n + p + (m + 1) - Taken = arrived' /\ Taken <= m + 1
    <3>1. Taken \in Nat
      BY <1>1
    <3>2. n + p + m - Taken = arrived /\ Taken <= m
      BY <1>3
    <3>3. n \in Nat /\ p \in Nat /\ m \in Nat
      BY <1>1
    <3> HIDE DEF n, p, m
    <3> QED BY <1>0, <3>1, <3>2, <3>3
  <2>7. MessagesInv'
    BY <1>0, <1>1, <1>3, <2>1, <2>3, <2>5, <2>6 DEF MessagesInv, Task
  <2> QED BY <1>0, <1>4, <2>4, <2>7, SocketKept
<1> QED BY <1>6, <1>7, <1>8

LEMMA BlobSettlesKeeps ==
  ASSUME StreamInv, NEW k \in DOMAIN tasks, BlobSettles(k)
  PROVE  StreamInv'
<1>0. /\ UNCHANGED <<transport, wire, arrived, phase, chunk, storage, pending, status, delivered>>
      /\ \E outcome \in {"ready", "rejected"} : tasks' = [tasks EXCEPT ![k].state = outcome]
  BY DEF BlobSettles
<1>1. PICK outcome \in {"ready", "rejected"} : tasks' = [tasks EXCEPT ![k].state = outcome]
  BY <1>0
<1>2. DeliveredInv' /\ Base' = Base /\ Taken' = Taken
  BY <1>0 DEF StreamInv, DeliveredInv, Base, Taken
<1>3. ASSUME transport = "tcp" PROVE TcpInv'
  BY <1>0, <1>2, <1>3 DEF StreamInv, TcpInv, DecodingInv, InsideNext
<1>4. ASSUME transport = "websocket", status = "open" PROVE MessagesInv'
  <2>1. MessagesInv /\ tasks \in Seq(Task) /\ Len(tasks) \in Nat /\ Taken \in Nat
    BY <1>4, SocketState
  <2>2. k \in 1..Len(tasks)
    BY <2>1
  <2> DEFINE t == [tasks[k] EXCEPT !.state = outcome]
  <2>3. t \in Task /\ t.frame = tasks[k].frame
    <3>1. tasks[k] \in Task
      BY <2>1, <2>2, ElementOfSeq
    <3>2. t.frame = tasks[k].frame
      BY <3>1 DEF Task
    <3>4. t \in Task
      BY <3>1 DEF Task
    <3> QED BY <3>2, <3>4
  <2>4. tasks' = [tasks EXCEPT ![k] = t]
    BY <1>1
  <2> HIDE DEF t
  <2>5. /\ tasks' \in Seq(Task) /\ Len(tasks') = Len(tasks)
        /\ \A i \in 1..Len(tasks) : tasks'[i] = IF i = k THEN t ELSE tasks[i]
    <3>1. tasks' \in Seq(Task) /\ Len(tasks') = Len(tasks)
      BY <2>1, <2>2, <2>3, <2>4, ExceptSeq
    <3>2. \A i \in 1..Len(tasks) : tasks'[i] = IF i = k THEN t ELSE tasks[i]
      BY <2>1, <2>4
    <3> QED BY <3>1, <3>2
  <2>6. \A i \in 1..Len(tasks) : tasks'[i].frame = tasks[i].frame
    BY <2>3, <2>5
  <2>7. \A i \in (Taken + 1)..Len(tasks) : i \in 1..Len(tasks)
    BY <2>1
  <2>8. \A i \in (Taken + 1)..Len(tasks) :
          tasks'[i].frame = wire[Len(delivered) + Len(pending) + i - Taken]
    BY <2>1, <2>6, <2>7 DEF MessagesInv
  <2>9. tasks' \in Seq([frame : SizedFrame, state : {"converting", "ready", "rejected"}])
    BY <2>5 DEF Task
  <2> QED BY <1>0, <1>2, <2>1, <2>5, <2>8, <2>9 DEF MessagesInv
<1> QED BY <1>0, <1>2, <1>3, <1>4 DEF StreamInv, SocketInv

LEMMA MessageHandledKeeps ==
  ASSUME StreamInv, MessageHandled
  PROVE  StreamInv'
<1> DEFINE n == Len(delivered)
           p == Len(pending)
           m == Len(tasks)
<1>0. /\ transport = "websocket" /\ status = "open" /\ phase = "handling"
      /\ UNCHANGED <<transport, wire, arrived, tasks, status>>
      /\ pending # <<>> => /\ delivered' = Append(delivered, Head(pending)) /\ pending' = Tail(pending)
                           /\ phase' = phase
      /\ pending = <<>> => phase' = "idle" /\ pending' = pending /\ delivered' = delivered
  BY DEF MessageHandled
<1>1. /\ DeliveredInv /\ MessagesInv /\ arrived \in Nat /\ arrived <= Len(wire)
      /\ wire \in Seq(SizedFrame) /\ Len(wire) \in Nat
      /\ n \in Nat /\ pending \in Seq(SizedFrame) /\ p \in Nat /\ m \in Nat /\ Taken = 0
  BY <1>0, SocketState
<1>2. /\ n + p + m - 0 = arrived
      /\ \A i \in 1..p : pending[i] = wire[n + i]
      /\ \A i \in (0 + 1)..m : tasks[i].frame = wire[n + p + i - 0]
  BY <1>1 DEF MessagesInv
<1>3. CASE pending = <<>>
  <2>1. Taken' = 0 /\ DeliveredInv'
    BY <1>0, <1>1, <1>3 DEF Taken, DeliveredInv
  <2>2. MessagesInv'
    BY <1>0, <1>1, <1>3, <2>1 DEF MessagesInv
  <2> QED BY <1>0, <1>1, <2>1, <2>2, SocketKept
<1>4. CASE pending # <<>>
  <2>1. /\ delivered' = Append(delivered, Head(pending)) /\ pending' = Tail(pending)
        /\ phase' = "handling" /\ Taken' = 0
    BY <1>0, <1>4 DEF Taken
  <2>2. /\ Head(pending) = pending[1] /\ pending' \in Seq(SizedFrame) /\ Len(pending') = p - 1
        /\ \A i \in 1..(p - 1) : pending'[i] = pending[i + 1]
    BY <1>1, <1>4, <2>1, HeadTailProperties
  <2>3. p > 0
    <3>1. p # 0
      BY <1>1, <1>4, EmptySeq
    <3> QED BY <1>1, <3>1
  <2>4. Head(pending) = wire[n + 1] /\ n < Len(wire)
    <3>1. 1 \in 1..p /\ n < Len(wire)
      BY <1>1, <1>2, <2>3
    <3> QED BY <1>2, <2>2, <3>1
  <2>5. DeliveredInv' /\ Len(delivered') = n + 1
    BY <1>0, <1>1, <2>1, <2>4, AppendDelivers
  <2>6. ASSUME NEW i \in 1..(p - 1) PROVE pending'[i] = wire[(n + 1) + i]
    <3>1. i + 1 \in 1..p /\ n + (i + 1) = (n + 1) + i
      BY <1>1
    <3> QED BY <1>2, <2>2, <3>1
  <2>7. ASSUME NEW i \in (0 + 1)..m PROVE tasks[i].frame = wire[(n + 1) + (p - 1) + i - 0]
    <3>1. (n + 1) + (p - 1) + i - 0 = n + p + i - 0
      BY <1>1
    <3> QED BY <1>2, <3>1
  <2>8. (n + 1) + (p - 1) + m - 0 = arrived
    <3>1. n + p + m - 0 = arrived
      BY <1>2
    <3>2. n \in Nat /\ p \in Nat /\ m \in Nat
      BY <1>1
    <3> HIDE DEF n, p, m
    <3> QED BY <3>1, <3>2
  <2>9. MessagesInv'
    BY <1>0, <1>1, <2>1, <2>2, <2>5, <2>6, <2>7, <2>8 DEF MessagesInv
  <2> QED BY <1>0, <1>1, <2>5, <2>9, SocketKept
<1> QED BY <1>3, <1>4

LEMMA RunTaskKeeps ==
  ASSUME StreamInv, RunTask
  PROVE  StreamInv'
<1>0. /\ transport = "websocket" /\ status = "open" /\ phase = "idle" /\ tasks # <<>>
      /\ UNCHANGED <<transport, wire, arrived>>
  BY DEF RunTask
<1>1. CASE Terminate("failed") /\ UNCHANGED delivered
  BY <1>0, <1>1, TerminatedKeeps
<1>2. CASE /\ phase' = "task" /\ delivered' = Append(delivered, Head(tasks).frame)
           /\ UNCHANGED <<pending, tasks, status>>
  <2>1. /\ DeliveredInv /\ MessagesInv /\ arrived \in Nat /\ arrived <= Len(wire)
        /\ wire \in Seq(SizedFrame) /\ Len(wire) \in Nat /\ Len(delivered) \in Nat
        /\ tasks \in Seq(Task) /\ Len(tasks) \in Nat /\ Taken = 0 /\ Taken' = 1
    BY <1>0, <1>2, SocketState DEF Taken
  <2>2. /\ pending = <<>> /\ Len(pending) = 0 /\ Len(delivered) + 0 + Len(tasks) - 0 = arrived
        /\ \A i \in (0 + 1)..Len(tasks) : tasks[i].frame = wire[Len(delivered) + 0 + i - 0]
    BY <1>0, <2>1 DEF MessagesInv
  <2>3. Len(tasks) > 0 /\ Head(tasks) = tasks[1]
    <3>1. Len(tasks) # 0 /\ Head(tasks) = tasks[1]
      BY <1>0, <2>1, EmptySeq, HeadTailProperties
    <3> QED BY <2>1, <3>1
  <2>4. Head(tasks).frame = wire[Len(delivered) + 1] /\ Len(delivered) < Len(wire)
    <3>1. /\ 1 \in (0 + 1)..Len(tasks) /\ Len(delivered) < Len(wire)
          /\ Len(delivered) + 0 + 1 - 0 = Len(delivered) + 1
      BY <2>1, <2>2, <2>3
    <3> QED BY <2>2, <2>3, <3>1
  <2>5. DeliveredInv' /\ Len(delivered') = Len(delivered) + 1
    BY <1>0, <1>2, <2>1, <2>4, AppendDelivers
  <2>6. ASSUME NEW i \in (1 + 1)..Len(tasks)
        PROVE  tasks[i].frame = wire[(Len(delivered) + 1) + 0 + i - 1]
    <3>1. i \in (0 + 1)..Len(tasks) /\ (Len(delivered) + 1) + 0 + i - 1 = Len(delivered) + 0 + i - 0
      BY <2>1
    <3> QED BY <2>2, <3>1
  <2>7. (Len(delivered) + 1) + 0 + Len(tasks) - 1 = arrived /\ 1 <= Len(tasks)
    <3>1. Len(delivered) + 0 + Len(tasks) - 0 = arrived
      BY <2>2
    <3>2. Len(delivered) \in Nat /\ Len(tasks) \in Nat
      BY <2>1
    <3> QED BY <2>3, <3>1, <3>2
  <2>8. MessagesInv'
    BY <1>0, <1>2, <2>1, <2>2, <2>5, <2>6, <2>7 DEF MessagesInv, Task
  <2> QED BY <1>0, <2>1, <2>5, <2>8, SocketKept
<1> QED BY <1>1, <1>2 DEF RunTask

LEMMA TaskDoneKeeps ==
  ASSUME StreamInv, TaskDone
  PROVE  StreamInv'
<1>0. /\ transport = "websocket" /\ status = "open" /\ phase = "task"
      /\ phase' = "idle" /\ tasks' = Tail(tasks)
      /\ UNCHANGED <<transport, wire, arrived, pending, status, delivered>>
  BY DEF TaskDone
<1>1. /\ DeliveredInv /\ MessagesInv /\ arrived \in Nat /\ arrived <= Len(wire)
      /\ Len(delivered) \in Nat /\ Len(pending) \in Nat /\ tasks \in Seq(Task) /\ Len(tasks) \in Nat
      /\ Taken = 1 /\ Taken' = 0
  BY <1>0, SocketState DEF Taken
<1>2. /\ 1 <= Len(tasks) /\ pending = <<>>
      /\ Len(delivered) + Len(pending) + Len(tasks) - 1 = arrived
      /\ \A i \in (1 + 1)..Len(tasks) : tasks[i].frame = wire[Len(delivered) + Len(pending) + i - 1]
  BY <1>0, <1>1 DEF MessagesInv
<1>3. /\ tasks' \in Seq(Task) /\ Len(tasks') = Len(tasks) - 1
      /\ \A i \in 1..(Len(tasks) - 1) : tasks'[i] = tasks[i + 1]
  <2>1. tasks # <<>>
    BY <1>1, <1>2, EmptySeq
  <2> QED BY <1>0, <1>1, <2>1, HeadTailProperties
<1>4. ASSUME NEW i \in (0 + 1)..(Len(tasks) - 1)
      PROVE  tasks'[i].frame = wire[Len(delivered) + Len(pending) + i - 0]
  <2>1. /\ i \in 1..(Len(tasks) - 1) /\ i + 1 \in (1 + 1)..Len(tasks)
        /\ Len(delivered) + Len(pending) + (i + 1) - 1 = Len(delivered) + Len(pending) + i - 0
    BY <1>1
  <2> QED BY <1>2, <1>3, <2>1
<1>5. Len(delivered) + Len(pending) + (Len(tasks) - 1) - 0 = arrived /\ 0 <= Len(tasks) - 1
  BY <1>1, <1>2
<1>6. DeliveredInv'
  BY <1>0, <1>1 DEF DeliveredInv
<1>7. MessagesInv'
  BY <1>0, <1>1, <1>2, <1>3, <1>4, <1>5 DEF MessagesInv, Task
<1> QED BY <1>0, <1>1, <1>6, <1>7, SocketKept

LEMMA CancelKeeps ==
  ASSUME StreamInv, Cancel
  PROVE  StreamInv'
BY TerminatedKeeps DEF Cancel

\* Every event and every step of the receiving end.
LEMMA ReceiveKeeps ==
  ASSUME StreamInv, Receive
  PROVE  StreamInv'
BY OnDataKeeps, DecodeKeeps, OnEndKeeps, OnMessageKeeps, BlobSettlesKeeps, MessageHandledKeeps,
   RunTaskKeeps, TaskDoneKeeps, CancelKeeps DEF Receive

LEMMA StreamStutters ==
  ASSUME StreamInv, UNCHANGED streamVars
  PROVE  StreamInv'
<1>1. /\ UNCHANGED <<transport, wire, arrived, phase, chunk, storage, pending, tasks, status, delivered>>
  BY DEF streamVars
<1> QED BY <1>1 DEF StreamInv, DeliveredInv, TcpInv, DecodingInv, InsideNext, SocketInv, MessagesInv,
                    Taken, Base

LEMMA PrefixSeq ==
  ASSUME NEW S, NEW s \in Seq(S), NEW t \in Seq(S), Len(s) <= Len(t),
         \A i \in 1..Len(s) : s[i] = t[i]
  PROVE  IsPrefix(s, t)
<1>0. Len(s) \in Nat /\ Len(t) \in Nat
  BY LenProperties
<1>1. SubSeq(s, 1, Len(s)) = SubSeq(t, 1, Len(s))
  BY <1>0
<1> QED BY <1>1 DEF IsPrefix

\* At rest the decoder retains exactly what has arrived of the next frame.
LEMMA StreamInvInOrder ==
  ASSUME StreamInv
  PROVE  FramesArriveInOrder
<1> DEFINE n == Len(delivered)
<1>0. /\ DeliveredInv /\ Base \in Nat /\ arrived \in Nat /\ n \in Nat
      /\ Bytes(n) = Base /\ Bytes(n + 1) = BytesOf(wire, n + 1)
      /\ n < Len(wire) => /\ BytesOf(wire, n + 1) = Base + PacketLength(wire[n + 1])
                          /\ PacketLength(wire[n + 1]) \in Nat
  <2>1. DeliveredInv
    BY DEF StreamInv
  <2> QED BY <2>1, DeliveredNumbers, StreamOfWire DEF DeliveredInv, Base
<1>1. IsPrefix(delivered, wire)
  BY <1>0, PrefixSeq DEF DeliveredInv
<1>2. ASSUME InsideNext PROVE n < Len(wire) /\ arrived \in (Bytes(n) + 1)..(Bytes(n + 1) - 1)
  BY <1>0, <1>2 DEF InsideNext
<1>3. ASSUME transport = "tcp", status = "open", phase = "idle"
      PROVE  IF storage = <<>> THEN Bytes(n) = arrived
             ELSE InsideNext /\ Bytes(n) + Len(storage) = arrived
  <2>1. /\ DecodingInv /\ Len(storage) \in Nat
        /\ pending = <<>> => (Base + Len(storage)) + Len(chunk) = arrived
    BY <1>3, TcpState
  <2>2. chunk = <<>> /\ pending = <<>> /\ Len(chunk) = 0
    BY <1>3, <2>1 DEF DecodingInv
  <2>3. Base + Len(storage) = arrived
    BY <1>0, <2>1, <2>2
  <2>4. CASE storage = <<>>
    BY <1>0, <2>3, <2>4
  <2>5. CASE storage # <<>>
    <3>1. Len(storage) > 0
      BY <2>1, <2>5, NonEmpty DEF DecodingInv, Run
    <3>2. n < Len(wire) /\ Len(storage) < PacketLength(wire[n + 1])
      BY <2>1, <2>5 DEF DecodingInv
    <3> QED BY <1>0, <2>1, <2>3, <2>5, <3>1, <3>2 DEF InsideNext
  <2> QED BY <2>4, <2>5
<1>4. ASSUME transport = "websocket", status = "open", phase = "idle"
      PROVE  n + Len(tasks) = arrived
  <2>1. MessagesInv /\ Taken = 0 /\ Len(tasks) \in Nat /\ Len(pending) \in Nat
    BY <1>4, SocketState
  <2>2. pending = <<>> /\ Len(pending) = 0
    BY <1>4, <2>1 DEF MessagesInv
  <2> QED BY <1>0, <2>1, <2>2 DEF MessagesInv
<1>5. transport = "tcp" => (status = "completed" => Base = arrived) /\ (status = "failed" => InsideNext)
  BY DEF StreamInv, TcpInv
<1> QED BY <1>0, <1>1, <1>2, <1>3, <1>4, <1>5 DEF FramesArriveInOrder

----------------------------------------------------------------------------
(* What the requester writes.                                              *)

LogicalFrame == FramesOf(Octet)

\* CANCEL and ERROR are never fragmented.
ControlFrame ==
  {f \in AnyFrame : f.type \in {"cancel", "error"} /\ f.metadata = <<>> /\ f.data = <<>>
                    /\ f.follows = FALSE /\ f.complete = FALSE}

SendingCursor ==
  {c \in Cursors(Octet) : ~Exhausted(c)} \cup {Cursor(f) : f \in ControlFrame}

SendingInv ==
  /\ sending \in Seq(SendingCursor)
  /\ issued \in [Streams -> Seq(LogicalFrame)]

LEMMA StreamNumbers == Streams \subseteq Nat
BY TransportAssumption DEF Streams

LEMMA PartOctets ==
  ASSUME NEW s \in Nat, NEW n \in Nat, NEW part \in {"metadata", "data"}, NEW length \in Nat
  PROVE  /\ Part(s, n, part, length) \in Seq(Octet) /\ Len(Part(s, n, part, length)) = length
         /\ length = 0 => Part(s, n, part, length) = <<>>
<1>1. \A i \in 1..length : <<s, n, part, i>> \in Octet
  BY DEF Octet
<1> QED BY <1>1 DEF Part

LEMMA LogicalFields ==
  ASSUME NEW type, NEW s \in Nat, NEW n \in Nat, NEW next \in BOOLEAN, NEW complete \in BOOLEAN,
         NEW shape \in Shapes
  PROVE  \E h \in BOOLEAN, m \in Seq(Octet), d \in Seq(Octet) :
           /\ Logical(type, s, n, next, complete, shape) =
                [type |-> type, stream |-> s, follows |-> FALSE, next |-> next,
                 complete |-> complete, hasMetadata |-> h, metadata |-> m, data |-> d]
           /\ Len(m) > 0 => h
           /\ shape = Bodiless => m = <<>> /\ d = <<>>
<1> DEFINE h == shape[1] >= 0
           a == Larger(0, shape[1])
           b == shape[2]
           m == Part(s, n, "metadata", a)
           d == Part(s, n, "data", b)
<1>1. shape[1] \in Nat \cup {-1} /\ b \in Nat
  BY DEF Shapes
<1>2. a \in Nat /\ (shape[1] < 0 => a = 0) /\ h \in BOOLEAN
  BY <1>1 DEF Larger
<1>3. shape = Bodiless => a = 0 /\ b = 0
  BY DEF Bodiless, Larger
<1>4. Logical(type, s, n, next, complete, shape) =
        [type |-> type, stream |-> s, follows |-> FALSE, next |-> next,
         complete |-> complete, hasMetadata |-> h, metadata |-> m, data |-> d]
  BY DEF Logical
<1> HIDE DEF a, b
<1>5. m \in Seq(Octet) /\ Len(m) = a /\ (a = 0 => m = <<>>)
  <2>1. "metadata" \in {"metadata", "data"}
    OBVIOUS
  <2> QED BY <1>2, <2>1, PartOctets
<1>6. d \in Seq(Octet) /\ (b = 0 => d = <<>>)
  <2>1. "data" \in {"metadata", "data"}
    OBVIOUS
  <2> QED BY <1>1, <2>1, PartOctets
<1> HIDE DEF m, d
<1>7. Len(m) > 0 => h
  BY <1>1, <1>2, <1>5
<1> HIDE DEF h
<1> QED BY <1>2, <1>3, <1>4, <1>5, <1>6, <1>7

LEMMA LogicalIsFrame ==
  ASSUME NEW type \in Requests \cup {"payload"}, NEW s \in Nat, NEW n \in Nat,
         NEW next \in BOOLEAN, NEW complete \in BOOLEAN, NEW shape \in Shapes,
         type = "payload" => next \/ complete,
         type # "payload" => ~next /\ ~complete
  PROVE  Logical(type, s, n, next, complete, shape) \in LogicalFrame
<1>1. PICK h \in BOOLEAN, m \in Seq(Octet), d \in Seq(Octet) :
        /\ Logical(type, s, n, next, complete, shape) =
             [type |-> type, stream |-> s, follows |-> FALSE, next |-> next,
              complete |-> complete, hasMetadata |-> h, metadata |-> m, data |-> d]
        /\ Len(m) > 0 => h
  BY LogicalFields
<1> DEFINE f == [type |-> type, stream |-> s, follows |-> FALSE, next |-> next,
                 complete |-> complete, hasMetadata |-> h, metadata |-> m, data |-> d]
<1>2. f \in [type : Requests \cup {"payload"}, stream : Nat, follows : {FALSE}, next : BOOLEAN,
             complete : BOOLEAN, hasMetadata : BOOLEAN, metadata : Seq(Octet), data : Seq(Octet)]
  OBVIOUS
<1>3. Sendable(f)
  BY <1>1 DEF Sendable
<1> HIDE DEF f
<1>4. f \in FramesOf(Octet)
  BY <1>2, <1>3, Zenon DEF FramesOf
<1> QED BY <1>1, <1>4 DEF LogicalFrame, f

LEMMA LogicalIsControl ==
  ASSUME NEW type \in {"cancel", "error"}, NEW s \in Nat
  PROVE  Logical(type, s, 0, FALSE, FALSE, Bodiless) \in ControlFrame
<1> DEFINE f == Logical(type, s, 0, FALSE, FALSE, Bodiless)
<1>1. Larger(0, -1) = 0 /\ Part(s, 0, "metadata", 0) = <<>> /\ Part(s, 0, "data", 0) = <<>>
  BY DEF Larger, Part
<1> DEFINE h == Bodiless[1] >= 0
<1>2. f = [type |-> type, stream |-> s, follows |-> FALSE, next |-> FALSE,
           complete |-> FALSE, hasMetadata |-> h, metadata |-> <<>>, data |-> <<>>]
  <2>1. Bodiless[1] = -1 /\ Bodiless[2] = 0
    BY DEF Bodiless
  <2> QED BY <1>1, <2>1 DEF Logical
<1> HIDE DEF f, h
<1>3. f \in AnyFrame
  <2>1. h \in BOOLEAN
    BY DEF h
  <2> QED BY <1>2, <2>1 DEF AnyFrame
<1>4. /\ f.type \in {"cancel", "error"} /\ f.metadata = <<>> /\ f.data = <<>>
      /\ f.follows = FALSE /\ f.complete = FALSE
  BY <1>2
<1> QED BY <1>3, <1>4 DEF ControlFrame, f

LEMMA FirstCursor ==
  ASSUME NEW f \in LogicalFrame
  PROVE  Cursor(f) \in Cursors(Octet) /\ ~Exhausted(Cursor(f))
<1>1. Cursor(f).first = TRUE
  BY DEF Cursor
<1>2. ~Exhausted(Cursor(f))
  BY <1>1 DEF Exhausted
<1>3. /\ f.metadata \in Seq(Octet) /\ f.data \in Seq(Octet)
      /\ Len(f.metadata) \in Nat /\ Len(f.data) \in Nat
  <2>1. f \in [type : Requests \cup {"payload"}, stream : Nat, follows : {FALSE}, next : BOOLEAN,
               complete : BOOLEAN, hasMetadata : BOOLEAN, metadata : Seq(Octet), data : Seq(Octet)]
    BY Zenon DEF LogicalFrame, FramesOf
  <2>2. f.metadata \in Seq(Octet) /\ f.data \in Seq(Octet)
    BY <2>1
  <2> QED BY <2>2, LenProperties
<1>4. Cursor(f) \in Cursors(Octet)
  BY <1>3 DEF Cursors, Cursor, LogicalFrame
<1> QED BY <1>2, <1>4

LEMMA HeaderIsShortest ==
  ASSUME NEW f \in AnyFrame
  PROVE  FrameLength(f) \in Nat /\ FrameLength(f) >= 6
<1>1. f.metadata \in Seq(Octet) /\ f.data \in Seq(Octet) /\ f.hasMetadata \in BOOLEAN
  BY DEF AnyFrame
<1>2. Len(f.metadata) \in Nat /\ Len(f.data) \in Nat
  BY <1>1, LenProperties
<1>3. \A type : Overhead(type, TRUE) \in {9, 13} /\ Overhead(type, FALSE) \in {6, 10}
  BY DEF Overhead, HeaderLength, RequestNLength, MetadataLengthField
<1>4. Overhead(f.type, f.hasMetadata) \in {6, 9, 10, 13}
  BY <1>1, <1>3
<1>5. FrameLength(f) = Overhead(f.type, f.hasMetadata) + Len(f.metadata) + Len(f.data)
  BY Zenon DEF FrameLength
<1> QED BY <1>2, <1>4, <1>5, SMTT(30)

LEMMA LogicalIsAny == LogicalFrame \subseteq AnyFrame
<1> SUFFICES ASSUME NEW f \in LogicalFrame PROVE f \in AnyFrame
  OBVIOUS
<1>1. f \in [type : Requests \cup {"payload"}, stream : Nat, follows : {FALSE}, next : BOOLEAN,
             complete : BOOLEAN, hasMetadata : BOOLEAN, metadata : Seq(Octet), data : Seq(Octet)]
  BY Zenon DEF LogicalFrame, FramesOf
<1> QED BY <1>1 DEF AnyFrame

\* A frame or fragment that the loop emits is one a transport may carry.
LEMMA FragmentIsSized ==
  ASSUME NEW c \in SendingCursor, Feasible(c)
  PROVE  Fragment(c) \in SizedFrame
<1>1. CASE c \in Cursors(Octet) /\ ~Exhausted(c)
  <2>1. FrameLength(Fragment(c)) <= MaxFrameLength
    BY <1>1, FragmentLength
  <2>2. CASE Whole(c)
    <3>1. Fragment(c) = c.frame
      BY <2>2, Zenon DEF Fragment
    <3>2. c.frame \in LogicalFrame
      BY <1>1 DEF Cursors, LogicalFrame
    <3>3. c.frame \in AnyFrame
      BY <3>2, LogicalIsAny
    <3>4. FrameLength(c.frame) \in Nat /\ FrameLength(c.frame) >= 6
      BY <3>3, HeaderIsShortest
    <3> QED BY <2>1, <3>1, <3>3, <3>4, MaxFrameLengthAssumption DEF SizedFrame
  <2>3. CASE ~Whole(c)
    <3> DEFINE x == Fragment(c)
    <3>1. /\ x = [type |-> Kind(c), stream |-> c.frame.stream, follows |-> ~Ends(c),
                  next |-> NextFlag(c), complete |-> ~(~Ends(c)) /\ c.frame.complete,
                  hasMetadata |-> IncludesMetadata(c),
                  metadata |-> MetadataPiece(c), data |-> DataPiece(c)]
          /\ MetadataPiece(c) \in Seq(Octet) /\ DataPiece(c) \in Seq(Octet)
      BY <1>1, <2>3, FragmentFields
    <3>2. /\ c.frame.type \in Requests \cup {"payload"} /\ c.frame.stream \in Nat
          /\ c.frame.next \in BOOLEAN /\ c.frame.complete \in BOOLEAN
      BY <1>1, FrameFields
    <3>3. /\ Kind(c) \in Requests \cup {"payload"} /\ (~Ends(c)) \in BOOLEAN
          /\ NextFlag(c) \in BOOLEAN /\ (~(~Ends(c)) /\ c.frame.complete) \in BOOLEAN
          /\ IncludesMetadata(c) \in BOOLEAN
      <4>1. Kind(c) \in Requests \cup {"payload"}
        BY <3>2 DEF Kind
      <4>2. NextFlag(c) \in BOOLEAN
        BY <3>2, Zenon DEF NextFlag
      <4>3. IncludesMetadata(c) \in BOOLEAN
        BY <1>1, HeadLengths
      <4> QED BY <4>1, <4>2, <4>3
    <3> HIDE DEF x
    <3>4. x \in AnyFrame
      BY <3>1, <3>2, <3>3 DEF AnyFrame
    <3>5. FrameLength(x) \in Nat /\ FrameLength(x) >= 6
      BY <3>4, HeaderIsShortest
    <3> QED BY <2>1, <3>4, <3>5, MaxFrameLengthAssumption DEF SizedFrame, x
  <2> QED BY <2>2, <2>3
<1>2. CASE c \in {Cursor(f) : f \in ControlFrame}
  <2>1. PICK f \in ControlFrame : c = Cursor(f)
    BY <1>2
  <2>2. c.frame = f /\ f \in AnyFrame /\ f.type \in {"cancel", "error"}
    BY <2>1 DEF Cursor, ControlFrame
  <2>3. Whole(c)
    <3>1. ~Fragmentable(f.type)
      BY <2>2 DEF Fragmentable, Requests
    <3> QED BY <2>2, <3>1, Zenon DEF Feasible
  <2>4. Fragment(c) = f /\ FrameLength(f) <= MaxFrameLength
    BY <2>2, <2>3 DEF Fragment, Whole
  <2>5. FrameLength(f) \in Nat /\ FrameLength(f) >= 6
    BY <2>2, HeaderIsShortest
  <2> QED BY <2>2, <2>4, <2>5, MaxFrameLengthAssumption DEF SizedFrame
<1> QED BY <1>1, <1>2 DEF SendingCursor

\* The loop goes on with the same frame, or is over.
LEMMA AdvanceIsSending ==
  ASSUME NEW c \in SendingCursor, Feasible(c), ~Exhausted(Advance(c))
  PROVE  Advance(c) \in SendingCursor
<1>1. CASE c \in Cursors(Octet) /\ ~Exhausted(c)
  BY <1>1, Advances DEF SendingCursor
<1>2. CASE c \in {Cursor(f) : f \in ControlFrame}
  <2>1. PICK f \in ControlFrame : c = Cursor(f)
    BY <1>2
  <2>2. c.frame = f /\ f \in AnyFrame /\ f.type \in {"cancel", "error"} /\ f.metadata = <<>> /\ f.data = <<>>
    BY <2>1 DEF Cursor, ControlFrame
  <2>3. Whole(c)
    <3>1. ~Fragmentable(f.type)
      BY <2>2 DEF Fragmentable, Requests
    <3> QED BY <2>2, <3>1, Zenon DEF Feasible
  <2>4. Advance(c) = [frame |-> f, metadata |-> Len(f.metadata), data |-> Len(f.data), first |-> FALSE]
    BY <2>1, <2>3 DEF Advance, Cursor
  <2>5. Exhausted(Advance(c))
    BY <2>2, <2>4 DEF Exhausted, MetadataLeft, DataLeft
  <2> QED BY <2>5
<1> QED BY <1>1, <1>2 DEF SendingCursor

LEMMA LastAndFront ==
  ASSUME NEW S, NEW s \in Seq(S), s # <<>>
  PROVE  /\ Last(s) \in S /\ Last(s) = s[Len(s)] /\ Len(s) \in Nat /\ Len(s) > 0
         /\ Front(s) \in Seq(S) /\ Len(Front(s)) = Len(s) - 1
         /\ \A i \in 1..(Len(s) - 1) : Front(s)[i] = s[i]
<1>1. Len(s) \in Nat /\ Len(s) # 0
  BY EmptySeq, LenProperties
<1>2. Len(s) \in 1..Len(s) /\ Len(s) > 0
  BY <1>1
<1>3. Last(s) = s[Len(s)] /\ Last(s) \in S
  BY <1>2, ElementOfSeq DEF Last
<1>4. /\ Front(s) = SubSeq(s, 1, Len(s) - 1)
  BY DEF Front
<1>5. \A i \in 1..(Len(s) - 1) : s[i] \in S
  BY <1>1, ElementOfSeq
<1>6. /\ SubSeq(s, 1, Len(s) - 1) \in Seq(S)
      /\ Len(SubSeq(s, 1, Len(s) - 1)) = IF 1 <= Len(s) - 1 THEN (Len(s) - 1) - 1 + 1 ELSE 0
      /\ \A i \in 1 .. (Len(s) - 1) - 1 + 1 : SubSeq(s, 1, Len(s) - 1)[i] = s[1 + i - 1]
  <2>1. 1 \in Int /\ Len(s) - 1 \in Int
    BY <1>1
  <2> QED BY <1>5, <2>1, SubSeqProperties
<1>7. (Len(s) - 1) - 1 + 1 = Len(s) - 1 /\ \A i \in 1..(Len(s) - 1) : 1 + i - 1 = i
  BY <1>1
<1> QED BY <1>1, <1>2, <1>3, <1>4, <1>6, <1>7

LEMMA Pushes ==
  ASSUME SendingInv, NEW f, Cursor(f) \in SendingCursor, StartSending(f)
  PROVE  sending' \in Seq(SendingCursor)
BY AppendProperties DEF SendingInv, StartSending

LEMMA FirstIsSending == \A f \in LogicalFrame \cup ControlFrame : Cursor(f) \in SendingCursor
BY FirstCursor DEF SendingCursor

----------------------------------------------------------------------------
(* The transport under the whole system.                                   *)

FramedInv == StreamInv /\ SendingInv

LEMMA IssuedSeq ==
  ASSUME SendingInv, NEW s \in Streams
  PROVE  issued[s] \in Seq(LogicalFrame) /\ Len(issued[s]) \in Nat /\ s \in Nat
<1>1. issued[s] \in Seq(LogicalFrame)
  BY DEF SendingInv
<1> QED BY <1>1, LenProperties, StreamNumbers

LEMMA RequestSends ==
  ASSUME SendingInv, NEW kind \in RequestKinds(nextId), Request(kind[1], kind[2])
  PROVE  SendingInv'
<1> DEFINE s == nextId
           f == Logical(kind[1], s, 0, FALSE, FALSE, kind[2])
<1>1. /\ s \in Streams /\ issued' = [issued EXCEPT ![s] = <<f>>] /\ StartSending(f)
  BY DEF Request
<1>2. kind[1] \in Requests /\ kind[2] \in Shapes /\ s \in Nat
  BY <1>1, TransportAssumption, StreamNumbers
<1>3. f \in LogicalFrame
  <2>1. kind[1] \in Requests \cup {"payload"} /\ kind[1] # "payload"
    BY <1>2 DEF Requests
  <2>2. 0 \in Nat /\ FALSE \in BOOLEAN
    OBVIOUS
  <2> QED BY <1>2, <2>1, <2>2, LogicalIsFrame
<1> HIDE DEF f
<1>4. sending' \in Seq(SendingCursor)
  BY <1>1, <1>3, FirstIsSending, Pushes
<1>5. <<f>> \in Seq(LogicalFrame)
  BY <1>3
<1>6. issued' \in [Streams -> Seq(LogicalFrame)]
  BY <1>1, <1>5 DEF SendingInv
<1> QED BY <1>4, <1>6 DEF SendingInv

LEMMA ItemSends ==
  ASSUME SendingInv, NEW s \in Streams, NEW f \in LogicalFrame, StartSending(f),
         issued' = [issued EXCEPT ![s] = Append(@, f)]
  PROVE  SendingInv'
<1>1. issued[s] \in Seq(LogicalFrame)
  BY IssuedSeq
<1>2. Append(issued[s], f) \in Seq(LogicalFrame)
  BY <1>1, AppendProperties
<1>3. issued' \in [Streams -> Seq(LogicalFrame)]
  BY <1>2 DEF SendingInv
<1>4. sending' \in Seq(SendingCursor)
  BY FirstIsSending, Pushes
<1> QED BY <1>3, <1>4 DEF SendingInv

LEMMA SendItemSends ==
  ASSUME SendingInv, NEW s \in Streams, NEW shape \in ItemShapes, SendItem(s, shape)
  PROVE  SendingInv'
<1> DEFINE f == Logical("payload", s, Len(issued[s]), TRUE, FALSE, shape)
<1>1. issued' = [issued EXCEPT ![s] = Append(@, f)] /\ StartSending(f)
  BY DEF SendItem
<1>2. Len(issued[s]) \in Nat /\ s \in Nat /\ shape \in Shapes
  BY IssuedSeq, TransportAssumption
<1>3. f \in LogicalFrame
  <2>1. "payload" \in Requests \cup {"payload"} /\ TRUE \in BOOLEAN /\ FALSE \in BOOLEAN
    OBVIOUS
  <2> QED BY <1>2, <2>1, LogicalIsFrame
<1> HIDE DEF f
<1> QED BY <1>1, <1>3, ItemSends

LEMMA SendCompleteSends ==
  ASSUME SendingInv, NEW s \in Streams, SendComplete(s)
  PROVE  SendingInv'
<1> DEFINE f == Logical("payload", s, Len(issued[s]), FALSE, TRUE, Bodiless)
<1>1. issued' = [issued EXCEPT ![s] = Append(@, f)] /\ StartSending(f)
  BY DEF SendComplete
<1>2. Len(issued[s]) \in Nat /\ s \in Nat /\ Bodiless \in Shapes
  BY IssuedSeq DEF Bodiless, Shapes
<1>3. f \in LogicalFrame
  <2>1. "payload" \in Requests \cup {"payload"} /\ TRUE \in BOOLEAN /\ FALSE \in BOOLEAN
    OBVIOUS
  <2> QED BY <1>2, <2>1, LogicalIsFrame
<1> HIDE DEF f
<1> QED BY <1>1, <1>3, ItemSends

LEMMA ControlSends ==
  ASSUME SendingInv, NEW s \in Streams, NEW type \in {"cancel", "error"},
         StartSending(Logical(type, s, 0, FALSE, FALSE, Bodiless)), issued' = issued
  PROVE  SendingInv'
<1>1. Logical(type, s, 0, FALSE, FALSE, Bodiless) \in ControlFrame
  BY LogicalIsControl, StreamNumbers
<1> QED BY <1>1, FirstIsSending, Pushes DEF SendingInv

LEMMA EmitSends ==
  ASSUME SendingInv, EmitFragment
  PROVE  SendingInv' /\ \E f \in SizedFrame : Write(f)
<1> DEFINE c == Last(sending)
<1>1. /\ sending # <<>> /\ Feasible(c) /\ Write(Fragment(c)) /\ issued' = issued
      /\ Continue(Advance(c))
  BY DEF EmitFragment
<1>2. sending \in Seq(SendingCursor)
  BY DEF SendingInv
<1>3. /\ c \in SendingCursor /\ Front(sending) \in Seq(SendingCursor)
      /\ Len(sending) \in Nat /\ Len(sending) > 0
  BY <1>1, <1>2, LastAndFront
<1> HIDE DEF c
<1>4. Fragment(c) \in SizedFrame
  BY <1>1, <1>3, FragmentIsSized
<1>5. sending' \in Seq(SendingCursor)
  <2>1. CASE Exhausted(Advance(c))
    BY <1>1, <1>3, <2>1 DEF Continue
  <2>2. CASE ~Exhausted(Advance(c))
    <3>1. Advance(c) \in SendingCursor /\ sending' = [sending EXCEPT ![Len(sending)] = Advance(c)]
      BY <1>1, <1>3, <2>2, AdvanceIsSending DEF Continue
    <3>2. Len(sending) \in 1..Len(sending)
      BY <1>3
    <3> QED BY <1>2, <3>1, <3>2, ExceptSeq
  <2> QED BY <2>1, <2>2
<1> QED BY <1>1, <1>4, <1>5 DEF SendingInv

LEMMA ThrowSends ==
  ASSUME SendingInv, EmitThrows
  PROVE  SendingInv'
<1> DEFINE s == Last(sending).frame.stream
<1>1. /\ sending # <<>> /\ sending' = Front(sending) /\ issued' = [issued EXCEPT ![s] = <<>>]
  BY DEF EmitThrows
<1>2. sending' \in Seq(SendingCursor)
  BY <1>1, LastAndFront DEF SendingInv
<1> HIDE DEF s
<1>3. <<>> \in Seq(LogicalFrame)
  OBVIOUS
<1>4. issued' \in [Streams -> Seq(LogicalFrame)]
  BY <1>1, <1>3 DEF SendingInv
<1> QED BY <1>2, <1>4 DEF SendingInv

LEMMA ClientKeeps ==
  ASSUME FramedInv, ClientStep
  PROVE  FramedInv'
<1>0. StreamInv /\ SendingInv
  BY DEF FramedInv
<1>1. CASE \E kind \in RequestKinds(nextId) : Request(kind[1], kind[2])
  <2>1. SendingInv'
    BY <1>0, <1>1, RequestSends
  <2>2. UNCHANGED streamVars
    BY <1>1 DEF Request
  <2> QED BY <1>0, <2>1, <2>2, StreamStutters DEF FramedInv
<1>2. ASSUME NEW s \in Streams, NEW shape \in ItemShapes, SendItem(s, shape) PROVE FramedInv'
  BY <1>0, <1>2, SendItemSends, StreamStutters DEF SendItem, FramedInv
<1>3. ASSUME NEW s \in Streams, SendComplete(s) PROVE FramedInv'
  BY <1>0, <1>3, SendCompleteSends, StreamStutters DEF SendComplete, FramedInv
<1>4. ASSUME NEW s \in Streams, SendCancel(s) PROVE FramedInv'
  BY <1>0, <1>4, ControlSends, StreamStutters DEF SendCancel, FramedInv
<1>5. ASSUME NEW s \in Streams, FailOutbound(s) PROVE FramedInv'
  BY <1>0, <1>5, ControlSends, StreamStutters DEF FailOutbound, FramedInv
<1>6. ASSUME NEW s \in Streams, ResponderHasEnded(s) PROVE FramedInv'
  <2>1. UNCHANGED <<sending, issued>> /\ UNCHANGED streamVars
    BY <1>6 DEF ResponderHasEnded
  <2> QED BY <1>0, <2>1, StreamStutters DEF FramedInv, SendingInv
<1>7. CASE EmitFragment
  BY <1>0, <1>7, EmitSends, WriteKeeps DEF FramedInv
<1>8. CASE EmitThrows
  BY <1>0, <1>8, ThrowSends, StreamStutters DEF EmitThrows, FramedInv
<1> QED BY <1>1, <1>2, <1>3, <1>4, <1>5, <1>6, <1>7, <1>8 DEF ClientStep

LEMMA FramedInductive == Spec => []FramedInv
<1>1. Init => FramedInv
  <2> SUFFICES ASSUME Init PROVE FramedInv
    OBVIOUS
  <2>1. StreamInv
    BY StreamInitEstablishes DEF Init
  <2>2. sending = <<>> /\ issued = [s \in Streams |-> <<>>]
    BY DEF Init
  <2>3. SendingInv
    BY <2>2 DEF SendingInv
  <2> QED BY <2>1, <2>3 DEF FramedInv
<1>2. FramedInv /\ [Next]_vars => FramedInv'
  <2> SUFFICES ASSUME FramedInv, [Next]_vars PROVE FramedInv'
    OBVIOUS
  <2>0. StreamInv /\ SendingInv
    BY DEF FramedInv
  <2>1. CASE ClientStep
    BY <2>1, ClientKeeps
  <2>2. CASE ControllerStep
    <3>1. UNCHANGED clientVars /\ UNCHANGED streamVars
      BY <2>2 DEF ControllerStep, Grant, Respond, ControllerFails
    <3> QED BY <2>0, <3>1, StreamStutters DEF FramedInv, SendingInv, clientVars
  <2>3. CASE ReceiveFrames
    <3>1. Receive /\ UNCHANGED clientVars
      BY <2>3 DEF ReceiveFrames
    <3> QED BY <2>0, <3>1, ReceiveKeeps DEF FramedInv, SendingInv, clientVars
  <2>4. CASE UNCHANGED vars
    <3>1. UNCHANGED clientVars /\ UNCHANGED streamVars
      BY <2>4 DEF vars
    <3> QED BY <2>0, <3>1, StreamStutters DEF FramedInv, SendingInv, clientVars
  <2> QED BY <2>1, <2>2, <2>3, <2>4 DEF Next
<1> QED BY <1>1, <1>2, PTL DEF Spec

\* Whatever the frames and the sizes of their payloads, wherever the chunks are cut and however
\* events are nested in the consumer, frames reach it whole, once and in the order they were
\* written; a TCP stream completes on a frame boundary and fails inside a frame only, and at
\* rest nothing that has fully arrived is held back.
THEOREM FramesArriveInOrderAlways == Spec => []FramesArriveInOrder
<1>1. FramedInv => FramesArriveInOrder
  BY StreamInvInOrder DEF FramedInv
<1> QED BY <1>1, FramedInductive, PTL

----------------------------------------------------------------------------
(* Places in what a stream has to send, and the way of its frames between  *)
(* two of them.                                                            *)

\* The next fragment is at these offsets of item k.
Start(k) == [item |-> k, metadata |-> 0, data |-> 0, first |-> TRUE]
At(k, c) == [item |-> k, metadata |-> c.metadata, data |-> c.data, first |-> c.first]

CursorAt(items, p) ==
  [frame |-> items[p.item], metadata |-> p.metadata, data |-> p.data, first |-> p.first]

NextPlace(items, p) ==
  IF Ends(CursorAt(items, p)) THEN Start(p.item + 1) ELSE At(p.item, Advance(CursorAt(items, p)))

IsData(f) == f.type \in Requests \cup {"payload"}
DataOf(s, f) == f.stream = s /\ IsData(f)

\* Frame f is the fragment at place p.
Carried(items, f, p) ==
  /\ p.item \in DOMAIN items
  /\ CursorAt(items, p) \in Cursors(Octet)
  /\ ~Exhausted(CursorAt(items, p)) /\ Feasible(CursorAt(items, p))
  /\ f = Fragment(CursorAt(items, p))

Link(s, items, f, p, q) ==
  IF DataOf(s, f) THEN Carried(items, f, p) /\ q = NextPlace(items, p) ELSE q = p

\* The frames of stream s behind position n of the wire lead from place p to place q.
Trail(s, items, w, n, p, q) ==
  \E P : /\ P[n] = p /\ P[Len(w)] = q
         /\ \A k \in (n + 1)..Len(w) : Link(s, items, w[k], P[k - 1], P[k])

LEMMA TrailEnds ==
  ASSUME NEW s, NEW items, NEW w, NEW p, NEW q, Trail(s, items, w, Len(w), p, q)
  PROVE  p = q
BY DEF Trail

LEMMA TrailNext ==
  ASSUME NEW s, NEW items, NEW w, NEW n \in Nat, NEW p, NEW q, Len(w) \in Nat, n < Len(w),
         Trail(s, items, w, n, p, q)
  PROVE  \E r : Link(s, items, w[n + 1], p, r) /\ Trail(s, items, w, n + 1, r, q)
<1>1. PICK P : /\ P[n] = p /\ P[Len(w)] = q
               /\ \A k \in (n + 1)..Len(w) : Link(s, items, w[k], P[k - 1], P[k])
  BY Zenon DEF Trail
<1>2. n + 1 \in (n + 1)..Len(w) /\ (n + 1) - 1 = n /\ ((n + 1) + 1)..Len(w) \subseteq (n + 1)..Len(w)
  OBVIOUS
<1>3. Link(s, items, w[n + 1], P[(n + 1) - 1], P[n + 1])
  BY <1>1, <1>2, Zenon
<1>4. Link(s, items, w[n + 1], p, P[n + 1])
  BY <1>1, <1>2, <1>3, Zenon
<1>5. \A k \in ((n + 1) + 1)..Len(w) : Link(s, items, w[k], P[k - 1], P[k])
  BY <1>1, <1>2, Zenon
<1>6. Trail(s, items, w, n + 1, P[n + 1], q)
  BY <1>1, <1>5, Zenon DEF Trail
<1> QED BY <1>4, <1>6, Zenon

LEMMA TrailAppend ==
  ASSUME NEW S, NEW w \in Seq(S), NEW f, NEW s, NEW items, NEW n \in 0..Len(w),
         NEW p, NEW q, NEW r, Trail(s, items, w, n, p, q), Link(s, items, f, q, r)
  PROVE  Trail(s, items, Append(w, f), n, p, r)
<1>1. PICK P : /\ P[n] = p /\ P[Len(w)] = q
               /\ \A k \in (n + 1)..Len(w) : Link(s, items, w[k], P[k - 1], P[k])
  BY Zenon DEF Trail
<1> DEFINE v == Append(w, f)
           m == Len(w)
           Q == [k \in n..(m + 1) |-> IF k = m + 1 THEN r ELSE P[k]]
<1>2. /\ m \in Nat /\ Len(v) = m + 1 /\ v[m + 1] = f
      /\ \A k \in 1..m : v[k] = w[k]
  BY LenProperties, AppendProperties
<1> HIDE DEF v, m
<1>3. n \in 0..m
  BY DEF m
<1>4. n \in n..(m + 1) /\ n # m + 1 /\ m + 1 \in n..(m + 1) /\ m \in n..(m + 1) /\ m # m + 1
  BY <1>2, <1>3
<1>5. Q[n] = p /\ Q[m + 1] = r /\ Q[m] = q
  BY <1>1, <1>4 DEF m
<1>6. ASSUME NEW k \in (n + 1)..(m + 1) PROVE Link(s, items, v[k], Q[k - 1], Q[k])
  <2>1. CASE k = m + 1
    <3>1. k - 1 = m
      BY <1>2, <2>1
    <3> QED BY <1>2, <1>5, <2>1, <3>1
  <2>2. CASE k # m + 1
    <3>1. /\ k \in (n + 1)..m /\ k \in 1..m /\ k \in n..(m + 1) /\ k - 1 \in n..(m + 1)
          /\ k - 1 # m + 1
      BY <1>2, <1>3, <2>2
    <3>2. Q[k] = P[k] /\ Q[k - 1] = P[k - 1]
      BY <2>2, <3>1
    <3>3. v[k] = w[k] /\ Link(s, items, w[k], P[k - 1], P[k])
      BY <1>1, <1>2, <3>1 DEF m
    <3> HIDE DEF Q
    <3> QED BY <3>2, <3>3
  <2> QED BY <2>1, <2>2
<1> HIDE DEF Q
<1>7. Q[n] = p /\ Q[Len(v)] = r /\ \A k \in (n + 1)..Len(v) : Link(s, items, v[k], Q[k - 1], Q[k])
  BY <1>2, <1>5, <1>6
<1>8. Trail(s, items, v, n, p, r)
  BY <1>7, Zenon DEF Trail
<1> QED BY <1>8 DEF v

\* Further items change nothing of what was sent.
LEMMA TrailItems ==
  ASSUME NEW S, NEW items \in Seq(S), NEW x, NEW s, NEW w, NEW n, NEW p, NEW q,
         Trail(s, items, w, n, p, q)
  PROVE  Trail(s, Append(items, x), w, n, p, q)
<1> DEFINE more == Append(items, x)
<1>1. DOMAIN items \subseteq DOMAIN more /\ \A k \in DOMAIN items : more[k] = items[k]
  <2>1. /\ DOMAIN items = 1..Len(items) /\ Len(items) \in Nat /\ more \in Seq(S \cup {x})
        /\ Len(more) = Len(items) + 1 /\ \A k \in 1..Len(items) : more[k] = items[k]
    BY LenProperties, AppendProperties
  <2>2. DOMAIN more = 1..Len(more)
    BY <2>1, LenProperties
  <2> HIDE DEF more
  <2> QED BY <2>1, <2>2
<1> HIDE DEF more
<1>2. ASSUME NEW f, NEW a, NEW b, Link(s, items, f, a, b) PROVE Link(s, more, f, a, b)
  <2>1. CASE DataOf(s, f)
    <3>1. Carried(items, f, a) /\ b = NextPlace(items, a)
      BY <1>2, <2>1, Zenon DEF Link
    <3>2. a.item \in DOMAIN items
      BY <3>1 DEF Carried
    <3>3. CursorAt(more, a) = CursorAt(items, a) /\ a.item \in DOMAIN more
      BY <1>1, <3>2 DEF CursorAt
    <3>4. Carried(more, f, a) /\ b = NextPlace(more, a)
      BY <3>1, <3>3, Zenon DEF Carried, NextPlace
    <3> QED BY <2>1, <3>4, Zenon DEF Link
  <2>2. CASE ~DataOf(s, f)
    BY <1>2, <2>2, Zenon DEF Link
  <2> QED BY <2>1, <2>2
<1>3. Trail(s, more, w, n, p, q)
  BY <1>2, Zenon DEF Trail
<1> QED BY <1>3 DEF more

\* A stream of which nothing is on the way stays where it is.
LEMMA TrailFree ==
  ASSUME NEW s, NEW items, NEW w, NEW n \in Nat, NEW p, Len(w) \in Nat, n <= Len(w),
         \A k \in (n + 1)..Len(w) : w[k].stream # s
  PROVE  Trail(s, items, w, n, p, p)
<1> DEFINE P == [k \in n..Len(w) |-> p]
<1>1. \A k \in (n + 1)..Len(w) : k \in n..Len(w) /\ k - 1 \in n..Len(w)
  OBVIOUS
<1>2. n \in n..Len(w) /\ Len(w) \in n..Len(w)
  OBVIOUS
<1>3. P[n] = p /\ P[Len(w)] = p /\ \A k \in (n + 1)..Len(w) : P[k - 1] = p /\ P[k] = p
  BY <1>1, <1>2, Zenon
<1> HIDE DEF P
<1>4. \A k \in (n + 1)..Len(w) : Link(s, items, w[k], P[k - 1], P[k])
  BY <1>3, Zenon DEF Link, DataOf
<1> QED BY <1>3, <1>4, Zenon DEF Trail

----------------------------------------------------------------------------
(* Requests go out in the order of their ids, without a gap.               *)

IdLink(f, a, b) == IF f.type \in Requests THEN f.stream = a /\ b = a + 2 ELSE b = a

IdTrail(w, n, a, b) ==
  \E P : /\ P[n] = a /\ P[Len(w)] = b
         /\ \A k \in (n + 1)..Len(w) : IdLink(w[k], P[k - 1], P[k])

LEMMA IdTrailNext ==
  ASSUME NEW w, NEW n \in Nat, NEW a, NEW b, Len(w) \in Nat, n < Len(w), IdTrail(w, n, a, b)
  PROVE  \E r : IdLink(w[n + 1], a, r) /\ IdTrail(w, n + 1, r, b)
<1>1. PICK P : /\ P[n] = a /\ P[Len(w)] = b
               /\ \A k \in (n + 1)..Len(w) : IdLink(w[k], P[k - 1], P[k])
  BY Zenon DEF IdTrail
<1>2. n + 1 \in (n + 1)..Len(w) /\ (n + 1) - 1 = n /\ ((n + 1) + 1)..Len(w) \subseteq (n + 1)..Len(w)
  OBVIOUS
<1>3. IdLink(w[n + 1], P[(n + 1) - 1], P[n + 1])
  BY <1>1, <1>2, Zenon
<1>4. IdLink(w[n + 1], a, P[n + 1])
  BY <1>1, <1>2, <1>3, Zenon
<1>5. \A k \in ((n + 1) + 1)..Len(w) : IdLink(w[k], P[k - 1], P[k])
  BY <1>1, <1>2, Zenon
<1>6. IdTrail(w, n + 1, P[n + 1], b)
  BY <1>1, <1>5, Zenon DEF IdTrail
<1> QED BY <1>4, <1>6, Zenon

LEMMA IdTrailAppend ==
  ASSUME NEW S, NEW w \in Seq(S), NEW f, NEW n \in 0..Len(w), NEW a, NEW b, NEW c,
         IdTrail(w, n, a, b), IdLink(f, b, c)
  PROVE  IdTrail(Append(w, f), n, a, c)
<1>1. PICK P : /\ P[n] = a /\ P[Len(w)] = b
               /\ \A k \in (n + 1)..Len(w) : IdLink(w[k], P[k - 1], P[k])
  BY Zenon DEF IdTrail
<1> DEFINE v == Append(w, f)
           m == Len(w)
           Q == [k \in n..(m + 1) |-> IF k = m + 1 THEN c ELSE P[k]]
<1>2. /\ m \in Nat /\ Len(v) = m + 1 /\ v[m + 1] = f
      /\ \A k \in 1..m : v[k] = w[k]
  BY LenProperties, AppendProperties
<1> HIDE DEF v, m
<1>3. n \in 0..m
  BY DEF m
<1>4. n \in n..(m + 1) /\ n # m + 1 /\ m + 1 \in n..(m + 1) /\ m \in n..(m + 1) /\ m # m + 1
  BY <1>2, <1>3
<1>5. Q[n] = a /\ Q[m + 1] = c /\ Q[m] = b
  BY <1>1, <1>4 DEF m
<1>6. ASSUME NEW k \in (n + 1)..(m + 1) PROVE IdLink(v[k], Q[k - 1], Q[k])
  <2>1. CASE k = m + 1
    <3>1. k - 1 = m
      BY <1>2, <2>1
    <3> QED BY <1>2, <1>5, <2>1, <3>1
  <2>2. CASE k # m + 1
    <3>1. /\ k \in (n + 1)..m /\ k \in 1..m /\ k \in n..(m + 1) /\ k - 1 \in n..(m + 1)
          /\ k - 1 # m + 1
      BY <1>2, <1>3, <2>2
    <3>2. Q[k] = P[k] /\ Q[k - 1] = P[k - 1]
      BY <2>2, <3>1
    <3>3. v[k] = w[k] /\ IdLink(w[k], P[k - 1], P[k])
      BY <1>1, <1>2, <3>1 DEF m
    <3> HIDE DEF Q
    <3> QED BY <3>2, <3>3
  <2> QED BY <2>1, <2>2
<1> HIDE DEF Q
<1>7. Q[n] = a /\ Q[Len(v)] = c /\ \A k \in (n + 1)..Len(v) : IdLink(v[k], Q[k - 1], Q[k])
  BY <1>2, <1>5, <1>6
<1>8. IdTrail(v, n, a, c)
  BY <1>7, Zenon DEF IdTrail
<1> QED BY <1>8 DEF v

----------------------------------------------------------------------------
(* What the receiver holds of an item under way.                           *)

\* Everything before cursor c, which has begun and is not at the end.
KeptAt(held, c) ==
  /\ c \in Cursors(Octet) /\ ~c.first /\ ~Exhausted(c)
  /\ Gathered(held, c.frame, c.metadata, c.data)

Kept(held, f) == \E c : c.frame = f /\ KeptAt(held, c)

HoldPlace(k, held) ==
  [item |-> k, metadata |-> Len(held.metadata), data |-> Len(held.data), first |-> FALSE]

LEMMA BelowTheSum ==
  \A a \in Nat, b \in Nat : \A x \in 0..a, y \in 0..b : ~(a - x = 0 /\ b - y = 0) => x + y < a + b
OBVIOUS

LEMMA KeptAtPlace ==
  ASSUME NEW held, NEW c, KeptAt(held, c)
  PROVE  /\ \A k : HoldPlace(k, held) = At(k, c)
         /\ held # None /\ held.initial.type = c.frame.type
         /\ IsPrefix(held.metadata, c.frame.metadata) /\ IsPrefix(held.data, c.frame.data)
         /\ Len(held.metadata) + Len(held.data) < Len(c.frame.metadata) + Len(c.frame.data)
<1>1. /\ c \in Cursors(Octet) /\ ~c.first /\ ~Exhausted(c)
      /\ Gathered(held, c.frame, c.metadata, c.data)
  BY DEF KeptAt
<1>2. held # None
  BY <1>1, GatheredIsSomething
<1>3. /\ held.initial.type = c.frame.type
      /\ held.metadata = SubSeq(c.frame.metadata, 1, c.metadata)
      /\ held.data = SubSeq(c.frame.data, 1, c.data)
  <2>1. PICK x, y : held = [kind |-> "parts",
           initial |-> [type |-> c.frame.type, stream |-> c.frame.stream, follows |-> TRUE,
                        next |-> c.frame.next, complete |-> FALSE,
                        hasMetadata |-> c.frame.hasMetadata, metadata |-> x, data |-> y],
           hasMetadata |-> c.frame.hasMetadata,
           metadata |-> SubSeq(c.frame.metadata, 1, c.metadata),
           data |-> SubSeq(c.frame.data, 1, c.data)]
    BY <1>1, Zenon DEF Gathered
  <2> QED BY <2>1
<1>4. /\ c.frame.metadata \in Seq(Octet) /\ c.frame.data \in Seq(Octet)
      /\ Len(c.frame.metadata) \in Nat /\ Len(c.frame.data) \in Nat
      /\ c.metadata \in 0..Len(c.frame.metadata) /\ c.data \in 0..Len(c.frame.data)
  BY <1>1, FrameFields
<1>5. 0 \in 0..(Len(c.frame.metadata) - c.metadata) /\ 0 \in 0..(Len(c.frame.data) - c.data)
  BY <1>4
<1>6. Len(held.metadata) = c.metadata
  BY <1>3, <1>4, <1>5, Pieces, SMTT(30)
<1>7. Len(held.data) = c.data
  BY <1>3, <1>4, <1>5, Pieces
<1>8. c.first = FALSE
  BY <1>1, FrameFields
<1>9. \A k : HoldPlace(k, held) = At(k, c)
  BY <1>6, <1>7, <1>8, Zenon DEF HoldPlace, At
<1>10. IsPrefix(held.metadata, c.frame.metadata) /\ IsPrefix(held.data, c.frame.data)
  <2>1. /\ held.metadata \in Seq(Octet) /\ Len(held.metadata) <= Len(c.frame.metadata)
        /\ SubSeq(held.metadata, 1, Len(held.metadata)) = held.metadata
    <3>1. held.metadata \in Seq(Octet)
      BY <1>3, <1>4, <1>5, Pieces
    <3>2. SubSeq(held.metadata, 1, Len(held.metadata)) = held.metadata
      BY <3>1, SubSeqFull, Zenon
    <3> QED BY <1>4, <1>6, <3>1, <3>2
  <2>2. /\ held.data \in Seq(Octet) /\ Len(held.data) <= Len(c.frame.data)
        /\ SubSeq(held.data, 1, Len(held.data)) = held.data
    <3>1. held.data \in Seq(Octet)
      BY <1>3, <1>4, <1>5, Pieces
    <3>2. SubSeq(held.data, 1, Len(held.data)) = held.data
      BY <3>1, SubSeqFull, Zenon
    <3> QED BY <1>4, <1>7, <3>1, <3>2
  <2> QED BY <1>3, <1>6, <1>7, <2>1, <2>2, Zenon DEF IsPrefix
<1>11. ~(Len(c.frame.metadata) - c.metadata = 0 /\ Len(c.frame.data) - c.data = 0)
  BY <1>1, Zenon DEF Exhausted, MetadataLeft, DataLeft
<1>12. Len(held.metadata) + Len(held.data) < Len(c.frame.metadata) + Len(c.frame.data)
  <2>1. c.metadata + c.data < Len(c.frame.metadata) + Len(c.frame.data)
    BY <1>4, <1>11, BelowTheSum
  <2> QED BY <1>6, <1>7, <2>1, Zenon
<1> QED BY <1>2, <1>3, <1>9, <1>10, <1>12

LEMMA CursorAtPlace ==
  ASSUME NEW items, NEW k, NEW c \in Cursors(Octet), c.frame = items[k]
  PROVE  CursorAt(items, At(k, c)) = c
<1>1. c = [frame |-> c.frame, metadata |-> c.metadata, data |-> c.data, first |-> c.first]
  <2>1. c \in [frame : FramesOf(Octet), metadata : Nat, data : Nat, first : BOOLEAN]
    BY Zenon DEF Cursors
  <2> QED BY <2>1
<1>2. CursorAt(items, At(k, c)) = [frame |-> items[k], metadata |-> c.metadata, data |-> c.data, first |-> c.first]
  BY DEF CursorAt, At
<1> QED BY <1>1, <1>2, Zenon

\* The next fragment comes from where the receiver stands.
LEMMA CarriedFromHere ==
  ASSUME NEW items, NEW k, NEW held, NEW f, Kept(held, items[k]), Carried(items, f, HoldPlace(k, held))
  PROVE  /\ KeptAt(held, CursorAt(items, HoldPlace(k, held)))
         /\ CursorAt(items, HoldPlace(k, held)).frame = items[k]
<1>1. PICK c : c.frame = items[k] /\ KeptAt(held, c)
  BY Zenon DEF Kept
<1>2. c \in Cursors(Octet)
  BY <1>1 DEF KeptAt
<1>3. HoldPlace(k, held) = At(k, c)
  BY <1>1, KeptAtPlace
<1>4. CursorAt(items, HoldPlace(k, held)) = c
  BY <1>1, <1>2, <1>3, CursorAtPlace
<1> QED BY <1>1, <1>4

\* What the receiver reads in a fragment.
LEMMA FragmentReads ==
  ASSUME NEW c \in Cursors(Octet), Feasible(c), ~Exhausted(c)
  PROVE  /\ Fragment(c).type = Kind(c) /\ Fragment(c).stream = c.frame.stream
         /\ Whole(c) => Fragment(c) = c.frame /\ c.first /\ Ends(c) /\ c.frame.follows = FALSE
         /\ ~Whole(c) => /\ Fragment(c).follows <=> ~Ends(c)
                         /\ MoreFollows(Fragment(c)) <=> ~Ends(c)
<1>1. CASE Whole(c)
  <2>1. Fragment(c) = c.frame /\ c.first /\ Ends(c)
    BY <1>1, Advances, Zenon DEF Fragment, Whole, Ends
  <2>2. c.frame.follows = FALSE
    BY FrameFields
  <2>3. Kind(c) = c.frame.type
    BY <2>1, Zenon DEF Kind
  <2> QED BY <1>1, <2>1, <2>2, <2>3
<1>2. CASE ~Whole(c)
  <2> DEFINE x == Fragment(c)
  <2>1. /\ x.type = Kind(c) /\ x.stream = c.frame.stream
        /\ x.follows = (~Ends(c)) /\ x.complete = (~(~Ends(c)) /\ c.frame.complete)
    BY <1>2, FragmentFields
  <2> HIDE DEF x
  <2>2. MoreFollows(x) <=> ~Ends(c)
    BY <2>1, Zenon DEF MoreFollows
  <2> QED BY <1>2, <2>1, <2>2, Zenon DEF x
<1> QED BY <1>1, <1>2

LEMMA FirstOfSeveral ==
  ASSUME NEW c \in Cursors(Octet), c.first, Feasible(c), ~Exhausted(c), ~Whole(c)
  PROVE  /\ ~Ends(c)
         /\ KeptAt(AppendParts(NoParts(Fragment(c)), Fragment(c)), Advance(c))
         /\ Advance(c).frame = c.frame
<1>1. /\ Advance(c) \in Cursors(Octet) /\ Advance(c).frame = c.frame /\ Advance(c).first = FALSE
      /\ Advance(c).metadata = c.metadata + MetadataShare(c)
      /\ Advance(c).data = c.data + DataShare(c)
  BY Advances
<1>2. /\ ~Ends(c)
      /\ Gathered(AppendParts(NoParts(Fragment(c)), Fragment(c)), c.frame,
                  c.metadata + MetadataShare(c), c.data + DataShare(c))
  BY FirstFragment
<1> QED BY <1>1, <1>2, Zenon DEF KeptAt, Ends

LEMMA LaterOfSeveral ==
  ASSUME NEW held, NEW c, KeptAt(held, c), Feasible(c)
  PROVE  /\ Appendable(held, Fragment(c))
         /\ ~Ends(c) => KeptAt(AppendParts(held, Fragment(c)), Advance(c))
         /\ Advance(c).frame = c.frame
<1>0. /\ c \in Cursors(Octet) /\ ~c.first /\ ~Exhausted(c)
      /\ Gathered(held, c.frame, c.metadata, c.data) /\ ~Whole(c)
  BY Zenon DEF KeptAt, Whole
<1>1. /\ Advance(c) \in Cursors(Octet) /\ Advance(c).frame = c.frame /\ Advance(c).first = FALSE
      /\ Advance(c).metadata = c.metadata + MetadataShare(c)
      /\ Advance(c).data = c.data + DataShare(c)
  BY <1>0, Advances
<1>2. /\ Appendable(held, Fragment(c))
      /\ Gathered(AppendParts(held, Fragment(c)), c.frame,
                  c.metadata + MetadataShare(c), c.data + DataShare(c))
  BY <1>0, LaterFragment
<1> QED BY <1>1, <1>2, Zenon DEF KeptAt, Ends

LEMMA LastOfSeveral ==
  ASSUME NEW held, NEW c, KeptAt(held, c), Feasible(c), Ends(c)
  PROVE  /\ c.frame.type = "payload" =>
              RebuildPayload(AppendParts(held, Fragment(c)), Fragment(c)) = c.frame
         /\ c.frame.type # "payload" =>
              RebuildRequest(AppendParts(held, Fragment(c)), Fragment(c)) = c.frame
<1>0. /\ c \in Cursors(Octet) /\ ~c.first /\ ~Exhausted(c)
      /\ Gathered(held, c.frame, c.metadata, c.data)
  BY DEF KeptAt
<1>1. held.initial.type = c.frame.type
  BY KeptAtPlace
<1>2. c.frame = IF held.initial.type = "payload"
                THEN RebuildPayload(AppendParts(held, Fragment(c)), Fragment(c))
                ELSE RebuildRequest(AppendParts(held, Fragment(c)), Fragment(c))
  BY <1>0, LastFragment, Zenon
<1> QED BY <1>1, <1>2, Zenon

----------------------------------------------------------------------------
(* The inductive invariant of the payloads.                                *)

Odd == {2 * n + 1 : n \in Nat}

\* The request of this cursor is not on the wire yet.
FirstRequest(c) == c.first /\ c.frame.type \in Requests

\* The id of the next request to go out.
SentId == IF sending # <<>> /\ FirstRequest(Last(sending)) THEN nextId - 2 ELSE nextId

NumbersInv ==
  /\ nextId \in Odd /\ expectedId \in Odd /\ expectedId <= SentId
  /\ DOMAIN requester = Streams /\ DOMAIN registered = Streams /\ DOMAIN requestParts = Streams
  /\ DOMAIN payloadParts = Streams /\ DOMAIN given = Streams

\* A request, then the items of a channel, of which only the last may complete it.
ItemsInv(s) ==
  /\ s >= nextId => issued[s] = <<>>
  /\ requester[s] = "open" => Len(issued[s]) > 0
  /\ \A k \in 1..Len(issued[s]) :
       /\ issued[s][k].stream = s
       /\ k = 1 => issued[s][k].type \in Requests /\ ~issued[s][k].complete
       /\ k > 1 => issued[s][k].type = "payload" /\ issued[s][1].type = "request_channel"
       /\ issued[s][k].complete => k = Len(issued[s]) /\ s \in outboundDone

\* A loop sends the last item of its stream, or the CANCEL or ERROR of a stream given up.  A
\* request that may still be refused is the last one opened.
DataLoop(c, s, i) ==
  /\ Len(issued[s]) > 0 /\ c.frame = issued[s][Len(issued[s])]
  /\ ~c.first => Feasible(c)
  /\ FirstRequest(c) => s = nextId - 2 /\ requester[s] = "open"
  /\ \A j \in 1..Len(sending) : DataOf(s, sending[j].frame) => j = i

LoopInv(i) ==
  LET c == sending[i]
      s == c.frame.stream
  IN  /\ s \in Streams /\ s < nextId
      /\ ~FirstRequest(c) => s < SentId
      /\ IsData(c.frame) => DataLoop(c, s, i)
      /\ ~IsData(c.frame) => requester[s] = "closed"

StackInv ==
  /\ Len(sending) <= 2
  /\ Len(sending) = 2 => ~sending[1].first
  /\ \A i \in 1..Len(sending) : LoopInv(i)

WireInv ==
  \A k \in 1..Len(wire) :
    /\ wire[k].stream \in Streams /\ wire[k].stream < SentId
    /\ ~IsData(wire[k]) => requester[wire[k].stream] = "closed"

ClientInv ==
  /\ NumbersInv /\ StackInv /\ WireInv
  /\ \A s \in Streams : ItemsInv(s)

\* The server still handles the frames of the stream, or has not seen its request.
Followed(s) == s \notin ended /\ (requester[s] = "closed" /\ s < expectedId => HasStream(s))

ServerHas(s) ==
  /\ given[s] \in Seq(LogicalFrame) /\ IsPrefix(given[s], issued[s])
  /\ s >= expectedId => ~HasStream(s) /\ given[s] = <<>>
  /\ s \in ended => s < expectedId /\ ~HasStream(s)
  /\ s \in requesterComplete => Len(given[s]) > 0 /\ given[s][Len(given[s])].complete
  /\ registered[s] # "none" => Len(given[s]) > 0
  /\ requestParts[s] # None =>
       /\ registered[s] = "none" /\ payloadParts[s] = None /\ Len(given[s]) = 0
       /\ Len(issued[s]) > 0 /\ Kept(requestParts[s], issued[s][1])
  /\ payloadParts[s] # None =>
       /\ registered[s] = "channel" /\ s \notin requesterComplete
       /\ Len(given[s]) < Len(issued[s])
       /\ Kept(payloadParts[s], issued[s][Len(given[s]) + 1])
  /\ (Followed(s) /\ s < expectedId /\ requestParts[s] = None) =>
       /\ Len(given[s]) > 0
       /\ given[s][1].type = "request_channel" => registered[s] = "channel"

\* Where the two sides are: the server with what it has given and holds, the client with what
\* its loops have passed.
ServerPlace(s) ==
  IF requestParts[s] # None THEN HoldPlace(Len(given[s]) + 1, requestParts[s])
  ELSE IF payloadParts[s] # None THEN HoldPlace(Len(given[s]) + 1, payloadParts[s])
  ELSE Start(Len(given[s]) + 1)

ClientPlace(s, p) ==
  \/ \E i \in 1..Len(sending) : DataOf(s, sending[i].frame) /\ p = At(Len(issued[s]), sending[i])
  \/ (\A i \in 1..Len(sending) : ~DataOf(s, sending[i].frame)) /\ p = Start(Len(issued[s]) + 1)

TrailInv(s) ==
  Followed(s) => \E q : /\ ClientPlace(s, q)
                        /\ Trail(s, issued[s], wire, Len(delivered), ServerPlace(s), q)

OrderInv == IdTrail(wire, Len(delivered), expectedId, SentId)

PayloadInv ==
  /\ ClientInv /\ OrderInv
  /\ \A s \in Streams : ServerHas(s) /\ TrailInv(s)

LEMMA OddStreams ==
  /\ Streams \subseteq Odd /\ Odd \subseteq Nat
  /\ \A a \in Odd, b \in Odd : a < b => a + 2 <= b
  /\ \A a \in Odd : a + 2 \in Odd
<1>1. Streams \subseteq Odd
  <2> SUFFICES ASSUME NEW n \in 1..MaxRequests PROVE 2 * n - 1 \in Odd
    BY DEF Streams
  <2>1. n - 1 \in Nat /\ 2 * n - 1 = 2 * (n - 1) + 1
    BY TransportAssumption
  <2> QED BY <2>1 DEF Odd
<1>2. \A a \in Odd, b \in Odd : a < b => a + 2 <= b
  <2> SUFFICES ASSUME NEW i \in Nat, NEW j \in Nat, 2 * i + 1 < 2 * j + 1
               PROVE  (2 * i + 1) + 2 <= 2 * j + 1
    BY DEF Odd
  <2> QED OBVIOUS
<1>3. \A a \in Odd : a + 2 \in Odd
  <2> SUFFICES ASSUME NEW i \in Nat PROVE (2 * i + 1) + 2 \in Odd
    BY DEF Odd
  <2>1. (2 * i + 1) + 2 = 2 * (i + 1) + 1 /\ i + 1 \in Nat
    OBVIOUS
  <2> QED BY <2>1 DEF Odd
<1>4. Odd \subseteq Nat
  BY DEF Odd
<1> QED BY <1>1, <1>2, <1>3, <1>4

LEMMA PrefixAppends ==
  ASSUME NEW S, NEW s \in Seq(S), NEW t \in Seq(S), NEW x, IsPrefix(s, t)
  PROVE  IsPrefix(s, Append(t, x))
<1>1. Len(s) \in Nat /\ Len(t) \in Nat /\ Len(s) <= Len(t) /\ SubSeq(s, 1, Len(s)) = SubSeq(t, 1, Len(s))
  BY LenProperties DEF IsPrefix
<1>2. Len(Append(t, x)) = Len(t) + 1 /\ \A i \in 1..Len(t) : Append(t, x)[i] = t[i]
  BY AppendProperties
<1>3. SubSeq(Append(t, x), 1, Len(s)) = SubSeq(t, 1, Len(s))
  BY <1>1, <1>2
<1>4. Len(s) <= Len(Append(t, x))
  BY <1>1, <1>2
<1> QED BY <1>1, <1>3, <1>4 DEF IsPrefix

LEMMA PrefixItems ==
  ASSUME NEW S, NEW s \in Seq(S), NEW t \in Seq(S), IsPrefix(s, t)
  PROVE  /\ Len(s) \in Nat /\ Len(t) \in Nat /\ Len(s) <= Len(t)
         /\ \A i \in 1..Len(s) : s[i] = t[i]
         /\ Len(s) = Len(t) => s = t
         /\ Len(s) < Len(t) => IsPrefix(Append(s, t[Len(s) + 1]), t)
<1>1. Len(s) \in Nat /\ Len(t) \in Nat /\ Len(s) <= Len(t) /\ SubSeq(s, 1, Len(s)) = SubSeq(t, 1, Len(s))
  BY LenProperties DEF IsPrefix
<1>2. SubSeq(s, 1, Len(s)) = s /\ SubSeq(t, 1, Len(t)) = t
  BY SubSeqFull
<1>3. s = SubSeq(t, 1, Len(s))
  BY <1>1, <1>2
<1>4. \A i \in 1..Len(s) : s[i] = t[i]
  <2>1. \A i \in 1..Len(s) : SubSeq(t, 1, Len(s))[i] = t[i]
    BY <1>1
  <2> QED BY <1>3, <2>1, Zenon
<1>5. Len(s) = Len(t) => s = t
  BY <1>2, <1>3
<1>6. ASSUME Len(s) < Len(t) PROVE IsPrefix(Append(s, t[Len(s) + 1]), t)
  <2> DEFINE a == Append(s, t[Len(s) + 1])
  <2>1. Len(s) + 1 \in 1..Len(t) /\ t[Len(s) + 1] \in S
    BY <1>1, <1>6, ElementOfSeq
  <2>2. /\ a \in Seq(S) /\ Len(a) = Len(s) + 1 /\ a[Len(s) + 1] = t[Len(s) + 1]
        /\ \A i \in 1..Len(s) : a[i] = s[i]
    BY <2>1, AppendProperties
  <2> HIDE DEF a
  <2>3. Len(a) <= Len(t) /\ \A i \in 1..Len(a) : a[i] = t[i]
    BY <1>1, <1>4, <1>6, <2>2
  <2>4. IsPrefix(a, t)
    BY <2>2, <2>3, PrefixSeq
  <2> QED BY <2>4 DEF a
<1> QED BY <1>1, <1>4, <1>5, <1>6

----------------------------------------------------------------------------
(* The requester's steps.                                                  *)

SendsMore(s) == issued'[s] = issued[s] \/ \E x : issued'[s] = Append(issued[s], x)

\* The server does not notice that the requester has more to send, or gives a stream up.
LEMMA FollowedStill ==
  ASSUME NEW s \in Streams, UNCHANGED serverVars,
         (requester[s] = "closed" /\ s < expectedId) => requester'[s] = "closed",
         Followed(s)'
  PROVE  Followed(s)
BY DEF Followed, serverVars, HasStream

LEMMA ServerUnmoved ==
  ASSUME SendingInv, NEW s \in Streams, ServerHas(s), UNCHANGED serverVars,
         (requester[s] = "closed" /\ s < expectedId) => requester'[s] = "closed",
         SendsMore(s)
  PROVE  ServerHas(s)'
<1>1. /\ UNCHANGED <<expectedId, registered, requestParts, payloadParts, requesterComplete, given, ended>>
  BY DEF serverVars
<1>2. /\ given[s] \in Seq(LogicalFrame) /\ issued[s] \in Seq(LogicalFrame)
      /\ IsPrefix(given[s], issued[s])
      /\ Len(issued[s]) \in Nat
  BY IssuedSeq DEF ServerHas
<1>3. IsPrefix(given[s], issued'[s])
  BY <1>2, PrefixAppends DEF SendsMore
<1>4. /\ Len(issued[s]) <= Len(issued'[s])
      /\ \A k \in 1..Len(issued[s]) : issued'[s][k] = issued[s][k]
      /\ Len(issued'[s]) \in Nat
  <2>1. CASE issued'[s] = issued[s]
    BY <1>2, <2>1
  <2>2. ASSUME NEW x, issued'[s] = Append(issued[s], x) 
        PROVE  <1>4!1 /\ <1>4!2 /\ <1>4!3
    BY <1>2, <2>2, AppendProperties
  <2> QED BY <2>1, <2>2 DEF SendsMore
<1>5. Followed(s)' => Followed(s)
  BY FollowedStill
<1>6. Len(given[s]) \in Nat
  BY <1>2, LenProperties
<1>7. Len(issued[s]) > 0 => Len(issued'[s]) > 0 /\ issued'[s][1] = issued[s][1]
  BY <1>2, <1>4
<1>8. Len(given[s]) < Len(issued[s]) =>
        /\ Len(given[s]) < Len(issued'[s])
        /\ issued'[s][Len(given[s]) + 1] = issued[s][Len(given[s]) + 1]
  BY <1>2, <1>4, <1>6, SMTT(30)
<1>9. HasStream(s)' <=> HasStream(s)
  BY <1>1 DEF HasStream
<1> QED BY <1>1, <1>2, <1>3, <1>5, <1>7, <1>8, <1>9, Zenon DEF ServerHas

LEMMA TrailUnmoved ==
  ASSUME SendingInv, NEW s \in Streams, TrailInv(s), UNCHANGED serverVars, UNCHANGED <<wire, delivered>>,
         (requester[s] = "closed" /\ s < expectedId) => requester'[s] = "closed",
         SendsMore(s), \A q : ClientPlace(s, q) => ClientPlace(s, q)'
  PROVE  TrailInv(s)'
<1> SUFFICES ASSUME Followed(s)'
             PROVE  \E q : /\ ClientPlace(s, q)'
                           /\ Trail(s, issued[s], wire, Len(delivered), ServerPlace(s), q)'
  BY DEF TrailInv
<1>1. Followed(s)
  BY FollowedStill
<1>2. PICK q : /\ ClientPlace(s, q)
               /\ Trail(s, issued[s], wire, Len(delivered), ServerPlace(s), q)
  BY <1>1, Zenon DEF TrailInv
<1>3. issued[s] \in Seq(LogicalFrame)
  BY IssuedSeq
<1>4. Trail(s, issued'[s], wire, Len(delivered), ServerPlace(s), q)
  BY <1>2, <1>3, TrailItems DEF SendsMore
<1>5. ServerPlace(s)' = ServerPlace(s)
  BY DEF ServerPlace, serverVars
<1>6. Trail(s, issued[s], wire, Len(delivered), ServerPlace(s), q)'
  BY <1>4, <1>5, Zenon
<1> QED BY <1>2, <1>6, Zenon

LEMMA ClientNumbers ==
  ASSUME ClientInv, SendingInv
  PROVE  /\ nextId \in Nat /\ expectedId \in Nat /\ SentId \in Int /\ SentId <= nextId
         /\ expectedId <= SentId /\ nextId >= 1
         /\ Len(sending) \in Nat /\ sending \in Seq(SendingCursor)
         /\ \A s \in Streams : s \in Nat
<1>1. nextId \in Odd /\ expectedId \in Odd /\ expectedId <= SentId
  BY DEF ClientInv, NumbersInv
<1>2. nextId \in Nat /\ nextId >= 1 /\ expectedId \in Nat
  BY <1>1 DEF Odd
<1>3. SentId \in Int /\ SentId <= nextId
  BY <1>2 DEF SentId
<1>4. sending \in Seq(SendingCursor)
  BY DEF SendingInv
<1>5. Len(sending) \in Nat
  BY <1>4, LenProperties
<1>6. \A s \in Streams : s \in Nat
  BY StreamNumbers
<1> QED BY <1>1, <1>2, <1>3, <1>4, <1>5, <1>6

\* Where a loop may begin: nothing that could still be refused is on the stack.
LEMMA BeforePush ==
  ASSUME ClientInv, SendingInv, Idle \/ Listening
  PROVE  /\ SentId = nextId /\ Len(sending) \in {0, 1}
         /\ \A i \in 1..Len(sending) : ~sending[i].first /\ ~FirstRequest(sending[i])
<1>1. CASE Idle
  <2>1. sending = <<>>
    BY <1>1 DEF Idle
  <2>2. Len(sending) = 0
    BY <2>1
  <2> QED BY <2>1, <2>2 DEF SentId
<1>2. CASE Listening
  <2>1. Len(sending) = 1 /\ ~sending[1].first
    BY <1>2 DEF Listening
  <2>2. ~FirstRequest(sending[1]) /\ \A i \in 1..Len(sending) : i = 1
    BY <2>1 DEF FirstRequest
  <2>3. Last(sending) = sending[1]
    BY <2>1 DEF Last
  <2> QED BY <2>1, <2>2, <2>3 DEF SentId
<1> QED BY <1>1, <1>2

LEMMA Pushed ==
  ASSUME SendingInv, NEW f, Cursor(f) \in SendingCursor, StartSending(f)
  PROVE  /\ Len(sending) \in Nat /\ Len(sending') = Len(sending) + 1
         /\ sending'[Len(sending) + 1] = Cursor(f)
         /\ \A i \in 1..Len(sending) : sending'[i] = sending[i]
         /\ sending' # <<>> /\ Last(sending') = Cursor(f)
         /\ Cursor(f).frame = f /\ Cursor(f).first = TRUE
         /\ FirstRequest(Cursor(f)) <=> f.type \in Requests
<1>1. sending \in Seq(SendingCursor) /\ sending' = Append(sending, Cursor(f))
  BY DEF SendingInv, StartSending
<1>2. /\ Len(sending) \in Nat /\ Len(sending') = Len(sending) + 1
      /\ sending'[Len(sending) + 1] = Cursor(f)
      /\ \A i \in 1..Len(sending) : sending'[i] = sending[i]
  BY <1>1, LenProperties, AppendProperties
<1>3. Cursor(f).frame = f /\ Cursor(f).first = TRUE
  BY DEF Cursor
<1>4. sending' # <<>>
  BY <1>2
<1>5. Last(sending') = Cursor(f)
  BY <1>2 DEF Last
<1>6. FirstRequest(Cursor(f)) <=> f.type \in Requests
  BY <1>3 DEF FirstRequest
<1> QED BY <1>2, <1>3, <1>4, <1>5, <1>6

\* What the beginning of a loop may do to the other variables of the requester.
Opens(s, f) ==
  /\ Idle \/ Listening
  /\ StartSending(f) /\ f.stream = s
  /\ s < nextId' /\ nextId \in Nat /\ nextId' \in Nat
  /\ f.type \in Requests => s = nextId /\ nextId' = nextId + 2 /\ requester'[s] = "open"
  /\ f.type \notin Requests => nextId' = nextId
  /\ \A t \in Streams : (requester[t] = "closed" /\ t < nextId) => requester'[t] = "closed"
  /\ IsData(f) => /\ f \in LogicalFrame /\ issued' = [issued EXCEPT ![s] = Append(@, f)]
                  /\ \A i \in 1..Len(sending) : ~DataOf(s, sending[i].frame)
  /\ ~IsData(f) => f \in ControlFrame /\ issued' = issued /\ requester'[s] = "closed"

LEMMA OpensLoop ==
  ASSUME NEW s \in Streams, NEW f, Opens(s, f)
  PROVE  Cursor(f) \in SendingCursor
BY FirstIsSending DEF Opens

LEMMA OpensIssues ==
  ASSUME SendingInv, NEW s \in Streams, NEW f, Opens(s, f)
  PROVE  /\ IsData(f) => /\ issued'[s] = Append(issued[s], f)
                         /\ Len(issued[s]) \in Nat
                         /\ Len(issued'[s]) = Len(issued[s]) + 1
                         /\ issued'[s][Len(issued[s]) + 1] = f
         /\ \A t \in Streams : (t # s \/ ~IsData(f)) => issued'[t] = issued[t]
         /\ \A t \in Streams : SendsMore(t)
<1>1. /\ issued \in [Streams -> Seq(LogicalFrame)] /\ issued[s] \in Seq(LogicalFrame)
      /\ Len(issued[s]) \in Nat
  BY IssuedSeq DEF SendingInv
<1>2. CASE IsData(f)
  <2>1. issued' = [issued EXCEPT ![s] = Append(@, f)]
    BY <1>2 DEF Opens
  <2>2. issued'[s] = Append(issued[s], f) /\ \A t \in Streams : t # s => issued'[t] = issued[t]
    BY <1>1, <2>1
  <2>3. Len(issued'[s]) = Len(issued[s]) + 1 /\ issued'[s][Len(issued[s]) + 1] = f
    BY <1>1, <2>2, AppendProperties
  <2> QED BY <1>1, <1>2, <2>2, <2>3, Zenon DEF SendsMore
<1>3. CASE ~IsData(f)
  <2>1. issued' = issued
    BY <1>3 DEF Opens
  <2> QED BY <1>3, <2>1, Zenon DEF SendsMore
<1> QED BY <1>2, <1>3

LEMMA OpensStack ==
  ASSUME ClientInv, SendingInv, NEW s \in Streams, NEW f, Opens(s, f)
  PROVE  StackInv' /\ SentId' = SentId
<1>1. /\ SentId = nextId /\ Len(sending) \in {0, 1}
      /\ \A i \in 1..Len(sending) : ~sending[i].first /\ ~FirstRequest(sending[i])
  BY BeforePush DEF Opens
<1>2. Cursor(f) \in SendingCursor /\ StartSending(f)
  BY OpensLoop DEF Opens
<1>3. /\ Len(sending') = Len(sending) + 1
      /\ sending'[Len(sending) + 1] = Cursor(f)
      /\ \A i \in 1..Len(sending) : sending'[i] = sending[i]
      /\ sending' # <<>> /\ Last(sending') = Cursor(f)
      /\ Cursor(f).frame = f /\ Cursor(f).first = TRUE
      /\ FirstRequest(Cursor(f)) <=> f.type \in Requests
  BY <1>2, Pushed
<1>4. nextId \in Nat /\ nextId' \in Nat /\ s \in Nat /\ nextId' >= nextId /\ s < nextId' /\ f.stream = s
  BY StreamNumbers DEF Opens
<1>5. SentId' = SentId
  <2>1. CASE f.type \in Requests
    <3>1. nextId' = nextId + 2
      BY <2>1 DEF Opens
    <3> QED BY <1>1, <1>3, <1>4, <2>1, <3>1 DEF SentId
  <2>2. CASE f.type \notin Requests
    <3>1. nextId' = nextId
      BY <2>2 DEF Opens
    <3> QED BY <1>1, <1>3, <2>2, <3>1 DEF SentId
  <2> QED BY <2>1, <2>2
<1>6. Len(sending') <= 2 /\ (Len(sending') = 2 => ~sending'[1].first)
  <2>0. Len(sending) \in {0, 1} /\ Len(sending') = Len(sending) + 1
    BY <1>1, <1>3, Zenon
  <2>1. Len(sending') = 2 => 1 \in 1..Len(sending)
    BY <2>0
  <2>2. Len(sending') <= 2
    BY <2>0
  <2>3. ASSUME 1 \in 1..Len(sending) PROVE ~sending'[1].first
    BY <1>1, <1>3, <2>3, Zenon
  <2> QED BY <2>1, <2>2, <2>3
<1>7. PICK m : m = Len(sending) + 1
  OBVIOUS
<1>8. PICK c : c = Cursor(f)
  OBVIOUS
<1>9. /\ m \in 1..Len(sending') /\ sending'[m] = c /\ m = Len(sending')
      /\ c.frame = f /\ c.first = TRUE /\ (FirstRequest(c) <=> f.type \in Requests)
      /\ \A j \in 1..Len(sending') : j \in 1..Len(sending) \/ j = m
  BY <1>1, <1>3, <1>7, <1>8
<1>10. LoopInv(m)'
  <2>1. IsData(f) => DataLoop(c, s, m)'
    <3> SUFFICES ASSUME IsData(f) PROVE DataLoop(c, s, m)'
      OBVIOUS
    <3>1. /\ Len(issued[s]) \in Nat /\ Len(issued'[s]) = Len(issued[s]) + 1
          /\ issued'[s][Len(issued[s]) + 1] = f
      BY OpensIssues
    <3>2. Len(issued'[s]) > 0 /\ c.frame = issued'[s][Len(issued'[s])]
      BY <1>9, <3>1
    <3>3. \A j \in 1..Len(sending') : DataOf(s, sending'[j].frame) => j = m
      <4>1. \A i \in 1..Len(sending) : ~DataOf(s, sending[i].frame)
        BY Zenon DEF Opens
      <4> QED BY <1>3, <1>9, <4>1, Zenon
    <3>4. f.type \in Requests => s = nextId' - 2 /\ requester'[s] = "open"
      <4>1. f.type \in Requests => s = nextId /\ nextId' = nextId + 2 /\ requester'[s] = "open"
        BY Zenon DEF Opens
      <4>2. nextId' = nextId + 2 => nextId = nextId' - 2
        BY <1>4
      <4> QED BY <4>1, <4>2, Zenon
    <3> QED BY <1>9, <3>2, <3>3, <3>4, Zenon DEF DataLoop
  <2>2. ~IsData(f) => requester'[s] = "closed"
    BY Zenon DEF Opens
  <2>3. f.type \notin Requests => s < SentId'
    <3>1. f.type \notin Requests => nextId' = nextId
      BY Zenon DEF Opens
    <3> QED BY <1>1, <1>4, <1>5, <3>1
  <2>4. s < nextId'
    BY <1>4
  <2> QED BY <1>4, <1>9, <2>1, <2>2, <2>3, <2>4, Zenon DEF LoopInv
<1>11. ASSUME NEW i \in 1..Len(sending) PROVE LoopInv(i)'
  <2>0. PICK d, t : d = sending[i] /\ t = d.frame.stream
    OBVIOUS
  <2>1. LoopInv(i) /\ sending'[i] = d /\ ~d.first /\ ~FirstRequest(d)
    BY <1>1, <1>3, <2>0, Zenon DEF ClientInv, StackInv
  <2>2. /\ t \in Streams /\ t < nextId /\ t < SentId
        /\ IsData(d.frame) => DataLoop(d, t, i)
        /\ ~IsData(d.frame) => requester[t] = "closed"
    BY <2>0, <2>1, Zenon DEF LoopInv
  <2>3. t < nextId' /\ t < SentId'
    <3>1. t \in Nat
      BY <2>2, StreamNumbers
    <3> QED BY <1>1, <1>4, <1>5, <2>2, <3>1
  <2>4. ~IsData(d.frame) => requester'[t] = "closed"
    BY <2>2, Zenon DEF Opens
  <2>5. ASSUME IsData(d.frame)
        PROVE  DataLoop(d, t, i)'
    <3>1. /\ Len(issued[t]) > 0 /\ d.frame = issued[t][Len(issued[t])]
          /\ ~d.first => Feasible(d)
          /\ \A j \in 1..Len(sending) : DataOf(t, sending[j].frame) => j = i
      BY <2>2, <2>5, Zenon DEF DataLoop
    <3>2. DataOf(t, d.frame)
      BY <2>0, <2>5, Zenon DEF DataOf
    <3>3. t # s \/ ~IsData(f)
      BY <2>0, <3>2, Zenon DEF Opens
    <3>4. issued'[t] = issued[t]
      BY <2>2, <3>3, OpensIssues
    <3>5. ~DataOf(t, f)
      BY <1>4, <3>3, Zenon DEF DataOf
    <3>6. \A j \in 1..Len(sending') : DataOf(t, sending'[j].frame) => j = i
      BY <1>3, <1>9, <3>1, <3>5, Zenon
    <3> QED BY <2>1, <3>1, <3>4, <3>6, Zenon DEF DataLoop
  <2> QED BY <2>0, <2>1, <2>2, <2>3, <2>4, <2>5, Zenon DEF LoopInv
<1>12. \A i \in 1..Len(sending') : LoopInv(i)'
  BY <1>9, <1>10, <1>11, Zenon
<1> QED BY <1>5, <1>6, <1>12, Zenon DEF StackInv

\* The requester does not move on its streams by opening a loop.
LEMMA OpensPlaces ==
  ASSUME ClientInv, SendingInv, NEW s \in Streams, NEW f, Opens(s, f), NEW t \in Streams, NEW q,
         ClientPlace(t, q)
  PROVE  ClientPlace(t, q)'
<1>1. Len(sending) \in {0, 1}
  BY BeforePush DEF Opens
<1>2. Cursor(f) \in SendingCursor /\ StartSending(f) /\ f.stream = s
  BY OpensLoop DEF Opens
<1>3. /\ Len(sending') = Len(sending) + 1
      /\ sending'[Len(sending) + 1] = Cursor(f)
      /\ \A i \in 1..Len(sending) : sending'[i] = sending[i]
      /\ Cursor(f).frame = f /\ Cursor(f).first = TRUE
  BY <1>2, Pushed
<1>4. CASE t = s /\ IsData(f)
  <2>1. \A i \in 1..Len(sending) : ~DataOf(s, sending[i].frame)
    BY <1>4 DEF Opens
  <2>2. q = Start(Len(issued[s]) + 1)
    BY <1>4, <2>1, Zenon DEF ClientPlace
  <2>3. Len(issued'[s]) = Len(issued[s]) + 1
    BY <1>4, OpensIssues
  <2>4. At(Len(issued'[s]), Cursor(f)) = Start(Len(issued[s]) + 1)
    BY <2>3 DEF At, Cursor, Start
  <2>5. Len(sending) + 1 \in 1..Len(sending') /\ DataOf(s, f)
    BY <1>1, <1>2, <1>3, <1>4 DEF DataOf
  <2> QED BY <1>3, <1>4, <2>2, <2>4, <2>5, Zenon DEF ClientPlace
<1>5. CASE ~(t = s /\ IsData(f))
  <2>1. issued'[t] = issued[t]
    BY <1>5, OpensIssues
  <2>2. ~DataOf(t, f)
    BY <1>2, <1>5 DEF DataOf
  <2>3. 1..Len(sending) \subseteq 1..Len(sending') /\ \A i \in 1..Len(sending') : i \in 1..Len(sending) \/ i = Len(sending) + 1
    BY <1>1, <1>3
  <2>4. \A i \in 1..Len(sending') : DataOf(t, sending'[i].frame) => i \in 1..Len(sending)
    BY <1>3, <2>2, <2>3, Zenon
  <2>5. CASE \E i \in 1..Len(sending) : DataOf(t, sending[i].frame) /\ q = At(Len(issued[t]), sending[i])
    BY <1>3, <2>1, <2>3, <2>5, Zenon DEF ClientPlace
  <2>6. CASE (\A i \in 1..Len(sending) : ~DataOf(t, sending[i].frame)) /\ q = Start(Len(issued[t]) + 1)
    <3>1. \A i \in 1..Len(sending') : ~DataOf(t, sending'[i].frame)
      BY <1>3, <2>4, <2>6, Zenon
    <3> QED BY <2>1, <2>6, <3>1, Zenon DEF ClientPlace
  <2> QED BY <2>5, <2>6, Zenon DEF ClientPlace
<1> QED BY <1>4, <1>5

LEMMA OpensKeeps ==
  ASSUME SendingInv, PayloadInv, NEW s \in Streams, NEW f, Opens(s, f),
         UNCHANGED serverVars, UNCHANGED streamVars,
         nextId' \in Odd, DOMAIN requester' = Streams, \A t \in Streams : ItemsInv(t)'
  PROVE  PayloadInv'
<1>0. ClientInv /\ OrderInv /\ NumbersInv /\ WireInv
  BY DEF PayloadInv, ClientInv
<1>1. StackInv' /\ SentId' = SentId
  BY <1>0, OpensStack
<1>2. UNCHANGED <<wire, delivered>> /\ UNCHANGED <<expectedId, registered, requestParts, payloadParts, given>>
  BY DEF streamVars, serverVars
<1>3. NumbersInv'
  BY <1>0, <1>1, <1>2 DEF NumbersInv
<1>4. \A t \in Streams : (requester[t] = "closed" /\ t < nextId) => requester'[t] = "closed"
  BY Zenon DEF Opens
<1>5. \A t \in Streams : t < SentId => t < nextId
  BY <1>0, ClientNumbers
<1>6. \A t \in Streams : t < expectedId => t < nextId
  BY <1>0, ClientNumbers
<1>7. WireInv'
  <2> SUFFICES ASSUME NEW k \in 1..Len(wire)
               PROVE  /\ wire[k].stream \in Streams /\ wire[k].stream < SentId
                      /\ ~IsData(wire[k]) => requester'[wire[k].stream] = "closed"
    BY <1>1, <1>2, Zenon DEF WireInv
  <2>1. /\ wire[k].stream \in Streams /\ wire[k].stream < SentId
        /\ ~IsData(wire[k]) => requester[wire[k].stream] = "closed"
    BY <1>0, Zenon DEF WireInv
  <2> QED BY <1>4, <1>5, <2>1, Zenon
<1>8. OrderInv'
  BY <1>0, <1>1, <1>2, Zenon DEF OrderInv
<1>9. ASSUME NEW t \in Streams PROVE ServerHas(t)' /\ TrailInv(t)'
  <2>1. (requester[t] = "closed" /\ t < expectedId) => requester'[t] = "closed"
    BY <1>4, <1>6, Zenon
  <2>2. SendsMore(t)
    BY OpensIssues
  <2>3. \A q : ClientPlace(t, q) => ClientPlace(t, q)'
    BY <1>0, OpensPlaces
  <2>4. ServerHas(t) /\ TrailInv(t)
    BY DEF PayloadInv
  <2>5. ServerHas(t)'
    BY <2>1, <2>2, <2>4, ServerUnmoved
  <2>6. TrailInv(t)'
    BY <1>2, <2>1, <2>2, <2>3, <2>4, TrailUnmoved
  <2> QED BY <2>5, <2>6
<1>10. ClientInv'
  BY <1>1, <1>3, <1>7, Zenon DEF ClientInv
<1> QED BY <1>8, <1>9, <1>10, Zenon DEF PayloadInv

LEMMA ItemsStill ==
  ASSUME NEW t \in Streams, ItemsInv(t), issued'[t] = issued[t], nextId \in Nat, nextId' \in Nat,
         nextId' >= nextId, requester'[t] = "open" => requester[t] = "open",
         outboundDone \subseteq outboundDone'
  PROVE  ItemsInv(t)'
<1>1. t >= nextId' => t >= nextId
  BY StreamNumbers
<1> QED BY <1>1, Zenon DEF ItemsInv

LEMMA RequestKeeps ==
  ASSUME SendingInv, PayloadInv, NEW kind \in RequestKinds(nextId), Request(kind[1], kind[2])
  PROVE  PayloadInv'
<1>1. PICK s : s = nextId
  OBVIOUS
<1>2. PICK f : f = Logical(kind[1], s, 0, FALSE, FALSE, kind[2])
  OBVIOUS
<1>3. /\ Idle \/ Listening
      /\ s \in Streams /\ nextId' = s + 2 /\ requester' = [requester EXCEPT ![s] = "open"]
      /\ issued' = [issued EXCEPT ![s] = <<f>>] /\ StartSending(f)
      /\ outboundDone' = outboundDone /\ UNCHANGED serverVars /\ UNCHANGED streamVars
  BY <1>1, <1>2 DEF Request
<1>4. f.type \in Requests /\ f.stream = s /\ f.complete = FALSE /\ kind[2] \in Shapes
  <2>1. kind \in Requests \X Shapes
    BY <1>1, <1>3, TransportAssumption
  <2>2. kind[1] \in Requests /\ kind[2] \in Shapes
    BY <2>1
  <2>3. f.type = kind[1] /\ f.stream = s /\ f.complete = FALSE
    BY <1>2 DEF Logical
  <2> QED BY <2>2, <2>3
<1>5. f \in LogicalFrame
  <2>1. kind[1] \in Requests \cup {"payload"} /\ kind[1] # "payload" /\ s \in Nat
    <3>1. kind[1] \in Requests
      BY <1>2, <1>4 DEF Logical
    <3>2. s \in Nat
      BY <1>3, StreamNumbers
    <3> QED BY <3>1, <3>2 DEF Requests
  <2>2. 0 \in Nat /\ FALSE \in BOOLEAN
    OBVIOUS
  <2> QED BY <1>2, <1>4, <2>1, <2>2, LogicalIsFrame
<1>6. /\ ClientInv /\ ItemsInv(s) /\ NumbersInv /\ StackInv
  BY <1>3 DEF PayloadInv, ClientInv
<1>7. s \in Nat /\ nextId \in Odd /\ nextId' \in Odd /\ DOMAIN requester = Streams
  BY <1>1, <1>3, <1>6, OddStreams DEF NumbersInv
<1>8. issued[s] = <<>>
  BY <1>1, <1>6, <1>7 DEF ItemsInv
<1>9. issued' = [issued EXCEPT ![s] = Append(@, f)] /\ issued'[s] = <<f>>
  <2>1. Append(<<>>, f) = <<f>>
    OBVIOUS
  <2>2. issued \in [Streams -> Seq(LogicalFrame)]
    BY DEF SendingInv
  <2> QED BY <1>3, <1>8, <2>1, <2>2
<1>10. \A i \in 1..Len(sending) : ~DataOf(s, sending[i].frame)
  <2> SUFFICES ASSUME NEW i \in 1..Len(sending), sending[i].frame.stream = s PROVE FALSE
    BY DEF DataOf
  <2>1. s < nextId
    BY <1>6, Zenon DEF StackInv, LoopInv
  <2> QED BY <1>1, <1>7, <2>1
<1>11. requester'[s] = "open" /\ \A t \in Streams : t # s => requester'[t] = requester[t]
  BY <1>3, <1>7
<1>12. Opens(s, f)
  <2>1. s < nextId' /\ nextId \in Nat /\ nextId' \in Nat /\ s = nextId /\ nextId' = nextId + 2
    BY <1>1, <1>3, <1>7
  <2>2. \A t \in Streams : t < nextId => t # s
    BY <1>1, <1>7, StreamNumbers
  <2>3. IsData(f)
    BY <1>4 DEF IsData
  <2> QED BY <1>3, <1>4, <1>5, <1>9, <1>10, <1>11, <2>1, <2>2, <2>3, Zenon DEF Opens
<1>13. ASSUME NEW t \in Streams PROVE ItemsInv(t)'
  <2>1. CASE t = s
    <3>1. ~(s >= nextId')
      BY <1>3, <1>7
    <3>2. Len(<<f>>) = 1 /\ <<f>>[1] = f /\ \A k \in 1..1 : k = 1 /\ ~(k > 1)
      OBVIOUS
    <3>3. \A k \in 1..Len(issued'[s]) : k = 1 /\ issued'[s][k] = f /\ ~(k > 1)
      BY <1>9, <3>2, Zenon
    <3>4. Len(issued'[s]) > 0
      BY <1>9, SMTT(30)
    <3> QED BY <1>4, <2>1, <3>1, <3>3, <3>4, Zenon DEF ItemsInv
  <2>2. CASE t # s
    <3>1. issued'[t] = issued[t] /\ requester'[t] = requester[t]
      BY <1>3, <1>11, <2>2 DEF SendingInv
    <3>2. nextId \in Nat /\ nextId' \in Nat /\ nextId' >= nextId /\ outboundDone \subseteq outboundDone'
      BY <1>1, <1>3, <1>7
    <3>3. ItemsInv(t)
      BY DEF PayloadInv, ClientInv
    <3> QED BY <3>1, <3>2, <3>3, ItemsStill
  <2> QED BY <2>1, <2>2
<1>14. DOMAIN requester' = Streams
  BY <1>3, <1>7
<1> QED BY <1>3, <1>7, <1>12, <1>13, <1>14, OpensKeeps

\* A channel sends another item, or its COMPLETE.
LEMMA ItemKeeps ==
  ASSUME SendingInv, PayloadInv, NEW s \in Streams, NEW f \in LogicalFrame, Idle,
         OpenChannel(s), s \notin outboundDone,
         StartSending(f), f.stream = s, f.type = "payload",
         issued' = [issued EXCEPT ![s] = Append(@, f)],
         f.complete => s \in outboundDone', outboundDone \subseteq outboundDone',
         UNCHANGED <<nextId, requester>>, UNCHANGED serverVars, UNCHANGED streamVars
  PROVE  PayloadInv'
<1>1. ClientInv /\ NumbersInv /\ ItemsInv(s)
  BY DEF PayloadInv, ClientInv
<1>2. nextId \in Nat /\ s \in Nat /\ nextId \in Odd
  BY <1>1, OddStreams, StreamNumbers DEF NumbersInv
<1>3. issued[s] \in Seq(LogicalFrame) /\ Len(issued[s]) \in Nat /\ Len(issued[s]) > 0
  BY <1>1, IssuedSeq DEF ItemsInv, OpenChannel
<1>4. s < nextId
  <2>1. Len(<<>>) = 0
    OBVIOUS
  <2>2. issued[s] # <<>>
    BY <1>3, <2>1
  <2>3. ~(s >= nextId)
    BY <1>1, <2>2, Zenon DEF ItemsInv
  <2> QED BY <1>2, <2>3
<1>5. Len(sending) = 0 /\ \A i \in 1..Len(sending) : ~DataOf(s, sending[i].frame)
  BY DEF Idle
<1>6. IsData(f) /\ f.type \notin Requests
  BY DEF IsData, Requests
<1>7. Opens(s, f)
  BY <1>2, <1>4, <1>5, <1>6, Zenon DEF Opens
<1>8. /\ issued'[s] = Append(issued[s], f) /\ Len(issued'[s]) = Len(issued[s]) + 1
      /\ issued'[s][Len(issued[s]) + 1] = f
      /\ \A k \in 1..Len(issued[s]) : issued'[s][k] = issued[s][k]
  <2>1. issued'[s] = Append(issued[s], f)
    BY DEF SendingInv
  <2> QED BY <1>3, <2>1, AppendProperties
<1>9. ItemsInv(s)'
  <2>1. ~(s >= nextId')
    BY <1>2, <1>4
  <2>2. Len(issued'[s]) > 0 /\ issued'[s][1] = issued[s][1]
    BY <1>3, <1>8
  <2>3. ASSUME NEW k \in 1..Len(issued[s])
        PROVE  /\ issued'[s][k].stream = s
               /\ k = 1 => issued'[s][k].type \in Requests /\ ~issued'[s][k].complete
               /\ k > 1 => issued'[s][k].type = "payload" /\ issued'[s][1].type = "request_channel"
               /\ ~issued'[s][k].complete
    <3>1. issued[s][k].complete => s \in outboundDone
      BY <1>1, Zenon DEF ItemsInv
    <3>2. /\ issued[s][k].stream = s
          /\ k = 1 => issued[s][k].type \in Requests /\ ~issued[s][k].complete
          /\ k > 1 => issued[s][k].type = "payload" /\ issued[s][1].type = "request_channel"
      BY <1>1, Zenon DEF ItemsInv
    <3>3. issued'[s][k] = issued[s][k]
      BY <1>8
    <3>4. ~issued[s][k].complete
      BY <3>1
    <3> QED BY <2>2, <3>2, <3>3, <3>4, Zenon
  <2>4. issued'[s][1].type = "request_channel"
    BY <2>2 DEF OpenChannel
  <2>5. \A k \in 1..Len(issued'[s]) : k \in 1..Len(issued[s]) \/ (k = Len(issued'[s]) /\ issued'[s][k] = f /\ k # 1)
    BY <1>3, <1>8
  <2> QED BY <2>1, <2>2, <2>3, <2>4, <2>5, Zenon DEF ItemsInv
<1>10. ASSUME NEW t \in Streams PROVE ItemsInv(t)'
  <2>1. CASE t # s
    <3>1. issued'[t] = issued[t]
      BY <2>1 DEF SendingInv
    <3>2. nextId \in Nat /\ nextId' \in Nat /\ nextId' >= nextId
      BY <1>2
    <3>3. ItemsInv(t)
      BY DEF PayloadInv, ClientInv
    <3> QED BY <3>1, <3>2, <3>3, ItemsStill
  <2> QED BY <1>9, <2>1
<1> QED BY <1>1, <1>2, <1>7, <1>10, OpensKeeps DEF NumbersInv

LEMMA SendItemKeeps ==
  ASSUME SendingInv, PayloadInv, NEW s \in Streams, NEW shape \in ItemShapes, SendItem(s, shape)
  PROVE  PayloadInv'
<1>1. PICK f : f = Logical("payload", s, Len(issued[s]), TRUE, FALSE, shape)
  OBVIOUS
<1>2. /\ Idle /\ OpenChannel(s) /\ s \notin outboundDone
      /\ issued' = [issued EXCEPT ![s] = Append(@, f)] /\ StartSending(f)
      /\ UNCHANGED <<nextId, requester, outboundDone>> /\ UNCHANGED serverVars /\ UNCHANGED streamVars
  BY <1>1 DEF SendItem
<1>3. f.type = "payload" /\ f.stream = s /\ f.complete = FALSE
  BY <1>1 DEF Logical
<1>4. f \in LogicalFrame
  <2>1. Len(issued[s]) \in Nat /\ s \in Nat /\ shape \in Shapes
    BY IssuedSeq, TransportAssumption
  <2>2. "payload" \in Requests \cup {"payload"} /\ TRUE \in BOOLEAN /\ FALSE \in BOOLEAN
    OBVIOUS
  <2> QED BY <1>1, <2>1, <2>2, LogicalIsFrame
<1> QED BY <1>2, <1>3, <1>4, ItemKeeps

LEMMA SendCompleteKeeps ==
  ASSUME SendingInv, PayloadInv, NEW s \in Streams, SendComplete(s)
  PROVE  PayloadInv'
<1>1. PICK f : f = Logical("payload", s, Len(issued[s]), FALSE, TRUE, Bodiless)
  OBVIOUS
<1>2. /\ Idle /\ OpenChannel(s) /\ s \notin outboundDone
      /\ issued' = [issued EXCEPT ![s] = Append(@, f)] /\ StartSending(f)
      /\ outboundDone' = outboundDone \cup {s}
      /\ UNCHANGED <<nextId, requester>> /\ UNCHANGED serverVars /\ UNCHANGED streamVars
  BY <1>1 DEF SendComplete
<1>3. f.type = "payload" /\ f.stream = s /\ f.complete = TRUE
  BY <1>1 DEF Logical
<1>4. f \in LogicalFrame
  <2>1. Len(issued[s]) \in Nat /\ s \in Nat /\ Bodiless \in Shapes
    BY IssuedSeq DEF Bodiless, Shapes
  <2>2. "payload" \in Requests \cup {"payload"} /\ TRUE \in BOOLEAN /\ FALSE \in BOOLEAN
    OBVIOUS
  <2> QED BY <1>1, <2>1, <2>2, LogicalIsFrame
<1>5. s \in outboundDone' /\ outboundDone \subseteq outboundDone'
  BY <1>2
<1> QED BY <1>2, <1>3, <1>4, <1>5, ItemKeeps

\* CANCEL and ERROR: the requester gives the stream up and says so.
LEMMA GiveUpKeeps ==
  ASSUME SendingInv, PayloadInv, NEW s \in Streams, NEW type \in {"cancel", "error"},
         Idle \/ Listening, requester[s] = "open",
         requester' = [requester EXCEPT ![s] = "closed"],
         StartSending(Logical(type, s, 0, FALSE, FALSE, Bodiless)),
         UNCHANGED <<nextId, outboundDone, issued>>, UNCHANGED serverVars, UNCHANGED streamVars
  PROVE  PayloadInv'
<1>0. PICK f : f = Logical(type, s, 0, FALSE, FALSE, Bodiless)
  OBVIOUS
<1>1. ClientInv /\ NumbersInv /\ ItemsInv(s)
  BY DEF PayloadInv, ClientInv
<1>2. nextId \in Nat /\ s \in Nat /\ nextId \in Odd
  BY <1>1, OddStreams, StreamNumbers DEF NumbersInv
<1>3. f \in ControlFrame /\ f.type = type /\ f.stream = s
  BY <1>0, <1>2, LogicalIsControl DEF Logical
<1>4. s < nextId
  <2>1. Len(<<>>) = 0 /\ ~(0 > 0)
    OBVIOUS
  <2>2. issued[s] # <<>>
    BY <1>1, <2>1, Zenon DEF ItemsInv
  <2>3. ~(s >= nextId)
    BY <1>1, <2>2, Zenon DEF ItemsInv
  <2> QED BY <1>2, <2>3
<1>5. requester'[s] = "closed" /\ \A t \in Streams : t # s => requester'[t] = requester[t]
  BY <1>1 DEF NumbersInv
<1>6. ~IsData(f) /\ f.type \notin Requests
  BY <1>3 DEF IsData, Requests
<1>7. Opens(s, f)
  BY <1>0, <1>2, <1>3, <1>4, <1>5, <1>6, Zenon DEF Opens
<1>8. ASSUME NEW t \in Streams PROVE ItemsInv(t)'
  <2>1. requester'[t] = "open" => requester[t] = "open"
    BY <1>5
  <2>2. nextId \in Nat /\ nextId' \in Nat /\ nextId' >= nextId
    BY <1>2
  <2>3. ItemsInv(t)
    BY DEF PayloadInv, ClientInv
  <2> QED BY <2>1, <2>2, <2>3, ItemsStill
<1>9. DOMAIN requester' = Streams
  BY <1>1 DEF NumbersInv
<1> QED BY <1>2, <1>7, <1>8, <1>9, OpensKeeps

\* The requester learns that its stream is over.
LEMMA ResponderEndedKeeps ==
  ASSUME SendingInv, PayloadInv, NEW s \in Streams, ResponderHasEnded(s)
  PROVE  PayloadInv'
<1>1. ClientInv /\ NumbersInv /\ StackInv /\ WireInv /\ OrderInv
  BY DEF PayloadInv, ClientInv
<1>2. /\ Idle /\ requester' = [requester EXCEPT ![s] = "closed"]
      /\ UNCHANGED <<sending, nextId, outboundDone, issued>> /\ UNCHANGED serverVars
      /\ UNCHANGED streamVars
  BY DEF ResponderHasEnded
<1>3. \A t \in Streams : requester'[t] = "closed" \/ requester'[t] = requester[t]
  BY <1>1, <1>2 DEF NumbersInv
<1>4. UNCHANGED <<wire, delivered>> /\ UNCHANGED <<expectedId, registered, requestParts, payloadParts, given>>
  BY <1>2 DEF streamVars, serverVars
<1>5. SentId' = SentId
  BY <1>2 DEF SentId
<1>6. NumbersInv'
  BY <1>1, <1>2, <1>4, <1>5 DEF NumbersInv
<1>7. StackInv'
  <2>1. Len(sending) = 0 /\ sending' = sending
    BY <1>2 DEF Idle
  <2>2. Len(sending') = 0
    BY <2>1
  <2> QED BY <2>2 DEF StackInv
<1>8. WireInv'
  BY <1>1, <1>3, <1>4, <1>5, Zenon DEF WireInv
<1>9. OrderInv'
  BY <1>1, <1>4, <1>5, Zenon DEF OrderInv
<1>10. ASSUME NEW t \in Streams PROVE ItemsInv(t)' /\ ServerHas(t)' /\ TrailInv(t)'
  <2>1. ItemsInv(t) /\ ServerHas(t) /\ TrailInv(t)
    BY DEF PayloadInv, ClientInv
  <2>2. ItemsInv(t)'
    BY <1>2, <1>3, <2>1, Zenon DEF ItemsInv
  <2>3. SendsMore(t) /\ (requester[t] = "closed" => requester'[t] = "closed")
    BY <1>2, <1>3 DEF SendsMore
  <2>4. \A q : ClientPlace(t, q) => ClientPlace(t, q)'
    BY <1>2, Zenon DEF ClientPlace
  <2>5. ServerHas(t)'
    BY <1>2, <2>1, <2>3, ServerUnmoved
  <2>6. TrailInv(t)'
    BY <1>2, <1>4, <2>1, <2>3, <2>4, TrailUnmoved
  <2> QED BY <2>2, <2>5, <2>6
<1> QED BY <1>6, <1>7, <1>8, <1>9, <1>10, Zenon DEF PayloadInv, ClientInv

----------------------------------------------------------------------------
(* The innermost loop.                                                     *)

LEMMA ControlFragment ==
  ASSUME NEW f \in ControlFrame, Feasible(Cursor(f))
  PROVE  /\ Fragment(Cursor(f)) = f /\ Ends(Cursor(f))
         /\ ~IsData(f) /\ f.type \notin Requests
<1>1. f.type \in {"cancel", "error"} /\ f.metadata = <<>> /\ f.data = <<>>
  BY DEF ControlFrame
<1>2. Cursor(f).frame = f /\ Cursor(f).first = TRUE
  BY DEF Cursor
<1>3. ~IsData(f) /\ f.type \notin Requests /\ ~Fragmentable(f.type)
  BY <1>1 DEF IsData, Requests, Fragmentable
<1>4. Whole(Cursor(f))
  BY <1>2, <1>3, Zenon DEF Feasible
<1>5. Fragment(Cursor(f)) = f
  BY <1>2, <1>4, Zenon DEF Fragment
<1>6. Advance(Cursor(f)) = [frame |-> f, metadata |-> Len(f.metadata), data |-> Len(f.data), first |-> FALSE]
  BY <1>4 DEF Advance, Cursor
<1>7. Ends(Cursor(f))
  BY <1>1, <1>6 DEF Ends, Exhausted, MetadataLeft, DataLeft
<1> QED BY <1>3, <1>5, <1>7

LEMMA TopCursor ==
  ASSUME ClientInv, SendingInv, sending # <<>>, NEW m, m = Len(sending), NEW c, c = Last(sending)
  PROVE  /\ m \in {1, 2} /\ c = sending[m] /\ c \in SendingCursor
         /\ c.frame.stream \in Streams /\ c.frame.stream < nextId
         /\ ~FirstRequest(c) => c.frame.stream < SentId
         /\ IsData(c.frame) => /\ DataLoop(c, c.frame.stream, m)
                               /\ c \in Cursors(Octet) /\ ~Exhausted(c)
         /\ ~IsData(c.frame) => /\ requester[c.frame.stream] = "closed"
                                /\ c.frame \in ControlFrame /\ c = Cursor(c.frame)
         /\ \A i \in 1..(m - 1) : ~sending[i].first /\ ~FirstRequest(sending[i]) /\ LoopInv(i)
<1>1. sending \in Seq(SendingCursor) /\ StackInv
  BY DEF SendingInv, ClientInv
<1>2. c = sending[m] /\ c \in SendingCursor /\ m \in Nat /\ m > 0
  BY <1>1, LastAndFront
<1>3. m \in {1, 2} /\ m \in 1..Len(sending)
  BY <1>1, <1>2 DEF StackInv
<1>4. LoopInv(m)
  BY <1>1, <1>3, Zenon DEF StackInv
<1>5. c \in Cursors(Octet) \/ c \in {Cursor(f) : f \in ControlFrame}
  BY <1>2 DEF SendingCursor
<1>6. IsData(c.frame) => c \in Cursors(Octet) /\ ~Exhausted(c)
  <2> SUFFICES ASSUME IsData(c.frame), c \in {Cursor(f) : f \in ControlFrame} PROVE FALSE
    BY <1>2 DEF SendingCursor
  <2>1. PICK f \in ControlFrame : c = Cursor(f)
    OBVIOUS
  <2>2. c.frame = f /\ f.type \in {"cancel", "error"}
    BY <2>1 DEF Cursor, ControlFrame
  <2> QED BY <2>2 DEF IsData, Requests
<1>7. ~IsData(c.frame) => c.frame \in ControlFrame /\ c = Cursor(c.frame)
  <2>1. ASSUME c \in Cursors(Octet) PROVE IsData(c.frame)
    BY <2>1, FrameFields DEF IsData
  <2>2. ASSUME NEW f \in ControlFrame, c = Cursor(f) PROVE c.frame \in ControlFrame /\ c = Cursor(c.frame)
    BY <2>2 DEF Cursor
  <2> QED BY <1>5, <2>1, <2>2
<1>8. ASSUME NEW i \in 1..(m - 1) PROVE ~sending[i].first /\ ~FirstRequest(sending[i]) /\ LoopInv(i)
  <2>1. i = 1 /\ Len(sending) = 2 /\ i \in 1..Len(sending)
    BY <1>3
  <2>2. ~sending[i].first /\ LoopInv(i)
    BY <1>1, <2>1 DEF StackInv
  <2> QED BY <2>2 DEF FirstRequest
<1> QED BY <1>2, <1>3, <1>4, <1>6, <1>7, <1>8, Zenon DEF LoopInv

\* What is left of the stack when the innermost loop has gone on or has ended.
Popped(m) ==
  /\ Len(sending') = m - 1 /\ \A i \in 1..(m - 1) : sending'[i] = sending[i]

Advanced(m, d) ==
  /\ Len(sending') = m /\ sending'[m] = d /\ \A i \in 1..(m - 1) : sending'[i] = sending[i]

LEMMA PoppedStack ==
  ASSUME SendingInv, sending # <<>>, sending' = Front(sending), NEW m, m = Len(sending)
  PROVE  Popped(m)
BY LastAndFront DEF SendingInv, Popped

LEMMA AdvancedStack ==
  ASSUME SendingInv, sending # <<>>, NEW d, sending' = [sending EXCEPT ![Len(sending)] = d],
         NEW m, m = Len(sending)
  PROVE  Advanced(m, d)
<1>1. sending \in Seq(SendingCursor) /\ m \in Nat /\ m > 0
  BY LastAndFront DEF SendingInv
<1>2. /\ DOMAIN sending = 1..m /\ m \in 1..m /\ \A i \in 1..(m - 1) : i \in 1..m /\ i # m
  BY <1>1
<1>3. sending' = [i \in 1..m |-> IF i = m THEN d ELSE sending[i]]
  BY <1>2
<1>4. Len(sending') = m
  BY <1>1, <1>3
<1>5. sending'[m] = d /\ \A i \in 1..(m - 1) : sending'[i] = sending[i]
  BY <1>2, <1>3
<1> QED BY <1>4, <1>5 DEF Advanced

\* The stack below has nothing that may still be refused.
LEMMA SentAfter ==
  ASSUME ClientInv, SendingInv, SendingInv', sending # <<>>, NEW m, m = Len(sending),
         Popped(m) \/ \E d : Advanced(m, d) /\ d.first = FALSE
  PROVE  SentId' = nextId'
<1>1. m \in {1, 2} /\ \A i \in 1..(m - 1) : ~sending[i].first
  BY TopCursor
<1>2. CASE Popped(m)
  <2>1. CASE m = 1
    <3>1. Len(sending') = 0
      BY <1>2, <2>1 DEF Popped
    <3>2. sending' = <<>>
      BY <3>1, EmptySeq DEF SendingInv
    <3> QED BY <3>2 DEF SentId
  <2>2. CASE m = 2
    <3>1. Len(sending') = 1 /\ sending'[1] = sending[1] /\ ~sending[1].first
      BY <1>1, <1>2, <2>2 DEF Popped
    <3>2. Last(sending') = sending[1]
      BY <3>1 DEF Last
    <3> QED BY <3>1, <3>2 DEF SentId, FirstRequest
  <2> QED BY <1>1, <2>1, <2>2
<1>3. ASSUME NEW d, Advanced(m, d), d.first = FALSE PROVE SentId' = nextId'
  <2>1. Last(sending') = d
    BY <1>3 DEF Advanced, Last
  <2> QED BY <1>3, <2>1 DEF SentId, FirstRequest
<1> QED BY <1>2, <1>3

\* What an emission does to the stack.
LEMMA EmissionStack ==
  ASSUME ClientInv, SendingInv, EmitFragment, NEW m, m = Len(sending), NEW c, c = Last(sending)
  PROVE  /\ sending # <<>> /\ Feasible(c)
         /\ Ends(c) => Popped(m)
         /\ ~Ends(c) => Advanced(m, Advance(c)) /\ IsData(c.frame)
         /\ SentId' = nextId /\ SendingInv'
<1>1. /\ sending # <<>> /\ Feasible(c) /\ Continue(Advance(c)) /\ nextId' = nextId
  BY DEF EmitFragment
<1>2. SendingInv'
  BY EmitSends
<1>3. /\ IsData(c.frame) => c \in Cursors(Octet) /\ ~Exhausted(c)
      /\ ~IsData(c.frame) => c.frame \in ControlFrame /\ c = Cursor(c.frame)
  BY <1>1, TopCursor
<1>4. ~IsData(c.frame) => Ends(c)
  BY <1>1, <1>3, ControlFragment
<1>5. CASE Ends(c)
  <2>1. Popped(m)
    BY <1>1, <1>5, PoppedStack DEF Continue, Ends
  <2> QED BY <1>1, <1>2, <1>5, <2>1, SentAfter
<1>6. CASE ~Ends(c)
  <2>1. Advanced(m, Advance(c))
    BY <1>1, <1>6, AdvancedStack DEF Continue, Ends
  <2>2. IsData(c.frame) /\ Advance(c).first = FALSE
    BY <1>1, <1>3, <1>4, <1>6, Advances
  <2> QED BY <1>1, <1>2, <1>6, <2>1, <2>2, SentAfter
<1> QED BY <1>5, <1>6

\* The frame written, as the other side will see it.
LEMMA EmissionFrame ==
  ASSUME ClientInv, SendingInv, EmitFragment, NEW c, c = Last(sending), NEW f, f = Fragment(c)
  PROVE  /\ wire' = Append(wire, f) /\ delivered' = delivered /\ f.stream = c.frame.stream
         /\ IsData(f) <=> IsData(c.frame)
         /\ f.type \in Requests <=> FirstRequest(c)
         /\ ~IsData(f) => f = c.frame
<1>0. PICK m : m = Len(sending)
  OBVIOUS
<1>1. wire' = Append(wire, f) /\ delivered' = delivered /\ sending # <<>> /\ Feasible(c)
  BY DEF EmitFragment, Write
<1>2. CASE IsData(c.frame)
  <2>1. c \in Cursors(Octet) /\ ~Exhausted(c)
    BY <1>0, <1>1, <1>2, TopCursor
  <2>2. f.type = Kind(c) /\ f.stream = c.frame.stream
    BY <1>1, <2>1, FragmentReads
  <2>3. IsData(f) /\ (f.type \in Requests <=> FirstRequest(c))
    BY <1>2, <2>2 DEF IsData, FirstRequest, Kind, Requests
  <2> QED BY <1>1, <1>2, <2>2, <2>3
<1>3. CASE ~IsData(c.frame)
  <2>1. c.frame \in ControlFrame /\ c = Cursor(c.frame)
    BY <1>0, <1>1, <1>3, TopCursor
  <2>2. f = c.frame /\ ~IsData(f) /\ f.type \notin Requests
    BY <1>1, <2>1, ControlFragment
  <2> QED BY <1>1, <1>3, <2>2 DEF FirstRequest
<1> QED BY <1>2, <1>3

LEMMA EmissionStackKeeps ==
  ASSUME ClientInv, SendingInv, EmitFragment
  PROVE  StackInv' /\ SentId \in Nat /\ SentId <= SentId'
<1>0. PICK m, c : m = Len(sending) /\ c = Last(sending)
  OBVIOUS
<1>1. /\ sending # <<>> /\ Feasible(c)
      /\ Ends(c) => Popped(m)
      /\ ~Ends(c) => Advanced(m, Advance(c)) /\ IsData(c.frame)
      /\ SentId' = nextId
  BY <1>0, EmissionStack
<1>2. /\ m \in {1, 2} /\ c = sending[m]
      /\ c.frame.stream \in Streams /\ c.frame.stream < nextId
      /\ IsData(c.frame) => /\ DataLoop(c, c.frame.stream, m)
                            /\ c \in Cursors(Octet) /\ ~Exhausted(c)
      /\ \A i \in 1..(m - 1) : ~sending[i].first /\ ~FirstRequest(sending[i]) /\ LoopInv(i)
  BY <1>0, <1>1, TopCursor
<1>3. UNCHANGED <<nextId, requester, outboundDone, issued>>
  BY DEF EmitFragment
<1>4. nextId \in Nat /\ SentId \in Int /\ SentId <= nextId /\ expectedId <= SentId /\ expectedId \in Nat
  BY ClientNumbers
<1>5. ASSUME NEW i \in 1..(m - 1), sending'[i] = sending[i],
             \A j \in 1..Len(sending') : j \in 1..Len(sending) /\ sending'[j].frame = sending[j].frame
      PROVE  LoopInv(i)'
  <2>0. PICK d, t : d = sending[i] /\ t = d.frame.stream
    OBVIOUS
  <2>1. /\ LoopInv(i) /\ ~d.first /\ ~FirstRequest(d)
    BY <1>2, <2>0
  <2>2. /\ t \in Streams /\ t < nextId
        /\ IsData(d.frame) => DataLoop(d, t, i)
        /\ ~IsData(d.frame) => requester[t] = "closed"
    BY <2>0, <2>1, Zenon DEF LoopInv
  <2>3. IsData(d.frame) => DataLoop(d, t, i)'
    BY <1>3, <1>5, <2>1, <2>2, Zenon DEF DataLoop
  <2>4. t < nextId' /\ t < SentId'
    BY <1>1, <1>3, <2>2
  <2> QED BY <1>3, <1>5, <2>0, <2>1, <2>2, <2>3, <2>4, Zenon DEF LoopInv
<1>6. CASE Ends(c)
  <2>1. Len(sending') = m - 1 /\ \A i \in 1..(m - 1) : sending'[i] = sending[i]
    BY <1>1, <1>6 DEF Popped
  <2>2. \A j \in 1..Len(sending') : j \in 1..(m - 1) /\ j \in 1..Len(sending)
    BY <1>0, <1>2, <2>1
  <2>3. \A i \in 1..Len(sending') : LoopInv(i)'
    BY <1>5, <2>1, <2>2
  <2>4. Len(sending') <= 2 /\ Len(sending') # 2
    BY <1>2, <2>1
  <2> QED BY <1>1, <1>4, <2>3, <2>4 DEF StackInv
<1>7. CASE ~Ends(c)
  <2>0. PICK d : d = Advance(c)
    OBVIOUS
  <2>1. /\ Len(sending') = m /\ \A i \in 1..(m - 1) : sending'[i] = sending[i]
        /\ sending'[m] = d
    BY <1>1, <1>7, <2>0 DEF Advanced
  <2>2. /\ d.frame = c.frame /\ d.first = FALSE /\ Feasible(d)
    <3>1. /\ c \in Cursors(Octet) /\ ~Exhausted(c) /\ Feasible(c) /\ ~Exhausted(d)
      BY <1>1, <1>2, <1>7, <2>0 DEF Ends
    <3> QED BY <2>0, <3>1, Advances, FeasibleToTheEnd
  <2>3. \A j \in 1..Len(sending') : j \in 1..(m - 1) \/ j = m
    BY <1>2, <2>1
  <2>4. \A j \in 1..Len(sending') : j \in 1..Len(sending) /\ sending'[j].frame = sending[j].frame
    BY <1>0, <1>2, <2>1, <2>2, <2>3, Zenon
  <2>5. LoopInv(m)'
    <3>0. PICK s : s = c.frame.stream
      OBVIOUS
    <3>1. DataLoop(c, s, m) /\ s \in Streams /\ s < nextId /\ IsData(c.frame)
      BY <1>1, <1>2, <1>7, <3>0
    <3>2. ~FirstRequest(d)
      BY <2>2 DEF FirstRequest
    <3>3. DataLoop(d, s, m)'
      BY <1>3, <2>2, <2>4, <3>1, <3>2, Zenon DEF DataLoop
    <3>4. s < SentId' /\ s < nextId'
      BY <1>1, <1>3, <3>1
    <3> QED BY <2>1, <2>2, <3>0, <3>1, <3>3, <3>4, Zenon DEF LoopInv
  <2>6. \A i \in 1..Len(sending') : LoopInv(i)'
    BY <1>5, <2>1, <2>3, <2>4, <2>5
  <2>7. Len(sending') <= 2 /\ (Len(sending') = 2 => ~sending'[1].first)
    <3>1. Len(sending') = 2 => 1 \in 1..(m - 1)
      BY <2>1
    <3>2. Len(sending') <= 2
      BY <1>2, <2>1
    <3> QED BY <1>2, <2>1, <3>1, <3>2
  <2> QED BY <1>1, <1>4, <2>6, <2>7 DEF StackInv
<1> QED BY <1>6, <1>7

\* The loop moves its stream by one fragment, and no other.
LEMMA EmissionPlaces ==
  ASSUME ClientInv, SendingInv, EmitFragment, NEW f, f = Fragment(Last(sending)),
         NEW t \in Streams, NEW q, ClientPlace(t, q)
  PROVE  \E r : Link(t, issued[t], f, q, r) /\ ClientPlace(t, r)'
<1>0. PICK m, c : m = Len(sending) /\ c = Last(sending)
  OBVIOUS
<1>1. /\ sending # <<>> /\ Feasible(c)
      /\ Ends(c) => Popped(m)
      /\ ~Ends(c) => Advanced(m, Advance(c)) /\ IsData(c.frame)
  BY <1>0, EmissionStack
<1>2. /\ m \in {1, 2} /\ c = sending[m]
      /\ c.frame.stream \in Streams
      /\ IsData(c.frame) => /\ DataLoop(c, c.frame.stream, m)
                            /\ c \in Cursors(Octet) /\ ~Exhausted(c)
  BY <1>0, <1>1, TopCursor
<1>3. f.stream = c.frame.stream /\ (IsData(f) <=> IsData(c.frame)) /\ issued' = issued
  BY <1>0, EmissionFrame DEF EmitFragment
<1>4. DataOf(t, f) <=> DataOf(t, c.frame)
  BY <1>3, Zenon DEF DataOf
<1>5. /\ \A i \in 1..m : i \in 1..(m - 1) \/ i = m
      /\ \A i \in 1..(m - 1) : i \in 1..m /\ i # m
      /\ m \in 1..m
  BY <1>2
<1>6. CASE ~DataOf(t, f)
  <2>1. Link(t, issued[t], f, q, q)
    BY <1>6, Zenon DEF Link
  <2>2. /\ \A i \in 1..(m - 1) : i \in 1..Len(sending') /\ sending'[i] = sending[i]
        /\ \A i \in 1..Len(sending') : DataOf(t, sending'[i].frame) => i \in 1..(m - 1)
    <3>1. CASE Ends(c)
      <4>1. Len(sending') = m - 1 /\ \A i \in 1..(m - 1) : sending'[i] = sending[i]
        BY <1>1, <3>1 DEF Popped
      <4> QED BY <4>1
    <3>2. CASE ~Ends(c)
      <4>1. Len(sending') = m /\ sending'[m] = Advance(c) /\ \A i \in 1..(m - 1) : sending'[i] = sending[i]
        BY <1>1, <3>2 DEF Advanced
      <4>2. Advance(c).frame = c.frame
        BY <1>1, <1>2, <3>2, Advances
      <4>3. ~DataOf(t, sending'[m].frame)
        BY <1>4, <1>6, <4>1, <4>2, Zenon
      <4> QED BY <1>5, <4>1, <4>3, Zenon
    <3> QED BY <3>1, <3>2
  <2>3. \A i \in 1..Len(sending) : DataOf(t, sending[i].frame) => i \in 1..(m - 1)
    BY <1>0, <1>2, <1>4, <1>5, <1>6, Zenon
  <2>4. CASE \E i \in 1..Len(sending) : DataOf(t, sending[i].frame) /\ q = At(Len(issued[t]), sending[i])
    <3>1. \E i \in 1..Len(sending') : DataOf(t, sending'[i].frame) /\ q = At(Len(issued'[t]), sending'[i])
      BY <1>3, <2>2, <2>3, <2>4, Zenon
    <3>2. ClientPlace(t, q)'
      BY <3>1, Zenon DEF ClientPlace
    <3> QED BY <2>1, <3>2
  <2>5. CASE (\A i \in 1..Len(sending) : ~DataOf(t, sending[i].frame)) /\ q = Start(Len(issued[t]) + 1)
    <3>1. \A i \in 1..Len(sending') : ~DataOf(t, sending'[i].frame)
      BY <1>0, <1>5, <2>2, <2>5, Zenon
    <3>2. ClientPlace(t, q)'
      BY <1>3, <2>5, <3>1, Zenon DEF ClientPlace
    <3> QED BY <2>1, <3>2
  <2> QED BY <2>4, <2>5, Zenon DEF ClientPlace
<1>7. CASE DataOf(t, f)
  <2>1. DataOf(t, c.frame) /\ c.frame.stream = t /\ IsData(c.frame)
    BY <1>4, <1>7, Zenon DEF DataOf
  <2>2. /\ Len(issued[t]) > 0 /\ c.frame = issued[t][Len(issued[t])]
        /\ \A j \in 1..Len(sending) : DataOf(t, sending[j].frame) => j = m
        /\ c \in Cursors(Octet) /\ ~Exhausted(c)
    BY <1>2, <2>1, Zenon DEF DataLoop
  <2>3. PICK n : n = Len(issued[t])
    OBVIOUS
  <2>4. issued[t] \in Seq(LogicalFrame) /\ n \in Nat /\ n \in DOMAIN issued[t]
    <3>1. issued[t] \in Seq(LogicalFrame) /\ n \in Nat
      BY <2>3, IssuedSeq
    <3>2. DOMAIN issued[t] = 1..n
      BY <2>3, <3>1, LenProperties
    <3> QED BY <2>2, <2>3, <3>1, <3>2
  <2>5. q = At(n, c)
    <3>1. m \in 1..Len(sending) /\ DataOf(t, sending[m].frame)
      BY <1>0, <1>2, <1>5, <2>1, Zenon
    <3> QED BY <1>2, <2>2, <2>3, <3>1, Zenon DEF ClientPlace
  <2>6. CursorAt(issued[t], q) = c /\ q.item = n
    <3>1. CursorAt(issued[t], At(n, c)) = c
      BY <2>2, <2>3, CursorAtPlace
    <3>2. At(n, c).item = n
      BY DEF At
    <3> QED BY <2>5, <3>1, <3>2
  <2>7. PICK r : r = NextPlace(issued[t], q)
    OBVIOUS
  <2>8. Carried(issued[t], f, q)
    BY <1>0, <1>1, <2>2, <2>4, <2>6, Zenon DEF Carried
  <2>9. Link(t, issued[t], f, q, r)
    BY <1>7, <2>7, <2>8, Zenon DEF Link
  <2>10. CASE Ends(c)
    <3>1. r = Start(n + 1)
      BY <2>6, <2>7, <2>10, Zenon DEF NextPlace
    <3>2. Len(sending') = m - 1 /\ \A i \in 1..(m - 1) : sending'[i] = sending[i]
      BY <1>1, <2>10 DEF Popped
    <3>3. \A i \in 1..Len(sending') : ~DataOf(t, sending'[i].frame)
      BY <1>0, <1>5, <2>2, <3>2, Zenon
    <3>4. ClientPlace(t, r)'
      BY <1>3, <2>3, <3>1, <3>3, Zenon DEF ClientPlace
    <3> QED BY <2>9, <3>4
  <2>11. CASE ~Ends(c)
    <3>1. r = At(n, Advance(c))
      BY <2>6, <2>7, <2>11, Zenon DEF NextPlace
    <3>2. Len(sending') = m /\ sending'[m] = Advance(c)
      BY <1>1, <2>11 DEF Advanced
    <3>3. Advance(c).frame = c.frame
      BY <1>1, <2>2, Advances
    <3>4. m \in 1..Len(sending') /\ DataOf(t, sending'[m].frame)
      BY <1>5, <2>1, <3>2, <3>3, Zenon
    <3>5. ClientPlace(t, r)'
      BY <1>3, <2>3, <3>1, <3>2, <3>4, Zenon DEF ClientPlace
    <3> QED BY <2>9, <3>5
  <2> QED BY <2>10, <2>11
<1> QED BY <1>6, <1>7

LEMMA EmissionKeeps ==
  ASSUME StreamInv, SendingInv, PayloadInv, EmitFragment
  PROVE  PayloadInv'
<1>0. PICK m, c, f, s : m = Len(sending) /\ c = Last(sending) /\ f = Fragment(c) /\ s = c.frame.stream
  OBVIOUS
<1>1. ClientInv /\ OrderInv /\ NumbersInv /\ WireInv
  BY DEF PayloadInv, ClientInv
<1>2. /\ UNCHANGED <<nextId, requester, outboundDone, issued>> /\ UNCHANGED serverVars /\ sending # <<>>
  BY DEF EmitFragment
<1>3. UNCHANGED <<expectedId, registered, requestParts, payloadParts, given>>
  BY <1>2 DEF serverVars
<1>4. /\ wire' = Append(wire, f) /\ delivered' = delivered /\ f.stream = s
      /\ IsData(f) <=> IsData(c.frame)
      /\ f.type \in Requests <=> FirstRequest(c)
      /\ ~IsData(f) => f = c.frame
  BY <1>0, <1>1, EmissionFrame
<1>5. StackInv' /\ SentId \in Nat /\ SentId <= SentId' /\ SentId' = nextId
  BY <1>0, <1>1, EmissionStackKeeps, EmissionStack
<1>6. /\ s \in Streams /\ s < nextId /\ s \in Nat /\ nextId \in Nat
      /\ ~IsData(c.frame) => requester[s] = "closed"
      /\ IsData(c.frame) => DataLoop(c, s, m)
  BY <1>0, <1>1, <1>2, TopCursor, ClientNumbers
<1>7. /\ wire \in Seq(SizedFrame) /\ Len(wire) \in Nat /\ Len(delivered) \in 0..Len(wire)
  BY DeliveredNumbers DEF StreamInv, DeliveredInv
<1>8. /\ Len(wire') = Len(wire) + 1 /\ wire'[Len(wire) + 1] = f
      /\ \A k \in 1..Len(wire) : wire'[k] = wire[k]
  BY <1>4, <1>7, AppendProperties
<1>9. NumbersInv'
  <2>1. expectedId \in Nat /\ expectedId <= SentId
    BY <1>1, ClientNumbers
  <2>2. expectedId' <= SentId'
    BY <1>3, <1>5, <1>6, <2>1
  <2> QED BY <1>1, <1>2, <1>3, <2>2, Zenon DEF NumbersInv
<1>10. WireInv'
  <2> SUFFICES ASSUME NEW k \in 1..Len(wire')
               PROVE  /\ wire'[k].stream \in Streams /\ wire'[k].stream < SentId'
                      /\ ~IsData(wire'[k]) => requester'[wire'[k].stream] = "closed"
    BY Zenon DEF WireInv
  <2>1. CASE k \in 1..Len(wire)
    <3>1. /\ wire[k].stream \in Streams /\ wire[k].stream < SentId
          /\ ~IsData(wire[k]) => requester[wire[k].stream] = "closed"
      BY <1>1, <2>1, Zenon DEF WireInv
    <3>2. wire[k].stream \in Nat
      BY <3>1, StreamNumbers
    <3>3. wire[k].stream < SentId'
      BY <1>5, <1>6, <3>1, <3>2
    <3> QED BY <1>2, <1>8, <2>1, <3>1, <3>3, Zenon
  <2>2. CASE k = Len(wire) + 1
    BY <1>2, <1>4, <1>5, <1>6, <1>8, <2>2
  <2> QED BY <1>7, <1>8, <2>1, <2>2
<1>11. OrderInv'
  <2>1. IdLink(f, SentId, SentId')
    <3>1. CASE FirstRequest(c)
      <4>1. IsData(c.frame)
        BY <3>1 DEF FirstRequest, IsData
      <4>2. s = nextId - 2
        BY <1>6, <3>1, <4>1 DEF DataLoop
      <4>3. SentId = nextId - 2
        BY <1>0, <1>2, <3>1 DEF SentId
      <4>4. SentId' = SentId + 2
        BY <1>5, <1>6, <4>3
      <4> QED BY <1>4, <3>1, <4>2, <4>3, <4>4, Zenon DEF IdLink
    <3>2. CASE ~FirstRequest(c)
      <4>1. SentId = nextId
        BY <1>0, <1>2, <3>2 DEF SentId
      <4> QED BY <1>4, <1>5, <3>2, <4>1, Zenon DEF IdLink
    <3> QED BY <3>1, <3>2
  <2>2. IdTrail(wire, Len(delivered), expectedId, SentId)
    BY <1>1 DEF OrderInv
  <2>3. IdTrail(Append(wire, f), Len(delivered), expectedId, SentId')
    BY <1>7, <2>1, <2>2, IdTrailAppend
  <2> QED BY <1>3, <1>4, <2>3, Zenon DEF OrderInv
<1>12. ASSUME NEW t \in Streams PROVE ItemsInv(t)' /\ ServerHas(t)' /\ TrailInv(t)'
  <2>1. ItemsInv(t) /\ ServerHas(t) /\ TrailInv(t)
    BY DEF PayloadInv, ClientInv
  <2>2. ItemsInv(t)'
    BY <1>2, <2>1, Zenon DEF ItemsInv
  <2>3. SendsMore(t)
    BY <1>2 DEF SendsMore
  <2>4. ServerHas(t)'
    BY <1>2, <2>1, <2>3, ServerUnmoved
  <2>5. TrailInv(t)'
    <3> SUFFICES ASSUME Followed(t)'
                 PROVE  \E r : /\ ClientPlace(t, r)'
                               /\ Trail(t, issued[t], wire, Len(delivered), ServerPlace(t), r)'
      BY DEF TrailInv
    <3>1. Followed(t)
      BY <1>2, FollowedStill
    <3>2. PICK q : /\ ClientPlace(t, q)
                   /\ Trail(t, issued[t], wire, Len(delivered), ServerPlace(t), q)
      BY <2>1, <3>1, Zenon DEF TrailInv
    <3>3. PICK r : Link(t, issued[t], f, q, r) /\ ClientPlace(t, r)'
      BY <1>0, <1>1, <3>2, EmissionPlaces
    <3>4. Trail(t, issued[t], Append(wire, f), Len(delivered), ServerPlace(t), r)
      BY <1>7, <3>2, <3>3, TrailAppend
    <3>5. ServerPlace(t)' = ServerPlace(t)
      BY <1>3 DEF ServerPlace
    <3>6. Trail(t, issued[t], wire, Len(delivered), ServerPlace(t), r)'
      BY <1>2, <1>4, <3>4, <3>5, Zenon
    <3> QED BY <3>3, <3>6, Zenon
  <2> QED BY <2>2, <2>4, <2>5
<1> QED BY <1>5, <1>9, <1>10, <1>11, <1>12, Zenon DEF PayloadInv, ClientInv

\* A request refused by the encoder leaves no trace.
LEMMA RefusalKeeps ==
  ASSUME StreamInv, SendingInv, PayloadInv, EmitThrows
  PROVE  PayloadInv'
<1>0. PICK m, c, s : m = Len(sending) /\ c = Last(sending) /\ s = c.frame.stream
  OBVIOUS
<1>1. ClientInv /\ OrderInv /\ NumbersInv /\ WireInv /\ StackInv
  BY DEF PayloadInv, ClientInv
<1>2. /\ sending # <<>> /\ ~Feasible(c) /\ sending' = Front(sending) /\ c.frame.type \in Requests
      /\ requester' = [requester EXCEPT ![s] = "unused"]
      /\ issued' = [issued EXCEPT ![s] = <<>>]
      /\ nextId' = IF nextId = s + 2 THEN s ELSE nextId
      /\ outboundDone' = outboundDone /\ UNCHANGED serverVars /\ UNCHANGED streamVars
  BY <1>0 DEF EmitThrows
<1>3. UNCHANGED <<expectedId, registered, requestParts, payloadParts, given>> /\ UNCHANGED <<wire, delivered>>
  BY <1>2 DEF serverVars, streamVars
<1>4. /\ m \in {1, 2} /\ c = sending[m] /\ s \in Streams
      /\ IsData(c.frame) => DataLoop(c, s, m)
      /\ \A i \in 1..(m - 1) : ~sending[i].first /\ ~FirstRequest(sending[i]) /\ LoopInv(i)
  BY <1>0, <1>1, <1>2, TopCursor
<1>5. IsData(c.frame) /\ DataLoop(c, s, m) /\ c.first /\ FirstRequest(c)
  <2>1. IsData(c.frame)
    BY <1>2 DEF IsData
  <2>2. c.first
    BY <1>2, <1>4, <2>1 DEF DataLoop
  <2> QED BY <1>2, <1>4, <2>1, <2>2 DEF FirstRequest
<1>6. /\ s = nextId - 2 /\ requester[s] = "open" /\ nextId \in Nat /\ s \in Nat
      /\ nextId' = s /\ SentId = s /\ expectedId \in Nat /\ expectedId <= s
  <2>1. s = nextId - 2 /\ requester[s] = "open" /\ nextId \in Nat /\ s \in Nat
    BY <1>1, <1>4, <1>5, ClientNumbers DEF DataLoop
  <2>2. SentId = s
    BY <1>0, <1>2, <1>5, <2>1 DEF SentId
  <2> QED BY <1>1, <1>2, <2>1, <2>2, ClientNumbers
<1>7. Popped(m) /\ SendingInv'
  BY <1>0, <1>2, PoppedStack, ThrowSends
<1>8. Len(sending') = m - 1 /\ \A i \in 1..(m - 1) : sending'[i] = sending[i]
  BY <1>7 DEF Popped
<1>9. SentId' = s
  BY <1>0, <1>1, <1>2, <1>6, <1>7, SentAfter
<1>10. /\ requester'[s] = "unused" /\ issued'[s] = <<>>
       /\ \A t \in Streams : t # s => requester'[t] = requester[t] /\ issued'[t] = issued[t]
       /\ DOMAIN requester' = Streams
  BY <1>1, <1>2, <1>4 DEF NumbersInv, SendingInv
<1>11. NumbersInv'
  <2>1. s \in Odd
    BY <1>4, OddStreams
  <2> QED BY <1>1, <1>3, <1>6, <1>9, <1>10, <2>1, Zenon DEF NumbersInv
<1>12. \A k \in 1..Len(wire) : wire[k].stream \in Streams /\ wire[k].stream < s /\ wire[k].stream # s
  <2> SUFFICES ASSUME NEW k \in 1..Len(wire)
               PROVE  wire[k].stream \in Streams /\ wire[k].stream < s /\ wire[k].stream # s
    OBVIOUS
  <2>1. wire[k].stream \in Streams /\ wire[k].stream < s
    BY <1>1, <1>6, Zenon DEF WireInv
  <2>2. wire[k].stream \in Nat
    BY <2>1, StreamNumbers
  <2>3. wire[k].stream # s
    BY <1>6, <2>1, <2>2
  <2> QED BY <2>1, <2>3
<1>13. WireInv'
  <2>1. \A k \in 1..Len(wire) : ~IsData(wire[k]) => requester[wire[k].stream] = "closed"
    BY <1>1, Zenon DEF WireInv
  <2> QED BY <1>3, <1>9, <1>10, <1>12, <2>1, Zenon DEF WireInv
<1>14. OrderInv'
  BY <1>1, <1>3, <1>6, <1>9, Zenon DEF OrderInv
<1>15. \A j \in 1..Len(sending') : j \in 1..(m - 1) /\ j \in 1..Len(sending)
  BY <1>0, <1>4, <1>8
<1>16. ASSUME NEW i \in 1..(m - 1) PROVE LoopInv(i)' /\ ~DataOf(s, sending[i].frame)
  <2>0. PICK d, t : d = sending[i] /\ t = d.frame.stream
    OBVIOUS
  <2>1. /\ LoopInv(i) /\ ~d.first /\ ~FirstRequest(d) /\ sending'[i] = d
    BY <1>4, <1>8, <2>0
  <2>2. /\ t \in Streams /\ t < SentId
        /\ IsData(d.frame) => DataLoop(d, t, i)
        /\ ~IsData(d.frame) => requester[t] = "closed"
    BY <2>0, <2>1, Zenon DEF LoopInv
  <2>3. t # s /\ t < SentId' /\ t < nextId'
    <3>1. t \in Nat
      BY <2>2, StreamNumbers
    <3> QED BY <1>6, <1>9, <2>2, <3>1
  <2>4. requester'[t] = requester[t] /\ issued'[t] = issued[t]
    BY <1>10, <2>2, <2>3
  <2>5. IsData(d.frame) => DataLoop(d, t, i)'
    <3>1. \A j \in 1..Len(sending') : sending'[j] = sending[j] /\ j \in 1..Len(sending)
      BY <1>8, <1>15, Zenon
    <3> QED BY <2>1, <2>2, <2>4, <3>1, Zenon DEF DataLoop
  <2>6. ~DataOf(s, sending[i].frame)
    BY <2>0, <2>3, Zenon DEF DataOf
  <2> QED BY <2>0, <2>1, <2>2, <2>3, <2>4, <2>5, <2>6, Zenon DEF LoopInv
<1>17. StackInv'
  <2>1. \A i \in 1..Len(sending') : LoopInv(i)'
    BY <1>15, <1>16
  <2>2. Len(sending') <= 2 /\ Len(sending') # 2
    BY <1>4, <1>8
  <2> QED BY <2>1, <2>2 DEF StackInv
<1>18. ItemsInv(s)'
  <2>1. ~(0 > 0) /\ Len(<<>>) = 0 /\ 1..0 = {}
    OBVIOUS
  <2>2. \A k \in 1..Len(issued'[s]) : FALSE
    BY <1>10, <2>1
  <2>3. requester'[s] # "open"
    BY <1>10
  <2> QED BY <1>10, <2>2, <2>3, Zenon DEF ItemsInv
<1>19. ServerHas(s)'
  <2>1. ServerHas(s) /\ s >= expectedId /\ ~(s < expectedId)
    BY <1>4, <1>6 DEF PayloadInv
  <2>2. ~HasStream(s) /\ given[s] = <<>> /\ s \notin ended
    BY <2>1, Zenon DEF ServerHas
  <2>3. s \notin requesterComplete
    <3>1. s \in requesterComplete => Len(given[s]) > 0
      BY <2>1, Zenon DEF ServerHas
    <3> QED BY <2>2, <3>1
  <2>4. <<>> \in Seq(LogicalFrame) /\ IsPrefix(<<>>, <<>>)
    BY DEF IsPrefix
  <2>5. registered[s] = "none" /\ requestParts[s] = None /\ payloadParts[s] = None
    BY <2>2 DEF HasStream
  <2>6. UNCHANGED <<requesterComplete, ended>>
    BY <1>2 DEF serverVars
  <2> QED BY <1>3, <1>10, <2>1, <2>2, <2>3, <2>4, <2>5, <2>6, Zenon DEF ServerHas, HasStream
<1>20. TrailInv(s)'
  <2>1. ServerPlace(s) = Start(1) /\ given[s] = <<>>
    <3>1. ServerHas(s) /\ s >= expectedId
      BY <1>4, <1>6 DEF PayloadInv
    <3>2. ~HasStream(s) /\ given[s] = <<>>
      BY <3>1, Zenon DEF ServerHas
    <3>3. Len(<<>>) + 1 = 1
      OBVIOUS
    <3> QED BY <3>2, <3>3 DEF HasStream, ServerPlace
  <2>2. ServerPlace(s)' = Start(1)
    BY <1>3, <2>1 DEF ServerPlace
  <2>3. ClientPlace(s, Start(1))'
    <3>1. \A i \in 1..Len(sending') : ~DataOf(s, sending'[i].frame)
      BY <1>8, <1>15, <1>16, Zenon
    <3>2. Len(issued'[s]) + 1 = 1
      BY <1>10
    <3> QED BY <3>1, <3>2, Zenon DEF ClientPlace
  <2>4. Len(wire) \in Nat /\ Len(delivered) \in Nat /\ Len(delivered) <= Len(wire)
    BY DeliveredNumbers DEF StreamInv, DeliveredInv
  <2>5. \A k \in (Len(delivered) + 1)..Len(wire) : wire[k].stream # s
    <3>1. \A k \in (Len(delivered) + 1)..Len(wire) : k \in 1..Len(wire)
      BY <2>4
    <3> QED BY <1>12, <3>1, Zenon
  <2>6. Trail(s, issued'[s], wire, Len(delivered), Start(1), Start(1))
    BY <2>4, <2>5, TrailFree
  <2> QED BY <1>3, <2>2, <2>3, <2>6, Zenon DEF TrailInv
<1>21. ASSUME NEW t \in Streams, t # s PROVE ItemsInv(t)' /\ ServerHas(t)' /\ TrailInv(t)'
  <2>1. ItemsInv(t) /\ ServerHas(t) /\ TrailInv(t)
    BY DEF PayloadInv, ClientInv
  <2>2. requester'[t] = requester[t] /\ issued'[t] = issued[t]
    BY <1>10, <1>21
  <2>3. t >= nextId' => t >= nextId
    <3>1. t \in Odd /\ s \in Odd /\ t \in Nat
      BY <1>4, OddStreams
    <3>2. s < t => s + 2 <= t
      BY <3>1, OddStreams
    <3> QED BY <1>6, <1>21, <3>1, <3>2
  <2>4. ItemsInv(t)'
    BY <1>2, <2>1, <2>2, <2>3, Zenon DEF ItemsInv
  <2>5. SendsMore(t)
    BY <2>2 DEF SendsMore
  <2>6. ServerHas(t)'
    BY <1>2, <2>1, <2>2, <2>5, ServerUnmoved
  <2>7. \A q : ClientPlace(t, q) => ClientPlace(t, q)'
    <3> SUFFICES ASSUME NEW q, ClientPlace(t, q) PROVE ClientPlace(t, q)'
      OBVIOUS
    <3>1. \A i \in 1..(m - 1) : i \in 1..Len(sending') /\ sending'[i] = sending[i]
      BY <1>8
    <3>2. \A i \in 1..Len(sending) : DataOf(t, sending[i].frame) => i \in 1..(m - 1)
      <4>1. \A i \in 1..Len(sending) : i \in 1..(m - 1) \/ i = m
        BY <1>0, <1>4
      <4>2. ~DataOf(t, sending[m].frame)
        BY <1>0, <1>4, <1>21, Zenon DEF DataOf
      <4> QED BY <4>1, <4>2, Zenon
    <3>3. CASE \E i \in 1..Len(sending) : DataOf(t, sending[i].frame) /\ q = At(Len(issued[t]), sending[i])
      BY <2>2, <3>1, <3>2, <3>3, Zenon DEF ClientPlace
    <3>4. CASE (\A i \in 1..Len(sending) : ~DataOf(t, sending[i].frame)) /\ q = Start(Len(issued[t]) + 1)
      <4>1. \A i \in 1..Len(sending') : ~DataOf(t, sending'[i].frame)
        BY <1>8, <1>15, <3>4, Zenon
      <4> QED BY <2>2, <3>4, <4>1, Zenon DEF ClientPlace
    <3> QED BY <3>3, <3>4, Zenon DEF ClientPlace
  <2>8. TrailInv(t)'
    BY <1>2, <1>3, <2>1, <2>2, <2>5, <2>7, TrailUnmoved
  <2> QED BY <2>4, <2>6, <2>8
<1>22. \A t \in Streams : ItemsInv(t)' /\ ServerHas(t)' /\ TrailInv(t)'
  BY <1>18, <1>19, <1>20, <1>21
<1> QED BY <1>11, <1>13, <1>14, <1>17, <1>22, Zenon DEF PayloadInv, ClientInv

LEMMA ClientKeepsPayloads ==
  ASSUME StreamInv, SendingInv, PayloadInv, ClientStep
  PROVE  PayloadInv'
<1>1. ASSUME NEW s \in Streams, SendCancel(s) PROVE PayloadInv'
  BY <1>1, GiveUpKeeps DEF SendCancel
<1>2. ASSUME NEW s \in Streams, FailOutbound(s) PROVE PayloadInv'
  BY <1>2, GiveUpKeeps DEF FailOutbound, OpenChannel
<1> QED BY <1>1, <1>2, RequestKeeps, SendItemKeeps, SendCompleteKeeps, ResponderEndedKeeps,
           EmissionKeeps, RefusalKeeps DEF ClientStep

----------------------------------------------------------------------------
(* The server's steps, stream by stream.                                   *)

Domains ==
  /\ DOMAIN registered = Streams /\ DOMAIN requestParts = Streams
  /\ DOMAIN payloadParts = Streams /\ DOMAIN given = Streams

\* What the server holds of stream t is what it held.
Stays(t) ==
  /\ registered'[t] = registered[t] /\ requestParts'[t] = requestParts[t]
  /\ payloadParts'[t] = payloadParts[t] /\ given'[t] = given[t]
  /\ t \in requesterComplete' <=> t \in requesterComplete
  /\ t \in ended' <=> t \in ended

Only(s) == Domains' /\ \A t \in Streams : t # s => Stays(t)

LEMMA HeldPlace ==
  ASSUME NEW d, NEW c, KeptAt(d, c), NEW k
  PROVE  d # None /\ HoldPlace(k, d) = At(k, c)
BY KeptAtPlace

LEMMA StaysKeeps ==
  ASSUME NEW t \in Streams, ServerHas(t), Stays(t), UNCHANGED <<requester, issued>>,
         expectedId \in Nat, expectedId' \in Nat, t < expectedId' <=> t < expectedId
  PROVE  /\ ServerHas(t)' /\ ServerPlace(t)' = ServerPlace(t)
         /\ Followed(t)' => Followed(t)
<1>1. t \in Nat
  BY StreamNumbers
<1>2. t >= expectedId' <=> t >= expectedId
  BY <1>1
<1>3. HasStream(t)' <=> HasStream(t)
  BY DEF HasStream, Stays
<1>4. Followed(t)' <=> Followed(t)
  BY <1>3, Zenon DEF Followed, Stays
<1>5. ServerPlace(t)' = ServerPlace(t)
  BY DEF ServerPlace, Stays
<1>6. ServerHas(t)'
  BY <1>2, <1>3, <1>4, Zenon DEF ServerHas, Stays
<1> QED BY <1>4, <1>5, <1>6

\* The stream is over for the server.
LEMMA GoneKeeps ==
  ASSUME NEW s \in Streams, ServerHas(s), UNCHANGED <<requester, issued>>,
         expectedId' \in Nat, s < expectedId', ~HasStream(s)', given'[s] = given[s],
         s \in requesterComplete' <=> s \in requesterComplete,
         s \in ended' \/ requester[s] = "closed"
  PROVE  ServerHas(s)' /\ TrailInv(s)'
<1>1. ~(s >= expectedId')
  BY StreamNumbers
<1>2. ~Followed(s)'
  BY Zenon DEF Followed
<1>3. registered'[s] = "none" /\ requestParts'[s] = None /\ payloadParts'[s] = None
  BY Zenon DEF HasStream
<1>4. /\ given[s] \in Seq(LogicalFrame) /\ IsPrefix(given[s], issued[s])
      /\ s \in requesterComplete => Len(given[s]) > 0 /\ given[s][Len(given[s])].complete
  BY Zenon DEF ServerHas
<1>5. ServerHas(s)'
  BY <1>1, <1>2, <1>3, <1>4, Zenon DEF ServerHas
<1> QED BY <1>2, <1>5 DEF TrailInv

\* Its request is on its way to a controller.
LEMMA RequestHeldKeeps ==
  ASSUME NEW s \in Streams, ServerHas(s), UNCHANGED <<requester, issued>>,
         expectedId' \in Nat, s < expectedId', Len(given[s]) = 0, s \notin ended',
         registered'[s] = "none", payloadParts'[s] = None, given'[s] = given[s],
         s \in requesterComplete' <=> s \in requesterComplete,
         NEW d, requestParts'[s] = d, NEW c, KeptAt(d, c), c.frame = issued[s][1],
         Len(issued[s]) > 0
  PROVE  ServerHas(s)' /\ ServerPlace(s)' = At(1, c)
<1>1. ~(s >= expectedId')
  BY StreamNumbers
<1>2. d # None /\ HoldPlace(1, d) = At(1, c)
  BY HeldPlace
<1>3. /\ given[s] \in Seq(LogicalFrame) /\ IsPrefix(given[s], issued[s]) /\ Len(given[s]) + 1 = 1
      /\ s \notin requesterComplete
  BY DEF ServerHas
<1>4. Kept(d, issued[s][1])
  BY Zenon DEF Kept
<1>5. ServerHas(s)'
  BY <1>1, <1>2, <1>3, <1>4, Zenon DEF ServerHas
<1>6. ServerPlace(s)' = At(1, c)
  BY <1>2, <1>3 DEF ServerPlace
<1> QED BY <1>5, <1>6

LEMMA RequestGivenKeeps ==
  ASSUME NEW s \in Streams, SendingInv, ServerHas(s), UNCHANGED <<requester, issued>>,
         expectedId' \in Nat, s < expectedId', Len(given[s]) = 0, s \notin ended',
         requestParts'[s] = None, payloadParts'[s] = None,
         Len(issued[s]) > 0, given'[s] = <<issued[s][1]>>,
         issued[s][1].type = "request_channel" => registered'[s] = "channel",
         s \in requesterComplete' <=> s \in requesterComplete
  PROVE  ServerHas(s)' /\ ServerPlace(s)' = Start(1 + 1)
<1>1. ~(s >= expectedId')
  BY StreamNumbers
<1>2. issued[s] \in Seq(LogicalFrame) /\ Len(issued[s]) \in Nat
  BY IssuedSeq
<1>3. PICK x : x = issued[s][1]
  OBVIOUS
<1>4. x \in LogicalFrame
  BY <1>2, <1>3, ElementOfSeq
<1>5. /\ given'[s] = <<x>> /\ Len(given'[s]) = 1 /\ given'[s][1] = x /\ given'[s] \in Seq(LogicalFrame)
  BY <1>3, <1>4
<1>6. IsPrefix(given'[s], issued'[s])
  <2>1. Len(given'[s]) <= Len(issued[s])
    BY <1>2, <1>5
  <2>2. \A i \in 1..Len(given'[s]) : given'[s][i] = issued[s][i]
    BY <1>3, <1>5
  <2>3. IsPrefix(given'[s], issued[s])
    BY <1>2, <1>5, <2>1, <2>2, PrefixSeq
  <2> QED BY <2>3
<1>7. s \notin requesterComplete
  BY DEF ServerHas
<1>8. Len(given'[s]) > 0
  BY <1>5
<1>9. ServerHas(s)'
  BY <1>1, <1>3, <1>5, <1>6, <1>7, <1>8, Zenon DEF ServerHas
<1>10. ServerPlace(s)' = Start(1 + 1)
  BY <1>5 DEF ServerPlace
<1> QED BY <1>9, <1>10

\* An item of a channel.
LEMMA ItemHeldKeeps ==
  ASSUME NEW s \in Streams, ServerHas(s), UNCHANGED <<requester, issued>>,
         expectedId' \in Nat, s < expectedId', s \notin ended', Len(given[s]) > 0,
         registered'[s] = "channel", requestParts'[s] = None, given'[s] = given[s],
         s \notin requesterComplete',
         NEW k, k = Len(given[s]) + 1, Len(given[s]) < Len(issued[s]),
         NEW d, payloadParts'[s] = d, NEW c, KeptAt(d, c), c.frame = issued[s][k]
  PROVE  ServerHas(s)' /\ ServerPlace(s)' = At(k, c)
<1>1. ~(s >= expectedId')
  BY StreamNumbers
<1>2. d # None /\ HoldPlace(k, d) = At(k, c)
  BY HeldPlace
<1>3. given[s] \in Seq(LogicalFrame) /\ IsPrefix(given[s], issued[s])
  BY DEF ServerHas
<1>4. Kept(d, issued[s][k])
  BY Zenon DEF Kept
<1>5. ServerHas(s)'
  BY <1>1, <1>2, <1>3, <1>4, Zenon DEF ServerHas
<1>6. ServerPlace(s)' = At(k, c)
  BY <1>2 DEF ServerPlace
<1> QED BY <1>5, <1>6

LEMMA ItemGivenKeeps ==
  ASSUME NEW s \in Streams, SendingInv, ServerHas(s), UNCHANGED <<requester, issued>>,
         expectedId' \in Nat, s < expectedId', s \notin ended, Len(given[s]) > 0,
         registered[s] = "channel", requestParts'[s] = None, payloadParts'[s] = None,
         s \notin requesterComplete,
         NEW k, k = Len(given[s]) + 1, Len(given[s]) < Len(issued[s]),
         NEW x, x = issued[s][k], given'[s] = Append(given[s], x),
         s \in requesterComplete' => x.complete,
         \/ registered'[s] = "channel" /\ s \notin ended'
         \/ registered'[s] = "none" /\ s \in ended'
  PROVE  ServerHas(s)' /\ ServerPlace(s)' = Start(k + 1)
<1>1. ~(s >= expectedId')
  BY StreamNumbers
<1>2. /\ given[s] \in Seq(LogicalFrame) /\ issued[s] \in Seq(LogicalFrame) /\ IsPrefix(given[s], issued[s])
      /\ Len(given[s]) \in Nat /\ Len(issued[s]) \in Nat
  BY IssuedSeq, LenProperties DEF ServerHas
<1>3. x \in LogicalFrame
  <2>1. k \in 1..Len(issued[s])
    BY <1>2
  <2> QED BY <1>2, <2>1, ElementOfSeq
<1>4. /\ given'[s] \in Seq(LogicalFrame) /\ Len(given'[s]) = k /\ given'[s][k] = x
      /\ given'[s][1] = given[s][1] /\ Len(given'[s]) > 0
  <2>1. 1 \in 1..Len(given[s])
    BY <1>2
  <2> QED BY <1>2, <1>3, <2>1, AppendProperties
<1>5. IsPrefix(given'[s], issued'[s])
  BY <1>2, PrefixItems
<1>6. ~HasStream(s)' \/ s \notin ended'
  BY DEF HasStream
<1>7. ServerHas(s)'
  BY <1>1, <1>4, <1>5, <1>6, Zenon DEF ServerHas, Followed
<1>8. ServerPlace(s)' = Start(k + 1)
  BY <1>4 DEF ServerPlace
<1> QED BY <1>7, <1>8

----------------------------------------------------------------------------
(* What each of the server's operations leaves of a stream.                *)

LEMMA TerminatedStream ==
  ASSUME Domains, NEW s \in Streams, Unregister(s), given' = given,
         requesterComplete' = requesterComplete,
         \A t \in Streams : t # s => (t \in ended' <=> t \in ended)
  PROVE  Only(s) /\ ~HasStream(s)' /\ given'[s] = given[s]
<1>1. Domains'
  BY DEF Domains, Unregister
<1>2. registered'[s] = "none" /\ requestParts'[s] = None /\ payloadParts'[s] = None
  BY DEF Domains, Unregister
<1>3. ASSUME NEW t \in Streams, t # s PROVE Stays(t)
  <2>1. registered'[t] = registered[t] /\ requestParts'[t] = requestParts[t] /\ payloadParts'[t] = payloadParts[t]
    BY <1>3 DEF Domains, Unregister
  <2> QED BY <1>3, <2>1 DEF Stays
<1>4. ~HasStream(s)'
  BY <1>2 DEF HasStream
<1> QED BY <1>1, <1>3, <1>4 DEF Only

LEMMA DispatchedStream ==
  ASSUME Domains, NEW s \in Streams, NEW x, x.stream = s, NEW p, DOMAIN p = Streams, p[s] = None,
         \A t \in Streams : t # s => p[t] = requestParts[t],
         payloadParts[s] = None, registered[s] = "none", Dispatch(x, p)
  PROVE  /\ Only(s) /\ requestParts'[s] = None /\ payloadParts'[s] = None
         /\ requesterComplete' = requesterComplete
         /\ \/ /\ given'[s] = <<x>> /\ ended' = ended
               /\ x.type = "request_channel" => registered'[s] = "channel"
            \/ given'[s] = given[s] /\ s \in ended' /\ ~HasStream(s)'
<1>1. requesterComplete' = requesterComplete
  BY DEF Dispatch
<1>2. CASE /\ given' = [given EXCEPT ![s] = <<x>>] /\ requestParts' = p
           /\ registered' = [registered EXCEPT ![s] = CASE x.type = "request_fnf" -> "none"
                                                        [] x.type = "request_channel" -> "channel"
                                                        [] OTHER -> "single"]
           /\ UNCHANGED <<payloadParts, ended>>
  <2>1. Domains'
    BY <1>2 DEF Domains
  <2>2. given'[s] = <<x>> /\ requestParts'[s] = None /\ payloadParts'[s] = None
    BY <1>2 DEF Domains
  <2>3. x.type = "request_channel" => registered'[s] = "channel"
    BY <1>2 DEF Domains
  <2>4. ASSUME NEW t \in Streams, t # s PROVE Stays(t)
    <3>1. registered'[t] = registered[t] /\ requestParts'[t] = requestParts[t] /\ given'[t] = given[t]
      BY <1>2, <2>4 DEF Domains
    <3> QED BY <1>1, <1>2, <3>1 DEF Stays
  <2> QED BY <1>1, <1>2, <2>1, <2>2, <2>3, <2>4 DEF Only
<1>3. CASE /\ ended' = ended \cup {s}
           /\ requestParts' = [p EXCEPT ![s] = None]
           /\ payloadParts' = [payloadParts EXCEPT ![s] = None]
           /\ UNCHANGED <<given, registered>>
  <2>1. Domains'
    BY <1>3 DEF Domains
  <2>2. given'[s] = given[s] /\ s \in ended' /\ requestParts'[s] = None /\ payloadParts'[s] = None
    BY <1>3 DEF Domains
  <2>3. ~HasStream(s)'
    BY <1>3, <2>2 DEF HasStream
  <2>4. ASSUME NEW t \in Streams, t # s PROVE Stays(t)
    <3>1. requestParts'[t] = requestParts[t] /\ payloadParts'[t] = payloadParts[t] /\ (t \in ended' <=> t \in ended)
      BY <1>3, <2>4 DEF Domains
    <3> QED BY <1>1, <1>3, <3>1 DEF Stays
  <2> QED BY <1>1, <2>1, <2>2, <2>3, <2>4 DEF Only
<1> QED BY <1>2, <1>3 DEF Dispatch

LEMMA GivenStream ==
  ASSUME Domains, NEW s \in Streams, NEW x, NEW p, DOMAIN p = Streams, p[s] = None,
         \A t \in Streams : t # s => p[t] = payloadParts[t], GiveItem(s, x, p), s \notin ended,
         requestParts[s] = None, registered[s] = "channel", s \notin requesterComplete
  PROVE  /\ Only(s) /\ requestParts'[s] = None /\ payloadParts'[s] = None
         /\ given'[s] = Append(given[s], x) /\ expectedId' = expectedId
         /\ s \in requesterComplete' => x.complete
         /\ \/ registered'[s] = "channel" /\ s \notin ended'
            \/ registered'[s] = "none" /\ s \in ended'
<1>1. /\ given' = [given EXCEPT ![s] = Append(@, x)] /\ payloadParts' = p
      /\ requesterComplete' = IF x.complete THEN requesterComplete \cup {s} ELSE requesterComplete
      /\ UNCHANGED <<requestParts, expectedId>>
  BY DEF GiveItem
<1>2. \/ registered' = [registered EXCEPT ![s] = "none"] /\ ended' = ended \cup {s}
      \/ registered' = registered /\ ended' = ended
  BY DEF GiveItem
<1>3. Domains'
  BY <1>1, <1>2 DEF Domains
<1>4. ASSUME NEW t \in Streams, t # s PROVE Stays(t)
  <2>1. given'[t] = given[t] /\ payloadParts'[t] = payloadParts[t] /\ requestParts'[t] = requestParts[t]
    BY <1>1, <1>4 DEF Domains
  <2>2. t \in requesterComplete' <=> t \in requesterComplete
    BY <1>1, <1>4
  <2>3. registered'[t] = registered[t] /\ (t \in ended' <=> t \in ended)
    BY <1>2, <1>4 DEF Domains
  <2> QED BY <2>1, <2>2, <2>3 DEF Stays
<1>5. given'[s] = Append(given[s], x)
  BY <1>1 DEF Domains
<1>6. \/ registered'[s] = "channel" /\ s \notin ended'
      \/ registered'[s] = "none" /\ s \in ended'
  BY <1>2 DEF Domains
<1> QED BY <1>1, <1>3, <1>4, <1>5, <1>6 DEF Only

LEMMA RequestHeldStream ==
  ASSUME Domains, NEW s \in Streams, NEW d, requestParts' = [requestParts EXCEPT ![s] = d],
         UNCHANGED <<registered, payloadParts, given, ended, requesterComplete>>
  PROVE  Only(s) /\ requestParts'[s] = d
BY DEF Domains, Only, Stays

LEMMA PayloadHeldStream ==
  ASSUME Domains, NEW s \in Streams, NEW d, payloadParts' = [payloadParts EXCEPT ![s] = d],
         UNCHANGED <<registered, requestParts, given, ended, requesterComplete>>
  PROVE  Only(s) /\ payloadParts'[s] = d
BY DEF Domains, Only, Stays

----------------------------------------------------------------------------
(* One frame handled.                                                      *)

\* Frame f, the next one on the wire, is handed over.
Takes(f) ==
  /\ Len(delivered) < Len(wire) /\ f = wire[Len(delivered) + 1]
  /\ wire' = wire /\ Len(delivered') = Len(delivered) + 1 /\ UNCHANGED clientVars

LEMMA TakesTrail ==
  ASSUME StreamInv, NEW t \in Streams, TrailInv(t), Followed(t), NEW f, Takes(f)
  PROVE  \E r : /\ Link(t, issued[t], f, ServerPlace(t), r)
                /\ ServerPlace(t)' = r => TrailInv(t)'
<1>1. /\ Len(wire) \in Nat /\ Len(delivered) \in Nat
  BY DeliveredNumbers DEF StreamInv, DeliveredInv
<1>2. PICK q : ClientPlace(t, q) /\ Trail(t, issued[t], wire, Len(delivered), ServerPlace(t), q)
  BY Zenon DEF TrailInv
<1>3. Len(delivered) < Len(wire) /\ f = wire[Len(delivered) + 1]
  BY DEF Takes
<1>4. PICK r : /\ Link(t, issued[t], f, ServerPlace(t), r)
               /\ Trail(t, issued[t], wire, Len(delivered) + 1, r, q)
  BY <1>1, <1>2, <1>3, TrailNext
<1>5. ASSUME ServerPlace(t)' = r PROVE TrailInv(t)'
  <2>1. wire' = wire /\ Len(delivered') = Len(delivered) + 1 /\ UNCHANGED <<sending, issued>>
    BY DEF Takes, clientVars
  <2>2. ClientPlace(t, q)'
    BY <1>2, <2>1, Zenon DEF ClientPlace
  <2>3. Trail(t, issued[t], wire, Len(delivered), ServerPlace(t), q)'
    BY <1>4, <1>5, <2>1, Zenon
  <2> QED BY <2>2, <2>3, Zenon DEF TrailInv
<1> QED BY <1>4, <1>5

LEMMA SentOdd ==
  ASSUME ClientInv, SendingInv
  PROVE  SentId \in Odd
<1>1. nextId \in Odd /\ nextId \in Nat
  BY OddStreams DEF ClientInv, NumbersInv
<1>2. CASE sending # <<>> /\ FirstRequest(Last(sending))
  <2>0. PICK m, c : m = Len(sending) /\ c = Last(sending)
    OBVIOUS
  <2>1. IsData(c.frame) /\ FirstRequest(c)
    BY <1>2, <2>0 DEF FirstRequest, IsData
  <2>2. c.frame.stream \in Streams /\ DataLoop(c, c.frame.stream, m)
    BY <1>2, <2>0, <2>1, TopCursor
  <2>3. c.frame.stream = nextId - 2
    BY <2>1, <2>2 DEF DataLoop
  <2> QED BY <1>2, <2>2, <2>3, OddStreams DEF SentId
<1>3. CASE ~(sending # <<>> /\ FirstRequest(Last(sending)))
  BY <1>1, <1>3 DEF SentId
<1> QED BY <1>2, <1>3

LEMMA CarriedLink ==
  ASSUME NEW s, NEW items, NEW f, NEW p, NEW r, Link(s, items, f, p, r), DataOf(s, f),
         NEW c, c = CursorAt(items, p)
  PROVE  /\ p.item \in DOMAIN items /\ c.frame = items[p.item] /\ c.first = p.first
         /\ c \in Cursors(Octet) /\ ~Exhausted(c) /\ Feasible(c) /\ f = Fragment(c)
         /\ Ends(c) => r = Start(p.item + 1)
         /\ ~Ends(c) => r = At(p.item, Advance(c))
<1>1. Carried(items, f, p) /\ r = NextPlace(items, p)
  BY Zenon DEF Link
<1>2. c.frame = items[p.item] /\ c.first = p.first
  BY DEF CursorAt
<1>3. /\ Ends(c) => r = Start(p.item + 1)
      /\ ~Ends(c) => r = At(p.item, Advance(c))
  BY <1>1, Zenon DEF NextPlace
<1> QED BY <1>1, <1>2, <1>3, Zenon DEF Carried

LEMMA StartFields == \A k : Start(k).item = k /\ Start(k).first = TRUE
BY DEF Start

LEMMA HoldFields == \A k, d : HoldPlace(k, d).item = k /\ HoldPlace(k, d).first = FALSE
BY DEF HoldPlace

LEMMA RequestTaken ==
  ASSUME StreamInv, SendingInv, PayloadInv, NEW f, Takes(f), Handle(f),
         NEW s \in Streams, f.stream = s, f.type \in Requests
  PROVE  Only(s) /\ expectedId = s /\ expectedId' = s + 2 /\ ServerHas(s)' /\ TrailInv(s)'
<1>1. /\ ClientInv /\ OrderInv /\ ItemsInv(s) /\ ServerHas(s) /\ TrailInv(s) /\ Domains
      /\ s \in Nat /\ expectedId \in Nat
  BY ClientNumbers DEF PayloadInv, ClientInv, NumbersInv, Domains
<1>2. expectedId = s
  <2>1. Len(wire) \in Nat /\ Len(delivered) \in Nat /\ Len(delivered) < Len(wire) /\ f = wire[Len(delivered) + 1]
    BY DeliveredNumbers DEF StreamInv, DeliveredInv, Takes
  <2>2. PICK a : IdLink(f, expectedId, a)
    BY <1>1, <2>1, IdTrailNext DEF OrderInv
  <2> QED BY <2>2 DEF IdLink
<1>3. s >= expectedId /\ ~(s < expectedId)
  BY <1>1, <1>2
<1>4. ~HasStream(s) /\ given[s] = <<>> /\ s \notin ended /\ Followed(s)
  BY <1>1, <1>3, Zenon DEF ServerHas, Followed
<1>5. registered[s] = "none" /\ requestParts[s] = None /\ payloadParts[s] = None
  BY <1>4 DEF HasStream
<1>6. InitialRequest(f)
  <2>1. ~((f.type \in Requests) = HasStream(f.stream))
    BY <1>4
  <2>2. f.type # "payload"
    BY DEF Requests
  <2> QED BY <1>2, <2>1, <2>2 DEF Handle
<1>7. expectedId' = s + 2 /\ expectedId' \in Nat /\ s < expectedId'
  BY <1>1, <1>6 DEF InitialRequest
<1>8. ServerPlace(s) = Start(1)
  BY <1>4, <1>5 DEF ServerPlace
<1>9. PICK r : /\ Link(s, issued[s], f, Start(1), r)
               /\ ServerPlace(s)' = r => TrailInv(s)'
  BY <1>1, <1>4, <1>8, TakesTrail
<1>10. DataOf(s, f)
  BY DEF DataOf, IsData
<1>11. PICK c : c = CursorAt(issued[s], Start(1))
  OBVIOUS
<1>12. /\ 1 \in DOMAIN issued[s] /\ c.frame = issued[s][1] /\ c.first = TRUE
       /\ c \in Cursors(Octet) /\ ~Exhausted(c) /\ Feasible(c) /\ f = Fragment(c)
       /\ Ends(c) => r = Start(1 + 1)
       /\ ~Ends(c) => r = At(1, Advance(c))
  BY <1>9, <1>10, <1>11, CarriedLink, StartFields
<1>13. Len(issued[s]) > 0 /\ Len(given[s]) = 0
  <2>1. issued[s] \in Seq(LogicalFrame) /\ Len(issued[s]) \in Nat
    BY IssuedSeq
  <2>2. DOMAIN issued[s] = 1..Len(issued[s])
    BY <2>1, LenProperties
  <2> QED BY <1>4, <1>12, <2>1, <2>2
<1>14. UNCHANGED <<requester, issued>>
  BY DEF Takes, clientVars
<1>15. CASE /\ ended' = ended \cup {s} /\ Unregister(s)
            /\ UNCHANGED <<given, requesterComplete>>
  <2>1. Only(s) /\ ~HasStream(s)' /\ given'[s] = given[s]
    BY <1>1, <1>15, TerminatedStream
  <2>2. ServerHas(s)' /\ TrailInv(s)'
    BY <1>1, <1>7, <1>14, <1>15, <2>1, GoneKeeps
  <2> QED BY <1>2, <1>7, <2>1, <2>2
<1>16. CASE /\ f.follows
            /\ requestParts' = [requestParts EXCEPT ![s] = AppendParts(NoParts(f), f)]
            /\ UNCHANGED <<registered, payloadParts, given, ended, requesterComplete>>
  <2>1. ~Whole(c)
    BY <1>12, <1>16, FragmentReads
  <2>2. PICK d, e : d = AppendParts(NoParts(f), f) /\ e = Advance(c)
    OBVIOUS
  <2>3. ~Ends(c) /\ KeptAt(d, e) /\ e.frame = c.frame
    BY <1>12, <2>1, <2>2, FirstOfSeveral
  <2>4. Only(s) /\ requestParts'[s] = d
    BY <1>1, <1>16, <2>2, RequestHeldStream
  <2>5. ServerHas(s)' /\ ServerPlace(s)' = At(1, e)
    BY <1>1, <1>4, <1>5, <1>7, <1>12, <1>13, <1>14, <1>16, <2>3, <2>4, RequestHeldKeeps
  <2> QED BY <1>2, <1>7, <1>9, <1>12, <2>2, <2>3, <2>4, <2>5
<1>17. CASE ~f.follows /\ Dispatch(f, requestParts)
  <2>1. Whole(c)
    BY <1>12, <1>17, FragmentReads, FirstOfSeveral
  <2>2. f = issued[s][1] /\ r = Start(1 + 1)
    BY <1>12, <2>1, FragmentReads
  <2>3. /\ Only(s) /\ requestParts'[s] = None /\ payloadParts'[s] = None
        /\ requesterComplete' = requesterComplete
        /\ \/ /\ given'[s] = <<f>> /\ ended' = ended
              /\ f.type = "request_channel" => registered'[s] = "channel"
           \/ given'[s] = given[s] /\ s \in ended' /\ ~HasStream(s)'
    BY <1>1, <1>5, <1>17, DispatchedStream DEF Domains
  <2>4. CASE /\ given'[s] = <<f>> /\ ended' = ended
             /\ f.type = "request_channel" => registered'[s] = "channel"
    <3>1. ServerHas(s)' /\ ServerPlace(s)' = Start(1 + 1)
      BY <1>1, <1>4, <1>7, <1>13, <1>14, <2>2, <2>3, <2>4, RequestGivenKeeps
    <3> QED BY <1>2, <1>7, <1>9, <2>2, <2>3, <3>1
  <2>5. CASE given'[s] = given[s] /\ s \in ended' /\ ~HasStream(s)'
    <3>1. ServerHas(s)' /\ TrailInv(s)'
      BY <1>1, <1>7, <1>14, <2>3, <2>5, GoneKeeps
    <3> QED BY <1>2, <1>7, <2>3, <3>1
  <2> QED BY <2>3, <2>4, <2>5
<1> QED BY <1>6, <1>15, <1>16, <1>17 DEF InitialRequest

\* The next fragment of an item or of a request.
LEMMA DataTaken ==
  ASSUME StreamInv, SendingInv, PayloadInv, NEW f, Takes(f), Handle(f),
         NEW s \in Streams, f.stream = s, f.type = "payload", Followed(s)
  PROVE  Only(s) /\ expectedId' = expectedId /\ ServerHas(s)' /\ TrailInv(s)'
<1>1. /\ ClientInv /\ OrderInv /\ ItemsInv(s) /\ ServerHas(s) /\ TrailInv(s) /\ Domains
      /\ s \in Nat /\ expectedId \in Nat
  BY ClientNumbers DEF PayloadInv, ClientInv, NumbersInv, Domains
<1>2. /\ issued[s] \in Seq(LogicalFrame) /\ Len(issued[s]) \in Nat /\ DOMAIN issued[s] = 1..Len(issued[s])
      /\ given[s] \in Seq(LogicalFrame) /\ Len(given[s]) \in Nat /\ IsPrefix(given[s], issued[s])
      /\ Len(given[s]) <= Len(issued[s])
      /\ \A i \in 1..Len(given[s]) : given[s][i] = issued[s][i]
  BY <1>1, IssuedSeq, LenProperties, PrefixItems DEF ServerHas
<1>3. DataOf(s, f) /\ f.type \notin Requests
  BY DEF DataOf, IsData, Requests
<1>4. PICK r, p, c : /\ p = ServerPlace(s) /\ c = CursorAt(issued[s], p)
                     /\ Link(s, issued[s], f, p, r)
                     /\ ServerPlace(s)' = r => TrailInv(s)'
  BY <1>1, TakesTrail
<1>5. /\ p.item \in DOMAIN issued[s] /\ c.frame = issued[s][p.item] /\ c.first = p.first
      /\ c \in Cursors(Octet) /\ ~Exhausted(c) /\ Feasible(c) /\ f = Fragment(c)
      /\ Ends(c) => r = Start(p.item + 1)
      /\ ~Ends(c) => r = At(p.item, Advance(c))
  BY <1>3, <1>4, CarriedLink
<1>6. PICK k : k = Len(given[s]) + 1
  OBVIOUS
<1>7. p.item = k /\ p.first = (requestParts[s] = None /\ payloadParts[s] = None)
  BY <1>4, <1>6, StartFields, HoldFields DEF ServerPlace
<1>8. /\ k \in 1..Len(issued[s]) /\ Len(given[s]) < Len(issued[s]) /\ Len(issued[s]) > 0
      /\ k = 1 \/ k > 1
  BY <1>2, <1>5, <1>6, <1>7
<1>9. /\ issued[s][k].stream = s
      /\ k = 1 => issued[s][k].type \in Requests
      /\ k > 1 => issued[s][k].type = "payload" /\ issued[s][1].type = "request_channel"
  BY <1>1, <1>8, Zenon DEF ItemsInv
<1>10. UNCHANGED <<requester, issued>>
  BY DEF Takes, clientVars
<1>11. s < expectedId
  <2> SUFFICES ASSUME s >= expectedId PROVE FALSE
    BY <1>1
  <2>1. ~HasStream(s) /\ given[s] = <<>>
    BY <1>1, Zenon DEF ServerHas
  <2>2. requestParts[s] = None /\ payloadParts[s] = None /\ k = 1
    BY <1>6, <2>1 DEF HasStream
  <2>3. c.first = TRUE /\ c.frame.type \in Requests
    BY <1>5, <1>7, <1>9, <2>2
  <2>4. f.type = c.frame.type
    BY <1>5, <2>3, FragmentReads DEF Kind
  <2> QED BY <1>3, <2>3, <2>4
<1>12. s \notin ended
  BY DEF Followed
<1>13. requestParts[s] = None => /\ Len(given[s]) > 0 /\ k > 1 /\ registered[s] = "channel"
                                 /\ s \notin requesterComplete
  <2> SUFFICES ASSUME requestParts[s] = None
               PROVE  /\ Len(given[s]) > 0 /\ k > 1 /\ registered[s] = "channel"
                      /\ s \notin requesterComplete
    OBVIOUS
  <2>1. Len(given[s]) > 0 /\ (given[s][1].type = "request_channel" => registered[s] = "channel")
    BY <1>1, <1>11, Zenon DEF ServerHas
  <2>2. k > 1 /\ given[s][1] = issued[s][1]
    BY <1>2, <1>6, <2>1
  <2>3. registered[s] = "channel"
    BY <1>9, <2>1, <2>2
  <2>4. s \notin requesterComplete
    <3>1. s \in requesterComplete => given[s][Len(given[s])].complete
      BY <1>1, Zenon DEF ServerHas
    <3>2. Len(given[s]) \in 1..Len(issued[s]) /\ given[s][Len(given[s])] = issued[s][Len(given[s])]
          /\ Len(given[s]) # Len(issued[s])
      BY <1>2, <1>8, <2>1
    <3>3. ~issued[s][Len(given[s])].complete
      BY <1>1, <3>2, Zenon DEF ItemsInv
    <3> QED BY <3>1, <3>2, <3>3
  <2> QED BY <2>1, <2>2, <2>3, <2>4
<1>14. HasStream(s)
  BY <1>13 DEF HasStream
<1>15. IF requestParts[s] # None THEN RequestContinuation(f) ELSE StreamPayload(f)
  <2>1. ~((f.type \in Requests) = HasStream(f.stream))
    BY <1>3, <1>14
  <2> QED BY <1>3, <2>1 DEF Handle
<1>16. ASSUME ~Whole(c), MoreFollows(f) PROVE ~Ends(c)
  BY <1>5, <1>16, FragmentReads
<1>17. CASE requestParts[s] # None
  <2>1. RequestContinuation(f) /\ expectedId' = expectedId
    BY <1>15, <1>17 DEF RequestContinuation
  <2>2. PICK d, e : d = AppendParts(requestParts[s], f) /\ e = Advance(c)
    OBVIOUS
  <2>3. /\ registered[s] = "none" /\ payloadParts[s] = None /\ Len(given[s]) = 0
        /\ Kept(requestParts[s], issued[s][1])
    BY <1>1, <1>17, Zenon DEF ServerHas
  <2>4. k = 1 /\ p = HoldPlace(1, requestParts[s])
    BY <1>4, <1>6, <1>17, <2>3 DEF ServerPlace
  <2>5. KeptAt(requestParts[s], c) /\ ~Whole(c)
    <3>1. Carried(issued[s], f, HoldPlace(1, requestParts[s]))
      BY <1>3, <1>4, <2>4, Zenon DEF Link
    <3>2. KeptAt(requestParts[s], c)
      BY <1>4, <2>3, <2>4, <3>1, CarriedFromHere
    <3> QED BY <3>2, Zenon DEF KeptAt, Whole
  <2>6. /\ ~Ends(c) => KeptAt(d, e)
        /\ e.frame = c.frame
        /\ Ends(c) => RebuildRequest(d, f) = c.frame
    <3>1. /\ ~Ends(c) => KeptAt(d, e)
          /\ e.frame = c.frame
      BY <1>5, <2>2, <2>5, LaterOfSeveral
    <3>2. c.frame.type # "payload"
      BY <1>5, <1>7, <1>9, <2>4 DEF Requests
    <3>3. Ends(c) => RebuildRequest(d, f) = c.frame
      BY <1>5, <2>2, <2>5, <3>2, LastOfSeveral
    <3> QED BY <3>1, <3>3
  <2>7. CASE /\ Terminated(s) /\ ended' = ended \cup {s}
             /\ UNCHANGED <<given, requesterComplete>>
    <3>1. Only(s) /\ ~HasStream(s)' /\ given'[s] = given[s]
      BY <1>1, <2>7, TerminatedStream DEF Terminated
    <3>2. ServerHas(s)' /\ TrailInv(s)'
      BY <1>1, <1>10, <1>11, <2>1, <2>7, <3>1, GoneKeeps
    <3> QED BY <2>1, <3>1, <3>2
  <2>8. CASE /\ MoreFollows(f) /\ requestParts' = [requestParts EXCEPT ![s] = d]
             /\ UNCHANGED <<registered, payloadParts, given, ended, requesterComplete>>
    <3>1. ~Ends(c)
      BY <1>16, <2>5, <2>8
    <3>2. Only(s) /\ requestParts'[s] = d
      BY <1>1, <2>8, RequestHeldStream
    <3>3. e.frame = issued[s][1] /\ KeptAt(d, e)
      BY <1>5, <1>7, <2>4, <2>6, <3>1
    <3>4. ServerHas(s)' /\ ServerPlace(s)' = At(1, e)
      BY <1>1, <1>8, <1>10, <1>11, <1>12, <2>1, <2>3, <2>8, <3>2, <3>3, RequestHeldKeeps
    <3> QED BY <1>4, <1>5, <1>7, <2>1, <2>2, <2>4, <3>1, <3>2, <3>4
  <2>9. CASE ~MoreFollows(f) /\ Dispatch(RebuildRequest(d, f), [requestParts EXCEPT ![s] = None])
    <3>1. Ends(c)
      BY <1>5, <2>5, <2>9, FragmentReads
    <3>2. PICK x, pa : x = RebuildRequest(d, f) /\ pa = [requestParts EXCEPT ![s] = None]
      OBVIOUS
    <3>3. x = issued[s][1] /\ x.stream = s
      BY <1>5, <1>7, <1>9, <2>4, <2>6, <3>1, <3>2
    <3>4. DOMAIN pa = Streams /\ pa[s] = None /\ \A t \in Streams : t # s => pa[t] = requestParts[t]
      BY <1>1, <3>2 DEF Domains
    <3>5. /\ Only(s) /\ requestParts'[s] = None /\ payloadParts'[s] = None
          /\ requesterComplete' = requesterComplete
          /\ \/ /\ given'[s] = <<x>> /\ ended' = ended
                /\ x.type = "request_channel" => registered'[s] = "channel"
             \/ given'[s] = given[s] /\ s \in ended' /\ ~HasStream(s)'
      BY <1>1, <2>3, <2>9, <3>2, <3>3, <3>4, DispatchedStream
    <3>6. CASE /\ given'[s] = <<x>> /\ ended' = ended
               /\ x.type = "request_channel" => registered'[s] = "channel"
      <4>1. ServerHas(s)' /\ ServerPlace(s)' = Start(1 + 1)
        BY <1>1, <1>8, <1>10, <1>11, <1>12, <2>1, <2>3, <3>3, <3>5, <3>6, RequestGivenKeeps
      <4> QED BY <1>4, <1>5, <1>7, <2>1, <2>4, <3>1, <3>5, <4>1
    <3>7. CASE given'[s] = given[s] /\ s \in ended' /\ ~HasStream(s)'
      <4>1. ServerHas(s)' /\ TrailInv(s)'
        BY <1>1, <1>10, <1>11, <2>1, <3>5, <3>7, GoneKeeps
      <4> QED BY <2>1, <3>5, <4>1
    <3> QED BY <3>5, <3>6, <3>7
  <2> QED BY <2>1, <2>2, <2>7, <2>8, <2>9 DEF RequestContinuation
<1>18. CASE requestParts[s] = None
  <2>1. StreamPayload(f) /\ Len(given[s]) > 0 /\ k > 1 /\ registered[s] = "channel" /\ s \notin requesterComplete
    BY <1>13, <1>15, <1>18
  <2>2. c.frame = issued[s][k] /\ c.frame.type = "payload" /\ s \in Nat
    BY <1>1, <1>5, <1>7, <1>9, <2>1
  <2>3. PICK b, d, e : /\ b = IF payloadParts[s] # None THEN payloadParts[s] ELSE NoParts(f)
                       /\ d = AppendParts(b, f) /\ e = Advance(c)
    OBVIOUS
  <2>4. PICK gone : gone = [payloadParts EXCEPT ![s] = None]
    OBVIOUS
  <2>5. gone[s] = None /\ DOMAIN gone = Streams /\ \A t \in Streams : t # s => gone[t] = payloadParts[t]
    BY <1>1, <2>4 DEF Domains
  <2>6. \/ ViolatesDemand(s)
        \/ payloadParts[s] = None /\ ~f.follows /\ GiveItem(s, f, payloadParts)
        \/ /\ payloadParts[s] # None \/ f.follows
           /\ MoreFollows(f) /\ payloadParts' = [payloadParts EXCEPT ![s] = d]
           /\ UNCHANGED <<expectedId, registered, requestParts, given, ended, requesterComplete>>
        \/ /\ payloadParts[s] # None \/ f.follows
           /\ ~MoreFollows(f) /\ GiveItem(s, RebuildPayload(d, f), gone)
    BY <2>1, <2>3, <2>4 DEF StreamPayload
  <2>7. ASSUME NEW x, NEW pa, x = issued[s][k], GiveItem(s, x, pa), pa[s] = None, DOMAIN pa = Streams,
               \A t \in Streams : t # s => pa[t] = payloadParts[t], Ends(c)
        PROVE  Only(s) /\ expectedId' = expectedId /\ ServerHas(s)' /\ TrailInv(s)'
    <3>1. /\ Only(s) /\ requestParts'[s] = None /\ payloadParts'[s] = None
          /\ given'[s] = Append(given[s], x) /\ expectedId' = expectedId
          /\ s \in requesterComplete' => x.complete
          /\ \/ registered'[s] = "channel" /\ s \notin ended'
             \/ registered'[s] = "none" /\ s \in ended'
      BY <1>1, <1>12, <1>18, <2>1, <2>7, GivenStream
    <3>2. ServerHas(s)' /\ ServerPlace(s)' = Start(k + 1)
      BY <1>1, <1>6, <1>8, <1>10, <1>11, <1>12, <2>1, <2>7, <3>1, ItemGivenKeeps, SMTT(30)
    <3> QED BY <1>4, <1>5, <1>7, <2>7, <3>1, <3>2
  <2>8. CASE ViolatesDemand(s)
    <3>1. /\ Unregister(s) /\ ended' = ended \cup {s} /\ UNCHANGED <<expectedId, given, requesterComplete>>
      BY <2>8 DEF ViolatesDemand, Terminated
    <3>2. Only(s) /\ ~HasStream(s)' /\ given'[s] = given[s]
      BY <1>1, <3>1, TerminatedStream
    <3>3. ServerHas(s)' /\ TrailInv(s)'
      BY <1>1, <1>10, <1>11, <3>1, <3>2, GoneKeeps
    <3> QED BY <3>1, <3>2, <3>3
  <2>9. CASE payloadParts[s] = None /\ ~f.follows /\ GiveItem(s, f, payloadParts)
    <3>1. c.first
      BY <1>5, <1>7, <1>18, <2>9
    <3>2. Whole(c)
      BY <1>5, <2>9, <3>1, FragmentReads, FirstOfSeveral
    <3>3. f = issued[s][k] /\ Ends(c)
      BY <1>5, <2>2, <3>2, FragmentReads
    <3> QED BY <1>1, <2>7, <2>9, <3>3 DEF Domains
  <2>10. ASSUME payloadParts[s] # None \/ f.follows
         PROVE  /\ ~Whole(c) /\ (~Ends(c) => KeptAt(d, e)) /\ e.frame = c.frame
                /\ Ends(c) => RebuildPayload(d, f) = c.frame
    <3>1. CASE payloadParts[s] # None
      <4>1. Kept(payloadParts[s], issued[s][k]) /\ p = HoldPlace(k, payloadParts[s])
        BY <1>1, <1>4, <1>6, <1>18, <3>1 DEF ServerHas, ServerPlace
      <4>2. Carried(issued[s], f, HoldPlace(k, payloadParts[s]))
        BY <1>3, <1>4, <4>1, Zenon DEF Link
      <4>3. KeptAt(payloadParts[s], c)
        BY <1>4, <4>1, <4>2, CarriedFromHere
      <4>4. ~Whole(c) /\ d = AppendParts(payloadParts[s], f)
        BY <2>3, <3>1, <4>3, Zenon DEF KeptAt, Whole
      <4>5. (~Ends(c) => KeptAt(d, e)) /\ e.frame = c.frame
        BY <1>5, <2>3, <4>3, <4>4, LaterOfSeveral
      <4>6. Ends(c) => RebuildPayload(d, f) = c.frame
        BY <1>5, <2>2, <4>3, <4>4, LastOfSeveral
      <4> QED BY <4>4, <4>5, <4>6
    <3>2. CASE payloadParts[s] = None
      <4>1. c.first /\ d = AppendParts(NoParts(f), f) /\ f.follows
        BY <1>5, <1>7, <1>18, <2>3, <2>10, <3>2
      <4>2. ~Whole(c)
        BY <1>5, <4>1, FragmentReads
      <4>3. ~Ends(c) /\ KeptAt(d, e) /\ e.frame = c.frame
        BY <1>5, <2>3, <4>1, <4>2, FirstOfSeveral
      <4> QED BY <4>2, <4>3
    <3> QED BY <3>1, <3>2
  <2>11. CASE /\ payloadParts[s] # None \/ f.follows
              /\ MoreFollows(f) /\ payloadParts' = [payloadParts EXCEPT ![s] = d]
              /\ UNCHANGED <<expectedId, registered, requestParts, given, ended, requesterComplete>>
    <3>1. ~Ends(c) /\ KeptAt(d, e) /\ e.frame = issued[s][k]
      BY <1>16, <2>2, <2>10, <2>11
    <3>2. Only(s) /\ payloadParts'[s] = d
      BY <1>1, <2>11, PayloadHeldStream
    <3>3. ServerHas(s)' /\ ServerPlace(s)' = At(k, e)
      BY <1>1, <1>6, <1>8, <1>10, <1>11, <1>12, <1>18, <2>1, <2>11, <3>1, <3>2, ItemHeldKeeps
    <3> QED BY <1>4, <1>5, <1>7, <2>3, <2>11, <3>1, <3>2, <3>3
  <2>12. CASE /\ payloadParts[s] # None \/ f.follows
              /\ ~MoreFollows(f) /\ GiveItem(s, RebuildPayload(d, f), gone)
    <3>1. Ends(c)
      BY <1>5, <2>10, <2>12, FragmentReads
    <3>2. RebuildPayload(d, f) = issued[s][k]
      BY <2>2, <2>10, <2>12, <3>1
    <3> QED BY <2>5, <2>7, <2>12, <3>1, <3>2
  <2> QED BY <2>6, <2>8, <2>9, <2>11, <2>12
<1> QED BY <1>17, <1>18

\* CANCEL and ERROR end what the requester has given up.
LEMMA ControlTaken ==
  ASSUME StreamInv, SendingInv, PayloadInv, NEW f, Takes(f), Handle(f),
         NEW s \in Streams, f.stream = s, ~IsData(f), requester[s] = "closed"
  PROVE  Only(s) /\ expectedId' = expectedId /\ ServerHas(s)' /\ TrailInv(s)'
<1>1. /\ ServerHas(s) /\ TrailInv(s) /\ Domains /\ s \in Nat /\ expectedId \in Nat
  BY ClientNumbers DEF PayloadInv, ClientInv, NumbersInv, Domains
<1>2. f.type \notin Requests /\ f.type # "payload"
  BY DEF IsData
<1>3. UNCHANGED <<requester, issued>>
  BY DEF Takes, clientVars
<1>4. CASE HasStream(s)
  <2>1. HandleCancel(s)
    <3>1. ~((f.type \in Requests) = HasStream(f.stream))
      BY <1>2, <1>4
    <3> QED BY <1>2, <3>1 DEF Handle
  <2>2. /\ Unregister(s) /\ UNCHANGED <<expectedId, given, ended, requesterComplete>>
    BY <2>1 DEF HandleCancel, Terminated
  <2>3. Only(s) /\ ~HasStream(s)' /\ given'[s] = given[s]
    BY <1>1, <2>2, TerminatedStream
  <2>4. s < expectedId'
    <3>1. ~(s >= expectedId)
      BY <1>1, <1>4, Zenon DEF ServerHas
    <3> QED BY <1>1, <2>2, <3>1
  <2>5. ServerHas(s)' /\ TrailInv(s)'
    BY <1>1, <1>3, <2>2, <2>3, <2>4, GoneKeeps
  <2> QED BY <2>2, <2>3, <2>5
<1>5. CASE ~HasStream(s)
  <2>1. Ignore
    <3>1. (f.type \in Requests) = HasStream(f.stream)
      BY <1>2, <1>5 DEF HasStream
    <3> QED BY <3>1 DEF Handle
  <2>2. UNCHANGED <<expectedId, registered, requestParts, payloadParts, given, requesterComplete, ended>>
    BY <2>1 DEF Ignore, serverVars
  <2>3. Domains' /\ \A t \in Streams : Stays(t)
    BY <1>1, <2>2 DEF Domains, Stays
  <2>4. ServerHas(s)' /\ ServerPlace(s)' = ServerPlace(s) /\ (Followed(s)' => Followed(s))
    BY <1>1, <1>3, <2>2, <2>3, StaysKeeps
  <2>5. ASSUME Followed(s)' PROVE TrailInv(s)'
    <3>1. PICK r : /\ Link(s, issued[s], f, ServerPlace(s), r)
                   /\ ServerPlace(s)' = r => TrailInv(s)'
      BY <1>1, <2>4, <2>5, TakesTrail
    <3>2. r = ServerPlace(s)
      BY <3>1, Zenon DEF Link, DataOf
    <3> QED BY <2>4, <3>1, <3>2
  <2>6. TrailInv(s)'
    BY <2>5 DEF TrailInv
  <2> QED BY <2>2, <2>3, <2>4, <2>6 DEF Only
<1> QED BY <1>4, <1>5

\* Frames of a stream that is over are ignored.
LEMMA LateTaken ==
  ASSUME PayloadInv, SendingInv, NEW f, Takes(f), Handle(f),
         NEW s \in Streams, f.stream = s, f.type \notin Requests, ~Followed(s)
  PROVE  Only(s) /\ expectedId' = expectedId /\ ServerHas(s)' /\ TrailInv(s)'
<1>1. /\ ServerHas(s) /\ Domains /\ s \in Nat /\ expectedId \in Nat
  BY ClientNumbers DEF PayloadInv, ClientInv, NumbersInv, Domains
<1>2. ~HasStream(s)
  BY <1>1, Zenon DEF ServerHas, Followed
<1>3. Ignore
  <2>1. (f.type \in Requests) = HasStream(f.stream)
    BY <1>2 DEF HasStream
  <2> QED BY <2>1 DEF Handle
<1>4. UNCHANGED <<expectedId, registered, requestParts, payloadParts, given, requesterComplete, ended>>
  BY <1>3 DEF Ignore, serverVars
<1>5. Domains' /\ \A t \in Streams : Stays(t)
  BY <1>1, <1>4 DEF Domains, Stays
<1>6. UNCHANGED <<requester, issued>>
  BY DEF Takes, clientVars
<1>7. ServerHas(s)' /\ (Followed(s)' => Followed(s))
  BY <1>1, <1>4, <1>5, <1>6, StaysKeeps
<1> QED BY <1>4, <1>5, <1>7 DEF Only, TrailInv

\* The requester does not notice a step of the server.
LEMMA ClientStays ==
  ASSUME ClientInv, UNCHANGED clientVars, wire' = wire, Domains', expectedId' \in Odd, expectedId' <= SentId
  PROVE  ClientInv' /\ SentId' = SentId
<1>1. UNCHANGED <<sending, nextId, requester, outboundDone, issued>>
  BY DEF clientVars
<1>2. SentId' = SentId
  BY <1>1 DEF SentId
<1>3. NumbersInv'
  BY <1>1, <1>2 DEF ClientInv, NumbersInv, Domains
<1>4. WireInv'
  BY <1>1, <1>2, Zenon DEF ClientInv, WireInv
<1>5. \A c, s, i : DataLoop(c, s, i) => DataLoop(c, s, i)'
  BY <1>1, Zenon DEF DataLoop
<1>6. \A i : LoopInv(i) => LoopInv(i)'
  BY <1>1, <1>2, <1>5, Zenon DEF LoopInv
<1>7. StackInv'
  BY <1>1, <1>6, Zenon DEF ClientInv, StackInv
<1>8. \A s \in Streams : ItemsInv(s)'
  BY <1>1, Zenon DEF ClientInv, ItemsInv
<1> QED BY <1>2, <1>3, <1>4, <1>7, <1>8 DEF ClientInv

LEMMA HandleKeeps ==
  ASSUME StreamInv, SendingInv, PayloadInv, NEW f, Takes(f), Handle(f)
  PROVE  PayloadInv'
<1>1. ClientInv /\ OrderInv /\ WireInv /\ expectedId \in Odd /\ expectedId <= SentId
  BY DEF PayloadInv, ClientInv, NumbersInv
<1>2. /\ Len(wire) \in Nat /\ Len(delivered) \in Nat /\ Len(delivered) < Len(wire)
      /\ f = wire[Len(delivered) + 1] /\ Len(delivered) + 1 \in 1..Len(wire)
  BY DeliveredNumbers DEF StreamInv, DeliveredInv, Takes
<1>3. PICK s : s = f.stream
  OBVIOUS
<1>4. s \in Streams /\ s < SentId /\ (~IsData(f) => requester[s] = "closed")
  BY <1>1, <1>2, <1>3, Zenon DEF WireInv
<1>5. s \in Odd /\ s \in Nat /\ SentId \in Odd /\ expectedId \in Nat /\ SentId \in Nat
  BY <1>1, <1>4, OddStreams, SentOdd
<1>6. /\ Only(s) /\ ServerHas(s)' /\ TrailInv(s)'
      /\ f.type \in Requests => expectedId = s /\ expectedId' = s + 2
      /\ f.type \notin Requests => expectedId' = expectedId
  <2>1. CASE f.type \in Requests
    BY <1>3, <1>4, <2>1, RequestTaken
  <2>2. CASE f.type \notin Requests /\ ~Followed(s)
    BY <1>3, <1>4, <2>2, LateTaken
  <2>3. CASE f.type \notin Requests /\ Followed(s) /\ IsData(f)
    <3>1. f.type = "payload"
      BY <2>3 DEF IsData
    <3> QED BY <1>3, <1>4, <2>3, <3>1, DataTaken
  <2>4. CASE ~IsData(f)
    <3>1. f.type \notin Requests
      BY <2>4 DEF IsData
    <3> QED BY <1>3, <1>4, <2>4, <3>1, ControlTaken
  <2> QED BY <2>1, <2>2, <2>3, <2>4
<1>7. expectedId' \in Odd /\ expectedId' <= SentId /\ expectedId' \in Nat
  <2>1. s + 2 \in Odd /\ s + 2 <= SentId
    BY <1>4, <1>5, OddStreams
  <2> QED BY <1>1, <1>5, <1>6, <2>1
<1>8. /\ wire' = wire /\ Len(delivered') = Len(delivered) + 1 /\ UNCHANGED clientVars
      /\ UNCHANGED <<requester, issued>>
  BY DEF Takes, clientVars
<1>9. ClientInv' /\ SentId' = SentId
  BY <1>1, <1>6, <1>7, <1>8, ClientStays DEF Only
<1>10. OrderInv'
  <2>1. PICK r : IdLink(f, expectedId, r) /\ IdTrail(wire, Len(delivered) + 1, r, SentId)
    BY <1>1, <1>2, IdTrailNext DEF OrderInv
  <2>2. r = expectedId'
    BY <1>6, <2>1 DEF IdLink
  <2> QED BY <1>8, <1>9, <2>1, <2>2, Zenon DEF OrderInv
<1>11. ASSUME NEW t \in Streams, t # s PROVE ServerHas(t)' /\ TrailInv(t)'
  <2>1. ServerHas(t) /\ TrailInv(t) /\ Stays(t)
    BY <1>6, <1>11 DEF PayloadInv, Only
  <2>2. t < expectedId' <=> t < expectedId
    <3>1. t \in Odd /\ t \in Nat
      BY OddStreams
    <3>2. s < t => s + 2 <= t
      BY <1>5, <3>1, OddStreams
    <3> QED BY <1>5, <1>6, <1>11, <3>1, <3>2
  <2>3. ServerHas(t)' /\ ServerPlace(t)' = ServerPlace(t) /\ (Followed(t)' => Followed(t))
    BY <1>5, <1>7, <1>8, <2>1, <2>2, StaysKeeps
  <2>4. ASSUME Followed(t)' PROVE TrailInv(t)'
    <3>1. PICK r : /\ Link(t, issued[t], f, ServerPlace(t), r)
                   /\ ServerPlace(t)' = r => TrailInv(t)'
      BY <2>1, <2>3, <2>4, TakesTrail
    <3>2. r = ServerPlace(t)
      BY <1>3, <1>11, <3>1, Zenon DEF Link, DataOf
    <3> QED BY <2>3, <3>1, <3>2
  <2> QED BY <2>3, <2>4 DEF TrailInv
<1> QED BY <1>6, <1>9, <1>10, <1>11 DEF PayloadInv

----------------------------------------------------------------------------
(* Steps without a frame.                                                  *)

LEMMA QuietKeeps ==
  ASSUME SendingInv, PayloadInv, UNCHANGED clientVars, UNCHANGED <<wire, delivered>>,
         expectedId' = expectedId, Domains',
         \A t \in Streams : Stays(t) \/ (ServerHas(t)' /\ TrailInv(t)')
  PROVE  PayloadInv'
<1>1. ClientInv /\ OrderInv /\ expectedId \in Odd /\ expectedId <= SentId /\ expectedId \in Nat
  BY OddStreams DEF PayloadInv, ClientInv, NumbersInv
<1>2. UNCHANGED <<wire, delivered>> /\ UNCHANGED <<sending, nextId, requester, outboundDone, issued>>
  BY DEF clientVars
<1>3. ClientInv' /\ SentId' = SentId
  BY <1>1, <1>2, ClientStays
<1>4. OrderInv'
  BY <1>1, <1>2, <1>3, Zenon DEF OrderInv
<1>5. ASSUME NEW t \in Streams, Stays(t) PROVE ServerHas(t)' /\ TrailInv(t)'
  <2>1. ServerHas(t) /\ TrailInv(t)
    BY DEF PayloadInv
  <2>2. ServerHas(t)' /\ ServerPlace(t)' = ServerPlace(t) /\ (Followed(t)' => Followed(t))
    BY <1>1, <1>2, <1>5, <2>1, StaysKeeps
  <2>3. ASSUME Followed(t)' PROVE TrailInv(t)'
    <3>1. PICK q : ClientPlace(t, q) /\ Trail(t, issued[t], wire, Len(delivered), ServerPlace(t), q)
      BY <2>1, <2>2, <2>3, Zenon DEF TrailInv
    <3>2. ClientPlace(t, q)'
      BY <1>2, <3>1, Zenon DEF ClientPlace
    <3> QED BY <1>2, <2>2, <3>1, <3>2, Zenon DEF TrailInv
  <2> QED BY <2>2, <2>3 DEF TrailInv
<1> QED BY <1>3, <1>4, <1>5 DEF PayloadInv

LEMMA ControllerKeeps ==
  ASSUME SendingInv, PayloadInv, NEW s \in Streams, Grant(s) \/ Respond(s) \/ ControllerFails(s)
  PROVE  PayloadInv'
<1>1. /\ ServerHas(s) /\ Domains /\ s \in Nat /\ expectedId \in Nat
  BY ClientNumbers DEF PayloadInv, ClientInv, NumbersInv, Domains
<1>2. UNCHANGED clientVars /\ UNCHANGED <<wire, delivered>> /\ expectedId' = expectedId
  BY DEF Grant, Respond, ControllerFails, streamVars
<1>3. ASSUME UNCHANGED <<registered, requestParts, payloadParts, given, requesterComplete, ended>>
      PROVE  PayloadInv'
  <2>1. Domains' /\ \A t \in Streams : Stays(t)
    BY <1>1, <1>3 DEF Domains, Stays
  <2> QED BY <1>2, <2>1, QuietKeeps
<1>4. ASSUME Unregister(s), ended' = ended \cup {s}, UNCHANGED <<given, requesterComplete>>,
             registered[s] # "none"
      PROVE  PayloadInv'
  <2>1. Only(s) /\ ~HasStream(s)' /\ given'[s] = given[s]
    BY <1>1, <1>4, TerminatedStream
  <2>2. s < expectedId'
    <3>1. HasStream(s)
      BY <1>4 DEF HasStream
    <3>2. ~(s >= expectedId)
      BY <1>1, <3>1, Zenon DEF ServerHas
    <3> QED BY <1>1, <1>2, <3>2
  <2>3. ServerHas(s)' /\ TrailInv(s)'
    BY <1>1, <1>2, <1>4, <2>1, <2>2, GoneKeeps DEF clientVars
  <2> QED BY <1>2, <2>1, <2>3, QuietKeeps DEF Only
<1>5. CASE Grant(s)
  BY <1>3, <1>5 DEF Grant
<1>6. CASE Respond(s)
  BY <1>3, <1>4, <1>6 DEF Respond
<1>7. CASE ControllerFails(s)
  BY <1>4, <1>7 DEF ControllerFails, Terminated
<1> QED BY <1>5, <1>6, <1>7

\* An event of the transport hands over one frame or none.
LEMMA ReceiveDelivers ==
  ASSUME Receive
  PROVE  wire' = wire /\ (delivered' = delivered \/ \E x : delivered' = Append(delivered, x))
<1>1. ASSUME NEW to, OnData(to) PROVE wire' = wire /\ delivered' = delivered
  BY <1>1 DEF OnData
<1>2. CASE Decode
  BY <1>2 DEF Decode
<1>3. CASE OnEnd
  BY <1>3 DEF OnEnd
<1>4. ASSUME NEW b, OnMessage(b)
      PROVE  wire' = wire /\ (delivered' = delivered \/ \E x : delivered' = Append(delivered, x))
  BY <1>4 DEF OnMessage
<1>5. ASSUME NEW n, BlobSettles(n) PROVE wire' = wire /\ delivered' = delivered
  BY <1>5 DEF BlobSettles
<1>6. CASE MessageHandled
  BY <1>6 DEF MessageHandled
<1>7. CASE RunTask
  BY <1>7 DEF RunTask
<1>8. CASE TaskDone
  BY <1>8 DEF TaskDone
<1>9. CASE Cancel
  BY <1>9 DEF Cancel
<1> QED BY <1>1, <1>2, <1>3, <1>4, <1>5, <1>6, <1>7, <1>8, <1>9 DEF Receive

LEMMA ReceptionKeeps ==
  ASSUME StreamInv, SendingInv, PayloadInv, ReceiveFrames
  PROVE  PayloadInv'
<1>1. /\ Receive /\ UNCHANGED clientVars /\ wire' = wire /\ StreamInv'
      /\ IF Len(delivered') > Len(delivered) THEN Handle(Last(delivered')) ELSE Ignore
  BY ReceiveDelivers, ReceiveKeeps DEF ReceiveFrames
<1>2. /\ delivered \in Seq(SizedFrame) /\ Len(delivered) \in Nat
      /\ Len(delivered') <= Len(wire') /\ \A i \in 1..Len(delivered') : delivered'[i] = wire'[i]
  BY <1>1, LenProperties DEF StreamInv, DeliveredInv
<1>3. CASE delivered' = delivered
  <2>1. Ignore
    BY <1>1, <1>2, <1>3
  <2>2. /\ UNCHANGED <<expectedId, registered, requestParts, payloadParts, given, requesterComplete, ended>>
    BY <2>1 DEF Ignore, serverVars
  <2>3. Domains' /\ \A t \in Streams : Stays(t)
    BY <2>2 DEF Domains, Stays, PayloadInv, ClientInv, NumbersInv
  <2> QED BY <1>1, <1>3, <2>2, <2>3, QuietKeeps
<1>4. ASSUME NEW x, delivered' = Append(delivered, x) PROVE PayloadInv'
  <2>1. Len(delivered') = Len(delivered) + 1
    BY <1>2, <1>4, AppendProperties
  <2>2. PICK f : f = Last(delivered')
    OBVIOUS
  <2>3. /\ Handle(f) /\ f = wire[Len(delivered) + 1] /\ Len(delivered) < Len(wire)
    <3>1. Len(delivered') \in 1..Len(delivered') /\ Len(delivered') > Len(delivered)
      BY <1>2, <2>1
    <3>2. f = delivered'[Len(delivered')]
      BY <2>2 DEF Last
    <3>3. f = wire[Len(delivered')] /\ Len(delivered') <= Len(wire)
      BY <1>1, <1>2, <3>1, <3>2
    <3> QED BY <1>1, <1>2, <2>1, <2>2, <3>1, <3>3
  <2> QED BY <1>1, <2>1, <2>3, HandleKeeps DEF Takes
<1> QED BY <1>1, <1>3, <1>4, ReceiveDelivers

LEMMA PayloadInitEstablishes == Init => PayloadInv
<1> SUFFICES ASSUME Init PROVE PayloadInv
  OBVIOUS
<1>1. /\ sending = <<>> /\ nextId = 1 /\ expectedId = 1 /\ wire = <<>> /\ delivered = <<>>
      /\ outboundDone = {} /\ requesterComplete = {} /\ ended = {}
      /\ requester = [s \in Streams |-> "unused"] /\ issued = [s \in Streams |-> <<>>]
      /\ registered = [s \in Streams |-> "none"] /\ requestParts = [s \in Streams |-> None]
      /\ payloadParts = [s \in Streams |-> None] /\ given = [s \in Streams |-> <<>>]
  BY DEF Init, StreamInit
<1>2. Len(sending) = 0 /\ Len(wire) = 0 /\ Len(delivered) = 0
  BY <1>1
<1>3. SentId = 1
  BY <1>1 DEF SentId
<1>4. 1 \in Odd
  <2>1. 0 \in Nat /\ 1 = 2 * 0 + 1
    OBVIOUS
  <2> QED BY <2>1 DEF Odd
<1>5. NumbersInv
  BY <1>1, <1>3, <1>4 DEF NumbersInv
<1>6. StackInv /\ WireInv
  BY <1>2 DEF StackInv, WireInv
<1>7. OrderInv
  <2> DEFINE P == [k \in 0..0 |-> 1]
  <2>1. P[0] = 1 /\ \A k \in 1..0 : FALSE
    OBVIOUS
  <2> HIDE DEF P
  <2>2. IdTrail(wire, 0, 1, 1)
    BY <1>2, <2>1 DEF IdTrail
  <2> QED BY <1>1, <1>2, <1>3, <2>2 DEF OrderInv
<1>8. ASSUME NEW s \in Streams PROVE ItemsInv(s) /\ ServerHas(s) /\ TrailInv(s)
  <2>1. /\ requester[s] = "unused" /\ issued[s] = <<>> /\ registered[s] = "none"
        /\ requestParts[s] = None /\ payloadParts[s] = None /\ given[s] = <<>>
    BY <1>1
  <2>2. Len(<<>>) = 0 /\ IsPrefix(<<>>, <<>>) /\ <<>> \in Seq(LogicalFrame)
    BY DEF IsPrefix
  <2>3. ItemsInv(s)
    BY <2>1, <2>2 DEF ItemsInv
  <2>4. s >= expectedId /\ ~(s < expectedId)
    <3>1. s \in Odd
      BY OddStreams
    <3> QED BY <1>1, <3>1 DEF Odd
  <2>5. ServerHas(s)
    BY <1>1, <2>1, <2>2, <2>4, Zenon DEF ServerHas, HasStream
  <2>6. ServerPlace(s) = Start(1)
    BY <2>1 DEF ServerPlace
  <2>7. ClientPlace(s, Start(1))
    <3>1. Len(issued[s]) + 1 = 1 /\ \A i \in 1..Len(sending) : FALSE
      BY <1>2, <2>1
    <3> QED BY <3>1, Zenon DEF ClientPlace
  <2>8. Trail(s, issued[s], wire, 0, Start(1), Start(1))
    <3>1. Len(wire) \in Nat /\ 0 <= Len(wire) /\ \A k \in (0 + 1)..Len(wire) : FALSE
      BY <1>2
    <3> QED BY <3>1, TrailFree
  <2>9. TrailInv(s)
    BY <1>2, <2>6, <2>7, <2>8 DEF TrailInv
  <2> QED BY <2>3, <2>5, <2>9
<1> QED BY <1>5, <1>6, <1>7, <1>8 DEF PayloadInv, ClientInv

LEMMA PayloadInductive == Spec => [](FramedInv /\ PayloadInv)
<1>1. Init => PayloadInv
  BY PayloadInitEstablishes
<1>2. FramedInv /\ PayloadInv /\ [Next]_vars => PayloadInv'
  <2> SUFFICES ASSUME FramedInv, PayloadInv, [Next]_vars PROVE PayloadInv'
    OBVIOUS
  <2>0. StreamInv /\ SendingInv
    BY DEF FramedInv
  <2>1. CASE ClientStep
    BY <2>0, <2>1, ClientKeepsPayloads
  <2>2. CASE ControllerStep
    BY <2>0, <2>2, ControllerKeeps DEF ControllerStep
  <2>3. CASE ReceiveFrames
    BY <2>0, <2>3, ReceptionKeeps
  <2>4. CASE UNCHANGED vars
    <3>1. /\ UNCHANGED clientVars /\ UNCHANGED <<wire, delivered>>
          /\ UNCHANGED <<expectedId, registered, requestParts, payloadParts, given, requesterComplete, ended>>
      BY <2>4 DEF vars, serverVars, streamVars
    <3>2. Domains' /\ \A t \in Streams : Stays(t)
      BY <3>1 DEF Domains, Stays, PayloadInv, ClientInv, NumbersInv
    <3> QED BY <2>0, <3>1, <3>2, QuietKeeps
  <2> QED BY <2>1, <2>2, <2>3, <2>4 DEF Next
<1> QED BY <1>1, <1>2, FramedInductive, PTL DEF Spec

LEMMA PayloadInvWhole ==
  ASSUME StreamInv, SendingInv, PayloadInv
  PROVE  PayloadsArriveWhole
<1> SUFFICES ASSUME NEW s \in Streams
             PROVE  /\ IsPrefix(given[s], issued[s])
                    /\ payloadParts[s] # None => registered[s] = "channel" /\ s \notin requesterComplete
                    /\ \A held \in {requestParts[s], payloadParts[s]} \ {None} :
                         /\ Len(given[s]) < Len(issued[s])
                         /\ LET f == issued[s][Len(given[s]) + 1]
                            IN  /\ IsPrefix(held.metadata, f.metadata) /\ IsPrefix(held.data, f.data)
                                /\ Len(held.metadata) + Len(held.data) < Len(f.metadata) + Len(f.data)
                    /\ (Settled /\ requester[s] # "closed" /\ s \notin ended) =>
                         given[s] = issued[s] /\ requestParts[s] = None /\ payloadParts[s] = None
  BY Zenon DEF PayloadsArriveWhole
<1>1. ServerHas(s) /\ TrailInv(s)
  BY DEF PayloadInv
<1>2. /\ issued[s] \in Seq(LogicalFrame) /\ Len(issued[s]) \in Nat
      /\ given[s] \in Seq(LogicalFrame) /\ Len(given[s]) \in Nat /\ IsPrefix(given[s], issued[s])
      /\ Len(given[s]) = Len(issued[s]) => given[s] = issued[s]
  BY <1>1, IssuedSeq, LenProperties, PrefixItems DEF ServerHas
<1>3. payloadParts[s] # None => registered[s] = "channel" /\ s \notin requesterComplete
  BY <1>1, Zenon DEF ServerHas
<1>4. ASSUME NEW held \in {requestParts[s], payloadParts[s]} \ {None}
      PROVE  /\ Len(given[s]) < Len(issued[s])
             /\ LET f == issued[s][Len(given[s]) + 1]
                IN  /\ IsPrefix(held.metadata, f.metadata) /\ IsPrefix(held.data, f.data)
                    /\ Len(held.metadata) + Len(held.data) < Len(f.metadata) + Len(f.data)
  <2>1. Len(given[s]) < Len(issued[s]) /\ Kept(held, issued[s][Len(given[s]) + 1])
    <3>1. CASE held = requestParts[s]
      <4>1. Len(given[s]) = 0 /\ Len(issued[s]) > 0 /\ Kept(held, issued[s][1])
        BY <1>1, <1>4, <3>1, Zenon DEF ServerHas
      <4>2. Len(given[s]) + 1 = 1
        BY <4>1
      <4> QED BY <4>1, <4>2
    <3>2. CASE held = payloadParts[s]
      BY <1>1, <1>4, <3>2, Zenon DEF ServerHas
    <3> QED BY <1>4, <3>1, <3>2
  <2>2. PICK c : c.frame = issued[s][Len(given[s]) + 1] /\ KeptAt(held, c)
    BY <2>1, Zenon DEF Kept
  <2>3. /\ IsPrefix(held.metadata, c.frame.metadata) /\ IsPrefix(held.data, c.frame.data)
        /\ Len(held.metadata) + Len(held.data) < Len(c.frame.metadata) + Len(c.frame.data)
    BY <2>2, KeptAtPlace
  <2> QED BY <2>1, <2>2, <2>3
<1>5. ASSUME Settled, requester[s] # "closed", s \notin ended
      PROVE  given[s] = issued[s] /\ requestParts[s] = None /\ payloadParts[s] = None
  <2>1. sending = <<>> /\ Len(delivered) = Len(wire)
    BY <1>5 DEF Settled, Idle
  <2>2. Followed(s)
    BY <1>5 DEF Followed
  <2>3. PICK q : /\ ClientPlace(s, q)
                 /\ Trail(s, issued[s], wire, Len(delivered), ServerPlace(s), q)
    BY <1>1, <2>2, Zenon DEF TrailInv
  <2>4. ServerPlace(s) = q
    BY <2>1, <2>3, TrailEnds
  <2>5. q = Start(Len(issued[s]) + 1)
    <3>1. \A i \in 1..Len(sending) : FALSE
      BY <2>1
    <3> QED BY <2>3, <3>1, Zenon DEF ClientPlace
  <2>6. ServerPlace(s).item = Len(issued[s]) + 1 /\ ServerPlace(s).first = TRUE
    BY <2>4, <2>5, StartFields
  <2>7. requestParts[s] = None /\ payloadParts[s] = None
    BY <2>6, HoldFields DEF ServerPlace
  <2>8. Len(given[s]) + 1 = Len(issued[s]) + 1
    BY <2>6, <2>7, StartFields DEF ServerPlace
  <2> QED BY <1>2, <2>7, <2>8
<1> QED BY <1>2, <1>3, <1>4, <1>5

\* Whatever the payloads, their fragmentation, the number of streams and what comes between two
\* fragments of one of them, the handlers of the server session give a controller the requests
\* and items of a stream as they were sent, in order and with their own bytes and flags; they
\* retain the beginning of the next one at most; and with nothing on the way everything was
\* given, unless one of the sides gave the stream up.
THEOREM PayloadsArriveWholeAlways == Spec => []PayloadsArriveWhole
<1>1. FramedInv /\ PayloadInv => PayloadsArriveWhole
  BY PayloadInvWhole DEF FramedInv
<1> QED BY <1>1, PayloadInductive, PTL
===============================================================================

---------------------------- MODULE AlgorithmProofs ----------------------------
(***************************************************************************)
(* The algorithms that every session rests on: the frame codec, the binary *)
(* search of the replay buffer, the asynchronous queue and its pull        *)
(* iterable.                                                               *)
(*                                                                         *)
(* Every frame a constructor makes is read back as it was written, and the *)
(* length announced before it is written is the length it has.  The        *)
(* writer's concatenations are peeled from the front, one word or          *)
(* length-prefixed field at a time, the way the reader consumes them.      *)
(*                                                                         *)
(* The binary search of positionIndex is correct for arrays of every       *)
(* length: its interval never loses the boundary that is looked for.       *)
(*                                                                         *)
(* The queue, for pushes, reads, ends and returns in any order and number: *)
(* every read gets its value or the end, once and in order.  The iterable, *)
(* for any publisher and any consumer: one credit per read, the queue      *)
(* holds no value, demand is exact, the end releases all.                  *)
(***************************************************************************)
EXTENDS FrameCodec, PositionSearch, PullIterable, SequenceTheorems, TLAPS

----------------------------------------------------------------------------
(* Sequences of octets.                                                    *)

Cells == Nat \cup Octets     \* what an octet of the wire holds

\* A concatenation gives back its two parts.
LEMMA Peel ==
  ASSUME NEW a \in Seq(Cells), NEW b \in Seq(Cells)
  PROVE  /\ a \o b \in Seq(Cells)
         /\ Len(a \o b) = Len(a) + Len(b)
         /\ View(a \o b, Len(a)) = a
         /\ Rest(a \o b, Len(a)) = b
         /\ Len(a) > 0 => Number(a \o b) = Number(a)
<1> DEFINE w == a \o b
<1>1. /\ w \in Seq(Cells)
      /\ Len(w) = Len(a) + Len(b)
      /\ \A i \in 1 .. Len(a) : w[i] = a[i]
      /\ \A i \in 1 .. Len(b) : w[Len(a) + i] = b[i]
  OBVIOUS
<1>2. View(w, Len(a)) = a
  <2>1. View(w, Len(a)) \in Seq(Cells) /\ Len(View(w, Len(a))) = Len(a)
    BY <1>1 DEF View
  <2>2. \A i \in 1 .. Len(a) : View(w, Len(a))[i] = a[i]
    BY <1>1 DEF View
  <2> QED BY <2>1, <2>2, SeqEqual
<1>3. Rest(w, Len(a)) = b
  <2>1. Rest(w, Len(a)) \in Seq(Cells) /\ Len(Rest(w, Len(a))) = Len(b)
    BY <1>1 DEF Rest
  <2>2. \A i \in 1 .. Len(b) : Rest(w, Len(a))[i] = b[i]
    BY <1>1 DEF Rest
  <2> QED BY <2>1, <2>2, SeqEqual
<1> QED BY <1>1, <1>2, <1>3 DEF Number

\* Concatenation associates.
LEMMA Associates ==
  ASSUME NEW a \in Seq(Cells), NEW b \in Seq(Cells), NEW c \in Seq(Cells)
  PROVE  (a \o b) \o c = a \o (b \o c)
OBVIOUS

\* A sequence of opaque octets is a sequence of cells, and so is nothing.
LEMMA OpaqueIsCells ==
  ASSUME NEW b \in Seq(Octets)
  PROVE  b \in Seq(Cells)
BY DEF Cells

\* A number of k octets: its length, and its value in the first octet.
LEMMA Words ==
  ASSUME NEW k \in Nat \ {0}, NEW n \in Nat
  PROVE  Word(k, n) \in Seq(Cells) /\ Len(Word(k, n)) = k /\ Number(Word(k, n)) = n
BY DEF Word, Cells, Number

\* Numbers that fit their field are written as they are.
LEMMA Numbers ==
  ASSUME MaxUint32 \in Nat, MaxUint63 \in Nat
  PROVE  /\ \A n \in Uint8 : n \in Nat /\ I8(n) = Word(1, n)
         /\ \A n \in Uint16 : n \in Nat /\ I16(n) = Word(2, n)
         /\ \A n \in Uint31 : n \in Nat
         /\ \A n \in Positive31 : n \in Nat
         /\ \A n \in Uint32 : n \in Nat
         /\ \A n \in Uint63 : n \in Nat
         /\ 1 \in Nat \ {0} /\ 2 \in Nat \ {0} /\ 4 \in Nat \ {0} /\ 8 \in Nat \ {0}
<1>1. \A n \in Uint8 : n \in Nat /\ I8(n) = Word(1, n)
  BY DEF Uint8, I8
<1>2. \A n \in Uint16 : n \in Nat /\ I16(n) = Word(2, n)
  BY SMTT(30) DEF Uint16, I16
<1>3. MaxUint31 \in Nat
  BY DEF MaxUint31
<1>4. \A n \in Uint31 : n \in Nat
  BY <1>3 DEF Uint31
<1>5. \A n \in Positive31 : n \in Nat
  BY <1>3 DEF Positive31
<1>6. \A n \in Uint32 : n \in Nat
  BY DEF Uint32
<1>7. \A n \in Uint63 : n \in Nat
  BY DEF Uint63
<1>8. 1 \in Nat \ {0} /\ 2 \in Nat \ {0} /\ 4 \in Nat \ {0} /\ 8 \in Nat \ {0}
  OBVIOUS
<1> QED BY <1>1, <1>2, <1>4, <1>5, <1>6, <1>7, <1>8

\* Reading a number leaves what was written after it.
LEMMA ReadWord ==
  ASSUME NEW k \in Nat \ {0}, NEW n \in Nat, NEW tail \in Seq(Cells)
  PROVE  LET w == Word(k, n) \o tail
         IN  /\ w \in Seq(Cells)
             /\ Len(w) = k + Len(tail)
             /\ Number(w) = n
             /\ Rest(w, k) = tail
<1> DEFINE word == Word(k, n)
<1>1. word \in Seq(Cells) /\ Len(word) = k /\ Number(word) = n /\ k > 0
  BY Words
<1> HIDE DEF word
<1>2. /\ word \o tail \in Seq(Cells)
      /\ Len(word \o tail) = k + Len(tail)
      /\ Number(word \o tail) = n
      /\ Rest(word \o tail, k) = tail
  BY <1>1, Peel
<1> QED BY <1>2 DEF word

\* Reading a length-prefixed field gives its octets and leaves what was written after it.
LEMMA ReadField ==
  ASSUME NEW k \in Nat \ {0}, NEW b \in Seq(Cells), NEW tail \in Seq(Cells)
  PROVE  LET w == Word(k, Len(b)) \o (b \o tail)
         IN  /\ w \in Seq(Cells)
             /\ Len(w) = k + Len(b) + Len(tail)
             /\ HasField(w, k)
             /\ Field(w, k) = b
             /\ AfterField(w, k) = tail
<1> DEFINE w == Word(k, Len(b)) \o (b \o tail)
<1>1. b \o tail \in Seq(Cells) /\ Len(b \o tail) = Len(b) + Len(tail) /\ Len(b) \in Nat
  BY Peel
<1>2. w \in Seq(Cells) /\ Len(w) = k + Len(b \o tail) /\ Number(w) = Len(b) /\ Rest(w, k) = b \o tail
  BY <1>1, ReadWord, ZenonT(30)
<1>3. View(Rest(w, k), Number(w)) = b /\ Rest(Rest(w, k), Number(w)) = tail
  BY <1>2, Peel
<1> QED BY <1>1, <1>2, <1>3 DEF HasField, Field, AfterField

----------------------------------------------------------------------------
(* Types.                                                                  *)

\* The table of the classes, column by column.
LEMMA Classes ==
  ASSUME NEW type \in FrameType
  PROVE  /\ FlagsAreGiven(type) <=>
              type \in {SETUP, KEEPALIVE, REQUEST_RESPONSE, REQUEST_FNF, REQUEST_STREAM, REQUEST_CHANNEL,
                       PAYLOAD, EXT}
         /\ TakesMetadata(type) <=> type \notin {KEEPALIVE, REQUEST_N, CANCEL, ERROR, RESUME, RESUME_OK}
         /\ TakesData(type) <=> type \notin {LEASE, REQUEST_N, CANCEL, METADATA_PUSH, RESUME, RESUME_OK}
         /\ Counted(type) <=> type \in {REQUEST_STREAM, REQUEST_CHANNEL, REQUEST_N, EXT}
         /\ Positioned(type) <=> type \in {KEEPALIVE, RESUME_OK}
         /\ Bodiless(type) <=> type \in {REQUEST_RESPONSE, REQUEST_FNF, PAYLOAD, CANCEL, METADATA_PUSH}
<1> USE DEF SETUP, LEASE, KEEPALIVE, REQUEST_RESPONSE, REQUEST_FNF, REQUEST_STREAM, REQUEST_CHANNEL, REQUEST_N,
            CANCEL, PAYLOAD, ERROR, METADATA_PUSH, RESUME, RESUME_OK, EXT
<1> USE DEF SetupFrame, LeaseFrame, KeepaliveFrame, RequestResponseFrame, RequestFireAndForgetFrame,
            RequestStreamFrame, RequestChannelFrame, RequestNFrame, CancelFrame, PayloadFrame, ErrorFrame,
            MetadataPushFrame, ResumeFrame, ResumeOkFrame, ExtensionFrame, Class
<1>1. type \in 1 .. 14 \/ type = 63
  BY DEF FrameType
<1>2. ClassOf(type).flags <=> type \in {1, 3, 4, 5, 6, 7, 10, 63}
  BY <1>1 DEF ClassOf
<1>3. ClassOf(type).metadata <=> type \notin {3, 8, 9, 11, 13, 14}
  BY <1>1 DEF ClassOf
<1>4. ClassOf(type).data <=> type \notin {2, 8, 9, 12, 13, 14}
  BY <1>1 DEF ClassOf
<1>5. ClassOf(type).body = "count" <=> type \in {6, 7, 8, 63}
  BY <1>1 DEF ClassOf
<1>6. ClassOf(type).body = "position" <=> type \in {3, 14}
  BY <1>1 DEF ClassOf
<1>7. ClassOf(type).body = "nothing" <=> type \in {4, 5, 9, 10, 12}
  BY <1>1 DEF ClassOf
<1> QED BY <1>2, <1>3, <1>4, <1>5, <1>6, <1>7
           DEF FlagsAreGiven, TakesMetadata, TakesData, Counted, Positioned, Bodiless

\* Every type has one kind of body.
LEMMA OneBody ==
  ASSUME NEW type \in FrameType
  PROVE  /\ Counted(type) => /\ type \notin {SETUP, RESUME, LEASE, ERROR, METADATA_PUSH}
                            /\ ~Positioned(type)
         /\ Positioned(type) => /\ type \notin {SETUP, RESUME, LEASE, ERROR, METADATA_PUSH}
                               /\ ~Counted(type)
         /\ Bodiless(type) => /\ type \notin {SETUP, RESUME, LEASE, ERROR}
                             /\ ~Counted(type) /\ ~Positioned(type)
         /\ type = ERROR => /\ type \notin {SETUP, RESUME, LEASE, METADATA_PUSH}
                           /\ ~Counted(type) /\ ~Positioned(type)
         /\ type = LEASE => /\ type \notin {SETUP, RESUME, ERROR, METADATA_PUSH}
                           /\ ~Counted(type) /\ ~Positioned(type)
         /\ type = SETUP => /\ type \notin {LEASE, RESUME, ERROR, METADATA_PUSH}
                           /\ ~Counted(type) /\ ~Positioned(type)
         /\ type = RESUME => /\ type \notin {LEASE, SETUP, ERROR, METADATA_PUSH}
                            /\ ~Counted(type) /\ ~Positioned(type)
         /\ \/ type \in {SETUP, RESUME, LEASE, ERROR}
            \/ Counted(type) \/ Positioned(type) \/ Bodiless(type)
<1> USE DEF SETUP, LEASE, KEEPALIVE, REQUEST_RESPONSE, REQUEST_FNF, REQUEST_STREAM, REQUEST_CHANNEL, REQUEST_N,
            CANCEL, PAYLOAD, ERROR, METADATA_PUSH, RESUME, RESUME_OK, EXT
<1>1. type \in 1 .. 14 \/ type = 63
  BY DEF FrameType
<1>2. /\ Counted(type) <=> type \in {6, 7, 8, 63}
      /\ Positioned(type) <=> type \in {3, 14}
      /\ Bodiless(type) <=> type \in {4, 5, 9, 10, 12}
  BY Classes
<1> QED BY <1>1, <1>2

----------------------------------------------------------------------------
(* Flags.                                                                  *)

\* The METADATA bit: set once, and kept inside the ten bits of the flags.
LEMMA MetadataBit ==
  ASSUME NEW flags \in Flags
  PROVE  /\ Combine(flags, METADATA) \in Flags
         /\ IsFlagSet(Combine(flags, METADATA), METADATA)
BY DEF Combine, IsFlagSet, METADATA, Flags

LEMMA MetadataBitKept ==
  ASSUME NEW flags, IsFlagSet(flags, METADATA)
  PROVE  Combine(flags, METADATA) = flags
BY DEF Combine

LEMMA MetadataAlone ==
  /\ METADATA \in Flags
  /\ ~IsFlagSet(0, METADATA)
  /\ IsFlagSet(METADATA, METADATA)
  /\ Combine(0, METADATA) = METADATA
  /\ Combine(METADATA, METADATA) = METADATA
BY DEF Combine, IsFlagSet, METADATA, Flags

\* Type and flags share two octets without running into each other.
LEMMA TypeAndFlags ==
  ASSUME NEW type \in FrameType, NEW flags \in Flags
  PROVE  /\ Packed(type, flags) \in Nat
         /\ I16(Packed(type, flags)) = Word(2, Packed(type, flags))
         /\ TypeIn(Packed(type, flags)) = type
         /\ FlagsIn(Packed(type, flags)) = flags
<1> DEFINE packed == type * 1024 + flags
<1>1. /\ packed \in Nat
      /\ packed % 65536 = packed
      /\ TypeIn(packed) = type
      /\ FlagsIn(packed) = flags
  BY DEF FrameType, EXT, Flags, TypeIn, FlagsIn
<1> HIDE DEF packed
<1>2. I16(packed) = Word(2, packed)
  BY <1>1 DEF I16
<1> QED BY <1>1, <1>2 DEF Packed, packed

\* What the proofs use of a constructed frame: its shape, and its flags.
LEMMA FrameShape ==
  ASSUME NEW f, IsFrame(f)
  PROVE  /\ f = [type |-> f.type, stream |-> f.stream, flags |-> f.flags,
                 values |-> f.values, metadata |-> f.metadata, data |-> f.data]
         /\ f.flags \in Flags
         /\ f.metadata # Missing => IsFlagSet(f.flags, METADATA)
         /\ ~FlagsAreGiven(f.type) => f.flags = IF f.metadata # Missing THEN METADATA ELSE 0
<1>1. PICK given \in Flags :
        f = Frame(f.type, f.stream, FlagsOf(f.type, given), f.values, f.metadata, f.data)
  BY DEF IsFrame
<1>2. FlagsOf(f.type, given) \in Flags
  BY DEF FlagsOf, METADATA, Flags
<1>3. f.flags = IF f.metadata = Missing THEN FlagsOf(f.type, given)
                ELSE Combine(FlagsOf(f.type, given), METADATA)
  BY <1>1 DEF Frame
<1>4. f = [type |-> f.type, stream |-> f.stream, flags |-> f.flags,
           values |-> f.values, metadata |-> f.metadata, data |-> f.data]
  BY <1>1 DEF Frame
<1> DEFINE g == FlagsOf(f.type, given)
<1>a. Combine(g, METADATA) \in Flags /\ IsFlagSet(Combine(g, METADATA), METADATA)
  BY <1>2, MetadataBit
<1> HIDE DEF g
<1>5. f.metadata # Missing => IsFlagSet(f.flags, METADATA)
  <2>1. CASE f.metadata # Missing
    <3>1. f.flags = Combine(g, METADATA)
      BY <1>3, <2>1 DEF g
    <3> QED BY <1>a, <3>1
  <2> QED BY <2>1
<1>6. f.flags \in Flags
  BY <1>2, <1>3, <1>a DEF g
<1>7. ASSUME ~FlagsAreGiven(f.type)
      PROVE  f.flags = IF f.metadata # Missing THEN METADATA ELSE 0
  <2>1. f.type = METADATA_PUSH => f.metadata # Missing
    BY DEF IsFrame, Accepted
  <2>2. FlagsOf(f.type, given) = IF f.type = METADATA_PUSH THEN METADATA ELSE 0
    BY <1>7 DEF FlagsOf
  <2>3. Combine(METADATA, METADATA) = METADATA /\ Combine(0, METADATA) = METADATA
    BY MetadataAlone
  <2> QED BY <1>3, <2>1, <2>2, <2>3
<1> QED BY <1>4, <1>5, <1>6, <1>7

----------------------------------------------------------------------------
(* The parts at the end of a frame.                                        *)

\* An optional part is nothing or its octets.
LEMMA Options ==
  ASSUME NEW part, IsPart(part)
  PROVE  /\ Bytes(part) \in Seq(Cells)
         /\ part # Missing => part = Some(Bytes(part)) /\ part[1] = Bytes(part)
         /\ part = Missing => Bytes(part) = <<>>
BY OpaqueIsCells DEF IsPart, Some, Missing, Bytes

LEMMA SomeIsSomething ==
  ASSUME NEW x
  PROVE  Some(x) # Missing
BY DEF Some, Missing

\* A constructor looks at the type, the stream, the flags and the values; only
\* METADATA_PUSH insists on a part.
LEMMA AcceptedByFields ==
  ASSUME NEW f, NEW g, Accepted(f),
         g.type = f.type, g.stream = f.stream, g.flags = f.flags, g.values = f.values,
         g.type = METADATA_PUSH => g.metadata # Missing
  PROVE  Accepted(g)
<1>1. AcceptsHeader(g)
  BY DEF Accepted, AcceptsHeader
<1> QED BY <1>1 DEF Accepted

\* The constructor called by the reader makes the frame it is supposed to see.
LEMMA ConstructAsRead ==
  ASSUME NEW f, IsFrame(f),
         NEW h, h.type = f.type, h.stream = f.stream, h.flags = f.flags
  PROVE  Construct(h, f.values, AsRead(f).metadata, Bytes(f.data)) = Some(AsRead(f))
<1> DEFINE metadata == IF HasMetadata(f) THEN Some(Bytes(f.metadata)) ELSE Missing
           data == IF TakesData(f.type) THEN Some(Bytes(f.data)) ELSE Missing
           g == Frame(f.type, f.stream, FlagsOf(f.type, f.flags), f.values, metadata, data)
<1>1. AsRead(f) = [type |-> f.type, stream |-> f.stream, flags |-> f.flags,
                   values |-> f.values, metadata |-> metadata, data |-> data]
  BY DEF AsRead
<1>2. metadata = Missing <=> ~HasMetadata(f)
  BY SomeIsSomething
<1>3. g.flags = f.flags
  <2>1. CASE FlagsAreGiven(f.type)
    <3>1. FlagsOf(f.type, f.flags) = f.flags
      BY <2>1 DEF FlagsOf
    <3>2. f.type # METADATA_PUSH
      <4>1. METADATA_PUSH \in FrameType /\ ~FlagsAreGiven(METADATA_PUSH)
        BY Classes DEF FrameType, METADATA_PUSH, SETUP, KEEPALIVE, REQUEST_RESPONSE, REQUEST_FNF,
                       REQUEST_STREAM, REQUEST_CHANNEL, PAYLOAD, EXT
      <4> QED BY <2>1, <4>1
    <3>3. metadata # Missing => IsFlagSet(f.flags, METADATA)
      BY <1>2, <3>2 DEF HasMetadata
    <3> QED BY <3>1, <3>3, MetadataBitKept DEF Frame
  <2>2. CASE ~FlagsAreGiven(f.type)
    <3>1. f.flags = IF f.metadata # Missing THEN METADATA ELSE 0
      BY <2>2, FrameShape
    <3>2. FlagsOf(f.type, f.flags) = IF f.type = METADATA_PUSH THEN METADATA ELSE 0
      BY <2>2 DEF FlagsOf
    <3>3. f.type = METADATA_PUSH => f.metadata # Missing
      BY DEF IsFrame, Accepted
    <3>4. HasMetadata(f) <=> f.metadata # Missing
      BY <3>1, <3>3, MetadataAlone DEF HasMetadata, IsFrame
    <3>5. g.flags = IF metadata = Missing THEN FlagsOf(f.type, f.flags)
                    ELSE Combine(FlagsOf(f.type, f.flags), METADATA)
      BY DEF Frame
    <3> QED BY <1>2, <3>1, <3>2, <3>3, <3>4, <3>5, MetadataAlone
  <2> QED BY <2>1, <2>2
<1>4. g = AsRead(f)
  BY <1>1, <1>3 DEF Frame
<1>5. Accepted(g)
  <2>1. g.type = f.type /\ g.stream = f.stream /\ g.values = f.values /\ g.metadata = metadata
    BY DEF Frame
  <2>2. f.type = METADATA_PUSH => metadata # Missing
    BY <1>2 DEF HasMetadata
  <2>3. Accepted(f)
    BY DEF IsFrame
  <2> HIDE DEF g, metadata
  <2> QED BY <1>3, <2>1, <2>2, <2>3, AcceptedByFields
<1>6. TakesData(f.type) \/ Bytes(f.data) = <<>>
  BY Options DEF IsFrame
<1>7. AsRead(f).metadata = metadata
  BY <1>1
<1> QED BY <1>4, <1>5, <1>6, <1>7 DEF Construct

\* What the writer leaves after the body is what the reader finds there.
LEMMA PartsAreRead ==
  ASSUME NEW f, IsFrame(f),
         I24(Len(Bytes(f.metadata))) = Word(3, Len(Bytes(f.metadata))),
         NEW h, h.type = f.type, h.stream = f.stream, h.flags = f.flags
  PROVE  ReadParts(h, f.values, WriteMetadata(f) \o WriteData(f)) = Some(AsRead(f))
<1> DEFINE m == Bytes(f.metadata)
           d == Bytes(f.data)
           flagged == TakesMetadata(f.type) /\ IsFlagSet(f.flags, METADATA)
<1>1. /\ m \in Seq(Cells) /\ d \in Seq(Cells) /\ m \o <<>> = m /\ <<>> \o d = d
      /\ WriteData(f) = d
      /\ f.metadata # Missing => f.metadata[1] = m
      /\ f.metadata = Missing => m = <<>>
      /\ f.data = Missing => d = <<>>
  <2>1. IsPart(f.metadata) /\ IsPart(f.data)
    BY DEF IsFrame
  <2>2. /\ m \in Seq(Cells)
        /\ f.metadata # Missing => f.metadata[1] = m
        /\ f.metadata = Missing => m = <<>>
    BY <2>1, Options
  <2>3. /\ d \in Seq(Cells)
        /\ f.data # Missing => f.data[1] = d
        /\ f.data = Missing => d = <<>>
    BY <2>1, Options
  <2> HIDE DEF m, d
  <2>4. m \o <<>> = m /\ <<>> \o d = d
    BY <2>2, <2>3
  <2>5. WriteData(f) = d
    BY <2>3 DEF WriteData
  <2> QED BY <2>2, <2>3, <2>4, <2>5
<1>2. /\ f.metadata # Missing => flagged
      /\ f.type = METADATA_PUSH => f.metadata # Missing
      /\ f.data # Missing => TakesData(f.type)
      /\ TakesMetadata(METADATA_PUSH)
  <2>1. /\ f.metadata # Missing => TakesMetadata(f.type)
        /\ f.data # Missing => TakesData(f.type)
    BY DEF IsFrame
  <2>2. f.type = METADATA_PUSH => f.metadata # Missing
    BY DEF IsFrame, Accepted
  <2>3. f.metadata # Missing => IsFlagSet(f.flags, METADATA)
    BY FrameShape
  <2>4. TakesMetadata(METADATA_PUSH)
    BY Classes DEF FrameType, METADATA_PUSH, KEEPALIVE, REQUEST_N, CANCEL, ERROR, RESUME, RESUME_OK
  <2> QED BY <2>1, <2>2, <2>3, <2>4
<1>3. HasMetadata(f) <=> flagged
  BY <1>2 DEF HasMetadata
<1>4. AsRead(f).metadata = IF flagged THEN Some(m) ELSE Missing
  BY <1>3 DEF AsRead
<1>5. Construct(h, f.values, AsRead(f).metadata, d) = Some(AsRead(f))
  BY ConstructAsRead
<1> HIDE DEF m, d
<1>6. CASE ~flagged
  <2>1. WriteMetadata(f) = <<>>
    BY <1>2, <1>3, <1>6 DEF WriteMetadata
  <2>2. ReadParts(h, f.values, d) = Construct(h, f.values, Missing, d)
    BY <1>6 DEF ReadParts
  <2> QED BY <1>1, <1>4, <1>5, <1>6, <2>1, <2>2
<1>7. CASE flagged /\ ~MetadataHasLength(f.type)
  <2>1. f.metadata # Missing
    <3>1. ~FlagsAreGiven(f.type)
      <4>1. f.type \in FrameType /\ f.type \in {LEASE, METADATA_PUSH}
        BY <1>7 DEF IsFrame, MetadataHasLength
      <4> QED BY <4>1, Classes DEF LEASE, METADATA_PUSH, SETUP, KEEPALIVE, REQUEST_RESPONSE, REQUEST_FNF,
                                   REQUEST_STREAM, REQUEST_CHANNEL, PAYLOAD, EXT
    <3>2. f.metadata = Missing => f.flags = 0
      BY <3>1, FrameShape
    <3> QED BY <1>7, <3>2, MetadataAlone
  <2>2. WriteMetadata(f) = m
    BY <1>1, <1>7, <2>1 DEF WriteMetadata
  <2>3. d = <<>>
    <3>1. ~TakesData(f.type)
      BY <1>7, Classes DEF IsFrame, MetadataHasLength
    <3> QED BY <1>1, <1>2, <3>1
  <2>4. ReadParts(h, f.values, m) = Construct(h, f.values, Some(m), <<>>)
    BY <1>7 DEF ReadParts
  <2> QED BY <1>1, <1>4, <1>5, <1>7, <2>2, <2>3, <2>4
<1>8. CASE flagged /\ MetadataHasLength(f.type)
  <2>1. Len(m) \in Nat /\ 3 \in Nat \ {0}
    BY <1>1
  <2>a. I24(Len(m)) = Word(3, Len(m)) /\ I24(0) = Word(3, 0)
    <3>1. I24(0) = Word(3, 0)
      BY DEF I24
    <3> QED BY <3>1 DEF m
  <2>2. WriteMetadata(f) = Word(3, Len(m)) \o m
    <3>1. Word(3, Len(m)) \in Seq(Cells)
      BY <2>1, Words
    <3>2. CASE f.metadata # Missing
      BY <1>1, <1>8, <2>a, <3>2 DEF WriteMetadata
    <3>3. CASE f.metadata = Missing
      <4>1. m = <<>> /\ Len(m) = 0
        BY <1>1, <3>3
      <4>2. Word(3, 0) \o <<>> = Word(3, 0)
        BY <3>1, <4>1
      <4>3. WriteMetadata(f) = I24(0)
        BY <1>3, <1>8, <3>3 DEF WriteMetadata
      <4> QED BY <2>a, <4>1, <4>2, <4>3
    <3> QED BY <3>2, <3>3
  <2>3. WriteMetadata(f) \o d = Word(3, Len(m)) \o (m \o d)
    <3>1. Word(3, Len(m)) \in Seq(Cells)
      BY <2>1, Words
    <3> QED BY <1>1, <2>2, <3>1, Associates, SMTT(30)
  <2> DEFINE w == Word(3, Len(m)) \o (m \o d)
  <2>4. HasField(w, 3) /\ Field(w, 3) = m /\ AfterField(w, 3) = d
    BY <1>1, <2>1, ReadField
  <2> HIDE DEF w
  <2>5. ReadParts(h, f.values, w) = Construct(h, f.values, Some(m), d)
    BY <1>8, <2>4 DEF ReadParts
  <2> QED BY <1>1, <1>4, <1>5, <1>8, <2>3, <2>5 DEF w
<1> QED BY <1>6, <1>7, <1>8

----------------------------------------------------------------------------
(* Header and body.                                                        *)

\* The header is read as written and leaves the body.
LEMMA HeaderIsRead ==
  ASSUME NEW f, IsFrame(f), NEW tail \in Seq(Cells)
  PROVE  LET w == Header(f) \o tail
         IN  /\ Header(f) \in Seq(Cells) /\ Len(Header(f)) = HeaderLength
             /\ w \in Seq(Cells)
             /\ Len(w) = HeaderLength + Len(tail)
             /\ Number(w) = f.stream
             /\ TypeIn(Number(Rest(w, 4))) = f.type
             /\ FlagsIn(Number(Rest(w, 4))) = f.flags
             /\ Rest(w, HeaderLength) = tail
<1> DEFINE packed == Packed(f.type, f.flags)
<1>1. f.stream \in Nat /\ f.type \in FrameType /\ f.flags \in Flags
  <2>1. Accepted(f) /\ f.type \in FrameType
    BY DEF IsFrame
  <2>2. f.stream \in 0 .. MaxUint31
    BY <2>1 DEF Accepted, AcceptsHeader, Uint31
  <2>3. f.flags \in Flags
    BY FrameShape
  <2>4. MaxUint31 \in Nat
    BY DEF MaxUint31
  <2> QED BY <2>1, <2>2, <2>3, <2>4
<1>2. TypeIn(packed) = f.type /\ FlagsIn(packed) = f.flags
  BY <1>1, TypeAndFlags
<1>c. packed \in Nat
  BY <1>1, TypeAndFlags
<1>d. I16(packed) = Word(2, packed)
  BY <1>1, TypeAndFlags
<1>a. Header(f) = Word(4, f.stream) \o Word(2, packed)
  BY <1>d DEF Header, I32, Packed
<1>b. 2 \in Nat \ {0} /\ 4 \in Nat \ {0}
  OBVIOUS
<1> HIDE DEF packed
<1> DEFINE a == Word(4, f.stream)
           b == Word(2, packed)
<1>3. a \in Seq(Cells) /\ Len(a) = 4
  BY <1>1, <1>b, Words
<1>4. b \in Seq(Cells) /\ Len(b) = 2
  BY <1>b, <1>c, Words
<1>5. Header(f) = a \o b
  BY <1>a
<1> DEFINE w2 == b \o tail
           w1 == a \o w2
<1>6. w2 \in Seq(Cells) /\ Len(w2) = 2 + Len(tail) /\ Number(w2) = packed /\ Rest(w2, 2) = tail
  BY <1>b, <1>c, ReadWord, Zenon
<1> HIDE DEF w2
<1>7. w1 \in Seq(Cells) /\ Len(w1) = 4 + Len(w2) /\ Number(w1) = f.stream /\ Rest(w1, 4) = w2
  BY <1>1, <1>6, <1>b, ReadWord, Zenon
<1> HIDE DEF a, b, w1
<1>8. /\ Header(f) \in Seq(Cells) /\ Len(Header(f)) = Len(a) + Len(b)
      /\ Header(f) \o tail = w1
  <2>1. w2 = b \o tail /\ w1 = a \o w2
    BY DEF w1, w2
  <2>2. (a \o b) \o tail = w1
    BY <1>3, <1>4, <2>1, Associates, Zenon
  <2>3. a \o b \in Seq(Cells) /\ Len(a \o b) = Len(a) + Len(b)
    BY <1>3, <1>4, Peel, Zenon
  <2> QED BY <1>5, <2>2, <2>3, Zenon
<1>9. Len(Header(f)) = 6
  BY <1>3, <1>4, <1>8
<1>10. Rest(w1, 6) = tail
  <2>1. Rest(Header(f) \o tail, Len(Header(f))) = tail
    BY <1>8, Peel, Zenon
  <2> QED BY <1>8, <1>9, <2>1
<1>11. Len(w1) = 6 + Len(tail)
  BY <1>6, <1>7
<1> QED BY <1>2, <1>6, <1>7, <1>8, <1>9, <1>10, <1>11 DEF HeaderLength

\* The types whose body is one number of four octets, or of eight.
LEMMA NumberIsRead ==
  ASSUME NEW f, IsFrame(f), NEW tail \in Seq(Cells), NEW k \in Nat \ {0},
         f.values = <<f.values[1]>>, f.values[1] \in Nat, Body(f) = Word(k, f.values[1])
  PROVE  /\ Body(f) \in Seq(Cells)
         /\ Len(Body(f) \o tail) >= k
         /\ Number(Body(f) \o tail) = f.values[1]
         /\ Rest(Body(f) \o tail, k) = tail
<1> DEFINE n == f.values[1]
<1> HIDE DEF n
<1>1. /\ Word(k, n) \in Seq(Cells)
      /\ Len(Word(k, n) \o tail) = k + Len(tail)
      /\ Number(Word(k, n) \o tail) = n
      /\ Rest(Word(k, n) \o tail, k) = tail
  <2>1. n \in Nat
    BY DEF n
  <2> QED BY <2>1, ReadWord, Words, ZenonT(30)
<1> QED BY <1>1 DEF n

LEMMA CountIsRead ==
  ASSUME NEW f, IsFrame(f), NEW tail \in Seq(Cells), f.type = ERROR \/ Counted(f.type),
         MaxUint32 \in Nat, MaxUint63 \in Nat,
         NEW h, h.type = f.type
  PROVE  /\ Body(f) \in Seq(Cells)
         /\ ReadBody(h, Body(f) \o tail) = ReadParts(h, f.values, tail)
<1>1. Body(f) = Word(4, f.values[1])
  <2>1. f.type \notin {SETUP, RESUME, LEASE} /\ ~Positioned(f.type)
    BY OneBody DEF IsFrame
  <2> QED BY <2>1 DEF Body, I32
<1>2. f.values = <<f.values[1]>> /\ f.values[1] \in Nat
  <2>1. Accepted(f)
    BY DEF IsFrame
  <2>3. CASE f.type = ERROR
    BY <2>1, <2>3, Numbers DEF Accepted, AcceptsError
  <2>4. CASE Counted(f.type)
    BY <2>1, <2>4, Numbers DEF Accepted, AcceptsCount
  <2> QED BY <2>3, <2>4
<1> DEFINE body == Body(f) \o tail
<1>3. /\ Body(f) \in Seq(Cells)
      /\ Len(body) >= 4 /\ Number(body) = f.values[1] /\ Rest(body, 4) = tail
  <2>1. 4 \in Nat \ {0}
    OBVIOUS
  <2> QED BY <1>1, <1>2, <2>1, NumberIsRead
<1> HIDE DEF body
<1>4. ReadBody(h, body) = ReadParts(h, <<Number(body)>>, Rest(body, 4))
  <2>1. h.type \notin {SETUP, RESUME, LEASE, METADATA_PUSH} /\ ~Positioned(h.type)
    BY OneBody DEF IsFrame
  <2> QED BY <1>3, <2>1 DEF ReadBody
<1> QED BY <1>2, <1>3, <1>4 DEF body

LEMMA PositionIsRead ==
  ASSUME NEW f, IsFrame(f), NEW tail \in Seq(Cells), Positioned(f.type),
         MaxUint32 \in Nat, MaxUint63 \in Nat,
         NEW h, h.type = f.type
  PROVE  /\ Body(f) \in Seq(Cells)
         /\ ReadBody(h, Body(f) \o tail) = ReadParts(h, f.values, tail)
<1>1. Body(f) = Word(8, f.values[1])
  <2>1. f.type \notin {SETUP, RESUME, LEASE, ERROR} /\ ~Counted(f.type)
    BY OneBody DEF IsFrame
  <2> QED BY <2>1 DEF Body, I64
<1>2. f.values = <<f.values[1]>> /\ f.values[1] \in Nat
  BY Numbers DEF IsFrame, Accepted, AcceptsPosition
<1> DEFINE body == Body(f) \o tail
<1>3. /\ Body(f) \in Seq(Cells)
      /\ Len(body) >= 8 /\ Number(body) = f.values[1] /\ Rest(body, 8) = tail
  <2>1. 8 \in Nat \ {0}
    OBVIOUS
  <2> QED BY <1>1, <1>2, <2>1, NumberIsRead
<1> HIDE DEF body
<1>4. ReadBody(h, body) = ReadParts(h, <<Number(body)>>, Rest(body, 8))
  <2>1. h.type \notin {SETUP, RESUME, LEASE, ERROR, METADATA_PUSH} /\ ~Counted(h.type)
    BY OneBody DEF IsFrame
  <2> QED BY <1>3, <2>1 DEF ReadBody
<1> QED BY <1>2, <1>3, <1>4 DEF body

\* The types without a body.
LEMMA NothingIsRead ==
  ASSUME NEW f, IsFrame(f), NEW tail \in Seq(Cells), Bodiless(f.type),
         NEW h, h.type = f.type, h.flags = f.flags
  PROVE  /\ Body(f) \in Seq(Cells)
         /\ ReadBody(h, Body(f) \o tail) = ReadParts(h, f.values, tail)
<1>1. Body(f) = <<>>
  <2>1. f.type \notin {SETUP, RESUME, LEASE, ERROR} /\ ~Counted(f.type) /\ ~Positioned(f.type)
    BY OneBody DEF IsFrame
  <2> QED BY <2>1 DEF Body
<1>2. f.values = <<>>
  BY DEF IsFrame, Accepted
<1>3. f.type = METADATA_PUSH => IsFlagSet(h.flags, METADATA)
  <2>1. f.type = METADATA_PUSH => f.metadata # Missing
    BY DEF IsFrame, Accepted
  <2> QED BY <2>1, FrameShape
<1>4. <<>> \o tail = tail /\ <<>> \in Seq(Cells)
  OBVIOUS
<1>5. ReadBody(h, tail) = ReadParts(h, <<>>, tail)
  <2>1. h.type \notin {SETUP, RESUME, LEASE, ERROR} /\ ~Counted(h.type) /\ ~Positioned(h.type)
    BY OneBody DEF IsFrame
  <2> QED BY <1>3, <2>1 DEF ReadBody
<1> QED BY <1>1, <1>2, <1>4, <1>5

\* LEASE: two numbers.
LEMMA LeaseIsRead ==
  ASSUME NEW f, IsFrame(f), NEW tail \in Seq(Cells), f.type = LEASE,
         MaxUint32 \in Nat, MaxUint63 \in Nat,
         NEW h, h.type = f.type
  PROVE  /\ Body(f) \in Seq(Cells)
         /\ ReadBody(h, Body(f) \o tail) = ReadParts(h, f.values, tail)
<1> DEFINE v == f.values
           a == Word(4, v[1])
           b == Word(4, v[2])
<1>1. v = <<v[1], v[2]>> /\ v[1] \in Nat /\ v[2] \in Nat
  <2>1. AcceptsLease(v)
    BY DEF IsFrame, Accepted
  <2> QED BY <2>1, Numbers DEF AcceptsLease
<1>2. Body(f) = a \o b
  <2>1. f.type # SETUP /\ f.type # RESUME /\ f.type # ERROR /\ ~Counted(f.type) /\ ~Positioned(f.type)
    BY OneBody DEF IsFrame
  <2> QED BY <2>1 DEF Body, I32
<1>3. 4 \in Nat \ {0}
  OBVIOUS
<1>4. a \in Seq(Cells) /\ b \in Seq(Cells)
  BY <1>1, <1>3, Words
<1>5. (a \o b) \o tail = a \o (b \o tail) /\ a \o b \in Seq(Cells)
  BY <1>4, Associates, Peel
<1> DEFINE w2 == b \o tail
           w1 == a \o w2
<1>6. w2 \in Seq(Cells) /\ Len(w2) = 4 + Len(tail) /\ Number(w2) = v[2] /\ Rest(w2, 4) = tail
  <2>1. v[2] \in Nat
    BY <1>1
  <2> HIDE DEF v
  <2> QED BY <1>3, <2>1, ReadWord, Zenon
<1>7. w1 \in Seq(Cells) /\ Len(w1) = 4 + Len(w2) /\ Number(w1) = v[1] /\ Rest(w1, 4) = w2
  <2>1. v[1] \in Nat /\ w2 \in Seq(Cells)
    BY <1>1, <1>6
  <2> HIDE DEF v, w2
  <2> QED BY <1>3, <2>1, ReadWord, Zenon
<1>8. Body(f) \o tail = w1
  BY <1>2, <1>5
<1> HIDE DEF w1, w2
<1>9. Len(w1) >= 8
  BY <1>6, <1>7
<1>10. ReadBody(h, w1) = ReadParts(h, <<Number(w1), Number(Rest(w1, 4))>>, Rest(Rest(w1, 4), 4))
  <2>1. h.type # SETUP /\ h.type # RESUME /\ h.type # ERROR /\ ~Counted(h.type) /\ ~Positioned(h.type)
        /\ h.type # METADATA_PUSH /\ h.type = LEASE
    BY OneBody DEF IsFrame
  <2> QED BY <1>9, <2>1 DEF ReadBody
<1>11. <<Number(w1), Number(Rest(w1, 4))>> = v /\ Rest(Rest(w1, 4), 4) = tail
  BY <1>1, <1>6, <1>7
<1> QED BY <1>2, <1>5, <1>8, <1>10, <1>11

\* RESUME: two versions, the token, two positions.
LEMMA ResumeIsRead ==
  ASSUME NEW f, IsFrame(f), NEW tail \in Seq(Cells), f.type = RESUME,
         MaxUint32 \in Nat, MaxUint63 \in Nat,
         NEW h, h.type = f.type
  PROVE  /\ Body(f) \in Seq(Cells)
         /\ ReadBody(h, Body(f) \o tail) = ReadParts(h, f.values, tail)
<1> DEFINE v == f.values
           token == v[3]
           n == Len(token)
           major == Word(2, v[1])
           minor == Word(2, v[2])
           length == Word(2, n)
           server == Word(8, v[4])
           client == Word(8, v[5])
<1>1. AcceptsResume(v)
  BY DEF IsFrame, Accepted
<1>2. WriteResume(f) = I16(v[1]) \o I16(v[2]) \o (I16(n) \o token) \o I64(v[4]) \o I64(v[5])
  BY DEF WriteResume
<1> HIDE DEF v
<1>3. v = <<v[1], v[2], v[3], v[4], v[5]>>
  BY <1>1 DEF AcceptsResume
<1>4. /\ v[1] \in Uint16 /\ v[2] \in Uint16 /\ n \in Uint16
      /\ v[4] \in Uint63 /\ v[5] \in Uint63
  BY <1>1, Zenon DEF AcceptsResume
<1>5. v[1] \in Nat /\ v[2] \in Nat /\ n \in Nat /\ v[4] \in Nat /\ v[5] \in Nat
  BY <1>4, Numbers, Zenon
<1>6. token \in Seq(Cells)
  BY <1>1, OpaqueIsCells, Zenon DEF AcceptsResume
<1>7. I16(v[1]) = major /\ I16(v[2]) = minor /\ I16(n) = length /\ I64(v[4]) = server /\ I64(v[5]) = client
  BY <1>4, Numbers, Zenon DEF I64
<1>8. /\ major \in Seq(Cells) /\ minor \in Seq(Cells) /\ length \in Seq(Cells)
      /\ server \in Seq(Cells) /\ client \in Seq(Cells)
  BY <1>5, Numbers, Words, Zenon
<1> DEFINE x2 == major \o minor
           x3 == x2 \o (length \o token)
           x4 == x3 \o server
           w5 == client \o tail
           w4 == server \o w5
           w3 == length \o (token \o w4)
           w2 == minor \o w3
           w1 == major \o w2
<1>9. Body(f) = x4 \o client
  <2>1. f.type # SETUP /\ f.type # LEASE /\ f.type # ERROR /\ ~Counted(f.type) /\ ~Positioned(f.type)
    BY OneBody DEF IsFrame
  <2>2. Body(f) = WriteResume(f)
    BY <2>1 DEF Body
  <2> QED BY <1>2, <1>7, <2>2, Zenon
<1>10. w5 \in Seq(Cells) /\ Len(w5) = 8 + Len(tail) /\ Number(w5) = v[5] /\ Rest(w5, 8) = tail
  BY <1>5, Numbers, ReadWord, Zenon
<1> HIDE DEF w5
<1>11. w4 \in Seq(Cells) /\ Len(w4) = 8 + Len(w5) /\ Number(w4) = v[4] /\ Rest(w4, 8) = w5
  BY <1>5, <1>10, Numbers, ReadWord, ZenonT(30)
<1> HIDE DEF w4
<1>12. /\ w3 \in Seq(Cells)
       /\ HasField(w3, 2) /\ Field(w3, 2) = token /\ AfterField(w3, 2) = w4
  BY <1>6, <1>11, Numbers, ReadField, ZenonT(30)
<1> HIDE DEF w3, token, n
<1>13. w2 \in Seq(Cells) /\ Len(w2) = 2 + Len(w3) /\ Number(w2) = v[2] /\ Rest(w2, 2) = w3
  <2>1. 2 \in Nat \ {0} /\ v[2] \in Nat /\ w3 \in Seq(Cells)
    BY <1>5, <1>12, Numbers, Zenon
  <2> QED BY <2>1, ReadWord, Zenon
<1> HIDE DEF w2
<1>14. w1 \in Seq(Cells) /\ Len(w1) = 2 + Len(w2) /\ Number(w1) = v[1] /\ Rest(w1, 2) = w2
  <2>1. 2 \in Nat \ {0} /\ v[1] \in Nat /\ w2 \in Seq(Cells)
    BY <1>5, <1>13, Numbers, Zenon
  <2> QED BY <2>1, ReadWord, Zenon
<1> HIDE DEF w1, major, minor, length, server, client, x4, x3, x2
<1>15. Body(f) \in Seq(Cells) /\ Body(f) \o tail = w1
  <2> DEFINE field == length \o token
             rest == token \o w4
  <2>1. x2 = major \o minor /\ x3 = x2 \o field /\ x4 = x3 \o server
    BY DEF x2, x3, x4
  <2>2. w5 = client \o tail /\ w4 = server \o w5 /\ w3 = length \o rest /\ w2 = minor \o w3
        /\ w1 = major \o w2
    BY DEF w1, w2, w3, w4, w5
  <2>3. field \o w4 = length \o rest
    <3>1. token \in Seq(Cells) /\ length \in Seq(Cells) /\ w4 \in Seq(Cells)
      BY <1>6, <1>8, <1>11
    <3> QED BY <3>1, Associates, ZenonT(30)
  <2>4. field \in Seq(Cells)
    BY <1>6, <1>8, Peel, Zenon
  <2> HIDE DEF field, rest
  <2>5. x2 \in Seq(Cells)
    BY <1>8, <2>1, Peel, Zenon
  <2>6. x3 \in Seq(Cells)
    BY <2>1, <2>4, <2>5, Peel, Zenon
  <2>7. x4 \in Seq(Cells)
    BY <1>8, <2>1, <2>6, Peel, Zenon
  <2>8. x2 \o w3 = w1
    <3>1. (major \o minor) \o w3 = major \o (minor \o w3)
      <4>1. major \in Seq(Cells) /\ minor \in Seq(Cells) /\ w3 \in Seq(Cells)
        BY <1>8, <1>12
      <4> QED BY <4>1, Associates, ZenonT(30)
    <3> QED BY <2>1, <2>2, <3>1, Zenon
  <2>9. x3 \o w4 = w1
    <3>1. (x2 \o field) \o w4 = x2 \o (field \o w4)
      BY <1>11, <2>4, <2>5, Associates, Zenon
    <3> QED BY <2>1, <2>2, <2>3, <2>8, <3>1, Zenon
  <2>10. x4 \o w5 = w1
    <3>1. (x3 \o server) \o w5 = x3 \o (server \o w5)
      <4>1. server \in Seq(Cells) /\ w5 \in Seq(Cells)
        BY <1>8, <1>10
      <4> QED BY <2>6, <4>1, Associates, Zenon
    <3> QED BY <2>1, <2>2, <2>9, <3>1, Zenon
  <2>11. (x4 \o client) \o tail = w1
    BY <1>8, <2>2, <2>7, <2>10, Associates, ZenonT(30)
  <2>12. x4 \o client \in Seq(Cells)
    BY <1>8, <2>7, Peel, Zenon
  <2> QED BY <1>9, <2>11, <2>12, Zenon
<1>16. Len(w1) >= 4 /\ Len(w4) >= 16
  <2>1. Len(w3) \in Nat /\ Len(tail) \in Nat
    BY <1>12
  <2> QED BY <2>1, <1>10, <1>11, <1>13, <1>14
<1>17. ReadBody(h, w1) = ReadResume(h, w1)
  <2>1. h.type # SETUP /\ h.type = RESUME /\ h.type # ERROR /\ ~Counted(h.type) /\ ~Positioned(h.type)
        /\ h.type # METADATA_PUSH /\ h.type # LEASE
    BY OneBody DEF IsFrame
  <2> QED BY <2>1 DEF ReadBody
<1>18. ReadResume(h, w1) = ReadParts(h, <<v[1], v[2], v[3], v[4], v[5]>>, tail)
  BY <1>10, <1>11, <1>12, <1>13, <1>14, <1>16, Zenon DEF ReadResume, token
<1> QED BY <1>3, <1>15, <1>17, <1>18, Zenon DEF v

\* The two MIME types of SETUP.
LEMMA MimeTypesAreRead ==
  ASSUME NEW first \in Seq(Octets), NEW second \in Seq(Octets), NEW tail \in Seq(Cells),
         Len(first) \in Uint8, Len(second) \in Uint8, MaxUint32 \in Nat, MaxUint63 \in Nat
  PROVE  LET written == (I8(Len(first)) \o first) \o (I8(Len(second)) \o second)
             w == written \o tail
         IN  /\ written \in Seq(Cells)
             /\ w \in Seq(Cells)
             /\ HasField(w, 1) /\ Field(w, 1) = first
             /\ HasField(AfterField(w, 1), 1) /\ Field(AfterField(w, 1), 1) = second
             /\ AfterField(AfterField(w, 1), 1) = tail
<1> DEFINE a == Word(1, Len(first))
           b == Word(1, Len(second))
           w2 == b \o (second \o tail)
           w1 == a \o (first \o w2)
           x == a \o first
           y == b \o second
<1>1. I8(Len(first)) = a /\ I8(Len(second)) = b
  BY Numbers, Zenon
<1>2. first \in Seq(Cells) /\ second \in Seq(Cells)
  BY OpaqueIsCells, Zenon
<1>3. 1 \in Nat \ {0} /\ Len(first) \in Nat /\ Len(second) \in Nat
  BY Numbers, Zenon
<1>4. a \in Seq(Cells) /\ b \in Seq(Cells)
  BY <1>3, Words, Zenon
<1>5. w2 \in Seq(Cells) /\ HasField(w2, 1) /\ Field(w2, 1) = second /\ AfterField(w2, 1) = tail
  BY <1>2, <1>3, ReadField, Zenon
<1> HIDE DEF w2
<1>6. w1 \in Seq(Cells) /\ HasField(w1, 1) /\ Field(w1, 1) = first /\ AfterField(w1, 1) = w2
  BY <1>2, <1>3, <1>5, ReadField, Zenon
<1> HIDE DEF w1, a, b
<1>7. x \in Seq(Cells)
  BY <1>2, <1>4, Peel, Zenon
<1>8. y \in Seq(Cells)
  BY <1>2, <1>4, Peel, Zenon
<1>9. y \o tail = w2
  BY <1>2, <1>4, Associates, ZenonT(30) DEF w2
<1>10. x \o w2 = w1
  <2>1. a \in Seq(Cells) /\ first \in Seq(Cells) /\ w2 \in Seq(Cells)
    BY <1>2, <1>4, <1>5
  <2> QED BY <2>1, Associates, ZenonT(30) DEF w1
<1> HIDE DEF x, y
<1>11. (x \o y) \o tail = x \o (y \o tail)
  BY <1>7, <1>8, Associates, Zenon
<1>12. x \o y \in Seq(Cells)
  BY <1>7, <1>8, Peel, Zenon
<1>13. (I8(Len(first)) \o first) \o (I8(Len(second)) \o second) = x \o y
  BY <1>1 DEF x, y
<1>14. (x \o y) \o tail = w1
  BY <1>9, <1>10, <1>11
<1> QED BY <1>5, <1>6, <1>12, <1>13, <1>14, Zenon

\* The Resume token of SETUP is there exactly when its flag says so.
LEMMA TokenIsRead ==
  ASSUME NEW part, IsPart(part), part # Missing => Len(part[1]) \in Uint16,
         NEW tail \in Seq(Cells), MaxUint32 \in Nat, MaxUint63 \in Nat
  PROVE  LET written == IF part # Missing THEN I16(Len(part[1])) \o part[1] ELSE <<>>
             w == written \o tail
         IN  /\ written \in Seq(Cells)
             /\ part = Missing => w = tail
             /\ part # Missing => /\ HasField(w, 2) /\ part = Some(Field(w, 2))
                                 /\ AfterField(w, 2) = tail
<1>1. CASE part = Missing
  <2>1. <<>> \in Seq(Cells) /\ <<>> \o tail = tail
    OBVIOUS
  <2> QED BY <1>1, <2>1, Zenon
<1>2. CASE part # Missing
  <2> DEFINE token == part[1]
             a == Word(2, Len(token))
             w == a \o (token \o tail)
  <2>1. part = Some(token) /\ token \in Seq(Cells)
    BY <1>2, OpaqueIsCells, Zenon DEF IsPart
  <2>2. I16(Len(token)) = a /\ Len(token) \in Nat /\ 2 \in Nat \ {0}
    BY <1>2, Numbers, Zenon
  <2>3. a \in Seq(Cells)
    BY <2>2, Words, Zenon
  <2> HIDE DEF token
  <2>4. HasField(w, 2) /\ Field(w, 2) = token /\ AfterField(w, 2) = tail
    BY <2>1, <2>2, ReadField, Zenon
  <2> HIDE DEF a
  <2>5. (a \o token) \o tail = w
    BY <2>1, <2>3, Associates, Zenon
  <2>6. a \o token \in Seq(Cells)
    BY <2>1, <2>3, Peel, Zenon
  <2> HIDE DEF w
  <2> QED BY <1>2, <2>1, <2>2, <2>4, <2>5, <2>6, Zenon DEF token
<1> QED BY <1>1, <1>2

\* SETUP: two versions, two durations, the token if there is one, two MIME types.
LEMMA SetupIsRead ==
  ASSUME NEW f, IsFrame(f), NEW tail \in Seq(Cells), f.type = SETUP,
         MaxUint32 \in Nat, MaxUint63 \in Nat,
         NEW h, h.type = f.type, h.flags = f.flags
  PROVE  /\ Body(f) \in Seq(Cells)
         /\ ReadBody(h, Body(f) \o tail) = ReadParts(h, f.values, tail)
<1> DEFINE v == f.values
           part == v[5]
           a == Word(2, v[1])
           b == Word(2, v[2])
           c == Word(4, v[3])
           d == Word(4, v[4])
           token == IF part # Missing THEN I16(Len(part[1])) \o part[1] ELSE <<>>
           types == (I8(Len(v[6])) \o v[6]) \o (I8(Len(v[7])) \o v[7])
           fixed == <<v[1], v[2], v[3], v[4]>>
<1>1. AcceptsSetup(v, f.flags)
  BY DEF IsFrame, Accepted
<1>2. WriteSetup(f) =
        I16(v[1]) \o I16(v[2]) \o I32(v[3]) \o I32(v[4])
          \o (IF IsFlagSet(f.flags, RESUME_ENABLED) THEN I16(Len(part[1])) \o part[1] ELSE <<>>)
          \o types
  BY DEF WriteSetup
<1> HIDE DEF v
<1>3. v = <<v[1], v[2], v[3], v[4], v[5], v[6], v[7]>>
  BY <1>1, Zenon DEF AcceptsSetup
<1>4. /\ v[1] \in Uint16 /\ v[2] \in Uint16 /\ v[3] \in Positive31 /\ v[4] \in Positive31
      /\ IsPart(part) /\ (part = Missing <=> ~IsFlagSet(f.flags, RESUME_ENABLED))
      /\ part # Missing => Len(part[1]) \in Uint16
      /\ v[6] \in Seq(Octets) /\ v[7] \in Seq(Octets)
      /\ Len(v[6]) \in Uint8 /\ Len(v[7]) \in Uint8
  BY <1>1, Zenon DEF AcceptsSetup
<1>5. v[1] \in Nat /\ v[2] \in Nat /\ v[3] \in Nat /\ v[4] \in Nat
      /\ 2 \in Nat \ {0} /\ 4 \in Nat \ {0}
  BY <1>4, Numbers, Zenon
<1>6. a \in Seq(Cells) /\ b \in Seq(Cells) /\ c \in Seq(Cells) /\ d \in Seq(Cells)
  BY <1>5, Words, Zenon
<1>7. I16(v[1]) = a /\ I16(v[2]) = b /\ I32(v[3]) = c /\ I32(v[4]) = d
  BY <1>4, Numbers, Zenon DEF I32
<1> DEFINE x2 == a \o b
           x3 == x2 \o c
           x4 == x3 \o d
           x5 == x4 \o token
           w6 == types \o tail
           w5 == token \o w6
           w4 == d \o w5
           w3 == c \o w4
           w2 == b \o w3
           w1 == a \o w2
<1>8. Body(f) = x5 \o types
  <2>1. f.type # RESUME /\ f.type # LEASE /\ f.type # ERROR /\ ~Counted(f.type) /\ ~Positioned(f.type)
    BY OneBody DEF IsFrame
  <2>2. Body(f) = WriteSetup(f)
    BY <2>1 DEF Body
  <2>3. (IF IsFlagSet(f.flags, RESUME_ENABLED) THEN I16(Len(part[1])) \o part[1] ELSE <<>>) = token
    BY <1>4, Zenon
  <2> HIDE DEF types, part
  <2> QED BY <1>2, <1>7, <2>2, <2>3, Zenon
<1>9. /\ types \in Seq(Cells) /\ w6 \in Seq(Cells)
      /\ HasField(w6, 1) /\ Field(w6, 1) = v[6]
      /\ HasField(AfterField(w6, 1), 1) /\ Field(AfterField(w6, 1), 1) = v[7]
      /\ AfterField(AfterField(w6, 1), 1) = tail
  <2>1. v[6] \in Seq(Octets) /\ v[7] \in Seq(Octets) /\ Len(v[6]) \in Uint8 /\ Len(v[7]) \in Uint8
    BY <1>4, Zenon
  <2> DEFINE first == v[6]
             second == v[7]
  <2>2. types = (I8(Len(first)) \o first) \o (I8(Len(second)) \o second)
    OBVIOUS
  <2>3. first \in Seq(Octets) /\ second \in Seq(Octets) /\ Len(first) \in Uint8 /\ Len(second) \in Uint8
    BY <2>1
  <2> HIDE DEF first, second
  <2> DEFINE written == (I8(Len(first)) \o first) \o (I8(Len(second)) \o second)
             w == written \o tail
  <2>4. /\ written \in Seq(Cells) /\ w \in Seq(Cells)
        /\ HasField(w, 1) /\ Field(w, 1) = first
        /\ HasField(AfterField(w, 1), 1) /\ Field(AfterField(w, 1), 1) = second
        /\ AfterField(AfterField(w, 1), 1) = tail
    BY <2>3, MimeTypesAreRead
  <2> HIDE DEF types
  <2> QED BY <2>2, <2>4 DEF first, second
<1> HIDE DEF types, w6
<1>10. /\ token \in Seq(Cells)
       /\ part = Missing => w5 = w6
       /\ part # Missing => HasField(w5, 2) /\ part = Some(Field(w5, 2)) /\ AfterField(w5, 2) = w6
  <2> HIDE DEF part
  <2> QED BY <1>4, <1>9, TokenIsRead, Zenon
<1> HIDE DEF token, part
<1>11. w5 \in Seq(Cells)
  BY <1>9, <1>10, Peel, Zenon
<1> HIDE DEF w5
<1>12. w4 \in Seq(Cells) /\ Len(w4) = 4 + Len(w5) /\ Number(w4) = v[4] /\ Rest(w4, 4) = w5
  <2>1. 4 \in Nat \ {0} /\ v[4] \in Nat
    BY <1>5, Zenon
  <2> QED BY <1>11, <2>1, ReadWord, Zenon
<1> HIDE DEF w4
<1>13. w3 \in Seq(Cells) /\ Len(w3) = 4 + Len(w4) /\ Number(w3) = v[3] /\ Rest(w3, 4) = w4
  <2>1. 4 \in Nat \ {0} /\ v[3] \in Nat /\ w4 \in Seq(Cells)
    BY <1>5, <1>12, Zenon
  <2> QED BY <2>1, ReadWord, Zenon
<1> HIDE DEF w3
<1>14. w2 \in Seq(Cells) /\ Len(w2) = 2 + Len(w3) /\ Number(w2) = v[2] /\ Rest(w2, 2) = w3
  <2>1. 2 \in Nat \ {0} /\ v[2] \in Nat /\ w3 \in Seq(Cells)
    BY <1>5, <1>13, Zenon
  <2> QED BY <2>1, ReadWord, Zenon
<1> HIDE DEF w2
<1>15. w1 \in Seq(Cells) /\ Len(w1) = 2 + Len(w2) /\ Number(w1) = v[1] /\ Rest(w1, 2) = w2
  <2>1. 2 \in Nat \ {0} /\ v[1] \in Nat /\ w2 \in Seq(Cells)
    BY <1>5, <1>14, Zenon
  <2> QED BY <2>1, ReadWord, Zenon
<1> HIDE DEF w1, a, b, c, d, x5, x4, x3, x2
<1>16. Body(f) \in Seq(Cells) /\ Body(f) \o tail = w1
  <2>1. x2 = a \o b /\ x3 = x2 \o c /\ x4 = x3 \o d /\ x5 = x4 \o token
    BY DEF x2, x3, x4, x5
  <2>2. w6 = types \o tail /\ w5 = token \o w6 /\ w4 = d \o w5 /\ w3 = c \o w4
        /\ w2 = b \o w3 /\ w1 = a \o w2
    BY DEF w1, w2, w3, w4, w5, w6
  <2>3. x2 \in Seq(Cells)
    BY <1>6, <2>1, Peel, Zenon
  <2>4. x3 \in Seq(Cells)
    BY <1>6, <2>1, <2>3, Peel, Zenon
  <2>5. x4 \in Seq(Cells)
    BY <1>6, <2>1, <2>4, Peel, Zenon
  <2>6. x5 \in Seq(Cells)
    BY <1>10, <2>1, <2>5, Peel, Zenon
  <2>7. w3 \in Seq(Cells) /\ w4 \in Seq(Cells) /\ w6 \in Seq(Cells) /\ types \in Seq(Cells)
        /\ token \in Seq(Cells) /\ a \in Seq(Cells) /\ b \in Seq(Cells) /\ c \in Seq(Cells)
        /\ d \in Seq(Cells)
    BY <1>6, <1>9, <1>10, <1>12, <1>13
  <2>8. (a \o b) \o w3 = a \o (b \o w3)
    <3>1. a \in Seq(Cells) /\ b \in Seq(Cells) /\ w3 \in Seq(Cells)
      BY <2>7
    <3> QED BY <3>1, Associates, ZenonT(30)
  <2>9. (x2 \o c) \o w4 = x2 \o (c \o w4)
    <3>1. x2 \in Seq(Cells) /\ c \in Seq(Cells) /\ w4 \in Seq(Cells)
      BY <2>3, <2>7
    <3> QED BY <3>1, Associates, ZenonT(30)
  <2>10. (x3 \o d) \o w5 = x3 \o (d \o w5)
    <3>1. x3 \in Seq(Cells) /\ d \in Seq(Cells) /\ w5 \in Seq(Cells)
      BY <1>11, <2>4, <2>7
    <3> QED BY <3>1, Associates, ZenonT(30)
  <2>11. (x4 \o token) \o w6 = x4 \o (token \o w6)
    <3>1. x4 \in Seq(Cells) /\ token \in Seq(Cells) /\ w6 \in Seq(Cells)
      BY <2>5, <2>7
    <3> QED BY <3>1, Associates, ZenonT(30)
  <2>12. (x5 \o types) \o tail = x5 \o (types \o tail)
    <3>1. x5 \in Seq(Cells) /\ types \in Seq(Cells) /\ tail \in Seq(Cells)
      BY <2>6, <2>7
    <3> QED BY <3>1, Associates, Zenon
  <2>13. (x5 \o types) \o tail = w1
    BY <2>1, <2>2, <2>8, <2>9, <2>10, <2>11, <2>12, Zenon
  <2>14. x5 \o types \in Seq(Cells)
    BY <2>6, <2>7, Peel, Zenon
  <2> QED BY <1>8, <2>13, <2>14, Zenon
<1>17. Len(w1) >= 12
  <2>1. Len(w5) \in Nat
    BY <1>11
  <2> QED BY <2>1, <1>12, <1>13, <1>14, <1>15
<1>18. ReadBody(h, w1) = ReadSetup(h, w1)
  <2>1. h.type = SETUP /\ h.type \notin {RESUME, LEASE, ERROR, METADATA_PUSH} /\ ~Counted(h.type)
        /\ ~Positioned(h.type)
    BY OneBody DEF IsFrame
  <2> QED BY <2>1 DEF ReadBody
<1>19. ReadSetup(h, w1) = ReadMimeTypes(h, fixed, part, w6)
  <2>1. ~(Len(w1) < 12)
    <3>1. Len(w1) \in Nat
      BY <1>15
    <3> QED BY <1>17, <3>1
  <2>2. fixed = <<Number(w1), Number(Rest(w1, 2)), Number(Rest(Rest(w1, 2), 2)),
                  Number(Rest(Rest(Rest(w1, 2), 2), 4))>>
    BY <1>12, <1>13, <1>14, <1>15, Zenon
  <2>3. Rest(Rest(Rest(Rest(w1, 2), 2), 4), 4) = w5
    BY <1>12, <1>13, <1>14, <1>15, Zenon
  <2> HIDE DEF fixed
  <2>4. ReadSetup(h, w1) =
          IF ~IsFlagSet(h.flags, RESUME_ENABLED) THEN ReadMimeTypes(h, fixed, Missing, w5)
          ELSE IF HasField(w5, 2) THEN ReadMimeTypes(h, fixed, Some(Field(w5, 2)), AfterField(w5, 2))
          ELSE Refused
    BY <2>1, <2>2, <2>3, Zenon DEF ReadSetup
  <2> QED BY <1>4, <1>10, <2>4, Zenon
<1>20. ReadMimeTypes(h, fixed, part, w6) =
         ReadParts(h, <<fixed[1], fixed[2], fixed[3], fixed[4], part, v[6], v[7]>>, tail)
  <2> HIDE DEF fixed
  <2> QED BY <1>9, Zenon DEF ReadMimeTypes
<1>21. fixed[1] = v[1] /\ fixed[2] = v[2] /\ fixed[3] = v[3] /\ fixed[4] = v[4] /\ part = v[5]
  BY DEF part
<1> HIDE DEF fixed
<1> QED BY <1>3, <1>16, <1>18, <1>19, <1>20, <1>21, Zenon DEF v

----------------------------------------------------------------------------
(* The theorems.                                                           *)

\* Whatever its type, the reader finds the values of the body where the writer put them.
LEMMA BodyIsRead ==
  ASSUME NEW f, IsFrame(f), NEW tail \in Seq(Cells), MaxUint32 \in Nat, MaxUint63 \in Nat,
         NEW h, h.type = f.type, h.flags = f.flags
  PROVE  /\ Body(f) \in Seq(Cells)
         /\ ReadBody(h, Body(f) \o tail) = ReadParts(h, f.values, tail)
<1>1. f.type \in FrameType
  BY DEF IsFrame
<1>2. \/ f.type = SETUP \/ f.type = RESUME \/ f.type = LEASE \/ f.type = ERROR
      \/ Counted(f.type) \/ Positioned(f.type) \/ Bodiless(f.type)
  BY <1>1, OneBody
<1>3. CASE f.type = SETUP
  BY <1>3, SetupIsRead, Zenon
<1>4. CASE f.type = RESUME
  BY <1>4, ResumeIsRead, Zenon
<1>5. CASE f.type = LEASE
  BY <1>5, LeaseIsRead, Zenon
<1>6. CASE f.type = ERROR \/ Counted(f.type)
  BY <1>6, CountIsRead, Zenon
<1>7. CASE Positioned(f.type)
  BY <1>7, PositionIsRead, Zenon
<1>8. CASE Bodiless(f.type)
  BY <1>8, NothingIsRead, Zenon
<1> QED BY <1>2, <1>3, <1>4, <1>5, <1>6, <1>7, <1>8, Zenon

\* The pieces the writer puts behind each other.
LEMMA Pieces ==
  ASSUME NEW f, IsFrame(f), MaxUint32 \in Nat, MaxUint63 \in Nat
  PROVE  /\ Header(f) \in Seq(Cells) /\ Len(Header(f)) = HeaderLength
         /\ Body(f) \in Seq(Cells)
         /\ WriteMetadata(f) \in Seq(Cells) /\ WriteData(f) \in Seq(Cells)
         /\ Len(WriteMetadata(f)) + Len(WriteData(f)) = VariableLength(f)
<1>1. <<>> \in Seq(Cells) /\ Len(<<>>) = 0
  OBVIOUS
<1>2. Header(f) \in Seq(Cells) /\ Len(Header(f)) = HeaderLength
  BY <1>1, HeaderIsRead, Zenon
<1>3. Body(f) \in Seq(Cells)
  <2> DEFINE h == [type |-> f.type, flags |-> f.flags]
  <2>1. h.type = f.type /\ h.flags = f.flags
    OBVIOUS
  <2> HIDE DEF h
  <2> QED BY <1>1, <2>1, BodyIsRead, Zenon
<1> DEFINE m == Bytes(f.metadata)
           d == Bytes(f.data)
           prefixed == MetadataHasLength(f.type) /\ (f.metadata # Missing \/ HasMetadata(f))
<1>4. /\ m \in Seq(Cells)
      /\ f.metadata # Missing => f.metadata[1] = m
      /\ f.metadata = Missing => m = <<>>
  BY Options DEF IsFrame
<1>5. /\ d \in Seq(Cells)
      /\ f.data # Missing => f.data[1] = d
      /\ f.data = Missing => d = <<>>
  BY Options DEF IsFrame
<1> HIDE DEF m, d
<1>6. WriteData(f) = d
  BY <1>5 DEF WriteData
<1>7. VariableLength(f) = Len(m) + (IF prefixed THEN 3 ELSE 0) + Len(d)
  <2>1. Len(m) = IF f.metadata # Missing THEN Len(f.metadata[1]) ELSE 0
    BY <1>1, <1>4, Zenon
  <2>2. Len(d) = IF f.data # Missing THEN Len(f.data[1]) ELSE 0
    BY <1>1, <1>5, Zenon
  <2> QED BY <2>1, <2>2, Zenon DEF VariableLength
<1>8. WriteMetadata(f) \in Seq(Cells) /\ Len(WriteMetadata(f)) = Len(m) + IF prefixed THEN 3 ELSE 0
  <2>1. Len(m) \in Nat
    BY <1>4
  <2>2. /\ I24(Len(m)) \in Seq(Cells) /\ Len(I24(Len(m))) = 3
        /\ I24(0) \in Seq(Cells) /\ Len(I24(0)) = 3
    <3>1. 3 \in Nat \ {0}
      OBVIOUS
    <3>2. Len(m) % 16777216 \in Nat /\ 0 % 16777216 \in Nat
      BY <2>1
    <3>3. \A n \in Nat : Word(3, n) \in Seq(Cells) /\ Len(Word(3, n)) = 3
      BY <3>1, Words, Zenon
    <3> QED BY <3>2, <3>3 DEF I24
  <2>3. CASE prefixed /\ f.metadata # Missing
    <3>1. WriteMetadata(f) = I24(Len(m)) \o m
      BY <1>4, <2>3 DEF WriteMetadata
    <3>2. I24(Len(m)) \o m \in Seq(Cells) /\ Len(I24(Len(m)) \o m) = Len(I24(Len(m))) + Len(m)
      BY <1>4, <2>2, Peel, Zenon
    <3> QED BY <2>1, <2>2, <2>3, <3>1, <3>2
  <2>4. CASE prefixed /\ f.metadata = Missing
    <3>1. WriteMetadata(f) = I24(0) /\ m = <<>>
      BY <1>4, <2>4 DEF WriteMetadata
    <3> QED BY <1>1, <2>2, <2>4, <3>1
  <2>5. CASE ~prefixed /\ f.metadata # Missing
    <3>1. WriteMetadata(f) = m
      BY <1>4, <2>5 DEF WriteMetadata
    <3> QED BY <1>4, <2>1, <2>5, <3>1
  <2>6. CASE ~prefixed /\ f.metadata = Missing
    <3>1. WriteMetadata(f) = <<>> /\ m = <<>>
      BY <1>4, <2>6 DEF WriteMetadata
    <3> QED BY <1>1, <2>6, <3>1
  <2> QED BY <2>3, <2>4, <2>5, <2>6
<1>9. Len(WriteMetadata(f)) + Len(WriteData(f)) = VariableLength(f)
  <2>1. Len(m) \in Nat /\ Len(d) \in Nat
    BY <1>4, <1>5
  <2> QED BY <1>6, <1>7, <1>8, <2>1
<1> QED BY <1>2, <1>3, <1>5, <1>6, <1>8, <1>9

\* What Serialize writes, from the front, and how long it is.
LEMMA FromTheFront ==
  ASSUME NEW f, IsFrame(f), MaxUint32 \in Nat, MaxUint63 \in Nat
  PROVE  /\ Serialize(f) = Header(f) \o (Body(f) \o (WriteMetadata(f) \o WriteData(f)))
         /\ Body(f) \o (WriteMetadata(f) \o WriteData(f)) \in Seq(Cells)
         /\ Len(Serialize(f)) = AnnouncedLength(f)
<1> DEFINE h == Header(f)
           b == Body(f)
           m == WriteMetadata(f)
           d == WriteData(f)
<1>1. h \in Seq(Cells) /\ b \in Seq(Cells) /\ m \in Seq(Cells) /\ d \in Seq(Cells)
  BY Pieces, Zenon
<1>2. Len(h) = HeaderLength /\ Len(m) + Len(d) = VariableLength(f)
  BY Pieces, Zenon
<1>3. Serialize(f) = ((h \o b) \o m) \o d
  BY DEF Serialize
<1>4. AnnouncedLength(f) = Len(h) + Len(b) + (Len(m) + Len(d))
  BY <1>2 DEF AnnouncedLength
<1> HIDE DEF h, b, m, d
<1>5. h \o b \in Seq(Cells) /\ Len(h \o b) = Len(h) + Len(b)
  BY <1>1, Peel, Zenon
<1>6. m \o d \in Seq(Cells) /\ Len(m \o d) = Len(m) + Len(d)
  BY <1>1, Peel, Zenon
<1>7. ((h \o b) \o m) \o d = (h \o b) \o (m \o d)
  <2> DEFINE x == h \o b
  <2>1. x \in Seq(Cells) /\ m \in Seq(Cells) /\ d \in Seq(Cells)
    BY <1>1, <1>5
  <2> HIDE DEF x
  <2>2. (x \o m) \o d = x \o (m \o d)
    BY <2>1, Associates, Zenon
  <2> QED BY <2>2 DEF x
<1> DEFINE parts == m \o d
<1>8. parts \in Seq(Cells) /\ Len(parts) = Len(m) + Len(d)
  BY <1>6
<1> HIDE DEF parts
<1>9. (h \o b) \o parts = h \o (b \o parts)
  <2>1. h \in Seq(Cells) /\ b \in Seq(Cells) /\ parts \in Seq(Cells)
    BY <1>1, <1>8
  <2> QED BY <2>1, Associates, Zenon
<1> DEFINE rest == b \o parts
<1>10. rest \in Seq(Cells) /\ Len(rest) = Len(b) + Len(parts)
  <2>1. b \in Seq(Cells) /\ parts \in Seq(Cells)
    BY <1>1, <1>8
  <2> QED BY <2>1, Peel, Zenon
<1>11. h \o rest \in Seq(Cells) /\ Len(h \o rest) = Len(h) + Len(rest)
  <2>1. h \in Seq(Cells) /\ rest \in Seq(Cells)
    BY <1>1, <1>10
  <2> HIDE DEF rest
  <2> QED BY <2>1, Peel, Zenon
<1>12. Serialize(f) = h \o rest
  BY <1>3, <1>7, <1>9 DEF parts
<1>13. Len(Serialize(f)) = AnnouncedLength(f)
  <2>1. Len(h) \in Nat /\ Len(b) \in Nat /\ Len(m) \in Nat /\ Len(d) \in Nat
    BY <1>1
  <2> HIDE DEF rest
  <2> QED BY <1>4, <1>8, <1>10, <1>11, <1>12, <2>1
<1> QED BY <1>10, <1>12, <1>13 DEF h, b, m, d, parts

\* Frame.ts checks the limit of a frame, and the TCP writer announces its length, from a sum
\* made before any octet is written; the octets written are exactly as many, for every frame.
THEOREM AnnouncedLengthIsExact ==
  ASSUME NEW f, IsFrame(f), MaxUint32 \in Nat, MaxUint63 \in Nat
  PROVE  Len(Serialize(f)) = AnnouncedLength(f)
BY FromTheFront, Zenon

\* A frame within the limit never has more metadata than its 24-bit length can say.
LEMMA MetadataLengthFits ==
  ASSUME NEW f, IsFrame(f), Fits(f), MaxUint32 \in Nat, MaxUint63 \in Nat
  PROVE  I24(Len(Bytes(f.metadata))) = Word(3, Len(Bytes(f.metadata)))
<1> DEFINE m == Bytes(f.metadata)
           d == Bytes(f.data)
           prefix == IF MetadataHasLength(f.type) /\ (f.metadata # Missing \/ HasMetadata(f)) THEN 3 ELSE 0
<1>1. m \in Seq(Cells) /\ d \in Seq(Cells) /\ Body(f) \in Seq(Cells) /\ <<>> \in Seq(Cells) /\ Len(<<>>) = 0
  BY Options, Pieces DEF IsFrame
<1>2. Len(m) = IF f.metadata # Missing THEN Len(f.metadata[1]) ELSE 0
  <2>1. (f.metadata # Missing => f.metadata[1] = m) /\ (f.metadata = Missing => m = <<>>)
    BY Options DEF IsFrame
  <2> HIDE DEF m
  <2> QED BY <1>1, <2>1, Zenon
<1>3. Len(d) = IF f.data # Missing THEN Len(f.data[1]) ELSE 0
  <2>1. (f.data # Missing => f.data[1] = d) /\ (f.data = Missing => d = <<>>)
    BY Options DEF IsFrame
  <2> HIDE DEF d
  <2> QED BY <1>1, <2>1, Zenon
<1>4. VariableLength(f) = Len(m) + prefix + Len(d)
  BY <1>2, <1>3, Zenon DEF VariableLength
<1>5. Len(m) \in Nat /\ Len(d) \in Nat /\ Len(Body(f)) \in Nat /\ prefix \in Nat
  BY <1>1
<1> DEFINE n == Len(m)
<1> HIDE DEF m, d, prefix
<1>6. n \in Nat /\ n <= MaxFrameSize
  BY <1>4, <1>5 DEF Fits, AnnouncedLength, HeaderLength, MaxFrameSize
<1> HIDE DEF n
<1>7. n % 16777216 = n
  BY <1>6 DEF MaxFrameSize
<1>8. I24(n) = Word(3, n)
  BY <1>7 DEF I24
<1> QED BY <1>8 DEF n, m

\* Whatever frame the constructors make and the limit lets pass, the peer's deserializer reads
\* back the same type, stream, flags, values, metadata and data: no field's length, width or
\* offset is misread for any combination of optional parts, and nothing is left over or refused.
THEOREM RoundTrip ==
  ASSUME NEW f, IsFrame(f), Fits(f), MaxUint32 \in Nat, MaxUint63 \in Nat
  PROVE  Deserialize(Serialize(f)) = Some(AsRead(f))
<1> DEFINE parts == WriteMetadata(f) \o WriteData(f)
           rest == Body(f) \o parts
           wire == Serialize(f)
           h == [stream |-> f.stream, type |-> f.type, flags |-> f.flags]
<1>1. wire = Header(f) \o rest /\ rest \in Seq(Cells) /\ Len(wire) = AnnouncedLength(f)
  BY FromTheFront, Zenon
<1>2. parts \in Seq(Cells)
  BY Pieces, Peel, Zenon
<1>3. h.stream = f.stream /\ h.type = f.type /\ h.flags = f.flags
  OBVIOUS
<1> HIDE DEF parts, h
<1>4. ReadBody(h, rest) = ReadParts(h, f.values, parts)
  BY <1>2, <1>3, BodyIsRead, Zenon
<1>5. ReadParts(h, f.values, parts) = Some(AsRead(f))
  BY <1>3, MetadataLengthFits, PartsAreRead, Zenon DEF parts
<1> HIDE DEF rest
<1>6. /\ Len(wire) = HeaderLength + Len(rest)
      /\ Number(wire) = f.stream
      /\ TypeIn(Number(Rest(wire, 4))) = f.type
      /\ FlagsIn(Number(Rest(wire, 4))) = f.flags
      /\ Rest(wire, HeaderLength) = rest
  <2> HIDE DEF wire
  <2> QED BY <1>1, HeaderIsRead
<1>7. ~(Len(wire) < HeaderLength \/ Len(wire) > MaxFrameSize)
  <2>1. Len(rest) \in Nat
    BY <1>1
  <2> HIDE DEF wire
  <2> QED BY <1>1, <1>6, <2>1 DEF Fits, HeaderLength, MaxFrameSize
<1>8. f.type \in FrameType /\ AcceptsHeader(f)
  BY DEF IsFrame, Accepted
<1>9. ~(f.stream > MaxUint31 \/ (OnTheConnection(f.type) /\ f.stream # 0))
  <2>1. f.stream \in Uint31 /\ (OnTheConnection(f.type) => f.stream = 0)
    BY <1>8, Zenon DEF AcceptsHeader
  <2>2. MaxUint31 \in Nat
    BY DEF MaxUint31
  <2>3. ~(f.stream > MaxUint31)
    BY <2>1, <2>2 DEF Uint31
  <2> QED BY <2>1, <2>3
<1> HIDE DEF wire
<1>10. Deserialize(wire) = ReadBody(h, rest)
  BY <1>6, <1>7, <1>8, <1>9, Zenon DEF Deserialize, h
<1> QED BY <1>4, <1>5, <1>10 DEF wire
----------------------------------------------------------------------------
(***************************************************************************)
(* The binary search.                                                      *)
(***************************************************************************)

\* The loop invariant, with what it needs about its input.
SearchInv ==
  /\ TypeOK
  /\ Increasing(entries)
  /\ OffsetIsBracketed
  /\ SearchIsExact

\* The middle of a non-empty interval lies in it, and both halves are smaller.
LEMMA MiddleIsInside ==
  ASSUME NEW a \in Nat, NEW b \in Nat, a < b
  PROVE  LET middle == a + (b - a) \div 2
         IN middle \in Nat /\ a <= middle /\ middle < b
OBVIOUS

\* Before the first turn nothing has been excluded.
LEMMA SearchInitEstablishes == SearchInit => SearchInv
<1> SUFFICES ASSUME SearchInit PROVE SearchInv
  OBVIOUS
<1>1. PICK n \in 1..MaxEntries : entries \in [1..n -> 1..MaxOffset]
  BY DEF SearchInit
<1>2. n \in Nat /\ entries \in [1..n -> Nat]
  BY <1>1, SearchAssumption
<1>3. entries \in Seq(Nat) /\ Len(entries) = n
  <2>1. entries \in Seq(Nat)
    BY <1>2, SeqDef
  <2> QED
    BY <2>1, <1>2, LenProperties
<1>4. entries[n] \in Nat /\ head \in 0..(n - 1)
  BY <1>1, <1>2, <1>3 DEF SearchInit
<1>5. offset \in Nat
  BY <1>3, <1>4 DEF SearchInit
<1>6. low = head /\ high = n /\ result = Unsettled /\ Increasing(entries)
  BY <1>3 DEF SearchInit
<1>7. TypeOK
  BY <1>2, <1>3, <1>4, <1>5, <1>6 DEF TypeOK
<1>8. OffsetIsBracketed /\ SearchIsExact
  BY <1>2, <1>3, <1>4, <1>6 DEF OffsetIsBracketed, SearchIsExact
<1> QED
  BY <1>6, <1>7, <1>8 DEF SearchInv

\* A turn of the loop excludes only frames that do not end at the offset.
LEMMA NarrowKeeps ==
  ASSUME SearchInv, Narrow
  PROVE  SearchInv' /\ high' - low' \in 0..(high - low - 1)
<1> DEFINE L == Len(entries)
           middle == low + (high - low) \div 2
<1>1. /\ L \in Nat /\ head \in 0..L /\ offset \in Nat
      /\ low \in Nat /\ head <= low /\ high \in Nat /\ low < high /\ high <= L
  BY DEF SearchInv, TypeOK, Narrow
<1>2. middle \in Nat /\ low <= middle /\ middle < high /\ middle + 1 \in 1..L
  BY <1>1, MiddleIsInside
<1>3. UNCHANGED <<entries, head, offset, result>>
  BY DEF Narrow, input
<1>4. \A i \in 1..L : entries[i] \in Nat
  BY ElementOfSeq DEF SearchInv, TypeOK
<1> HIDE DEF middle
<1>5. CASE entries[middle + 1] < offset /\ low' = middle + 1 /\ high' = high
  <2>1. TypeOK' /\ high' - low' \in 0..(high - low - 1)
    BY <1>1, <1>2, <1>3, <1>5 DEF SearchInv, TypeOK
  <2>2. ASSUME NEW i \in (head + 1)..(middle + 1)
        PROVE  entries[i] < offset
    <3>1. i \in 1..L /\ (i = middle + 1 \/ i < middle + 1)
      BY <1>1, <1>2
    <3>2. i < middle + 1 => entries[i] < entries[middle + 1]
      BY <3>1, <1>2 DEF SearchInv, Increasing
    <3> QED
      BY <3>1, <3>2, <1>1, <1>2, <1>4, <1>5
  <2>3. OffsetIsBracketed'
    BY <2>2, <1>3, <1>5 DEF SearchInv, OffsetIsBracketed
  <2> QED
    BY <2>1, <2>3, <1>3 DEF SearchInv, SearchIsExact, Increasing
<1>6. CASE ~(entries[middle + 1] < offset) /\ high' = middle /\ low' = low
  <2>1. TypeOK' /\ high' - low' \in 0..(high - low - 1)
    BY <1>1, <1>2, <1>3, <1>6 DEF SearchInv, TypeOK
  <2>2. ASSUME NEW i \in (middle + 1)..L
        PROVE  offset <= entries[i]
    <3>1. i \in 1..L /\ (i = middle + 1 \/ middle + 1 < i)
      BY <1>1, <1>2
    <3>2. middle + 1 < i => entries[middle + 1] < entries[i]
      BY <3>1, <1>2 DEF SearchInv, Increasing
    <3> QED
      BY <3>1, <3>2, <1>1, <1>2, <1>4, <1>6
  <2>3. OffsetIsBracketed'
    BY <2>2, <1>3, <1>6 DEF SearchInv, OffsetIsBracketed
  <2> QED
    BY <2>1, <2>3, <1>3 DEF SearchInv, SearchIsExact, Increasing
<1> QED
  BY <1>5, <1>6 DEF Narrow, middle

\* The empty interval decides: only the frame at low can end at the offset.
LEMMA DecideKeeps ==
  ASSUME SearchInv, Decide
  PROVE  SearchInv'
<1> DEFINE L == Len(entries)
<1>1. /\ L \in Nat /\ head \in 0..L /\ offset \in Nat
      /\ low \in head..L /\ high = low /\ DOMAIN entries = 1..L
  BY LenProperties DEF SearchInv, TypeOK, Decide
<1>2. UNCHANGED <<entries, head, offset, low, high>>
  BY DEF Decide, input
<1>3. \A i \in 1..L : entries[i] \in Nat
  BY ElementOfSeq DEF SearchInv, TypeOK
<1>4. result' = IF low + 1 \in 1..L /\ entries[low + 1] = offset THEN low + 1 ELSE Inside
  BY <1>1 DEF Decide
<1>5. TypeOK'
  <2>1. result' \in {Unsettled, Inside} \cup 1..L
    BY <1>4
  <2> QED
    BY <2>1, <1>2 DEF SearchInv, TypeOK
<1>6. ASSUME NEW i \in (head + 1)..L, entries[i] = offset
      PROVE  i = low + 1
  <2>1. i \in 1..L /\ entries[i] \in Nat
    BY <1>1, <1>3
  <2>2. ~(i <= low)
    BY <2>1, <1>1, <1>6 DEF SearchInv, OffsetIsBracketed
  <2>3. ~(low + 1 < i)
    <3> SUFFICES ASSUME low + 1 < i PROVE FALSE
      OBVIOUS
    <3>1. low + 1 \in 1..L /\ low + 1 \in (high + 1)..L
      BY <2>1, <1>1
    <3>2. entries[low + 1] < entries[i] /\ offset <= entries[low + 1]
      BY <3>1, <2>1 DEF SearchInv, Increasing, OffsetIsBracketed
    <3> QED
      BY <3>1, <3>2, <2>1, <1>1, <1>3, <1>6
  <2> QED
    BY <2>1, <2>2, <2>3, <1>1
<1>7. SearchIsExact'
  <2> SUFFICES ASSUME NEW i \in (head + 1)..L
               PROVE  entries[i] = offset <=> result' = i
    BY <1>2 DEF SearchIsExact
  <2>1. ASSUME entries[i] = offset PROVE result' = i
    BY <2>1, <1>1, <1>4, <1>6
  <2>2. ASSUME result' = i PROVE entries[i] = offset
    BY <2>2, <1>1, <1>4 DEF Inside
  <2> QED
    BY <2>1, <2>2
<1>8. OffsetIsBracketed' /\ Increasing(entries)'
  BY <1>2 DEF SearchInv, OffsetIsBracketed, Increasing
<1> QED
  BY <1>5, <1>7, <1>8 DEF SearchInv

\* The loop invariant holds throughout.
THEOREM LoopInvariant == SearchSpec => []SearchInv
<1>1. SearchInit => SearchInv
  BY SearchInitEstablishes
<1>2. SearchInv /\ [SearchNext]_search => SearchInv'
  <2> SUFFICES ASSUME SearchInv, [SearchNext]_search PROVE SearchInv'
    OBVIOUS
  <2>1. CASE Narrow
    BY <2>1, NarrowKeeps
  <2>2. CASE Decide
    BY <2>2, DecideKeeps
  <2>3. CASE UNCHANGED search
    BY <2>3 DEF search, input, SearchInv, TypeOK, Increasing, OffsetIsBracketed, SearchIsExact
  <2> QED
    BY <2>1, <2>2, <2>3 DEF SearchNext
<1> QED
  BY <1>1, <1>2, PTL DEF SearchSpec

\* positionIndex finds a boundary exactly when there is one.
THEOREM SearchFinds == SearchSpec => []SearchIsExact
<1>1. SearchInv => SearchIsExact
  BY DEF SearchInv
<1> QED
  BY <1>1, LoopInvariant, PTL

\* Every turn of the loop shrinks its interval, so it ends.
THEOREM SearchTerminates == SearchSpec => IntervalShrinks
<1>1. SearchInv /\ [SearchNext]_search => [Narrow => high' - low' \in 0..(high - low - 1)]_search
  BY NarrowKeeps
<1> QED
  BY <1>1, LoopInvariant, PTL DEF SearchSpec, IntervalShrinks

----------------------------------------------------------------------------
(* The queue.                                                              *)

\* The arrays push, next and the compactions leave behind.
Array(S) ==
  {a \in [slots : Seq(S \cup {Undefined}), consumed : Nat] :
     /\ a.consumed <= Len(a.slots)
     /\ \A i \in 1 .. a.consumed : a.slots[i] = Undefined
     /\ \A i \in a.consumed + 1 .. Len(a.slots) : a.slots[i] \in S
     /\ a.consumed < CompactAfter \/ a.consumed < Size(a)}

LEMMA ArrayFacts ==
  ASSUME NEW S, NEW a \in Array(S)
  PROVE  /\ a.slots \in Seq(S \cup {Undefined}) /\ a.consumed \in Nat /\ Len(a.slots) \in Nat
         /\ a = [slots |-> a.slots, consumed |-> a.consumed]
         /\ a.consumed <= Len(a.slots)
         /\ \A i \in 1 .. a.consumed : a.slots[i] = Undefined
         /\ \A i \in a.consumed + 1 .. Len(a.slots) : a.slots[i] \in S
         /\ a.consumed < CompactAfter \/ a.consumed < Size(a)
         /\ Size(a) \in Nat
         /\ \A i \in 1 .. Size(a) : Item(a, i) \in S
<1>1. /\ a \in [slots : Seq(S \cup {Undefined}), consumed : Nat]
      /\ a.consumed <= Len(a.slots)
      /\ \A i \in 1 .. a.consumed : a.slots[i] = Undefined
      /\ \A i \in a.consumed + 1 .. Len(a.slots) : a.slots[i] \in S
      /\ a.consumed < CompactAfter \/ a.consumed < Size(a)
  BY DEF Array
<1>2. /\ a.slots \in Seq(S \cup {Undefined}) /\ a.consumed \in Nat /\ Len(a.slots) \in Nat
      /\ a = [slots |-> a.slots, consumed |-> a.consumed]
  BY <1>1, LenProperties
<1>3. Size(a) \in Nat
  BY <1>1, <1>2 DEF Size
<1>4. ASSUME NEW i \in 1 .. Size(a) PROVE Item(a, i) \in S
  <2>1. a.consumed + i \in a.consumed + 1 .. Len(a.slots)
    BY <1>2 DEF Size
  <2> QED BY <1>1, <2>1 DEF Item
<1> QED BY <1>1, <1>2, <1>3, <1>4

LEMMA MakeArray ==
  ASSUME NEW S, NEW slots \in Seq(S \cup {Undefined}), NEW consumed \in Nat,
         consumed <= Len(slots),
         \A i \in 1 .. consumed : slots[i] = Undefined,
         \A i \in consumed + 1 .. Len(slots) : slots[i] \in S,
         consumed < CompactAfter \/ consumed < Len(slots) - consumed
  PROVE  /\ [slots |-> slots, consumed |-> consumed] \in Array(S)
         /\ Size([slots |-> slots, consumed |-> consumed]) = Len(slots) - consumed
BY DEF Array, Size

LEMMA EmptyArrayLaw ==
  ASSUME NEW S, CompactAfter \in Nat \ {0}
  PROVE  EmptyArray \in Array(S) /\ Size(EmptyArray) = 0
<1>1. <<>> \in Seq(S \cup {Undefined}) /\ Len(<<>>) = 0
  BY EmptySeq
<1>2. /\ [slots |-> <<>>, consumed |-> 0] \in Array(S)
      /\ Size([slots |-> <<>>, consumed |-> 0]) = Len(<<>>) - 0
  BY <1>1 DEF Array, Size
<1> QED BY <1>1, <1>2 DEF EmptyArray

LEMMA AddedLaw ==
  ASSUME NEW S, NEW a \in Array(S), NEW x \in S
  PROVE  /\ Added(a, x) \in Array(S)
         /\ Size(Added(a, x)) = Size(a) + 1
         /\ \A i \in 1 .. Size(a) : Item(Added(a, x), i) = Item(a, i)
         /\ Item(Added(a, x), Size(a) + 1) = x
<1> DEFINE slots == Append(a.slots, x)
<1>1. /\ a.slots \in Seq(S \cup {Undefined}) /\ a.consumed \in Nat /\ Len(a.slots) \in Nat
      /\ a = [slots |-> a.slots, consumed |-> a.consumed]
      /\ a.consumed <= Len(a.slots)
      /\ \A i \in 1 .. a.consumed : a.slots[i] = Undefined
      /\ \A i \in a.consumed + 1 .. Len(a.slots) : a.slots[i] \in S
      /\ a.consumed < CompactAfter \/ a.consumed < Size(a)
      /\ Size(a) \in Nat
  BY ArrayFacts
<1>2. /\ slots \in Seq(S \cup {Undefined}) /\ Len(slots) = Len(a.slots) + 1
      /\ \A i \in 1 .. Len(a.slots) : slots[i] = a.slots[i]
      /\ slots[Len(a.slots) + 1] = x
  BY <1>1, AppendProperties
<1>3. Added(a, x) = [slots |-> slots, consumed |-> a.consumed]
  <2>1. a \in [slots : Seq(S \cup {Undefined}), consumed : Nat]
    BY DEF Array
  <2> QED BY <2>1 DEF Added
<1> HIDE DEF slots
<1>4. \A i \in 1 .. a.consumed : slots[i] = Undefined
  BY <1>1, <1>2
<1>5. \A i \in a.consumed + 1 .. Len(slots) : slots[i] \in S
  BY <1>1, <1>2
<1>6. a.consumed < CompactAfter \/ a.consumed < Len(slots) - a.consumed
  BY <1>1, <1>2 DEF Size
<1>7. /\ Added(a, x) \in Array(S)
      /\ Size(Added(a, x)) = Len(slots) - a.consumed
  BY <1>1, <1>2, <1>3, <1>4, <1>5, <1>6, MakeArray
<1>8. Size(a) = Len(a.slots) - a.consumed
  BY DEF Size
<1>9. \A i \in 1 .. Size(a) : Item(Added(a, x), i) = Item(a, i)
  BY <1>1, <1>2, <1>3, <1>8 DEF Item
<1>10. Item(Added(a, x), Size(a) + 1) = x
  BY <1>1, <1>2, <1>3, <1>8 DEF Item
<1> QED BY <1>1, <1>2, <1>7, <1>8, <1>9, <1>10

\* A compaction changes no item.
LEMMA CompactedLaw ==
  ASSUME NEW S, CompactAfter \in Nat \ {0},
         NEW slots \in Seq(S \cup {Undefined}), NEW consumed \in Nat,
         consumed <= Len(slots),
         \A i \in 1 .. consumed : slots[i] = Undefined,
         \A i \in consumed + 1 .. Len(slots) : slots[i] \in S
  PROVE  LET a == [slots |-> slots, consumed |-> consumed]
         IN  /\ Compacted(a) \in Array(S)
             /\ Size(Compacted(a)) = Len(slots) - consumed
             /\ \A i \in 1 .. Len(slots) - consumed : Item(Compacted(a), i) = slots[consumed + i]
<1> DEFINE a == [slots |-> slots, consumed |-> consumed]
           left == SubSeq(slots, consumed + 1, Len(slots))
<1>1. Len(slots) \in Nat
  BY LenProperties
<1>2. CASE consumed = Len(slots)
  <2>1. Compacted(a) = EmptyArray
    BY <1>2 DEF Compacted
  <2> QED BY <1>1, <1>2, <2>1, EmptyArrayLaw
<1>3. CASE consumed # Len(slots) /\ (consumed < CompactAfter \/ consumed * 2 < Len(slots))
  <2>1. Compacted(a) = a
    BY <1>3 DEF Compacted
  <2>2. consumed < CompactAfter \/ consumed < Len(slots) - consumed
    BY <1>1, <1>3
  <2>3. a \in Array(S) /\ Size(a) = Len(slots) - consumed
    BY <2>2, MakeArray
  <2> QED BY <2>1, <2>3 DEF Item
<1>4. CASE consumed # Len(slots) /\ ~(consumed < CompactAfter \/ consumed * 2 < Len(slots))
  <2>1. Compacted(a) = [slots |-> left, consumed |-> 0]
    BY <1>4 DEF Compacted
  <2>2. /\ left \in Seq(S \cup {Undefined}) /\ Len(left) = Len(slots) - consumed
        /\ \A i \in 1 .. Len(slots) - consumed : left[i] = slots[consumed + i]
    BY <1>1, <1>4, SubSeqProperties
  <2> HIDE DEF left
  <2>3. \A i \in 1 .. Len(left) : left[i] \in S
    BY <1>1, <2>2
  <2>4. /\ 0 < CompactAfter /\ 0 <= Len(left)
        /\ \A i \in 1 .. 0 : left[i] = Undefined
        /\ \A i \in 0 + 1 .. Len(left) : left[i] \in S
    BY <1>1, <2>2, <2>3
  <2>5. /\ [slots |-> left, consumed |-> 0] \in Array(S)
        /\ Size([slots |-> left, consumed |-> 0]) = Len(left) - 0
    BY <2>2, <2>4, MakeArray
  <2> QED BY <1>1, <2>1, <2>2, <2>5 DEF Item
<1> QED BY <1>2, <1>3, <1>4

LEMMA RemovedLaw ==
  ASSUME NEW S, NEW a \in Array(S), CompactAfter \in Nat \ {0}, Size(a) > 0
  PROVE  /\ Removed(a) \in Array(S)
         /\ Size(Removed(a)) = Size(a) - 1
         /\ \A i \in 1 .. Size(a) - 1 : Item(Removed(a), i) = Item(a, i + 1)
<1> DEFINE k == a.consumed + 1
           slots == [a.slots EXCEPT ![k] = Undefined]
<1>1. /\ a.slots \in Seq(S \cup {Undefined}) /\ a.consumed \in Nat /\ Len(a.slots) \in Nat
      /\ a.consumed <= Len(a.slots)
      /\ \A i \in 1 .. a.consumed : a.slots[i] = Undefined
      /\ \A i \in a.consumed + 1 .. Len(a.slots) : a.slots[i] \in S
  BY ArrayFacts
<1>2. Size(a) = Len(a.slots) - a.consumed
  BY DEF Size
<1>3. k \in 1 .. Len(a.slots)
  BY <1>1, <1>2
<1>4. /\ slots \in Seq(S \cup {Undefined}) /\ Len(slots) = Len(a.slots)
      /\ \A i \in 1 .. Len(a.slots) : slots[i] = IF i = k THEN Undefined ELSE a.slots[i]
  BY <1>1, <1>3, ExceptSeq
<1>5. Removed(a) = Compacted([slots |-> slots, consumed |-> k])
  BY DEF Removed
<1> HIDE DEF slots
<1>6. \A i \in 1 .. k : slots[i] = Undefined
  BY <1>1, <1>3, <1>4
<1>7. \A i \in k + 1 .. Len(slots) : slots[i] \in S
  BY <1>1, <1>3, <1>4
<1>8. k \in Nat /\ k <= Len(slots)
  BY <1>1, <1>3, <1>4
<1>9. /\ Removed(a) \in Array(S)
      /\ Size(Removed(a)) = Len(slots) - k
      /\ \A i \in 1 .. Len(slots) - k : Item(Removed(a), i) = slots[k + i]
  BY <1>4, <1>5, <1>6, <1>7, <1>8, CompactedLaw
<1>10. ASSUME NEW i \in 1 .. Size(a) - 1 PROVE Item(Removed(a), i) = Item(a, i + 1)
  <2>1. i \in 1 .. Len(slots) - k /\ k + i \in 1 .. Len(a.slots) /\ k + i # k
    BY <1>1, <1>2, <1>4
  <2>2. k + i = a.consumed + (i + 1)
    BY <1>1
  <2> QED BY <1>4, <1>9, <2>1, <2>2 DEF Item
<1> QED BY <1>1, <1>2, <1>4, <1>9, <1>10

----------------------------------------------------------------------------
Results == {Pending, Done, Rejected} \cup {Value(v) : v \in Values}

\* Reads that got a value, and reads that got anything.
Given == Len(pushed) - Size(values)
Settled == Len(results) - Size(waiters)

QueueTypes ==
  /\ values \in Array(Values) /\ waiters \in Array(Nat)
  /\ closed \in BOOLEAN /\ failed \in BOOLEAN
  /\ results \in Seq(Results) /\ pushed \in Seq(Values)

\* The reads are, in their order, those with a value, those with an end, and those that wait; the
\* values are, in the order of the pushes, those that were read and those in the array.
QueueInv ==
  /\ QueueTypes
  /\ 0 <= Given /\ Given <= Settled /\ 0 <= Settled
  /\ \A i \in 1 .. Size(values) : Item(values, i) = pushed[Given + i]
  /\ \A i \in 1 .. Size(waiters) : Item(waiters, i) = Settled + i
  /\ \A i \in 1 .. Given : results[i] = Value(pushed[i])
  /\ \A i \in Given + 1 .. Settled : results[i] \in {Done, Rejected}
  /\ \A i \in Settled + 1 .. Len(results) : results[i] = Pending
  /\ Size(values) > 0 => Size(waiters) = 0 /\ Given = Settled
  /\ closed \/ failed => Size(waiters) = 0
  /\ Given < Settled => closed \/ failed

\* The numbers of a state of the queue.
LEMMA QueueNumbers ==
  ASSUME QueueTypes
  PROVE  /\ Size(values) \in Nat /\ Size(waiters) \in Nat
         /\ Len(pushed) \in Nat /\ Len(results) \in Nat
         /\ Given = Len(pushed) - Size(values) /\ Settled = Len(results) - Size(waiters)
         /\ Given \in Int /\ Settled \in Int
         /\ DOMAIN results = 1 .. Len(results)
<1>1. Size(values) \in Nat /\ Size(waiters) \in Nat
  BY ArrayFacts DEF QueueTypes
<1>2. Len(pushed) \in Nat /\ Len(results) \in Nat /\ DOMAIN results = 1 .. Len(results)
  BY LenProperties DEF QueueTypes
<1> QED BY <1>1, <1>2 DEF Given, Settled

LEMMA ResultKinds ==
  /\ Pending # Done /\ Pending # Rejected
  /\ Pending.is # "value" /\ Done.is # "value" /\ Rejected.is # "value"
  /\ \A v : Value(v).is = "value" /\ Value(v) # Pending
BY DEF Pending, Done, Rejected, Value

LEMMA QueueInitially ==
  ASSUME CompactAfter \in Nat \ {0}, values = EmptyArray, waiters = EmptyArray, results = <<>>,
         pushed = <<>>, closed \in BOOLEAN, failed \in BOOLEAN
  PROVE  QueueInv
<1>1. /\ values \in Array(Values) /\ Size(values) = 0
      /\ waiters \in Array(Nat) /\ Size(waiters) = 0
  BY EmptyArrayLaw
<1>2. /\ results \in Seq(Results) /\ Len(results) = 0
      /\ pushed \in Seq(Values) /\ Len(pushed) = 0
  BY EmptySeq
<1> QED BY <1>1, <1>2 DEF QueueInv, QueueTypes, Given, Settled

\* What flushTerminal does: every waiting read hears the end, the others keep their result.
LEMMA Flushed ==
  ASSUME CompactAfter \in Nat \ {0}, QueueInv, NEW end \in {Done, Rejected},
         FlushTerminal(end)
  PROVE  /\ waiters' \in Array(Nat) /\ Size(waiters') = 0
         /\ results' \in Seq(Results) /\ Len(results') = Len(results)
         /\ \A i \in 1 .. Settled : results'[i] = results[i]
         /\ \A i \in Settled + 1 .. Len(results) : results'[i] = end
<1>1. /\ QueueTypes /\ 0 <= Settled
      /\ \A i \in 1 .. Size(waiters) : Item(waiters, i) = Settled + i
  BY DEF QueueInv
<1>2. /\ Size(waiters) \in Nat /\ Len(results) \in Nat /\ Settled = Len(results) - Size(waiters)
      /\ Settled \in Int /\ DOMAIN results = 1 .. Len(results)
  BY <1>1, QueueNumbers
<1>3. waiters' \in Array(Nat) /\ Size(waiters') = 0
  BY EmptyArrayLaw DEF FlushTerminal
<1>4. ASSUME NEW read \in 1 .. Len(results) PROVE Waits(read) <=> read > Settled
  <2>1. ASSUME read > Settled PROVE Waits(read)
    <3>1. read - Settled \in 1 .. Size(waiters) /\ Settled + (read - Settled) = read
      BY <1>2, <2>1
    <3> QED BY <1>1, <3>1 DEF Waits
  <2>2. ASSUME Waits(read) PROVE read > Settled
    <3>1. PICK i \in 1 .. Size(waiters) : Item(waiters, i) = read
      BY <2>2 DEF Waits
    <3> QED BY <1>1, <1>2, <3>1
  <2> QED BY <2>1, <2>2
<1>5. results' = [read \in 1 .. Len(results) |-> IF Waits(read) THEN end ELSE results[read]]
  BY <1>2 DEF FlushTerminal
<1>6. \A i \in 1 .. Len(results) : results[i] \in Results
  BY <1>1, ElementOfSeq DEF QueueTypes
<1>7. end \in Results
  BY DEF Results
<1>8. \A i \in 1 .. Len(results) : (IF Waits(i) THEN end ELSE results[i]) \in Results
  BY <1>6, <1>7
<1>9. results' \in Seq(Results) /\ Len(results') = Len(results)
  <2> DEFINE f == [read \in 1 .. Len(results) |-> IF Waits(read) THEN end ELSE results[read]]
  <2>1. f \in [1 .. Len(results) -> Results]
    BY <1>8
  <2>2. f \in Seq(Results)
    BY <1>2, <2>1, SeqDef
  <2>3. Len(f) = Len(results)
    BY <1>2, <2>1, <2>2, LenProperties
  <2> QED BY <1>5, <2>2, <2>3
<1>10. \A i \in 1 .. Settled : results'[i] = results[i]
  BY <1>2, <1>4, <1>5
<1>11. \A i \in Settled + 1 .. Len(results) : results'[i] = end
  BY <1>1, <1>2, <1>4, <1>5
<1> QED BY <1>3, <1>9, <1>10, <1>11

LEMMA PushKeeps ==
  ASSUME CompactAfter \in Nat \ {0}, QueueInv, NEW value \in Values, Push(value)
  PROVE  QueueInv'
<1>1. CASE closed \/ failed
  <2>1. UNCHANGED queueVars
    BY <1>1 DEF Push
  <2> QED BY <2>1 DEF QueueInv, QueueTypes, Given, Settled, queueVars
<1>2. CASE ~(closed \/ failed)
  <2>1. /\ QueueTypes /\ 0 <= Given /\ Given <= Settled
        /\ \A i \in 1 .. Size(values) : Item(values, i) = pushed[Given + i]
        /\ \A i \in 1 .. Size(waiters) : Item(waiters, i) = Settled + i
        /\ \A i \in 1 .. Given : results[i] = Value(pushed[i])
        /\ \A i \in Settled + 1 .. Len(results) : results[i] = Pending
        /\ Size(values) > 0 => Size(waiters) = 0
        /\ Settled <= Given
    <3>1. Given \in Int /\ Settled \in Int
      BY QueueNumbers DEF QueueInv
    <3> QED BY <1>2, <3>1 DEF QueueInv
  <2>2. /\ Size(values) \in Nat /\ Size(waiters) \in Nat
        /\ Len(pushed) \in Nat /\ Len(results) \in Nat
        /\ Given = Len(pushed) - Size(values) /\ Settled = Len(results) - Size(waiters)
    BY <2>1, QueueNumbers
  <2>3. /\ values \in Array(Values) /\ waiters \in Array(Nat)
        /\ results \in Seq(Results) /\ pushed \in Seq(Values)
    BY <2>1 DEF QueueTypes
  <2>4. closed' = closed /\ failed' = failed /\ pushed' = Append(pushed, value)
    BY <1>2 DEF Push
  <2>5. /\ pushed' \in Seq(Values) /\ Len(pushed') = Len(pushed) + 1
        /\ \A i \in 1 .. Len(pushed) : pushed'[i] = pushed[i]
        /\ pushed'[Len(pushed) + 1] = value
    BY <2>3, <2>4, AppendProperties
  <2>6. CASE Size(waiters) > 0
    <3>1. /\ results' = [results EXCEPT ![Item(waiters, 1)] = Value(value)]
          /\ waiters' = Removed(waiters) /\ values' = values
      BY <1>2, <2>6 DEF Push
    <3>2. Size(values) = 0
      BY <2>1, <2>2, <2>6
    <3>3. Item(waiters, 1) = Settled + 1 /\ Settled + 1 \in 1 .. Len(results)
      <4>1. 1 \in 1 .. Size(waiters)
        BY <2>2, <2>6
      <4>2. \A i \in 1 .. Size(waiters) : Item(waiters, i) = Settled + i
        BY <2>1
      <4>3. Settled + 1 \in 1 .. Len(results)
        BY <2>1, <2>2, <2>6
      <4> QED BY <4>1, <4>2, <4>3
    <3>4. Value(value) \in Results
      BY DEF Results
    <3>5. /\ results' \in Seq(Results) /\ Len(results') = Len(results)
          /\ \A i \in 1 .. Len(results) :
               results'[i] = IF i = Settled + 1 THEN Value(value) ELSE results[i]
      BY <2>3, <3>1, <3>3, <3>4, ExceptSeq
    <3>6. /\ waiters' \in Array(Nat) /\ Size(waiters') = Size(waiters) - 1
          /\ \A i \in 1 .. Size(waiters) - 1 : Item(waiters', i) = Item(waiters, i + 1)
      BY <2>3, <2>6, <3>1, RemovedLaw
    <3>7. Given' = Given + 1 /\ Settled' = Settled + 1
      <4>1. Given' = Len(pushed') - Size(values') /\ Settled' = Len(results') - Size(waiters')
        BY DEF Given, Settled
      <4>2. Size(values') = Size(values)
        BY <3>1
      <4> QED BY <2>2, <2>5, <3>5, <3>6, <4>1, <4>2, SMTT(30)
    <3>8. QueueTypes'
      BY <2>1, <2>3, <2>4, <2>5, <3>1, <3>5, <3>6 DEF QueueTypes
    <3>9. ASSUME NEW i \in 1 .. Size(waiters') PROVE Item(waiters', i) = Settled' + i
      <4>1. i \in 1 .. Size(waiters) - 1 /\ i + 1 \in 1 .. Size(waiters)
        BY <2>2, <3>6
      <4>2. Item(waiters', i) = Item(waiters, i + 1) /\ Item(waiters, i + 1) = Settled + (i + 1)
        BY <2>1, <3>6, <4>1
      <4>3. Settled \in Int
        BY <2>2
      <4> QED BY <3>7, <4>1, <4>2, <4>3
    <3>10. \A i \in 1 .. Given' : results'[i] = Value(pushed'[i])
      BY <2>1, <2>2, <2>5, <3>2, <3>3, <3>5, <3>7
    <3>11. ASSUME NEW i \in Settled' + 1 .. Len(results') PROVE results'[i] = Pending
      <4>1. Settled \in Int /\ 0 <= Settled
        BY <2>1, <2>2
      <4>2. i \in Settled + 1 .. Len(results) /\ i \in 1 .. Len(results) /\ i # Settled + 1
        BY <2>2, <3>5, <3>7, <4>1
      <4> QED BY <2>1, <3>5, <4>2
    <3>12. Size(values') = 0 /\ Given' = Settled' /\ 0 <= Given' /\ 0 <= Settled'
      BY <2>1, <2>2, <3>1, <3>2, <3>7
    <3>13. /\ \A i \in 1 .. Size(values') : Item(values', i) = pushed'[Given' + i]
           /\ \A i \in Given' + 1 .. Settled' : results'[i] \in {Done, Rejected}
      BY <2>2, <3>7, <3>12, SMTT(30)
    <3> QED BY <1>2, <2>1, <2>2, <2>4, <3>7, <3>8, <3>9, <3>10, <3>11, <3>12, <3>13 DEF QueueInv
  <2>7. CASE Size(waiters) = 0
    <3>1. values' = Added(values, value) /\ waiters' = waiters /\ results' = results
      BY <1>2, <2>7 DEF Push
    <3>2. /\ values' \in Array(Values) /\ Size(values') = Size(values) + 1
          /\ \A i \in 1 .. Size(values) : Item(values', i) = Item(values, i)
          /\ Item(values', Size(values) + 1) = value
      BY <2>3, <3>1, AddedLaw
    <3>3. Given' = Given /\ Settled' = Settled
      BY <2>2, <2>5, <3>1, <3>2 DEF Given, Settled
    <3>4. QueueTypes'
      BY <2>1, <2>3, <2>4, <2>5, <3>1, <3>2 DEF QueueTypes
    <3>5. \A i \in 1 .. Size(values') : Item(values', i) = pushed'[Given' + i]
      <4>1. ASSUME NEW i \in 1 .. Size(values) PROVE Item(values', i) = pushed'[Given' + i]
        <5>1. Given + i \in 1 .. Len(pushed)
          BY <2>1, <2>2
        <5> QED BY <2>1, <2>5, <3>2, <3>3, <5>1
      <4>2. Item(values', Size(values) + 1) = pushed'[Given' + (Size(values) + 1)]
        <5>1. Given' + (Size(values) + 1) = Len(pushed) + 1
          BY <2>2, <3>3
        <5> QED BY <2>5, <3>2, <5>1
      <4> QED BY <2>2, <3>2, <4>1, <4>2
    <3>6. \A i \in 1 .. Given' : results'[i] = Value(pushed'[i])
      BY <2>1, <2>2, <2>5, <3>1, <3>3
    <3>7. /\ \A i \in 1 .. Size(waiters') : Item(waiters', i) = Settled' + i
          /\ \A i \in Given' + 1 .. Settled' : results'[i] \in {Done, Rejected}
          /\ \A i \in Settled' + 1 .. Len(results') : results'[i] = Pending
      BY <2>1, <3>1, <3>3 DEF QueueInv
    <3>8. /\ 0 <= Given' /\ Given' <= Settled' /\ 0 <= Settled'
          /\ Size(values') > 0 => Size(waiters') = 0 /\ Given' = Settled'
          /\ closed' \/ failed' => Size(waiters') = 0
          /\ Given' < Settled' => closed' \/ failed'
      BY <2>1, <2>2, <2>7, <3>1, <3>3
    <3> QED BY <3>4, <3>5, <3>6, <3>7, <3>8 DEF QueueInv
  <2> QED BY <2>2, <2>6, <2>7
<1> QED BY <1>1, <1>2

\* complete() and error(): the reads that waited are the last to be settled.
LEMMA EndKeeps ==
  ASSUME CompactAfter \in Nat \ {0}, QueueInv, Complete \/ Error
  PROVE  QueueInv'
<1>1. CASE closed \/ failed
  <2>1. UNCHANGED queueVars
    BY <1>1 DEF Complete, Error
  <2> QED BY <2>1 DEF QueueInv, QueueTypes, Given, Settled, queueVars
<1>2. CASE ~(closed \/ failed)
  <2>1. PICK end \in {Done, Rejected} : FlushTerminal(end)
    BY <1>2 DEF Complete, Error
  <2>2. /\ values' = values /\ pushed' = pushed
        /\ closed' \in BOOLEAN /\ failed' \in BOOLEAN /\ (closed' \/ failed')
    BY <1>2 DEF Complete, Error, QueueInv, QueueTypes
  <2>3. /\ waiters' \in Array(Nat) /\ Size(waiters') = 0
        /\ results' \in Seq(Results) /\ Len(results') = Len(results)
        /\ \A i \in 1 .. Settled : results'[i] = results[i]
        /\ \A i \in Settled + 1 .. Len(results) : results'[i] = end
    BY <2>1, Flushed
  <2>4. /\ QueueTypes /\ 0 <= Given /\ Given <= Settled /\ 0 <= Settled
        /\ \A i \in 1 .. Size(values) : Item(values, i) = pushed[Given + i]
        /\ \A i \in 1 .. Given : results[i] = Value(pushed[i])
        /\ \A i \in Given + 1 .. Settled : results[i] \in {Done, Rejected}
        /\ Size(values) > 0 => Size(waiters) = 0 /\ Given = Settled
    BY DEF QueueInv
  <2>5. /\ Size(values) \in Nat /\ Size(waiters) \in Nat
        /\ Len(pushed) \in Nat /\ Len(results) \in Nat
        /\ Given = Len(pushed) - Size(values) /\ Settled = Len(results) - Size(waiters)
    BY <2>4, QueueNumbers
  <2>6. Given' = Given /\ Settled' = Len(results)
    BY <2>2, <2>3, <2>5 DEF Given, Settled
  <2>7. QueueTypes'
    BY <2>2, <2>3, <2>4 DEF QueueTypes
  <2>8. \A i \in 1 .. Given' : results'[i] = Value(pushed'[i])
    BY <2>2, <2>3, <2>4, <2>5, <2>6
  <2>9. \A i \in Given' + 1 .. Settled' : results'[i] \in {Done, Rejected}
    BY <2>3, <2>4, <2>5, <2>6
  <2> QED BY <2>2, <2>3, <2>4, <2>5, <2>6, <2>7, <2>8, <2>9 DEF QueueInv
<1> QED BY <1>1, <1>2

LEMMA ReturnKeeps ==
  ASSUME CompactAfter \in Nat \ {0}, QueueInv, Return
  PROVE  QueueInv'
<1>1. /\ closed' = TRUE /\ failed' = FALSE /\ values' = EmptyArray
      /\ pushed' = SubSeq(pushed, 1, Given) /\ FlushTerminal(Done)
  BY DEF Return, Given
<1>2. /\ waiters' \in Array(Nat) /\ Size(waiters') = 0
      /\ results' \in Seq(Results) /\ Len(results') = Len(results)
      /\ \A i \in 1 .. Settled : results'[i] = results[i]
      /\ \A i \in Settled + 1 .. Len(results) : results'[i] = Done
  BY <1>1, Flushed
<1>3. /\ QueueTypes /\ 0 <= Given /\ Given <= Settled /\ 0 <= Settled
      /\ \A i \in 1 .. Given : results[i] = Value(pushed[i])
      /\ \A i \in Given + 1 .. Settled : results[i] \in {Done, Rejected}
  BY DEF QueueInv
<1>4. /\ Size(values) \in Nat /\ Size(waiters) \in Nat
      /\ Len(pushed) \in Nat /\ Len(results) \in Nat
      /\ Given = Len(pushed) - Size(values) /\ Settled = Len(results) - Size(waiters)
      /\ pushed \in Seq(Values)
  BY <1>3, QueueNumbers DEF QueueTypes
<1>5. /\ pushed' \in Seq(Values) /\ Len(pushed') = Given
      /\ \A i \in 1 .. Given : pushed'[i] = pushed[i]
  <2>1. CASE Given = 0
    <3>1. pushed' = <<>>
      BY <1>1, <1>4, <2>1, SubSeqProperties
    <3> QED BY <2>1, <3>1, EmptySeq
  <2>2. CASE Given > 0
    BY <1>1, <1>4, <2>2, SubSeqProperties
  <2> QED BY <1>3, <1>4, <2>1, <2>2
<1>6. values' \in Array(Values) /\ Size(values') = 0
  BY <1>1, EmptyArrayLaw
<1>7. Given' = Given /\ Settled' = Len(results)
  BY <1>2, <1>4, <1>5, <1>6 DEF Given, Settled
<1>8. QueueTypes'
  BY <1>1, <1>2, <1>5, <1>6 DEF QueueTypes
<1>9. \A i \in 1 .. Given' : results'[i] = Value(pushed'[i])
  BY <1>2, <1>3, <1>4, <1>5, <1>7
<1>10. \A i \in Given' + 1 .. Settled' : results'[i] \in {Done, Rejected}
  <2> SUFFICES ASSUME NEW i \in Given + 1 .. Len(results) PROVE results'[i] \in {Done, Rejected}
    BY <1>7
  <2>1. CASE i <= Settled
    <3>1. i \in Given + 1 .. Settled /\ i \in 1 .. Settled
      BY <1>3, <1>4, <2>1
    <3> QED BY <1>2, <1>3, <3>1
  <2>2. CASE i > Settled
    <3>1. i \in Settled + 1 .. Len(results)
      BY <1>3, <1>4, <2>2
    <3> QED BY <1>2, <3>1
  <2> QED BY <1>3, <1>4, <2>1, <2>2
<1> QED BY <1>1, <1>2, <1>3, <1>4, <1>6, <1>7, <1>8, <1>9, <1>10 DEF QueueInv

LEMMA ReadKeeps ==
  ASSUME CompactAfter \in Nat \ {0}, QueueInv, Read
  PROVE  QueueInv'
<1>1. /\ QueueTypes /\ 0 <= Given /\ Given <= Settled /\ 0 <= Settled
      /\ \A i \in 1 .. Size(values) : Item(values, i) = pushed[Given + i]
      /\ \A i \in 1 .. Size(waiters) : Item(waiters, i) = Settled + i
      /\ \A i \in 1 .. Given : results[i] = Value(pushed[i])
      /\ \A i \in Given + 1 .. Settled : results[i] \in {Done, Rejected}
      /\ \A i \in Settled + 1 .. Len(results) : results[i] = Pending
      /\ Size(values) > 0 => Size(waiters) = 0 /\ Given = Settled
      /\ closed \/ failed => Size(waiters) = 0
      /\ Given < Settled => closed \/ failed
  BY DEF QueueInv
<1>2. /\ Size(values) \in Nat /\ Size(waiters) \in Nat
      /\ Len(pushed) \in Nat /\ Len(results) \in Nat
      /\ Given = Len(pushed) - Size(values) /\ Settled = Len(results) - Size(waiters)
  BY <1>1, QueueNumbers
<1>3. /\ values \in Array(Values) /\ waiters \in Array(Nat)
      /\ results \in Seq(Results) /\ pushed \in Seq(Values)
      /\ closed \in BOOLEAN /\ failed \in BOOLEAN
  BY <1>1 DEF QueueTypes
<1>4. closed' = closed /\ failed' = failed /\ pushed' = pushed
  BY DEF Read
<1>5. CASE Size(values) > 0
  <2>1. /\ results' = Append(results, Value(Item(values, 1)))
        /\ values' = Removed(values) /\ waiters' = waiters
    BY <1>5 DEF Read
  <2>2. Item(values, 1) \in Values /\ Item(values, 1) = pushed[Given + 1]
    <3>1. 1 \in 1 .. Size(values)
      BY <1>2, <1>5
    <3>2. Item(values, 1) = pushed[Given + 1]
      BY <1>1, <3>1
    <3>3. Item(values, 1) \in Values
      BY <1>3, <3>1, ArrayFacts
    <3> QED BY <3>2, <3>3
  <2>3. Value(Item(values, 1)) \in Results
    BY <2>2 DEF Results
  <2>4. /\ results' \in Seq(Results) /\ Len(results') = Len(results) + 1
        /\ \A i \in 1 .. Len(results) : results'[i] = results[i]
        /\ results'[Len(results) + 1] = Value(pushed[Given + 1])
    BY <1>3, <2>1, <2>2, <2>3, AppendProperties
  <2>5. /\ values' \in Array(Values) /\ Size(values') = Size(values) - 1
        /\ \A i \in 1 .. Size(values) - 1 : Item(values', i) = Item(values, i + 1)
    BY <1>3, <1>5, <2>1, RemovedLaw
  <2>6. /\ Size(waiters) = 0 /\ Given = Len(results) /\ Settled = Len(results)
        /\ Given' = Given + 1 /\ Settled' = Settled + 1
    BY <1>1, <1>2, <1>4, <1>5, <2>1, <2>4, <2>5 DEF Given, Settled
  <2>7. QueueTypes'
    BY <1>3, <1>4, <2>1, <2>4, <2>5 DEF QueueTypes
  <2>8. \A i \in 1 .. Size(values') : Item(values', i) = pushed'[Given' + i]
    <3> SUFFICES ASSUME NEW i \in 1 .. Size(values) - 1
                 PROVE  Item(values', i) = pushed[Given + 1 + i]
      BY <1>4, <2>5, <2>6
    <3>1. i + 1 \in 1 .. Size(values) /\ Given + (i + 1) = Given + 1 + i
      BY <1>2
    <3> QED BY <1>1, <2>5, <3>1
  <2>9. \A i \in 1 .. Given' : results'[i] = Value(pushed'[i])
    BY <1>1, <1>2, <1>4, <2>4, <2>6
  <2>10. \A i \in Settled' + 1 .. Len(results') : results'[i] = Pending
    BY <1>2, <2>4, <2>6
  <2> QED BY <1>1, <1>2, <1>4, <2>1, <2>4, <2>5, <2>6, <2>7, <2>8, <2>9, <2>10 DEF QueueInv
<1>6. CASE Size(values) = 0 /\ (closed \/ failed)
  <2>1. PICK end \in {Done, Rejected} : results' = Append(results, end)
    BY <1>6 DEF Read
  <2>2. values' = values /\ waiters' = waiters /\ Size(waiters) = 0
    BY <1>1, <1>6 DEF Read
  <2>3. /\ results' \in Seq(Results) /\ Len(results') = Len(results) + 1
        /\ \A i \in 1 .. Len(results) : results'[i] = results[i]
        /\ results'[Len(results) + 1] = end
    BY <1>3, <2>1, AppendProperties DEF Results
  <2>4. Given' = Given /\ Settled = Len(results) /\ Settled' = Settled + 1
    BY <1>2, <1>4, <2>2, <2>3 DEF Given, Settled
  <2>5. QueueTypes'
    BY <1>3, <1>4, <2>2, <2>3 DEF QueueTypes
  <2>6. \A i \in 1 .. Given' : results'[i] = Value(pushed'[i])
    BY <1>1, <1>2, <1>4, <2>3, <2>4
  <2>7. \A i \in Given' + 1 .. Settled' : results'[i] \in {Done, Rejected}
    BY <1>1, <1>2, <2>3, <2>4, SMTT(30)
  <2> QED BY <1>1, <1>2, <1>4, <1>6, <2>2, <2>3, <2>4, <2>5, <2>6, <2>7 DEF QueueInv
<1>7. CASE Size(values) = 0 /\ ~closed /\ ~failed
  <2>1. /\ results' = Append(results, Pending) /\ values' = values
        /\ waiters' = Added(waiters, Len(results) + 1)
    BY <1>7 DEF Read
  <2>2. /\ results' \in Seq(Results) /\ Len(results') = Len(results) + 1
        /\ \A i \in 1 .. Len(results) : results'[i] = results[i]
        /\ results'[Len(results) + 1] = Pending
    BY <1>3, <2>1, AppendProperties DEF Results
  <2>3. Len(results) + 1 \in Nat
    BY <1>2
  <2>4. /\ waiters' \in Array(Nat) /\ Size(waiters') = Size(waiters) + 1
        /\ \A i \in 1 .. Size(waiters) : Item(waiters', i) = Item(waiters, i)
        /\ Item(waiters', Size(waiters) + 1) = Len(results) + 1
    BY <1>3, <2>1, <2>3, AddedLaw
  <2>5. Given' = Given /\ Settled' = Settled
    BY <1>2, <1>4, <2>1, <2>2, <2>4 DEF Given, Settled
  <2>6. QueueTypes'
    BY <1>3, <1>4, <2>1, <2>2, <2>4 DEF QueueTypes
  <2>7. ASSUME NEW i \in 1 .. Size(waiters') PROVE Item(waiters', i) = Settled' + i
    <3>1. CASE i \in 1 .. Size(waiters)
      BY <1>1, <2>4, <2>5, <3>1
    <3>2. CASE i = Size(waiters) + 1
      <4>1. Settled + (Size(waiters) + 1) = Len(results) + 1
        BY <1>2
      <4> QED BY <2>4, <2>5, <3>2, <4>1
    <3> QED BY <1>2, <2>4, <3>1, <3>2
  <2>8. \A i \in 1 .. Given' : results'[i] = Value(pushed'[i])
    BY <1>1, <1>2, <1>4, <2>2, <2>5
  <2>9. /\ \A i \in Given' + 1 .. Settled' : results'[i] \in {Done, Rejected}
        /\ \A i \in Settled' + 1 .. Len(results') : results'[i] = Pending
    <3>1. Settled \in Int /\ Settled <= Len(results)
      BY <1>2
    <3>2. \A i \in Given' + 1 .. Settled' : results'[i] \in {Done, Rejected}
      <4> SUFFICES ASSUME NEW i \in Given + 1 .. Settled PROVE results'[i] \in {Done, Rejected}
        BY <2>5
      <4>1. i \in 1 .. Len(results)
        BY <1>1, <1>2, <3>1
      <4> QED BY <1>1, <2>2, <4>1
    <3>3. \A i \in Settled' + 1 .. Len(results') : results'[i] = Pending
      <4> SUFFICES ASSUME NEW i \in Settled + 1 .. Len(results) + 1 PROVE results'[i] = Pending
        BY <2>2, <2>5
      <4>1. (i \in Settled + 1 .. Len(results) /\ i \in 1 .. Len(results)) \/ i = Len(results) + 1
        BY <1>1, <1>2, <3>1, SMTT(30)
      <4> QED BY <1>1, <2>2, <4>1
    <3> QED BY <3>2, <3>3
  <2> QED BY <1>1, <1>2, <1>4, <1>7, <2>1, <2>5, <2>6, <2>7, <2>8, <2>9 DEF QueueInv
<1> QED BY <1>2, <1>3, <1>5, <1>6, <1>7

LEMMA QueueStep ==
  ASSUME CompactAfter \in Nat \ {0}, QueueInv, [QueueNext]_queueVars
  PROVE  QueueInv'
<1>1. CASE \E value \in Values : Push(value)
  BY <1>1, PushKeeps
<1>2. CASE Complete \/ Error
  BY <1>2, EndKeeps
<1>3. CASE Read
  BY <1>3, ReadKeeps
<1>4. CASE Return
  BY <1>4, ReturnKeeps
<1>5. CASE UNCHANGED queueVars
  BY <1>5 DEF QueueInv, QueueTypes, Given, Settled, queueVars
<1> QED BY <1>1, <1>2, <1>3, <1>4, <1>5 DEF QueueNext

----------------------------------------------------------------------------
(* What the invariant says of the reads.                                   *)

LEMMA QueueLaws ==
  ASSUME QueueInv
  PROVE  ReadsFollowPushes /\ EndIsLast /\ OnlyEmptyQueuesWait /\ NothingIsLost /\ ArraysAreCompact
<1>1. /\ QueueTypes /\ 0 <= Given /\ Given <= Settled /\ 0 <= Settled
      /\ \A i \in 1 .. Size(values) : Item(values, i) = pushed[Given + i]
      /\ \A i \in 1 .. Given : results[i] = Value(pushed[i])
      /\ \A i \in Given + 1 .. Settled : results[i] \in {Done, Rejected}
      /\ \A i \in Settled + 1 .. Len(results) : results[i] = Pending
      /\ Size(values) > 0 => Size(waiters) = 0
      /\ closed \/ failed => Size(waiters) = 0
  BY DEF QueueInv
<1>2. /\ Size(values) \in Nat /\ Size(waiters) \in Nat
      /\ Len(pushed) \in Nat /\ Len(results) \in Nat
      /\ Given = Len(pushed) - Size(values) /\ Settled = Len(results) - Size(waiters)
      /\ Given \in Int /\ Settled \in Int
      /\ DOMAIN results = 1 .. Len(results)
  BY <1>1, QueueNumbers
<1>3. ASSUME NEW i \in 1 .. Len(results)
      PROVE  /\ (i <= Given /\ results[i] = Value(pushed[i])) \/ i > Given
             /\ results[i].is = "value" <=> i <= Given
             /\ results[i] = Pending <=> i > Settled
  <2>1. CASE i \in 1 .. Given
    <3>1. results[i] = Value(pushed[i]) /\ i <= Given /\ i <= Settled
      BY <1>1, <1>2, <2>1
    <3> QED BY <1>2, <3>1, ResultKinds
  <2>2. CASE i \in Given + 1 .. Settled
    <3>1. results[i] \in {Done, Rejected} /\ ~(i <= Given) /\ ~(i > Settled) /\ i > Given
      BY <1>1, <1>2, <2>2
    <3> QED BY <3>1, ResultKinds
  <2>3. CASE i \in Settled + 1 .. Len(results)
    <3>1. results[i] = Pending /\ ~(i <= Given) /\ i > Settled /\ i > Given
      BY <1>1, <1>2, <2>3
    <3> QED BY <3>1, ResultKinds
  <2> QED BY <1>1, <1>2, <2>1, <2>2, <2>3
<1>4. ReadsFollowPushes
  <2> SUFFICES ASSUME NEW read \in 1 .. Len(results), results[read].is = "value"
               PROVE  read <= Len(pushed) /\ results[read] = Value(pushed[read])
    BY <1>2 DEF ReadsFollowPushes
  <2>1. read <= Given /\ results[read] = Value(pushed[read])
    BY <1>2, <1>3
  <2> QED BY <1>2, <2>1
<1>5. EndIsLast
  <2> SUFFICES ASSUME NEW earlier \in 1 .. Len(results), NEW later \in 1 .. Len(results), earlier < later
               PROVE  /\ results[later].is = "value" => results[earlier].is = "value"
                      /\ results[earlier] = Pending => results[later] = Pending
    BY <1>2 DEF EndIsLast
  <2>1. /\ results[earlier].is = "value" <=> earlier <= Given
        /\ results[earlier] = Pending <=> earlier > Settled
        /\ results[later].is = "value" <=> later <= Given
        /\ results[later] = Pending <=> later > Settled
    BY <1>3
  <2>2. (later <= Given => earlier <= Given) /\ (earlier > Settled => later > Settled)
    BY <1>2
  <2> QED BY <2>1, <2>2, Zenon
<1>6. OnlyEmptyQueuesWait
  <2> SUFFICES ASSUME NEW read \in 1 .. Len(results), results[read] = Pending
               PROVE  Size(values) = 0 /\ ~closed /\ ~failed
    BY <1>2 DEF OnlyEmptyQueuesWait
  <2>1. read > Settled
    BY <1>3
  <2>2. Size(waiters) # 0
    BY <1>2, <2>1
  <2> QED BY <1>1, <1>2, <2>2
<1>7. NothingIsLost
  <2> SUFFICES ASSUME NEW i \in 1 .. Len(pushed)
               PROVE  \/ i \in DOMAIN results /\ results[i] = Value(pushed[i])
                      \/ \E j \in 1 .. Size(values) : Item(values, j) = pushed[i]
    BY DEF NothingIsLost
  <2>1. CASE i <= Given
    BY <1>1, <1>2, <2>1
  <2>2. CASE i > Given
    <3>1. i - Given \in 1 .. Size(values) /\ Given + (i - Given) = i
      BY <1>2, <2>2, SMTT(30)
    <3>2. Item(values, i - Given) = pushed[i]
      BY <1>1, <3>1
    <3> QED BY <3>1, <3>2
  <2> QED BY <1>2, <2>1, <2>2
<1>8. ArraysAreCompact
  <2>1. /\ \A i \in 1 .. values.consumed : values.slots[i] = Undefined
        /\ values.consumed < CompactAfter \/ values.consumed < Size(values)
    BY <1>1, ArrayFacts DEF QueueTypes
  <2>2. /\ \A i \in 1 .. waiters.consumed : waiters.slots[i] = Undefined
        /\ waiters.consumed < CompactAfter \/ waiters.consumed < Size(waiters)
    BY <1>1, ArrayFacts DEF QueueTypes
  <2> QED BY <2>1, <2>2 DEF ArraysAreCompact
<1> QED BY <1>4, <1>5, <1>6, <1>7, <1>8

LEMMA QueueInvariant ==
  ASSUME CompactAfter \in Nat \ {0}
  PROVE  QueueSpec => []QueueInv
<1>1. QueueInit => QueueInv
  BY QueueInitially DEF QueueInit
<1>2. QueueInv /\ [QueueNext]_queueVars => QueueInv'
  BY QueueStep
<1> QED BY <1>1, <1>2, PTL DEF QueueSpec

\* Whatever the order of push(), next(), complete(), error() and return(): the i-th read that gets
\* a value gets the i-th that was pushed, the end comes after the values and no read is overtaken.
THEOREM ReadsAreServedInOrder ==
  ASSUME CompactAfter \in Nat \ {0}
  PROVE  QueueSpec => [](ReadsFollowPushes /\ EndIsLast)
<1>1. QueueInv => ReadsFollowPushes /\ EndIsLast
  BY QueueLaws
<1> QED BY <1>1, QueueInvariant, PTL

\* No value and no wakeup is lost: a read waits only while the queue is empty and open, and a value
\* that was not read is still in its array, through every compaction.
THEOREM NoValueNoWakeupIsLost ==
  ASSUME CompactAfter \in Nat \ {0}
  PROVE  QueueSpec => [](OnlyEmptyQueuesWait /\ NothingIsLost)
<1>1. QueueInv => OnlyEmptyQueuesWait /\ NothingIsLost
  BY QueueLaws
<1> QED BY <1>1, QueueInvariant, PTL

\* The two arrays keep no consumed value alive and at most as many emptied slots as live ones, or
\* fewer than the threshold.
THEOREM QueueIsCompact ==
  ASSUME CompactAfter \in Nat \ {0}
  PROVE  QueueSpec => []ArraysAreCompact
<1>1. QueueInv => ArraysAreCompact
  BY QueueLaws
<1> QED BY <1>1, QueueInvariant, PTL

----------------------------------------------------------------------------
(* The iterable.                                                           *)

PullTypes ==
  /\ setup \in {"subscribing", "settling", "ready"}
  /\ upstream \in {"none", "subscribed", "ended", "cancelled"}
  /\ pendingDemand \in Nat /\ outstandingDemand \in Nat /\ requested \in Nat /\ requesting \in Nat
  /\ terminated \in BOOLEAN /\ aborted \in BOOLEAN
  /\ listener \in {"none", "observed", "released"}
  /\ afterCancel \in {"nothing", "return", "error"}

Ended ==
  terminated =>
    /\ pendingDemand = 0 /\ outstandingDemand = 0
    /\ ~Subscribed /\ listener # "observed"
    /\ afterCancel = "nothing" => closed \/ failed

Live ==
  ~terminated =>
    /\ ~closed /\ ~failed /\ afterCancel = "nothing"
    /\ upstream \in {"none", "subscribed"}
    /\ setup = "subscribing" \/ (listener = "observed" /\ ~aborted)
    /\ outstandingDemand <= Len(results) - Len(pushed)
    /\ Subscribed => pendingDemand = 0
    /\ Len(results) <= MaxDemand =>
         /\ outstandingDemand = Len(results) - Len(pushed)
         /\ requested + pendingDemand = Len(results)

PullInv == QueueInv /\ PullTypes /\ NothingIsBuffered /\ Ended /\ Live

----------------------------------------------------------------------------
(* What the operations of a queue that holds no value do.                  *)

LEMMA EmptyQueue ==
  ASSUME CompactAfter \in Nat \ {0}, QueueInv, NothingIsBuffered
  PROVE  /\ Size(values) = 0 /\ Size(waiters) \in Nat
         /\ Len(pushed) \in Nat /\ Len(results) \in Nat
         /\ ~closed /\ ~failed => Size(waiters) = Len(results) - Len(pushed)
<1>1. Size(values) = 0
  BY EmptyArrayLaw DEF NothingIsBuffered
<1>2. /\ Size(waiters) \in Nat /\ Len(pushed) \in Nat /\ Len(results) \in Nat
      /\ Given = Len(pushed) - Size(values) /\ Settled = Len(results) - Size(waiters)
  BY QueueNumbers DEF QueueInv
<1>3. ASSUME ~closed, ~failed PROVE Size(waiters) = Len(results) - Len(pushed)
  <2>1. Given <= Settled /\ ~(Given < Settled)
    BY <1>3 DEF QueueInv
  <2> QED BY <1>1, <1>2, <2>1
<1> QED BY <1>1, <1>2, <1>3

LEMMA QueueEnds ==
  ASSUME CompactAfter \in Nat \ {0}, QueueInv, NothingIsBuffered,
         Complete \/ Error \/ Return
  PROVE  QueueInv' /\ NothingIsBuffered' /\ (closed' \/ failed')
<1>1. QueueInv'
  BY EndKeeps, ReturnKeeps
<1>2. NothingIsBuffered' /\ (closed' \/ failed')
  BY DEF Complete, Error, Return, NothingIsBuffered, queueVars
<1> QED BY <1>1, <1>2

LEMMA ReadOfEmptyQueue ==
  ASSUME CompactAfter \in Nat \ {0}, QueueInv, NothingIsBuffered, Read
  PROVE  /\ QueueInv' /\ NothingIsBuffered'
         /\ closed' = closed /\ failed' = failed /\ pushed' = pushed
         /\ Len(results') = Len(results) + 1
<1>1. QueueInv'
  BY ReadKeeps
<1>2. Size(values) = 0
  BY EmptyQueue
<1>3. /\ values' = values /\ closed' = closed /\ failed' = failed /\ pushed' = pushed
      /\ results' = Append(results, IF failed THEN Rejected ELSE IF closed THEN Done ELSE Pending)
  BY <1>2 DEF Read
<1>4. results \in Seq(Results)
  BY DEF QueueInv, QueueTypes
<1>5. (IF failed THEN Rejected ELSE IF closed THEN Done ELSE Pending) \in Results
  BY DEF Results
<1>6. Len(results') = Len(results) + 1
  BY <1>3, <1>4, <1>5, AppendProperties
<1> QED BY <1>1, <1>3, <1>6 DEF NothingIsBuffered

LEMMA PushToWaiter ==
  ASSUME CompactAfter \in Nat \ {0}, QueueInv, NothingIsBuffered, ~closed, ~failed,
         Size(waiters) > 0, NEW value \in Values, Push(value)
  PROVE  /\ QueueInv' /\ NothingIsBuffered'
         /\ closed' = closed /\ failed' = failed
         /\ Len(pushed') = Len(pushed) + 1 /\ Len(results') = Len(results)
<1>1. QueueInv'
  BY PushKeeps
<1>2. /\ values' = values /\ closed' = closed /\ failed' = failed
      /\ pushed' = Append(pushed, value)
      /\ results' = [results EXCEPT ![Item(waiters, 1)] = Value(value)]
  BY DEF Push
<1>3. results \in Seq(Results) /\ pushed \in Seq(Values) /\ results' \in Seq(Results)
  BY <1>1 DEF QueueInv, QueueTypes
<1>4. Len(pushed') = Len(pushed) + 1
  BY <1>2, <1>3, AppendProperties
<1>5. Len(results') = Len(results)
  <2>1. DOMAIN results' = DOMAIN results
    BY <1>2
  <2>2. 1 .. Len(results') = 1 .. Len(results) /\ Len(results) \in Nat /\ Len(results') \in Nat
    BY <1>3, <2>1, LenProperties
  <2> QED BY <2>2
<1> QED BY <1>1, <1>2, <1>4, <1>5 DEF NothingIsBuffered

----------------------------------------------------------------------------
\* Whatever ends the iterator: the queue ends with it or when cancel() is back.
LEMMA EndStep ==
  ASSUME CompactAfter \in Nat \ {0}, PullInv, CancelIterator \/ FailAndCancel,
         setup' \in {"subscribing", "settling", "ready"}, aborted' \in BOOLEAN,
         requesting' \in Nat, requested' \in Nat
  PROVE  PullInv' /\ terminated'
<1>1. QueueInv /\ PullTypes /\ NothingIsBuffered /\ Ended /\ Live
  BY DEF PullInv
<1>2. CASE terminated
  <2>1. UNCHANGED endVars /\ (Return \/ UNCHANGED queueVars)
    BY <1>2 DEF CancelIterator, FailAndCancel, endVars
  <2>2. QueueInv' /\ NothingIsBuffered' /\ (closed \/ failed => closed' \/ failed')
    BY <1>1, <2>1, QueueEnds, QueueStep DEF NothingIsBuffered, queueVars
  <2>3. PullTypes'
    BY <1>1, <2>1 DEF PullTypes, endVars
  <2>4. Ended' /\ Live' /\ terminated'
    BY <1>1, <1>2, <2>1, <2>2 DEF Ended, Live, Subscribed, endVars
  <2> QED BY <2>2, <2>3, <2>4 DEF PullInv
<1>3. CASE ~terminated
  <2>1. /\ Terminate("cancelled")
        /\ \/ afterCancel' \in {"return", "error"} /\ UNCHANGED queueVars
           \/ (Return \/ Error) /\ UNCHANGED afterCancel
    BY <1>3 DEF CancelIterator, FailAndCancel
  <2>2. QueueInv' /\ NothingIsBuffered' /\ (afterCancel' \in {"return", "error"} \/ closed' \/ failed')
    BY <1>1, <2>1, QueueEnds, QueueStep DEF NothingIsBuffered, queueVars
  <2>3. PullTypes'
    BY <1>1, <2>1 DEF PullTypes, Terminate
  <2>4. Ended' /\ Live' /\ terminated'
    BY <1>1, <2>1, <2>2 DEF Ended, Live, Subscribed, Terminate, PullTypes
  <2> QED BY <2>2, <2>3, <2>4 DEF PullInv
<1> QED BY <1>1, <1>2, <1>3 DEF PullTypes

LEMMA PullInitially == ASSUME CompactAfter \in Nat \ {0}, Init PROVE PullInv
<1>1. QueueInv
  BY QueueInitially DEF Init
<1>2. Len(results) = 0 /\ Len(pushed) = 0
  BY EmptySeq DEF Init
<1>3. PullTypes /\ NothingIsBuffered /\ Ended
  BY DEF Init, PullTypes, NothingIsBuffered, Ended, Subscribed
<1>4. Live
  BY <1>2 DEF Init, Live, Subscribed
<1> QED BY <1>1, <1>3, <1>4 DEF PullInv

\* The steps that leave the queue and what ends the iterator alone.
LEMMA QuietStep ==
  ASSUME CompactAfter \in Nat \ {0}, PullInv, UNCHANGED <<queueVars, endVars>>,
         setup' \in {"subscribing", "settling", "ready"}, aborted' \in BOOLEAN,
         requesting' \in Nat, requested' = requested,
         ~terminated => setup' = "subscribing" \/ (listener = "observed" /\ ~aborted')
  PROVE  PullInv'
<1>1. QueueInv /\ PullTypes /\ NothingIsBuffered /\ Ended /\ Live
  BY DEF PullInv
<1>2. QueueInv' /\ NothingIsBuffered'
  BY <1>1, QueueStep DEF NothingIsBuffered, queueVars
<1>3. PullTypes' /\ Ended'
  BY <1>1 DEF PullTypes, Ended, Subscribed, queueVars, endVars
<1>4. Live'
  BY <1>1 DEF Live, Subscribed, queueVars, endVars
<1> QED BY <1>2, <1>3, <1>4 DEF PullInv

LEMMA SubscribeReturnsKeeps ==
  ASSUME CompactAfter \in Nat \ {0}, PullInv, SubscribeReturns
  PROVE  PullInv'
<1>1. /\ QueueInv /\ PullTypes /\ NothingIsBuffered /\ Ended /\ Live
      /\ setup' = "settling" /\ aborted' = aborted /\ requesting' = requesting /\ requested' = requested
  BY DEF PullInv, SubscribeReturns
<1>2. CASE ~terminated /\ aborted
  BY <1>1, <1>2, EndStep DEF SubscribeReturns, PullTypes
<1>3. CASE terminated \/ ~aborted
  <2>1. /\ listener' = IF terminated THEN listener ELSE "observed"
        /\ UNCHANGED <<queueVars, upstream, pendingDemand, outstandingDemand, terminated, afterCancel>>
    BY <1>3 DEF SubscribeReturns
  <2>2. QueueInv' /\ NothingIsBuffered'
    BY <1>1, <2>1, QueueStep DEF NothingIsBuffered, queueVars
  <2>3. PullTypes' /\ Ended'
    BY <1>1, <2>1 DEF PullTypes, Ended, Subscribed, queueVars
  <2>4. Live'
    BY <1>1, <1>3, <2>1 DEF Live, Subscribed, queueVars
  <2> QED BY <2>2, <2>3, <2>4 DEF PullInv
<1> QED BY <1>2, <1>3

LEMMA CancelReturnsKeeps ==
  ASSUME CompactAfter \in Nat \ {0}, PullInv, CancelReturns
  PROVE  PullInv'
<1>1. /\ QueueInv /\ PullTypes /\ NothingIsBuffered /\ Ended /\ Live
      /\ afterCancel # "nothing" /\ afterCancel' = "nothing" /\ (Return \/ Error)
      /\ UNCHANGED <<upstream, pendingDemand, outstandingDemand, terminated, listener,
                     setup, aborted, requesting, requested>>
  BY DEF PullInv, CancelReturns
<1>2. QueueInv' /\ NothingIsBuffered' /\ (closed' \/ failed')
  BY <1>1, QueueEnds
<1>3. terminated
  BY <1>1 DEF Live
<1>4. PullTypes' /\ Ended' /\ Live'
  BY <1>1, <1>2, <1>3 DEF PullTypes, Ended, Live, Subscribed
<1> QED BY <1>2, <1>4 DEF PullInv

LEMMA NextReadKeeps ==
  ASSUME CompactAfter \in Nat \ {0}, MaxDemand \in Nat, PullInv, NextRead
  PROVE  PullInv'
<1>1. /\ QueueInv /\ PullTypes /\ NothingIsBuffered /\ Ended /\ Live
      /\ Read /\ setup' = setup /\ aborted' = aborted
  BY DEF PullInv, NextRead
<1>2. /\ QueueInv' /\ NothingIsBuffered'
      /\ closed' = closed /\ failed' = failed /\ pushed' = pushed
      /\ Len(results') = Len(results) + 1
  BY <1>1, ReadOfEmptyQueue
<1>3. Len(results) \in Nat /\ Len(pushed) \in Nat
  BY <1>1, EmptyQueue
<1>4. CASE terminated
  <2>1. UNCHANGED <<endVars, requesting, requested>>
    BY <1>4 DEF NextRead
  <2> QED BY <1>1, <1>2, <1>4, <2>1 DEF PullInv, PullTypes, Ended, Live, Subscribed, endVars
<1>5. CASE ~terminated
  <2>1. /\ outstandingDemand' = Saturated(outstandingDemand + 1)
        /\ UNCHANGED <<upstream, terminated, listener, afterCancel>>
        /\ IF Subscribed
           THEN requesting' = requesting + 1 /\ requested' = requested + 1 /\ pendingDemand' = pendingDemand
           ELSE pendingDemand' = Saturated(pendingDemand + 1) /\ requesting' = requesting /\ requested' = requested
    BY <1>5 DEF NextRead, RequestUpstream
  <2>2. /\ ~closed /\ ~failed /\ afterCancel = "nothing" /\ upstream \in {"none", "subscribed"}
        /\ setup = "subscribing" \/ (listener = "observed" /\ ~aborted)
        /\ outstandingDemand <= Len(results) - Len(pushed)
        /\ Subscribed => pendingDemand = 0
        /\ Len(results) <= MaxDemand =>
             /\ outstandingDemand = Len(results) - Len(pushed)
             /\ requested + pendingDemand = Len(results)
    BY <1>1, <1>5 DEF Live
  <2>3. /\ pendingDemand \in Nat /\ outstandingDemand \in Nat /\ requested \in Nat /\ requesting \in Nat
    BY <1>1 DEF PullTypes
  <2>4. /\ outstandingDemand' \in Nat /\ outstandingDemand' <= outstandingDemand + 1
        /\ outstandingDemand + 1 <= MaxDemand => outstandingDemand' = outstandingDemand + 1
    BY <2>1, <2>3 DEF Saturated
  <2>5. /\ pendingDemand' \in Nat /\ requested' \in Nat /\ requesting' \in Nat
        /\ Subscribed => pendingDemand' = 0
        /\ pendingDemand + 1 <= MaxDemand => requested' + pendingDemand' = requested + pendingDemand + 1
    BY <2>1, <2>2, <2>3 DEF Saturated
  <2>6. outstandingDemand' <= Len(results') - Len(pushed')
    BY <1>2, <1>3, <2>2, <2>3, <2>4
  <2>7. ASSUME Len(results') <= MaxDemand
        PROVE  /\ outstandingDemand' = Len(results') - Len(pushed')
               /\ requested' + pendingDemand' = Len(results')
    <3>1. /\ outstandingDemand = Len(results) - Len(pushed)
          /\ requested + pendingDemand = Len(results)
      BY <1>2, <1>3, <2>2, <2>7
    <3>2. outstandingDemand + 1 <= MaxDemand /\ pendingDemand + 1 <= MaxDemand
      BY <1>2, <1>3, <2>3, <2>7, <3>1
    <3>3. /\ outstandingDemand' = outstandingDemand + 1
          /\ requested' + pendingDemand' = requested + pendingDemand + 1
      BY <2>4, <2>5, <3>2
    <3>4. Len(pushed') = Len(pushed)
      BY <1>2
    <3> QED BY <1>2, <1>3, <2>3, <3>1, <3>3, <3>4
  <2>8. PullTypes'
    BY <1>1, <2>1, <2>4, <2>5 DEF PullTypes
  <2>9. Ended'
    BY <1>5, <2>1 DEF Ended
  <2>10. Live'
    BY <1>1, <1>2, <2>1, <2>2, <2>5, <2>6, <2>7 DEF Live, Subscribed
  <2> QED BY <1>2, <2>8, <2>9, <2>10 DEF PullInv
<1> QED BY <1>1, <1>4, <1>5 DEF PullTypes

LEMMA OnSubscribeKeeps ==
  ASSUME CompactAfter \in Nat \ {0}, PullInv, OnSubscribe
  PROVE  PullInv'
<1>1. /\ QueueInv /\ PullTypes /\ NothingIsBuffered /\ Ended /\ Live
      /\ ~terminated /\ ~Subscribed /\ upstream' = "subscribed" /\ pendingDemand' = 0
      /\ IF pendingDemand > 0
         THEN requesting' = requesting + 1 /\ requested' = requested + pendingDemand
         ELSE requesting' = requesting /\ requested' = requested
      /\ UNCHANGED <<queueVars, outstandingDemand, terminated, listener, afterCancel, setup, aborted>>
  BY DEF PullInv, OnSubscribe, RequestUpstream
<1>2. QueueInv' /\ NothingIsBuffered'
  BY <1>1, QueueStep DEF NothingIsBuffered, queueVars
<1>3. /\ requesting' \in Nat /\ requested' \in Nat
      /\ requested' + pendingDemand' = requested + pendingDemand
  BY <1>1 DEF PullTypes
<1>4. PullTypes' /\ Ended'
  BY <1>1, <1>3 DEF PullTypes, Ended
<1>5. results' = results /\ pushed' = pushed /\ closed' = closed /\ failed' = failed
  BY <1>1 DEF queueVars
<1>6. Live'
  BY <1>1, <1>3, <1>5 DEF Live
<1> QED BY <1>2, <1>4, <1>6 DEF PullInv

LEMMA OnNextKeeps ==
  ASSUME CompactAfter \in Nat \ {0}, PullInv, NEW value \in Values, OnNext(value)
  PROVE  PullInv'
<1>1. /\ QueueInv /\ PullTypes /\ NothingIsBuffered /\ Ended /\ Live /\ ~terminated
      /\ UNCHANGED <<setup, aborted, requesting, requested>>
  BY DEF PullInv, OnNext
<1>2. CASE ~Subscribed \/ outstandingDemand <= 0
  <2>1. FailAndCancel
    BY <1>2 DEF OnNext
  <2> QED BY <1>1, <2>1, EndStep DEF PullTypes
<1>3. CASE Subscribed /\ ~(outstandingDemand <= 0)
  <2>1. /\ outstandingDemand' = outstandingDemand - 1 /\ Push(value)
        /\ UNCHANGED <<upstream, pendingDemand, terminated, listener, afterCancel>>
    BY <1>3 DEF OnNext
  <2>2. /\ ~closed /\ ~failed /\ afterCancel = "nothing" /\ upstream \in {"none", "subscribed"}
        /\ setup = "subscribing" \/ (listener = "observed" /\ ~aborted)
        /\ outstandingDemand <= Len(results) - Len(pushed)
        /\ Subscribed => pendingDemand = 0
        /\ Len(results) <= MaxDemand =>
             /\ outstandingDemand = Len(results) - Len(pushed)
             /\ requested + pendingDemand = Len(results)
    BY <1>1 DEF Live
  <2>3. /\ Size(waiters) \in Nat /\ Len(pushed) \in Nat /\ Len(results) \in Nat
        /\ Size(waiters) = Len(results) - Len(pushed)
    BY <1>1, <2>2, EmptyQueue
  <2>4. outstandingDemand \in Nat \ {0} /\ outstandingDemand' \in Nat
    BY <1>1, <1>3, <2>1 DEF PullTypes
  <2>5. Size(waiters) > 0
    BY <2>2, <2>3, <2>4
  <2>6. /\ QueueInv' /\ NothingIsBuffered' /\ closed' = closed /\ failed' = failed
        /\ Len(pushed') = Len(pushed) + 1 /\ Len(results') = Len(results)
    BY <1>1, <2>1, <2>2, <2>5, PushToWaiter
  <2>7. PullTypes' /\ Ended'
    BY <1>1, <2>1, <2>4 DEF PullTypes, Ended
  <2>8. /\ outstandingDemand' <= Len(results') - Len(pushed')
        /\ Len(results') <= MaxDemand =>
             /\ outstandingDemand' = Len(results') - Len(pushed')
             /\ requested' + pendingDemand' = Len(results')
    BY <1>1, <2>1, <2>2, <2>3, <2>4, <2>6
  <2>9. Live'
    BY <1>1, <2>1, <2>2, <2>6, <2>8 DEF Live, Subscribed
  <2> QED BY <2>6, <2>7, <2>9 DEF PullInv
<1> QED BY <1>2, <1>3

\* The publisher's own end.
LEMMA UpstreamEndKeeps ==
  ASSUME CompactAfter \in Nat \ {0}, PullInv, OnError \/ OnComplete
  PROVE  PullInv'
<1>1. /\ QueueInv /\ PullTypes /\ NothingIsBuffered /\ Ended /\ Live
      /\ Terminate("ended") /\ (Error \/ Complete)
      /\ UNCHANGED <<afterCancel, setup, aborted, requesting, requested>>
  BY DEF PullInv, OnError, OnComplete
<1>2. QueueInv' /\ NothingIsBuffered' /\ (closed' \/ failed')
  BY <1>1, QueueEnds
<1>3. PullTypes'
  BY <1>1 DEF PullTypes, Terminate
<1>4. Ended' /\ Live'
  BY <1>1, <1>2 DEF Ended, Live, Subscribed, Terminate, PullTypes
<1> QED BY <1>2, <1>3, <1>4 DEF PullInv

LEMMA PullStep ==
  ASSUME CompactAfter \in Nat \ {0}, MaxDemand \in Nat, PullInv, [Next]_vars
  PROVE  PullInv'
<1>1. PullTypes /\ Live
  BY DEF PullInv
<1>2. CASE SubscribeReturns
  BY <1>2, SubscribeReturnsKeeps
<1>3. CASE SubscribeThrows
  BY <1>1, <1>3, EndStep DEF SubscribeThrows, PullTypes
<1>4. CASE Ready
  <2>1. /\ UNCHANGED <<queueVars, endVars>> /\ setup = "settling" /\ setup' = "ready"
        /\ aborted' = aborted /\ requesting' = requesting /\ requested' = requested
    BY <1>4 DEF Ready
  <2> QED BY <1>1, <2>1, QuietStep DEF PullTypes, Live
<1>5. CASE Abort
  <2>1. /\ ~aborted /\ aborted' = TRUE /\ setup' = setup
        /\ requesting' = requesting /\ requested' = requested
    BY <1>5 DEF Abort
  <2>2. CASE listener = "observed"
    BY <1>1, <1>5, <2>1, <2>2, EndStep DEF Abort, PullTypes
  <2>3. CASE listener # "observed"
    <3>1. UNCHANGED <<queueVars, endVars>>
      BY <1>5, <2>3 DEF Abort
    <3> QED BY <1>1, <2>1, <2>3, <3>1, QuietStep DEF PullTypes, Live
  <2> QED BY <2>2, <2>3
<1>6. CASE CancelReturns
  BY <1>6, CancelReturnsKeeps
<1>7. CASE RequestReturns
  <2>1. /\ UNCHANGED <<queueVars, endVars>> /\ setup' = setup /\ aborted' = aborted
        /\ requesting' \in Nat /\ requested' = requested
    BY <1>1, <1>7 DEF RequestReturns, PullTypes
  <2> QED BY <1>1, <2>1, QuietStep DEF PullTypes, Live
<1>8. CASE RequestThrows
  <2>1. /\ FailAndCancel /\ setup' = setup /\ aborted' = aborted
        /\ requesting' \in Nat /\ requested' = requested
    BY <1>1, <1>8 DEF RequestThrows, PullTypes
  <2> QED BY <1>1, <2>1, EndStep DEF PullTypes
<1>9. CASE NextRead
  BY <1>9, NextReadKeeps
<1>10. CASE ReturnIterator \/ ThrowIterator
  <2>1. /\ CancelIterator \/ FailAndCancel
        /\ setup' = setup /\ aborted' = aborted /\ requesting' = requesting /\ requested' = requested
    BY <1>10 DEF ReturnIterator, ThrowIterator
  <2> QED BY <1>1, <2>1, EndStep DEF PullTypes
<1>11. CASE OnSubscribe
  BY <1>11, OnSubscribeKeeps
<1>12. CASE OnError \/ OnComplete
  BY <1>12, UpstreamEndKeeps
<1>13. CASE \E value \in Values : OnNext(value)
  BY <1>13, OnNextKeeps
<1>14. CASE UNCHANGED vars
  <2>1. /\ UNCHANGED <<queueVars, endVars>> /\ setup' = setup /\ aborted' = aborted
        /\ requesting' = requesting /\ requested' = requested
    BY <1>14 DEF vars
  <2> QED BY <1>1, <2>1, QuietStep DEF PullTypes, Live
<1> QED BY <1>2, <1>3, <1>4, <1>5, <1>6, <1>7, <1>8, <1>9, <1>10, <1>11, <1>12, <1>13, <1>14 DEF Next

LEMMA PullInvariant ==
  ASSUME CompactAfter \in Nat \ {0}, MaxDemand \in Nat
  PROVE  Spec => []PullInv
<1>1. Init => PullInv
  BY PullInitially
<1>2. PullInv /\ [Next]_vars => PullInv'
  BY PullStep
<1> QED BY <1>1, <1>2, PTL DEF Spec

----------------------------------------------------------------------------
\* The queue between a publisher and its consumer never holds a value: an item is only accepted
\* when a read waits for it.
THEOREM NeverBuffers ==
  ASSUME CompactAfter \in Nat \ {0}, MaxDemand \in Nat
  PROVE  Spec => []NothingIsBuffered
<1>1. PullInv => NothingIsBuffered
  BY DEF PullInv
<1> QED BY <1>1, PullInvariant, PTL

\* Every read's demand reaches the publisher exactly once, before or after onSubscribe, and a
\* publisher that keeps to it is never failed for emitting without demand.
THEOREM DemandAlwaysExact ==
  ASSUME CompactAfter \in Nat \ {0}, MaxDemand \in Nat
  PROVE  Spec => []DemandIsExact
<1>1. PullInv => DemandIsExact
  BY DEF PullInv, Live, DemandIsExact
<1> QED BY <1>1, PullInvariant, PTL

\* An ended iterator holds neither its subscription nor the signal's listener, leaves no read
\* waiting, and an aborted signal always ends it.
THEOREM EndAlwaysReleases ==
  ASSUME CompactAfter \in Nat \ {0}, MaxDemand \in Nat
  PROVE  Spec => [](EndReleasesEverything /\ AbortEndsIt)
<1>1. PullInv => EndReleasesEverything /\ AbortEndsIt
  <2> SUFFICES ASSUME PullInv PROVE EndReleasesEverything /\ AbortEndsIt
    OBVIOUS
  <2>1. QueueInv /\ PullTypes /\ Ended /\ Live
    BY DEF PullInv
  <2>2. OnlyEmptyQueuesWait
    BY <2>1, QueueLaws
  <2>3. EndReleasesEverything
    BY <2>1, <2>2 DEF EndReleasesEverything, Ended, OnlyEmptyQueuesWait
  <2>4. AbortEndsIt
    BY <2>1 DEF AbortEndsIt, Live, PullTypes
  <2> QED BY <2>3, <2>4
<1> QED BY <1>1, PullInvariant, PTL

\* The iterator uses its queue as any queue may be used, so that the queue's laws hold of the reads
\* of its consumer.
THEOREM ReadsOfIterators ==
  ASSUME CompactAfter \in Nat \ {0}, MaxDemand \in Nat
  PROVE  Spec => [](ReadsFollowPushes /\ EndIsLast /\ OnlyEmptyQueuesWait)
<1>1. PullInv => ReadsFollowPushes /\ EndIsLast /\ OnlyEmptyQueuesWait
  BY QueueLaws DEF PullInv
<1> QED BY <1>1, PullInvariant, PTL

\* A subscription is cancelled at most once, and never after the publisher has ended by itself.
THEOREM CancelledAtMostOnce ==
  ASSUME CompactAfter \in Nat \ {0}, MaxDemand \in Nat
  PROVE  Spec => CancelledOnce
<1>1. PullInv /\ [Next]_vars =>
        [/\ upstream \in {"ended", "cancelled"} => upstream' = upstream
         /\ upstream' = "cancelled" /\ upstream # "cancelled" => afterCancel = "nothing"]_vars
  <2> SUFFICES ASSUME PullInv, Next
               PROVE  /\ upstream \in {"ended", "cancelled"} => upstream' = upstream
                      /\ upstream' = "cancelled" /\ upstream # "cancelled" => afterCancel = "nothing"
    OBVIOUS
  <2>1. PullTypes /\ Ended /\ Live
    BY DEF PullInv
  <2>2. CASE upstream' = upstream
    BY <2>2
  <2>3. CASE upstream' # upstream
    <3>1. ~terminated
      BY <2>3 DEF Next, SubscribeReturns, SubscribeThrows, Ready, Abort, CancelReturns, RequestReturns,
           RequestThrows, NextRead, ReturnIterator, ThrowIterator, OnSubscribe, OnError, OnComplete, OnNext,
           CancelIterator, FailAndCancel, endVars
    <3> QED BY <2>1, <3>1 DEF Live
  <2> QED BY <2>2, <2>3
<1> QED BY <1>1, PullInvariant, PTL DEF Spec, CancelledOnce
=============================================================================

------------------------------- MODULE FrameCodec -------------------------------
(***************************************************************************)
(* The binary codec of single frames (rsocket-frames-ts): what the         *)
(* constructors accept, what Frame.toUint8Array writes and what            *)
(* FrameDeserializer.deserialize makes of it.  A frame is a record of its  *)
(* type, stream, flags, the values of its fixed fields in the order they   *)
(* are written, and its optional metadata and data.                        *)
(*                                                                         *)
(* The wire is a sequence of octets.  A number of k octets keeps its value *)
(* in the first of them: the order of the digits inside a number is the    *)
(* business of the byte library.  Names and Resume tokens are the octets   *)
(* of their text.                                                          *)
(***************************************************************************)
EXTENDS Integers, Sequences

CONSTANTS
  Octets,       \* the opaque octets of metadata, data, names and tokens
  MaxUint32,    \* 2^32 - 1 and 2^63 - 1: only comparisons with them matter
  MaxUint63

MaxUint31 == 2147483647
MaxFrameSize == 16777215
HeaderLength == 6

Uint8 == 0 .. 255
Uint16 == 0 .. 65535
Uint31 == 0 .. MaxUint31
Positive31 == 1 .. MaxUint31
Uint32 == 0 .. MaxUint32
Uint63 == 0 .. MaxUint63

Missing == <<>>
Some(x) == <<x>>
IsPart(part) == part = Missing \/ (part = Some(part[1]) /\ part[1] \in Seq(Octets))

----------------------------------------------------------------------------
(* Types and flags.                                                        *)

RESERVED == 0
SETUP == 1
LEASE == 2
KEEPALIVE == 3
REQUEST_RESPONSE == 4
REQUEST_FNF == 5
REQUEST_STREAM == 6
REQUEST_CHANNEL == 7
REQUEST_N == 8
CANCEL == 9
PAYLOAD == 10
ERROR == 11
METADATA_PUSH == 12
RESUME == 13
RESUME_OK == 14
EXT == 63

FrameType == 1 .. 14 \cup {EXT}     \* the types with a class of their own

IGNORE == 512
METADATA == 256
RESUME_ENABLED == 128               \* SetupFlag.RESUME

Flags == 0 .. 1023

IsFlagSet(flags, flag) == (flags \div flag) % 2 = 1
Combine(flags, flag) == IF IsFlagSet(flags, flag) THEN flags ELSE flags + flag

OnTheConnection(type) == type \in {SETUP, LEASE, KEEPALIVE, RESUME, RESUME_OK}

\* LEASE and METADATA_PUSH carry nothing after their metadata and write no length for it.
MetadataHasLength(type) == type \notin {LEASE, METADATA_PUSH}

\* A class: what write() puts between header and parts, whether the caller chooses the flags
\* (the other constructors pass FrameFlag.NONE or, for METADATA_PUSH, METADATA), and whether
\* its constructor takes metadata and data.
Class(body, flags, metadata, data) == [body |-> body, flags |-> flags, metadata |-> metadata, data |-> data]

SetupFrame == Class("setup", TRUE, TRUE, TRUE)
LeaseFrame == Class("lease", FALSE, TRUE, FALSE)
KeepaliveFrame == Class("position", TRUE, FALSE, TRUE)
RequestResponseFrame == Class("nothing", TRUE, TRUE, TRUE)
RequestFireAndForgetFrame == Class("nothing", TRUE, TRUE, TRUE)
RequestStreamFrame == Class("count", TRUE, TRUE, TRUE)
RequestChannelFrame == Class("count", TRUE, TRUE, TRUE)
RequestNFrame == Class("count", FALSE, FALSE, FALSE)
CancelFrame == Class("nothing", FALSE, FALSE, FALSE)
PayloadFrame == Class("nothing", TRUE, TRUE, TRUE)
ErrorFrame == Class("code", FALSE, FALSE, TRUE)
MetadataPushFrame == Class("nothing", FALSE, TRUE, FALSE)
ResumeFrame == Class("resume", FALSE, FALSE, FALSE)
ResumeOkFrame == Class("position", FALSE, FALSE, FALSE)
ExtensionFrame == Class("count", TRUE, TRUE, TRUE)

ClassOf(type) ==
  CASE type = SETUP -> SetupFrame
    [] type = LEASE -> LeaseFrame
    [] type = KEEPALIVE -> KeepaliveFrame
    [] type = REQUEST_RESPONSE -> RequestResponseFrame
    [] type = REQUEST_FNF -> RequestFireAndForgetFrame
    [] type = REQUEST_STREAM -> RequestStreamFrame
    [] type = REQUEST_CHANNEL -> RequestChannelFrame
    [] type = REQUEST_N -> RequestNFrame
    [] type = CANCEL -> CancelFrame
    [] type = PAYLOAD -> PayloadFrame
    [] type = ERROR -> ErrorFrame
    [] type = METADATA_PUSH -> MetadataPushFrame
    [] type = RESUME -> ResumeFrame
    [] type = RESUME_OK -> ResumeOkFrame
    [] type = EXT -> ExtensionFrame

FlagsAreGiven(type) == ClassOf(type).flags
TakesMetadata(type) == ClassOf(type).metadata
TakesData(type) == ClassOf(type).data
Counted(type) == ClassOf(type).body = "count"
Positioned(type) == ClassOf(type).body = "position"
Bodiless(type) == ClassOf(type).body = "nothing"

----------------------------------------------------------------------------
(* The constructors.                                                       *)

Frame(type, stream, flags, values, metadata, data) ==
  [type |-> type, stream |-> stream,
   flags |-> IF metadata = Missing THEN flags ELSE Combine(flags, METADATA),
   values |-> values, metadata |-> metadata, data |-> data]

\* SETUP: versions, keepalive interval, maximum lifetime, Resume token, the two MIME types.
AcceptsSetup(v, flags) ==
  /\ v = <<v[1], v[2], v[3], v[4], v[5], v[6], v[7]>>
  /\ v[1] \in Uint16 /\ v[2] \in Uint16
  /\ v[3] \in Positive31 /\ v[4] \in Positive31
  /\ IsPart(v[5])
  /\ v[5] = Missing <=> ~IsFlagSet(flags, RESUME_ENABLED)
  /\ v[5] # Missing => Len(v[5][1]) \in Uint16
  /\ v[6] \in Seq(Octets) /\ Len(v[6]) \in Uint8 \ {0}
  /\ v[7] \in Seq(Octets) /\ Len(v[7]) \in Uint8 \ {0}

\* RESUME: versions, token, last received server and first available client position.
AcceptsResume(v) ==
  /\ v = <<v[1], v[2], v[3], v[4], v[5]>>
  /\ v[1] \in Uint16 /\ v[2] \in Uint16
  /\ v[3] \in Seq(Octets) /\ Len(v[3]) \in Uint16
  /\ v[4] \in Uint63 /\ v[5] \in Uint63

\* Connection errors belong to stream 0, the errors of a stream never do.
ErrorInScope(code, stream) ==
  /\ (code \in 1 .. 4 \cup {257, 258}) => stream = 0
  /\ (code \in 513 .. 516 \/ (769 <= code /\ code < MaxUint32)) => stream # 0

AcceptsError(v, stream) == v = <<v[1]>> /\ v[1] \in Uint32 /\ ErrorInScope(v[1], stream)

AcceptsLease(v) == v = <<v[1], v[2]>> /\ v[1] \in Uint31 /\ v[2] \in Uint31

\* The last received position of KEEPALIVE and RESUME_OK.
AcceptsPosition(v) == v = <<v[1]>> /\ v[1] \in Uint63

\* The initial request of a stream or channel, REQUEST_N, and the extended type of EXT.
AcceptsCount(v) == v = <<v[1]>> /\ v[1] \in Positive31

AcceptsHeader(f) ==
  /\ f.stream \in Uint31
  /\ f.flags \in Flags
  /\ OnTheConnection(f.type) => f.stream = 0

Accepted(f) ==
  /\ AcceptsHeader(f)
  /\ f.type = SETUP => AcceptsSetup(f.values, f.flags)
  /\ f.type = RESUME => AcceptsResume(f.values)
  /\ f.type = ERROR => AcceptsError(f.values, f.stream)
  /\ f.type = LEASE => AcceptsLease(f.values)
  /\ f.type = METADATA_PUSH => f.metadata # Missing
  /\ Positioned(f.type) => AcceptsPosition(f.values)
  /\ Counted(f.type) => AcceptsCount(f.values)
  /\ Bodiless(f.type) => f.values = <<>>

FlagsOf(type, given) ==
  IF FlagsAreGiven(type) THEN given ELSE IF type = METADATA_PUSH THEN METADATA ELSE 0

\* The frames the constructors make.
IsFrame(f) ==
  /\ f.type \in FrameType
  /\ IsPart(f.metadata) /\ (f.metadata # Missing => TakesMetadata(f.type))
  /\ IsPart(f.data) /\ (f.data # Missing => TakesData(f.type))
  /\ \E given \in Flags :
       f = Frame(f.type, f.stream, FlagsOf(f.type, given), f.values, f.metadata, f.data)
  /\ Accepted(f)

----------------------------------------------------------------------------
(* The writer.                                                             *)

Word(octets, n) == [i \in 1 .. octets |-> IF i = 1 THEN n ELSE 0]
I8(n) == Word(1, n % 256)
I16(n) == Word(2, n % 65536)
I24(n) == Word(3, n % 16777216)
I32(n) == Word(4, n)                \* values above the field are refused by the constructors
I64(n) == Word(8, n)

\* Six bits of type and ten of flags share two octets.
Packed(type, flags) == type * 1024 + flags
TypeIn(packed) == packed \div 1024
FlagsIn(packed) == packed % 1024

Header(f) == I32(f.stream) \o I16(Packed(f.type, f.flags))

WriteSetup(f) ==
  LET v == f.values
      token == v[5][1]
  IN  I16(v[1]) \o I16(v[2]) \o I32(v[3]) \o I32(v[4])
        \o (IF IsFlagSet(f.flags, RESUME_ENABLED) THEN I16(Len(token)) \o token ELSE <<>>)
        \o ((I8(Len(v[6])) \o v[6]) \o (I8(Len(v[7])) \o v[7]))

WriteResume(f) ==
  LET v == f.values
  IN  I16(v[1]) \o I16(v[2]) \o (I16(Len(v[3])) \o v[3]) \o I64(v[4]) \o I64(v[5])

Body(f) ==
  CASE f.type = SETUP -> WriteSetup(f)
    [] f.type = RESUME -> WriteResume(f)
    [] f.type = LEASE -> I32(f.values[1]) \o I32(f.values[2])
    [] f.type = ERROR \/ Counted(f.type) -> I32(f.values[1])
    [] Positioned(f.type) -> I64(f.values[1])
    [] OTHER -> <<>>

HasMetadata(f) == f.type = METADATA_PUSH \/ (TakesMetadata(f.type) /\ IsFlagSet(f.flags, METADATA))

\* A frame flagged METADATA without metadata announces an empty one.
WriteMetadata(f) ==
  IF f.metadata # Missing
  THEN IF MetadataHasLength(f.type) THEN I24(Len(f.metadata[1])) \o f.metadata[1] ELSE f.metadata[1]
  ELSE IF HasMetadata(f) /\ MetadataHasLength(f.type) THEN I24(0) ELSE <<>>

WriteData(f) == IF f.data # Missing THEN f.data[1] ELSE <<>>

Serialize(f) == Header(f) \o Body(f) \o WriteMetadata(f) \o WriteData(f)

\* The length the writer checks, and puts before the frame on TCP, ahead of writing the parts.
VariableLength(f) ==
  (IF f.metadata # Missing THEN Len(f.metadata[1]) ELSE 0)
    + (IF MetadataHasLength(f.type) /\ (f.metadata # Missing \/ HasMetadata(f)) THEN 3 ELSE 0)
    + (IF f.data # Missing THEN Len(f.data[1]) ELSE 0)

AnnouncedLength(f) == HeaderLength + Len(Body(f)) + VariableLength(f)

Fits(f) == AnnouncedLength(f) <= MaxFrameSize

----------------------------------------------------------------------------
(* The reader.  It consumes a sequence from the front; running off its end *)
(* is an error, and so is what is left over.                               *)

Refused == Missing
Number(rest) == rest[1]
View(rest, n) == SubSeq(rest, 1, n)
Rest(rest, n) == SubSeq(rest, n + 1, Len(rest))

\* A field of its length, written in k octets, and that many octets.
HasField(rest, k) == k <= Len(rest) /\ k + Number(rest) <= Len(rest)
Field(rest, k) == View(Rest(rest, k), Number(rest))
AfterField(rest, k) == Rest(Rest(rest, k), Number(rest))

\* from() hands what it read to the constructor, which may refuse it.
Construct(h, values, metadata, rest) ==
  LET f == Frame(h.type, h.stream, FlagsOf(h.type, h.flags), values, metadata,
                 IF TakesData(h.type) THEN Some(rest) ELSE Missing)
  IN  IF Accepted(f) /\ (TakesData(h.type) \/ rest = <<>>) THEN Some(f) ELSE Refused

ReadParts(h, values, rest) ==
  IF ~(TakesMetadata(h.type) /\ IsFlagSet(h.flags, METADATA)) THEN Construct(h, values, Missing, rest)
  ELSE IF ~MetadataHasLength(h.type) THEN Construct(h, values, Some(rest), <<>>)
  ELSE IF HasField(rest, 3) THEN Construct(h, values, Some(Field(rest, 3)), AfterField(rest, 3))
  ELSE Refused

ReadMimeTypes(h, fixed, token, rest) ==
  LET second == AfterField(rest, 1)
  IN  IF HasField(rest, 1) /\ HasField(second, 1)
      THEN ReadParts(h, <<fixed[1], fixed[2], fixed[3], fixed[4], token, Field(rest, 1), Field(second, 1)>>,
                     AfterField(second, 1))
      ELSE Refused

ReadSetup(h, body) ==
  LET rest == Rest(Rest(Rest(Rest(body, 2), 2), 4), 4)
      fixed == <<Number(body), Number(Rest(body, 2)), Number(Rest(Rest(body, 2), 2)),
                 Number(Rest(Rest(Rest(body, 2), 2), 4))>>
  IN  IF Len(body) < 12 THEN Refused
      ELSE IF ~IsFlagSet(h.flags, RESUME_ENABLED) THEN ReadMimeTypes(h, fixed, Missing, rest)
      ELSE IF HasField(rest, 2) THEN ReadMimeTypes(h, fixed, Some(Field(rest, 2)), AfterField(rest, 2))
      ELSE Refused

ReadResume(h, body) ==
  LET token == Rest(Rest(body, 2), 2)
      rest == AfterField(token, 2)
  IN  IF Len(body) >= 4 /\ HasField(token, 2) /\ Len(rest) >= 16
      THEN ReadParts(h, <<Number(body), Number(Rest(body, 2)), Field(token, 2), Number(rest), Number(Rest(rest, 8))>>,
                     Rest(Rest(rest, 8), 8))
      ELSE Refused

ReadBody(h, body) ==
  CASE h.type = SETUP -> ReadSetup(h, body)
    [] h.type = RESUME -> ReadResume(h, body)
    [] h.type = LEASE ->
         IF Len(body) >= 8 THEN ReadParts(h, <<Number(body), Number(Rest(body, 4))>>, Rest(Rest(body, 4), 4))
         ELSE Refused
    [] h.type = ERROR \/ Counted(h.type) ->
         IF Len(body) >= 4 THEN ReadParts(h, <<Number(body)>>, Rest(body, 4)) ELSE Refused
    [] Positioned(h.type) ->
         IF Len(body) >= 8 THEN ReadParts(h, <<Number(body)>>, Rest(body, 8)) ELSE Refused
    [] h.type = METADATA_PUSH /\ ~IsFlagSet(h.flags, METADATA) -> Refused
    [] OTHER -> ReadParts(h, <<>>, body)

\* Types without a class are kept whole when flagged IGNORE and refused otherwise.
ReadUnknown(h, body) ==
  IF IsFlagSet(h.flags, IGNORE)
  THEN Some([type |-> h.type, stream |-> h.stream, flags |-> h.flags, body |-> body])
  ELSE Refused

Deserialize(wire) ==
  LET packed == Number(Rest(wire, 4))
      h == [stream |-> Number(wire), type |-> TypeIn(packed), flags |-> FlagsIn(packed)]
      body == Rest(wire, HeaderLength)
  IN  IF Len(wire) < HeaderLength \/ Len(wire) > MaxFrameSize THEN Refused
      ELSE IF h.stream > MaxUint31 \/ (OnTheConnection(h.type) /\ h.stream # 0) THEN Refused
      ELSE IF h.type \in FrameType THEN ReadBody(h, body)
      ELSE ReadUnknown(h, body)

\* What the peer sees of a frame: parts that are always read are present, if empty.
Bytes(part) == IF part = Missing THEN <<>> ELSE part[1]
AsRead(f) ==
  [type |-> f.type, stream |-> f.stream, flags |-> f.flags, values |-> f.values,
   metadata |-> IF HasMetadata(f) THEN Some(Bytes(f.metadata)) ELSE Missing,
   data |-> IF TakesData(f.type) THEN Some(Bytes(f.data)) ELSE Missing]
=============================================================================

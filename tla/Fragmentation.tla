----------------------------- MODULE Fragmentation -----------------------------
(***************************************************************************)
(* One logical frame cut into fragments by the sender                      *)
(* (rsocket-core-ts/src/fragmentation) and glued together again by the     *)
(* receiver (rsocket-core-ts/src/reassembly).  A frame is a record of its  *)
(* type, stream, flags, metadata bytes and data bytes; a byte is an opaque *)
(* value.  The sender's loop is a cursor [frame, metadata, data, first]:   *)
(* the offsets of the next fragment in the two parts.                      *)
(***************************************************************************)
EXTENDS Integers, Sequences

CONSTANT MaxFrameLength     \* options.maxFrameLength of both endpoints, in bytes

\* normalizeMaxFrameLength accepts nothing shorter than a frame header.
ASSUME MaxFrameLengthAssumption == MaxFrameLength \in Nat /\ MaxFrameLength >= 6

HeaderLength == 6
RequestNLength == 4         \* also the length of an ERROR frame's code
MetadataLengthField == 3

Requests == {"request_response", "request_fnf", "request_stream", "request_channel"}
Fragmentable(type) == type \in Requests \cup {"payload"}

Overhead(type, hasMetadata) ==
  HeaderLength + (IF type \in {"request_stream", "request_channel", "error"} THEN RequestNLength ELSE 0)
               + (IF hasMetadata THEN MetadataLengthField ELSE 0)

FrameLength(f) == Overhead(f.type, f.hasMetadata) + Len(f.metadata) + Len(f.data)

----------------------------------------------------------------------------
(* Logical frames.                                                         *)

\* What the endpoints pass to sendFrame: metadata bytes only under the METADATA flag, NEXT or
\* COMPLETE on a PAYLOAD, COMPLETE on no request but a channel's.
Sendable(f) ==
  /\ Len(f.metadata) > 0 => f.hasMetadata
  /\ f.type = "payload" => f.next \/ f.complete
  /\ f.type # "payload" => ~f.next
  /\ f.complete => f.type \in {"payload", "request_channel"}

\* The frames that can be fragmented, their bytes taken from a set.
FramesOf(bytes) ==
  {f \in [type : Requests \cup {"payload"}, stream : Nat, follows : {FALSE}, next : BOOLEAN,
          complete : BOOLEAN, hasMetadata : BOOLEAN, metadata : Seq(bytes), data : Seq(bytes)] :
     Sendable(f)}

----------------------------------------------------------------------------
(* The sender: emitOutboundFrameFragments and its loop.                    *)

Smaller(a, b) == IF a <= b THEN a ELSE b
Larger(a, b) == IF a >= b THEN a ELSE b

Cursor(f) == [frame |-> f, metadata |-> 0, data |-> 0, first |-> TRUE]

Whole(c) == c.first /\ FrameLength(c.frame) <= MaxFrameLength

Kind(c) == IF c.first THEN c.frame.type ELSE "payload"
MetadataLeft(c) == Len(c.frame.metadata) - c.metadata
DataLeft(c) == Len(c.frame.data) - c.data
IncludesMetadata(c) == MetadataLeft(c) > 0 \/ (c.first /\ c.frame.hasMetadata)
Capacity(c) == MaxFrameLength - Overhead(Kind(c), IncludesMetadata(c))

\* The bytes of each part that the next fragment takes: metadata first, data in the room left.
MetadataShare(c) == IF IncludesMetadata(c) THEN Smaller(MetadataLeft(c), Capacity(c)) ELSE 0
DataShare(c) ==
  IF ~IncludesMetadata(c) THEN Smaller(DataLeft(c), Capacity(c))
  ELSE IF MetadataShare(c) = MetadataLeft(c)
       THEN Smaller(DataLeft(c), Larger(0, Capacity(c) - MetadataShare(c)))
       ELSE 0

\* The loop throws RSocketFrameSizeError instead of emitting when one of these fails.
Feasible(c) ==
  \/ Whole(c)
  \/ /\ Fragmentable(c.frame.type)
     /\ Len(c.frame.metadata) > 0 \/ Len(c.frame.data) > 0
     /\ IF IncludesMetadata(c) THEN Capacity(c) >= (IF MetadataLeft(c) > 0 THEN 1 ELSE 0)
                               ELSE Capacity(c) > 0
     /\ \/ MetadataShare(c) > 0
        \/ DataShare(c) > 0
        \/ c.first /\ IncludesMetadata(c) /\ MetadataLeft(c) = 0

Advance(c) ==
  IF Whole(c) THEN [c EXCEPT !.first = FALSE, !.metadata = Len(c.frame.metadata), !.data = Len(c.frame.data)]
  ELSE [c EXCEPT !.first = FALSE, !.metadata = c.metadata + MetadataShare(c), !.data = c.data + DataShare(c)]

Exhausted(c) == ~c.first /\ MetadataLeft(c) = 0 /\ DataLeft(c) = 0

\* FOLLOWS on every fragment but the last, COMPLETE on the last only.  A continuation of a
\* request is a PAYLOAD with NEXT; one of a PAYLOAD keeps its flags on the last fragment.
Fragment(c) ==
  LET f == c.frame
      follows == ~Exhausted(Advance(c))
  IN  IF Whole(c) THEN f
      ELSE [type |-> Kind(c), stream |-> f.stream, follows |-> follows,
            next |-> IF c.first THEN f.next
                     ELSE IF f.type = "payload" THEN follows \/ f.next
                     ELSE TRUE,
            complete |-> ~follows /\ f.complete,
            hasMetadata |-> IncludesMetadata(c),
            metadata |-> SubSeq(f.metadata, c.metadata + 1, c.metadata + MetadataShare(c)),
            data |-> SubSeq(f.data, c.data + 1, c.data + DataShare(c))]

----------------------------------------------------------------------------
(* The receiver: appendFragmentParts and the two rebuilds.                 *)

None == [kind |-> "none"]

NoParts(f) == [kind |-> "parts", initial |-> f, hasMetadata |-> FALSE,
               metadata |-> <<>>, data |-> <<>>]

\* A fragment with metadata after data is malformed: appendFragmentParts throws.
Appendable(parts, f) == ~(Len(parts.data) > 0 /\ f.hasMetadata)

AppendParts(parts, f) ==
  [parts EXCEPT !.hasMetadata = parts.hasMetadata \/ f.hasMetadata,
                !.metadata = parts.metadata \o f.metadata,
                !.data = parts.data \o f.data]

MoreFollows(f) == f.follows /\ ~f.complete      \* COMPLETE wins over FOLLOWS

\* rebuildRequest: the initial frame's semantics, COMPLETE of a channel from the last fragment.
RebuildRequest(parts, last) ==
  [parts.initial EXCEPT !.follows = FALSE,
                        !.complete = parts.initial.complete
                                       \/ (parts.initial.type = "request_channel" /\ last.complete),
                        !.hasMetadata = parts.hasMetadata,
                        !.metadata = parts.metadata,
                        !.data = parts.data]

\* reassemblePayloadFrame: the flags of the last fragment.
RebuildPayload(parts, last) ==
  [last EXCEPT !.follows = FALSE,
               !.hasMetadata = parts.hasMetadata,
               !.metadata = parts.metadata,
               !.data = parts.data]
=============================================================================

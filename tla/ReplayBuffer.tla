----------------------------- MODULE ReplayBuffer -----------------------------
(***************************************************************************)
(* RSocketReplayBuffer (rsocket-core-ts/src/resume/index.ts): the store of *)
(* serialized frames a client or a server keeps until the peer             *)
(* acknowledges their implied positions.  The variables are the fields of  *)
(* the object, currentPosition is the position its owner passes to every   *)
(* call, and a replay pass is modelled write by write because a frame may  *)
(* be recorded reentrantly while retained frames are being written.        *)
(*                                                                         *)
(* A call that throws leaves the fields alone.  What its owner does next   *)
(* (the session terminates and calls clear) is action Clear.               *)
(***************************************************************************)
EXTENDS Integers, Sequences

CONSTANTS
  MaximumBytes,       \* maxBytes of the constructor
  CompactThreshold,   \* consumed entries before storage is compacted (256)
  FrameSizes,         \* byte lengths of the frames the owner serializes
  MaxPosition         \* bound of the model: no frame is recorded beyond it

ASSUME ReplayBufferAssumption ==
  /\ MaximumBytes \in Nat \ {0}
  /\ CompactThreshold \in Nat \ {0}
  /\ FrameSizes \subseteq Nat \ {0}
  /\ MaxPosition \in Nat

VARIABLES
  entries,                \* end offsets, relative to originPosition
  bytes,                  \* the frames at the same indexes
  head,                   \* number of leading entries already released
  retainedBytes,
  originPosition,
  endPosition,
  acknowledgedPosition,
  currentPosition,        \* the owner's clientPosition or serverPosition
  pass,                   \* the running loop of replayFrom
  live                    \* FALSE once the owner has terminated

storage == <<entries, bytes, head, retainedBytes, originPosition>>
vars == <<storage, endPosition, acknowledgedPosition, currentPosition, pass, live>>

-------------------------------------------------------------------------------
(***************************************************************************)
(* Frames and offsets.  A released slot holds undefined.                   *)
(***************************************************************************)
Frame(start, size) == [start |-> start, size |-> size]
Undefined == Frame(-1, 0)

Idle == [running |-> FALSE, index |-> 0, replayEnd |-> 0]

\* Offset at which entry i ends; entry 0 stands for the origin.
EndOffset(i) == IF i = 0 THEN 0 ELSE entries[i]

FirstAvailablePosition ==
  IF head >= Len(entries) THEN currentPosition ELSE originPosition + EndOffset(head)

\* Fault: a position inside a frame is taken for the next boundary.
PositionIndexWithinFrames(position) ==
  LET hits == {i \in (head + 1)..Len(entries) : originPosition + entries[i] >= position}
  IN IF position < FirstAvailablePosition \/ position > currentPosition THEN -1
     ELSE IF position = FirstAvailablePosition THEN head
     ELSE CHOOSE i \in hits : \A j \in hits : i <= j

(***************************************************************************)
(* positionIndex: the index of the first frame at or after a boundary, or  *)
(* Thrown for a position that is none.  The binary search of the code is   *)
(* PositionSearch.tla; here its result is named directly.                  *)
(***************************************************************************)
Thrown == -1

PositionIndex(position) ==
  LET offset == position - originPosition
      hits == {i \in (head + 1)..Len(entries) : entries[i] = offset}
  IN IF position < 0 \/ position > currentPosition THEN Thrown
     ELSE IF position = currentPosition THEN Len(entries)
     ELSE IF position = FirstAvailablePosition THEN head
     ELSE IF position < FirstAvailablePosition \/ position < originPosition THEN Thrown
     ELSE IF hits = {} THEN Thrown
     ELSE CHOOSE i \in hits : TRUE

CanReplayFrom(position) ==
  position >= FirstAvailablePosition /\ PositionIndex(position) # Thrown

-------------------------------------------------------------------------------
Init ==
  /\ entries = <<>> /\ bytes = <<>>
  /\ head = 0 /\ retainedBytes = 0
  /\ originPosition = 0 /\ endPosition = 0
  /\ acknowledgedPosition = 0
  /\ currentPosition = 0
  /\ pass = Idle
  /\ live = TRUE

(***************************************************************************)
(* advanceHead(h) and compact, given the acknowledged position a.  The     *)
(* loop over the released frames subtracts their lengths, which is the     *)
(* distance between two running totals.                                    *)
(***************************************************************************)
CompactedFrom(h) == h >= CompactThreshold /\ h * 2 >= Len(entries)

\* Fault: compaction rebases the offsets and leaves the origin where it was.
AdvanceHeadKeepingOrigin(h, a) ==
  /\ retainedBytes' = retainedBytes - (EndOffset(h) - EndOffset(head))
  /\ originPosition' = IF h = Len(entries) THEN a ELSE originPosition
  /\ IF h = Len(entries) \/ CompactedFrom(h)
     THEN /\ entries' = [i \in 1..(Len(entries) - h) |-> entries[i + h] - EndOffset(h)]
          /\ bytes' = [i \in 1..(Len(entries) - h) |-> bytes[i + h]]
          /\ head' = 0
     ELSE /\ bytes' = [i \in 1..Len(entries) |-> IF i <= h THEN Undefined ELSE bytes[i]]
          /\ head' = h
          /\ UNCHANGED entries

\* Fault: only the last of the released frames is subtracted.
AdvanceHeadMiscounting(h, a) ==
  /\ retainedBytes' = retainedBytes - (IF h = head THEN 0 ELSE EndOffset(h) - EndOffset(h - 1))
  /\ IF h = Len(entries)
     THEN entries' = <<>> /\ bytes' = <<>> /\ head' = 0 /\ originPosition' = a
     ELSE /\ bytes' = [i \in 1..Len(entries) |-> IF i <= h THEN Undefined ELSE bytes[i]]
          /\ head' = h
          /\ UNCHANGED <<entries, originPosition>>

AdvanceHeadAndCompact(h, a) ==
  /\ retainedBytes' = retainedBytes - (EndOffset(h) - EndOffset(head))
  /\ IF h = Len(entries)
     THEN /\ entries' = <<>> /\ bytes' = <<>>
          /\ head' = 0
          /\ originPosition' = a
     ELSE IF CompactedFrom(h)
     THEN /\ entries' = [i \in 1..(Len(entries) - h) |-> entries[i + h] - EndOffset(h)]
          /\ bytes' = [i \in 1..(Len(entries) - h) |-> bytes[i + h]]
          /\ head' = 0
          /\ originPosition' = originPosition + EndOffset(h)
     ELSE /\ bytes' = [i \in 1..Len(entries) |-> IF i <= h THEN Undefined ELSE bytes[i]]
          /\ head' = h
          /\ UNCHANGED <<entries, originPosition>>

\* Fault: the limit is checked before the frame is counted.
RecordOverLimit(size) ==
  /\ live /\ currentPosition + size <= MaxPosition
  /\ retainedBytes <= MaximumBytes
  /\ entries' = Append(entries, EndOffset(Len(entries)) + size)
  /\ bytes' = Append(bytes, Frame(currentPosition, size))
  /\ retainedBytes' = retainedBytes + size
  /\ originPosition' = IF entries = <<>> THEN currentPosition ELSE originPosition
  /\ endPosition' = currentPosition + size
  /\ currentPosition' = currentPosition + size
  /\ UNCHANGED <<head, acknowledgedPosition, pass, live>>

(***************************************************************************)
(* record: bounded, contiguous retention.  The owner assigns the returned  *)
(* end to its current position.                                            *)
(***************************************************************************)
Record(size) ==
  LET start == IF entries = <<>> THEN currentPosition ELSE originPosition
      end == currentPosition + size
  IN /\ live /\ end <= MaxPosition
     /\ retainedBytes + size <= MaximumBytes
     /\ entries # <<>> => endPosition = currentPosition
     /\ entries' = Append(entries, EndOffset(Len(entries)) + size)
     /\ bytes' = Append(bytes, Frame(currentPosition, size))
     /\ retainedBytes' = retainedBytes + size
     /\ originPosition' = start
     /\ endPosition' = end
     /\ currentPosition' = end
     /\ UNCHANGED <<head, acknowledgedPosition, pass, live>>

(***************************************************************************)
(* acknowledge: a KEEPALIVE position that advances and names a boundary.   *)
(* It never runs inside a replay pass: both sessions buffer inbound frames *)
(* until the pass is over.                                                 *)
(***************************************************************************)
Acknowledge(position) ==
  LET nextHead == PositionIndex(position)
  IN /\ live /\ ~pass.running
     /\ position > acknowledgedPosition
     /\ nextHead # Thrown
     /\ acknowledgedPosition' = position
     /\ IF nextHead <= head
        THEN UNCHANGED storage
        ELSE AdvanceHeadAndCompact(nextHead, position)
     /\ UNCHANGED <<endPosition, currentPosition, pass, live>>

\* Fault: a replay request does not count as an acknowledgement.
ReplayFromUnacknowledged(position) ==
  /\ live /\ ~pass.running
  /\ CanReplayFrom(position)
  /\ AdvanceHeadAndCompact(PositionIndex(position), position)
  /\ pass' = IF head' = Len(entries') THEN Idle
             ELSE [running |-> TRUE, index |-> head' + 1, replayEnd |-> Len(entries')]
  /\ UNCHANGED <<acknowledgedPosition, endPosition, currentPosition, live>>

\* Fault: the loop starts at the first slot instead of the head.
ReplayFromFirstSlot(position) ==
  LET acknowledged == IF position > acknowledgedPosition THEN position ELSE acknowledgedPosition
  IN /\ live /\ ~pass.running
     /\ CanReplayFrom(position)
     /\ acknowledgedPosition' = acknowledged
     /\ AdvanceHeadAndCompact(PositionIndex(position), acknowledged)
     /\ pass' = IF entries' = <<>> THEN Idle
                ELSE [running |-> TRUE, index |-> 1, replayEnd |-> Len(entries')]
     /\ UNCHANGED <<endPosition, currentPosition, live>>

(***************************************************************************)
(* replayFrom up to its loop: releases what the peer has received and      *)
(* takes the snapshot of the frames to write.                              *)
(***************************************************************************)
ReplayFrom(position) ==
  LET nextHead == PositionIndex(position)
      acknowledged == IF position > acknowledgedPosition THEN position ELSE acknowledgedPosition
  IN /\ live /\ ~pass.running
     /\ CanReplayFrom(position)
     /\ acknowledgedPosition' = acknowledged
     /\ AdvanceHeadAndCompact(nextHead, acknowledged)
     /\ pass' = IF head' = Len(entries') THEN Idle
                ELSE [running |-> TRUE, index |-> head' + 1, replayEnd |-> Len(entries')]
     /\ UNCHANGED <<endPosition, currentPosition, live>>

\* The frame the running pass hands to the transport next.
Emitted == bytes[pass.index]

\* Fault: the loop runs to the live end and meets frames recorded meanwhile.
EmitToLiveEnd ==
  /\ pass.running
  /\ pass' = IF pass.index = Len(entries) THEN Idle ELSE [pass EXCEPT !.index = @ + 1]
  /\ UNCHANGED <<storage, endPosition, acknowledgedPosition, currentPosition, live>>

\* One turn of the loop of replayFrom.
Emit ==
  /\ pass.running
  /\ pass' = IF pass.index = pass.replayEnd THEN Idle ELSE [pass EXCEPT !.index = @ + 1]
  /\ UNCHANGED <<storage, endPosition, acknowledgedPosition, currentPosition, live>>

\* The transport write throws: the pass ends, everything stays retained.
EmitThrows ==
  /\ pass.running
  /\ pass' = Idle
  /\ UNCHANGED <<storage, endPosition, acknowledgedPosition, currentPosition, live>>

(***************************************************************************)
(* clear, called when the session terminates: after a throw of record or   *)
(* acknowledge, on a protocol error, or from a write of a replay pass.     *)
(* The loop of a running pass then finds only undefined slots.             *)
(***************************************************************************)
Clear ==
  /\ live /\ live' = FALSE
  /\ entries' = <<>> /\ bytes' = <<>>
  /\ head' = 0 /\ retainedBytes' = 0
  /\ originPosition' = 0 /\ endPosition' = 0
  /\ acknowledgedPosition' = 0
  /\ pass' = Idle
  /\ UNCHANGED currentPosition

Next ==
  \/ \E size \in FrameSizes : Record(size)
  \/ \E position \in 0..MaxPosition : Acknowledge(position) \/ ReplayFrom(position)
  \/ Emit \/ EmitThrows \/ Clear

Spec == Init /\ [][Next]_vars
-------------------------------------------------------------------------------
(***************************************************************************)
(* Properties.                                                             *)
(***************************************************************************)
Retained == (head + 1)..Len(entries)

\* Every field of the buffer stays within the values its class declares.
TypeOK ==
  /\ entries \in Seq(Nat)
  /\ bytes \in Seq([start : Int, size : Nat])
  /\ Len(bytes) = Len(entries)
  /\ head \in 0..Len(entries)
  /\ retainedBytes \in 0..MaximumBytes
  /\ originPosition \in Nat
  /\ endPosition \in Nat
  /\ acknowledgedPosition \in Nat
  /\ currentPosition \in Nat
  /\ pass \in [running : BOOLEAN, index : Nat, replayEnd : Nat]
  /\ live \in BOOLEAN

\* The retained frames tile the interval from the first available position to
\* the current one, whatever was acknowledged, compacted or recorded in between:
\* the offsets, the frames and the origin never drift apart.
RetainedFramesAreContiguous ==
  /\ \A i \in Retained :
       bytes[i] = Frame(originPosition + EndOffset(i - 1), EndOffset(i) - EndOffset(i - 1))
  /\ entries # <<>> => originPosition + EndOffset(Len(entries)) = currentPosition

\* The first available position is exactly the highest position the peer has
\* confirmed: nothing unconfirmed is released and nothing confirmed is kept.
FirstAvailableIsAcknowledged ==
  live => FirstAvailablePosition = acknowledgedPosition

\* The byte counter that enforces maxBytes is the distance between the first
\* available and the current position, so the limit is on what is really held.
RetainedBytesAreExact ==
  live => retainedBytes = currentPosition - FirstAvailablePosition

\* A peer position is accepted for replay exactly when it is the start of a
\* retained frame or the current position: never inside a frame, never earlier.
ReplayableExactlyAtBoundaries ==
  live => \A p \in 0..(currentPosition + 1) :
            CanReplayFrom(p) <=> p \in {bytes[i].start : i \in Retained} \cup {currentPosition}

\* A running pass only meets frames it has still to write, in position order,
\* up to the last frame that was retained when the pass began.
PassMeetsRetainedFrames ==
  pass.running =>
    /\ pass.index \in Retained /\ pass.replayEnd \in Retained
    /\ pass.index <= pass.replayEnd

(***************************************************************************)
(* The buffer implements RetainedLog.                                      *)
(***************************************************************************)
Log == INSTANCE RetainedLog WITH
         Capacity <- MaximumBytes,
         Sizes <- FrameSizes,
         retained <- SubSeq(bytes, head + 1, Len(bytes)),
         position <- currentPosition,
         due <- IF pass.running THEN SubSeq(bytes, pass.index, pass.replayEnd) ELSE <<>>,
         held <- retainedBytes,
         open <- live

ImplementsRetainedLog == Log!Spec
=============================================================================

--------------------------- MODULE FragmentExchange ---------------------------
(***************************************************************************)
(* One logical frame from the sender's emission loop to the receiver's     *)
(* reassembly, fragment by fragment and in order (FramedTransport has the  *)
(* transport and the other frames in between).                             *)
(***************************************************************************)
EXTENDS Fragmentation

CONSTANT Byte           \* values of a byte

VARIABLES
  cursor,               \* the sender's loop
  parts,                \* what the receiver has gathered
  received,             \* the logical frame it rebuilt, or None
  thrown                \* the sender's loop threw RSocketFrameSizeError

exchangeVars == <<cursor, parts, received, thrown>>

ExchangeInit ==
  /\ \E f \in FramesOf(Byte) : cursor = Cursor(f)
  /\ parts = None /\ received = None /\ thrown = FALSE

\* A frame in one piece is the logical frame; the first of several starts the gathering.
Gather(f) ==
  IF parts = None /\ ~f.follows THEN received' = f /\ UNCHANGED parts
  ELSE LET before == IF parts = None THEN NoParts(f) ELSE parts
           after == AppendParts(before, f)
       IN  /\ Appendable(before, f)
           /\ IF MoreFollows(f) THEN parts' = after /\ UNCHANGED received
              ELSE /\ parts' = None
                   /\ received' = IF before.initial.type = "payload" THEN RebuildPayload(after, f)
                                  ELSE RebuildRequest(after, f)

Emit ==
  /\ ~Exhausted(cursor) /\ ~thrown /\ Feasible(cursor)
  /\ Gather(Fragment(cursor))
  /\ cursor' = Advance(cursor)
  /\ UNCHANGED thrown

Throw ==
  /\ ~Exhausted(cursor) /\ ~thrown /\ ~Feasible(cursor)
  /\ thrown' = TRUE
  /\ UNCHANGED <<cursor, parts, received>>

ExchangeNext == Emit \/ Throw

ExchangeSpec == ExchangeInit /\ [][ExchangeNext]_exchangeVars

----------------------------------------------------------------------------
\* No fragment is longer than the peer accepts.
FragmentsFit == (~Exhausted(cursor) /\ Feasible(cursor)) => FrameLength(Fragment(cursor)) <= MaxFrameLength

\* A frame that cannot be sent is refused before its first fragment: the receiver is never left
\* with the beginning of a payload.
RefusedWhole == thrown => cursor.first /\ parts = None

\* What is rebuilt is the frame that was sent, once its last fragment is there and no earlier;
\* the sequence never has metadata after data.
RebuiltExactly ==
  /\ received = IF Exhausted(cursor) THEN cursor.frame ELSE None
  /\ (~Exhausted(cursor) /\ Feasible(cursor) /\ parts # None) => Appendable(parts, Fragment(cursor))
=============================================================================

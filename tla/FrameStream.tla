------------------------------ MODULE FrameStream ------------------------------
(***************************************************************************)
(* The receiving end of a stream transport: raw frames cut out of TCP      *)
(* chunks (tcpFrameFlux over the length-prefixed decoder) or taken from    *)
(* binary WebSocket messages (webSocketFrameFlux), handed one at a time to *)
(* one consumer.  An event may be raised while the consumer is still       *)
(* handling a frame: it is then queued, never delivered inside.            *)
(*                                                                         *)
(* A TCP byte is <<k, i>>, byte i of the packet of frame k: its prefix     *)
(* (bytes 1 to 3) and its body.  A consumer step is one frame long, so     *)
(* that every event between two steps with phase "handling" is a nested    *)
(* one.                                                                    *)
(***************************************************************************)
EXTENDS Fragmentation, SequencesExt

CONSTANT MaxNested      \* bound: chunks or messages queued behind one consumer call

VARIABLES
  transport,            \* "tcp" or "websocket"
  wire,                 \* frames the peer wrote, in order
  arrived,              \* bytes (tcp) or messages (websocket) raised as events so far
  phase,                \* "idle", "decoding", "handling" (consumer on the stack), "task"
  chunk,                \* rest of the TCP chunk the decoder is in
  storage,              \* bytes the decoder retains between chunks
  pending,              \* nested chunks or frames of the SerialSignalDispatcher
  tasks,                \* websocket: promise queue behind a Blob message
  endPending,           \* tcp: "end" raised while the consumer was on the stack
  status,               \* "open", "completed", "failed", "cancelled"
  delivered             \* frames handed to the consumer, in order

streamVars == <<transport, wire, arrived, phase, chunk, storage, pending, tasks,
                endPending, status, delivered>>

StreamInit ==
  /\ transport \in {"tcp", "websocket"}
  /\ wire = <<>> /\ arrived = 0 /\ phase = "idle"
  /\ chunk = <<>> /\ storage = <<>> /\ pending = <<>> /\ tasks = <<>>
  /\ endPending = FALSE /\ status = "open" /\ delivered = <<>>

----------------------------------------------------------------------------
(* Writing.                                                                *)

PrefixLength == 3

\* encodeTcpFrame: a 24-bit length before the frame.
PacketLength(f) == PrefixLength + FrameLength(f)
Packet(k) == [i \in 1..PacketLength(wire[k]) |-> <<k, i>>]
ByteStream == FlattenSeq([k \in 1..Len(wire) |-> Packet(k)])
\* The bytes of the first n packets.
Bytes(n) ==
  LET sum[k \in 0..n] == IF k = 0 THEN 0 ELSE sum[k - 1] + PacketLength(wire[k])
  IN  sum[n]
Written == IF transport = "tcp" THEN Bytes(Len(wire)) ELSE Len(wire)

Write(f) ==
  /\ wire' = Append(wire, f)
  /\ UNCHANGED <<transport, arrived, phase, chunk, storage, pending, tasks, endPending,
                 status, delivered>>

----------------------------------------------------------------------------
(* The length-prefixed decoder.                                            *)

NotAFrame == [type |-> "malformed"]

\* Three bytes read as a length: that of the frame whose prefix they are, else nonsense.
ReadFrameSize(bytes) ==
  LET k == bytes[1][1]
  IN  IF \A i \in 1..PrefixLength : bytes[i] = <<k, i>> THEN FrameLength(wire[k]) ELSE 0

FrameOf(packet) ==
  LET k == packet[1][1]
  IN  IF packet = Packet(k) THEN wire[k] ELSE NotAFrame

ValidSize(size) == size \in 6..MaxFrameLength

\* What push does up to its next emission: the frame emitted (or none, or an error), the bytes
\* retained and the rest of the chunk.
Emits(packet, rest) == [outcome |-> "frame", frame |-> FrameOf(packet), storage |-> <<>>, chunk |-> rest]
Retains(bytes) == [outcome |-> "more", frame |-> NotAFrame, storage |-> bytes, chunk |-> <<>>]
Rejects == [outcome |-> "error", frame |-> NotAFrame, storage |-> <<>>, chunk |-> <<>>]

Take(bytes, n) == SubSeq(bytes, 1, n)
Drop(bytes, n) == SubSeq(bytes, n + 1, Len(bytes))

\* completePendingFrame: first the prefix, then exactly the bytes its packet still lacks.
CompletePendingFrame ==
  LET lacking == Smaller(IF Len(storage) < PrefixLength THEN PrefixLength - Len(storage) ELSE 0, Len(chunk))
      head == storage \o Take(chunk, lacking)
      rest == Drop(chunk, lacking)
      packetSize == PrefixLength + ReadFrameSize(head)
      count == Smaller(packetSize - Len(head), Len(rest))
      packet == head \o Take(rest, count)
  IN  IF Len(head) < PrefixLength THEN Retains(head)
      ELSE IF ~ValidSize(packetSize - PrefixLength) THEN Rejects
      ELSE IF Len(packet) < packetSize THEN Retains(packet)
      ELSE Emits(packet, Drop(rest, count))

\* decodeCompleteFrames, and the trailing append of push.
DecodeCompleteFrame ==
  LET packetSize == PrefixLength + ReadFrameSize(chunk)
  IN  IF Len(chunk) < PrefixLength THEN Retains(chunk)
      ELSE IF ~ValidSize(packetSize - PrefixLength) THEN Rejects
      ELSE IF Len(chunk) < packetSize THEN Retains(chunk)
      ELSE Emits(Take(chunk, packetSize), Drop(chunk, packetSize))

Push == IF storage # <<>> THEN CompletePendingFrame ELSE DecodeCompleteFrame

----------------------------------------------------------------------------
(* TCP events.                                                             *)

\* fail, sink.onCancel and finishEnd: terminated, listeners released, everything retained dropped.
Terminate(outcome) ==
  /\ status' = outcome
  /\ phase' = "idle" /\ chunk' = <<>> /\ storage' = <<>> /\ pending' = <<>> /\ tasks' = <<>>
  /\ endPending' = FALSE

\* Fault: a chunk raised inside the consumer goes to the decoder at once.
OnDataNested(to) ==
  /\ transport = "tcp" /\ status = "open" /\ ~endPending
  /\ phase \in {"idle", "handling"}
  /\ to \in (arrived + 1)..Written
  /\ LET bytes == SubSeq(ByteStream, arrived + 1, to)
     IN  chunk' = bytes \o chunk
  /\ phase' = "decoding" /\ arrived' = to
  /\ UNCHANGED <<transport, wire, storage, pending, tasks, endPending, status, delivered>>

\* onData with the bytes up to "to"; queued by the dispatcher while the consumer is on the stack.
OnData(to) ==
  /\ transport = "tcp" /\ status = "open" /\ ~endPending
  /\ phase \in {"idle", "handling"}
  /\ to \in (arrived + 1)..Written
  /\ LET bytes == SubSeq(ByteStream, arrived + 1, to)
     IN  IF phase = "handling"
         THEN Len(pending) < MaxNested /\ pending' = Append(pending, bytes) /\ UNCHANGED <<phase, chunk>>
         ELSE phase' = "decoding" /\ chunk' = bytes /\ UNCHANGED pending
  /\ arrived' = to
  /\ UNCHANGED <<transport, wire, storage, tasks, endPending, status, delivered>>

\* finishEnd: the stream may end at a frame boundary only.
FinishEnd == Terminate(IF storage = <<>> THEN "completed" ELSE "failed")

\* The decoder goes on with its chunk (the consumer, if any, has returned): the next frame, the
\* next queued chunk, a pending end, or nothing more to do.
Decode ==
  /\ transport = "tcp" /\ status = "open" /\ phase \in {"decoding", "handling"}
  /\ IF chunk # <<>> THEN
       LET push == Push
       IN  IF push.outcome = "error" THEN Terminate("failed") /\ UNCHANGED delivered
           ELSE /\ storage' = push.storage /\ chunk' = push.chunk
                /\ IF push.outcome = "frame"
                   THEN phase' = "handling" /\ delivered' = Append(delivered, push.frame)
                   ELSE /\ phase' = IF pending = <<>> /\ ~endPending THEN "idle" ELSE "decoding"
                        /\ UNCHANGED delivered
                /\ UNCHANGED <<pending, tasks, endPending, status>>
     ELSE IF pending # <<>> THEN
       /\ chunk' = Head(pending) /\ pending' = Tail(pending) /\ phase' = "decoding"
       /\ UNCHANGED <<storage, tasks, endPending, status, delivered>>
     ELSE IF endPending THEN FinishEnd /\ UNCHANGED delivered
     ELSE phase' = "idle" /\ UNCHANGED <<chunk, storage, pending, tasks, endPending, status, delivered>>
  /\ UNCHANGED <<transport, wire, arrived>>

\* The peer's half-close or crash: whatever it had not flushed never arrives.
OnEnd ==
  /\ transport = "tcp" /\ status = "open" /\ ~endPending
  /\ phase \in {"idle", "handling"}
  /\ IF phase = "handling"
     THEN endPending' = TRUE /\ UNCHANGED <<status, phase, chunk, storage, pending, tasks>>
     ELSE FinishEnd
  /\ UNCHANGED <<transport, wire, arrived, delivered>>

----------------------------------------------------------------------------
(* WebSocket events.                                                       *)

\* A message holds one frame, as bytes or as a Blob whose conversion is asynchronous.  Bytes
\* bypass the promise queue only when it is empty.
OnMessage(asBlob) ==
  /\ transport = "websocket" /\ status = "open"
  /\ arrived < Written
  /\ arrived' = arrived + 1
  /\ LET f == wire[arrived + 1]
     IN  IF ~asBlob /\ tasks = <<>>
         THEN /\ IF phase = "handling"
                 THEN Len(pending) < MaxNested /\ pending' = Append(pending, f) /\ UNCHANGED <<phase, delivered>>
                 ELSE phase' = "handling" /\ delivered' = Append(delivered, f) /\ UNCHANGED pending
              /\ UNCHANGED tasks
         ELSE /\ Len(tasks) < MaxNested
              /\ tasks' = Append(tasks, [frame |-> f, state |-> IF asBlob THEN "converting" ELSE "ready"])
              /\ UNCHANGED <<phase, pending, delivered>>
  /\ UNCHANGED <<transport, wire, chunk, storage, endPending, status>>

BlobSettles(n) ==
  /\ n \in DOMAIN tasks /\ tasks[n].state = "converting"
  /\ \E outcome \in {"ready", "rejected"} : tasks' = [tasks EXCEPT ![n].state = outcome]
  /\ UNCHANGED <<transport, wire, arrived, phase, chunk, storage, pending, endPending, status, delivered>>

\* The consumer returned: the dispatcher takes its next queued message.
MessageHandled ==
  /\ transport = "websocket" /\ status = "open" /\ phase = "handling"
  /\ IF pending # <<>>
     THEN delivered' = Append(delivered, Head(pending)) /\ pending' = Tail(pending) /\ UNCHANGED phase
     ELSE phase' = "idle" /\ UNCHANGED <<pending, delivered>>
  /\ UNCHANGED <<transport, wire, arrived, chunk, storage, tasks, endPending, status>>

\* The first task of the promise queue runs on an empty stack once its bytes are there.
RunTask ==
  /\ transport = "websocket" /\ status = "open" /\ phase = "idle" /\ tasks # <<>>
  /\ \/ /\ Head(tasks).state = "ready"
        /\ phase' = "task" /\ delivered' = Append(delivered, Head(tasks).frame)
        /\ UNCHANGED <<chunk, storage, pending, tasks, endPending, status>>
     \/ Head(tasks).state = "rejected" /\ Terminate("failed") /\ UNCHANGED delivered
  /\ UNCHANGED <<transport, wire, arrived>>

TaskDone ==
  /\ transport = "websocket" /\ status = "open" /\ phase = "task"
  /\ phase' = "idle" /\ tasks' = Tail(tasks)
  /\ UNCHANGED <<transport, wire, arrived, chunk, storage, pending, endPending, status, delivered>>

----------------------------------------------------------------------------
\* The consumer disposes its subscription while it handles a frame (between frames nothing but
\* retained bytes would be dropped).
Cancel ==
  /\ status = "open" /\ phase \in {"handling", "task"}
  /\ Terminate("cancelled")
  /\ UNCHANGED <<transport, wire, arrived, delivered>>

\* Bound: where a TCP chunk may end: inside the prefix of a packet or right after it (odd and
\* even packets differ), or at the end of a packet.
Cuts ==
  {to \in UNION {{Bytes(k - 1) + 2 + (k % 2), Bytes(k)} : k \in 1..Len(wire)} : to > arrived}

Receive ==
  \/ transport = "tcp" /\ arrived < Written /\ \E to \in Cuts : OnData(to)
  \/ Decode
  \/ OnEnd
  \/ \E asBlob \in BOOLEAN : OnMessage(asBlob)
  \/ \E n \in DOMAIN tasks : BlobSettles(n)
  \/ MessageHandled
  \/ RunTask
  \/ TaskDone
  \/ Cancel

----------------------------------------------------------------------------
\* Frames reach the consumer whole, once each and in the order they were written, whatever the
\* chunk boundaries, nested events and slow Blob conversions.  A TCP stream completes only on a
\* frame boundary and fails only inside a frame, with every earlier frame delivered; a decoder at
\* rest retains less than one packet: nothing that has fully arrived is held back.
FramesArriveInOrder ==
  LET n == Len(delivered)
      complete == Bytes(n) = arrived
      insideNext == n < Len(wire) /\ arrived \in (Bytes(n) + 1)..(Bytes(n + 1) - 1)
  IN  /\ IsPrefix(delivered, wire)
      /\ transport = "tcp" =>
           /\ status = "completed" => complete
           /\ status = "failed" => insideNext
           /\ (status = "open" /\ phase = "idle") =>
                IF storage = <<>> THEN complete ELSE insideNext /\ Bytes(n) + Len(storage) = arrived
      /\ (transport = "websocket" /\ status = "open" /\ phase = "idle") => n + Len(tasks) = arrived
=============================================================================

----------------------------- MODULE RetainedLog -----------------------------
(***************************************************************************)
(* What an endpoint relies on when it keeps serialized frames for Resume:  *)
(* a log of contiguous frames that grows at its end, loses acknowledged    *)
(* frames at its beginning, and can hand out, one at a time and in order,  *)
(* a snapshot of what it holds.  ReplayBuffer.tla is shown to implement    *)
(* this specification.                                                     *)
(***************************************************************************)
EXTENDS Naturals, Sequences

CONSTANTS
  Capacity,   \* bytes the log may hold
  Sizes       \* the sizes of the frames offered to it

VARIABLES
  retained,   \* the frames held, each [start, size]
  position,   \* the position at which the next frame will start
  due,        \* the frames the running replay has still to hand out
  held,       \* bytes of the frames held
  open        \* FALSE once the owner has released the log

logVars == <<retained, position, due, held, open>>

Frame(start, size) == [start |-> start, size |-> size]

\* Where the log begins once its first k frames are dropped: the positions
\* that an acknowledgement or a replay request may name.
Boundary(k) == IF k = Len(retained) THEN position ELSE retained[k + 1].start

Init ==
  /\ retained = <<>> /\ due = <<>>
  /\ position = 0 /\ held = 0
  /\ open = TRUE

\* A frame is appended where the last one ended; a full log takes nothing.
Store(size) ==
  /\ open
  /\ held + size <= Capacity
  /\ retained' = Append(retained, Frame(position, size))
  /\ position' = position + size
  /\ held' = held + size
  /\ UNCHANGED <<due, open>>

\* The frames before a boundary are dropped.
DropFirst(k) ==
  /\ open
  /\ retained' = SubSeq(retained, k + 1, Len(retained))
  /\ held' = position - Boundary(k)
  /\ UNCHANGED <<position, open>>

Acknowledge(k) == due = <<>> /\ DropFirst(k) /\ UNCHANGED due

StartReplay(k) == due = <<>> /\ DropFirst(k) /\ due' = retained'

\* One frame of the snapshot is written; frames appended meanwhile are not.
HandOut == due # <<>> /\ due' = Tail(due) /\ UNCHANGED <<retained, position, held, open>>

\* The transport failed: the rest of the snapshot stays retained.
AbandonReplay == due # <<>> /\ due' = <<>> /\ UNCHANGED <<retained, position, held, open>>

Release ==
  /\ open /\ open' = FALSE
  /\ retained' = <<>> /\ due' = <<>> /\ held' = 0
  /\ UNCHANGED position

Next ==
  \/ \E size \in Sizes : Store(size)
  \/ \E k \in 0..Len(retained) : Acknowledge(k) \/ StartReplay(k)
  \/ HandOut \/ AbandonReplay \/ Release

Spec == Init /\ [][Next]_logVars
=============================================================================

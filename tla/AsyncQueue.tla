----------------------------- MODULE AsyncQueue -----------------------------
(***************************************************************************)
(* AsyncQueue of rsocket-core-ts: callbacks push values, a consumer reads  *)
(* them with next(), and either may come first.  Values nobody has asked   *)
(* for and reads nothing has arrived for wait in two arrays whose consumed *)
(* prefix is given back in one go (compactArray).                          *)
(*                                                                         *)
(* A read is the number of its next() call.  results holds what every read *)
(* was settled with; pushed is the history of the values taken in and not  *)
(* dropped by return().  A failure is one failure: which error it carries  *)
(* makes no difference here.                                               *)
(***************************************************************************)
EXTENDS Integers, Sequences

CONSTANTS
  Values,
  Undefined,        \* an emptied slot of an array
  CompactAfter      \* the consumed prefix, in slots, from which an array may be compacted (256)

VARIABLES
  values, waiters,  \* the two arrays, each with its read index
  closed, failed,
  results, pushed

queueVars == <<values, waiters, closed, failed, results, pushed>>

----------------------------------------------------------------------------
(* An array that is appended to at its end and consumed from its front.    *)

EmptyArray == [slots |-> <<>>, consumed |-> 0]

Size(array) == Len(array.slots) - array.consumed
Item(array, i) == array.slots[array.consumed + i]

Compacted(array) ==
  IF array.consumed = Len(array.slots) THEN EmptyArray
  ELSE IF array.consumed < CompactAfter \/ array.consumed * 2 < Len(array.slots) THEN array
  ELSE [slots |-> SubSeq(array.slots, array.consumed + 1, Len(array.slots)), consumed |-> 0]

Added(array, item) == [array EXCEPT !.slots = Append(@, item)]

Removed(array) ==
  Compacted([slots |-> [array.slots EXCEPT ![array.consumed + 1] = Undefined],
             consumed |-> array.consumed + 1])

----------------------------------------------------------------------------
Pending == [is |-> "pending"]
Done == [is |-> "done"]
Rejected == [is |-> "rejected"]
Value(v) == [is |-> "value", value |-> v]

QueueInit ==
  /\ values = EmptyArray /\ waiters = EmptyArray
  /\ closed = FALSE /\ failed = FALSE
  /\ results = <<>> /\ pushed = <<>>

\* A value goes to the oldest waiting read, or waits itself.
Push(value) ==
  IF closed \/ failed THEN UNCHANGED queueVars
  ELSE /\ pushed' = Append(pushed, value)
       /\ IF Size(waiters) > 0
          THEN /\ results' = [results EXCEPT ![Item(waiters, 1)] = Value(value)]
               /\ waiters' = Removed(waiters)
               /\ UNCHANGED values
          ELSE values' = Added(values, value) /\ UNCHANGED <<waiters, results>>
       /\ UNCHANGED <<closed, failed>>

Waits(read) == \E i \in 1 .. Size(waiters) : Item(waiters, i) = read

FlushTerminal(result) ==
  /\ results' = [read \in DOMAIN results |-> IF Waits(read) THEN result ELSE results[read]]
  /\ waiters' = EmptyArray

Complete ==
  IF closed \/ failed THEN UNCHANGED queueVars
  ELSE closed' = TRUE /\ FlushTerminal(Done) /\ UNCHANGED <<values, failed, pushed>>

Error ==
  IF closed \/ failed THEN UNCHANGED queueVars
  ELSE failed' = TRUE /\ FlushTerminal(Rejected) /\ UNCHANGED <<values, closed, pushed>>

\* next(): what is there first, then how the queue ended, and else the read waits.
Read ==
  /\ IF Size(values) > 0
     THEN /\ results' = Append(results, Value(Item(values, 1)))
          /\ values' = Removed(values)
          /\ UNCHANGED waiters
     ELSE /\ results' = Append(results, IF failed THEN Rejected ELSE IF closed THEN Done ELSE Pending)
          /\ waiters' = IF closed \/ failed THEN waiters ELSE Added(waiters, Len(results) + 1)
          /\ UNCHANGED values
  /\ UNCHANGED <<closed, failed, pushed>>

\* return(): the consumer is done; what is queued is dropped, a failure forgotten.
Return ==
  /\ closed' = TRUE /\ failed' = FALSE
  /\ values' = EmptyArray
  /\ pushed' = SubSeq(pushed, 1, Len(pushed) - Size(values))
  /\ FlushTerminal(Done)

QueueNext ==
  \/ \E value \in Values : Push(value)
  \/ Complete
  \/ Error
  \/ Read
  \/ Return

QueueSpec == QueueInit /\ [][QueueNext]_queueVars

----------------------------------------------------------------------------
\* Every value is read once, in the order of the pushes: if read i got a value it got the i-th.
ReadsFollowPushes ==
  \A read \in DOMAIN results :
    results[read].is = "value" => read <= Len(pushed) /\ results[read] = Value(pushed[read])

\* The end is the last thing the consumer hears, and no read is overtaken by a later one.
EndIsLast ==
  \A earlier, later \in DOMAIN results :
    earlier < later =>
      /\ results[later].is = "value" => results[earlier].is = "value"
      /\ results[earlier] = Pending => results[later] = Pending

\* No wakeup is lost: a read only waits while there is neither a value nor an end for it.
OnlyEmptyQueuesWait ==
  (\E read \in DOMAIN results : results[read] = Pending) => Size(values) = 0 /\ ~closed /\ ~failed

\* No value is lost: what was pushed and not dropped by return() was read or is still there.
NothingIsLost ==
  \A i \in 1 .. Len(pushed) :
    \/ i \in DOMAIN results /\ results[i] = Value(pushed[i])
    \/ \E j \in 1 .. Size(values) : Item(values, j) = pushed[i]

\* The arrays keep no consumed value and at most as many emptied slots as live ones, give or take
\* the threshold.
ArraysAreCompact ==
  \A array \in {values, waiters} :
    /\ \A i \in 1 .. array.consumed : array.slots[i] = Undefined
    /\ array.consumed < CompactAfter \/ array.consumed < Size(array)
=============================================================================

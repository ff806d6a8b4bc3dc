---------------------------- MODULE PositionSearch ----------------------------
(***************************************************************************)
(* The binary search of RSocketReplayBuffer.positionIndex, turn by turn:   *)
(* which retained frame ends at a given offset.  ReplayBuffer.tla names    *)
(* the result of this loop; here the loop is shown to compute it.          *)
(*                                                                         *)
(* entries is the array of end offsets, head the number of released ones.  *)
(* low and high are the code's zero-based indexes, so entries[low] of the  *)
(* code is entries[low + 1] here.                                          *)
(***************************************************************************)
EXTENDS Integers, Sequences

CONSTANTS
  MaxEntries,   \* bound of the model: entries in the array
  MaxOffset     \* bound of the model: the largest offset

ASSUME SearchAssumption == MaxEntries \in Nat /\ MaxOffset \in Nat

VARIABLES entries, head, offset, low, high, result

input == <<entries, head, offset>>
search == <<input, low, high, result>>

Unsettled == -1   \* the loop has not ended
Inside == -2    \* "RSocket peer reported a position inside a frame"

\* The array holds running totals of frame lengths.
Increasing(s) == \A i, j \in 1..Len(s) : i < j => s[i] < s[j]

\* positionIndex reaches its loop with an offset before the last end offset
\* and after the head.
SearchInit ==
  /\ entries \in UNION {[1..n -> 1..MaxOffset] : n \in 1..MaxEntries}
  /\ Increasing(entries)
  /\ head \in 0..(Len(entries) - 1)
  /\ offset \in 1..(entries[Len(entries)] - 1)
  /\ head > 0 => offset > entries[head]
  /\ low = head /\ high = Len(entries)
  /\ result = Unsettled

\* Fault: the upper half keeps its middle out of the interval.
NarrowSkippingMiddle ==
  LET middle == low + (high - low) \div 2
  IN /\ low < high
     /\ IF entries[middle + 1] < offset
        THEN low' = middle + 1 /\ UNCHANGED high
        ELSE high' = (IF middle > low THEN middle - 1 ELSE middle) /\ UNCHANGED low
     /\ UNCHANGED <<input, result>>

\* Fault: the lower bound stays on the middle it has excluded.
NarrowStuck ==
  LET middle == low + (high - low) \div 2
  IN /\ low < high
     /\ IF entries[middle + 1] < offset
        THEN low' = middle /\ UNCHANGED high
        ELSE high' = middle /\ UNCHANGED low
     /\ UNCHANGED <<input, result>>

\* One turn of the loop.
Narrow ==
  LET middle == low + (high - low) \div 2
  IN /\ low < high
     /\ IF entries[middle + 1] < offset
        THEN low' = middle + 1 /\ UNCHANGED high
        ELSE high' = middle /\ UNCHANGED low
     /\ UNCHANGED <<input, result>>

\* The loop has ended: an entry that ends at the offset is a boundary.
Decide ==
  /\ ~(low < high) /\ result = Unsettled
  /\ result' = IF low + 1 \in DOMAIN entries /\ entries[low + 1] = offset
               THEN low + 1 ELSE Inside
  /\ UNCHANGED <<input, low, high>>

SearchNext == Narrow \/ Decide

SearchSpec == SearchInit /\ [][SearchNext]_search
FairSearch == SearchSpec /\ WF_search(SearchNext)

-------------------------------------------------------------------------------
TypeOK ==
  /\ entries \in Seq(Nat)
  /\ head \in 0..Len(entries)
  /\ offset \in Nat
  /\ low \in head..Len(entries)
  /\ high \in low..Len(entries)
  /\ result \in {Unsettled, Inside} \cup 1..Len(entries)

\* What lies below low ends before the offset, what lies from high on does not:
\* the frame looked for never leaves the interval.
OffsetIsBracketed ==
  /\ \A i \in (head + 1)..low : entries[i] < offset
  /\ \A i \in (high + 1)..Len(entries) : offset <= entries[i]

\* The answer is the retained frame that ends at the offset, and "inside a
\* frame" is answered only when there is none: the search misses no boundary.
SearchIsExact ==
  result # Unsettled =>
    \A i \in (head + 1)..Len(entries) : entries[i] = offset <=> result = i

\* Every turn makes the interval smaller, so the loop ends.
IntervalShrinks == [][Narrow => high' - low' \in 0..(high - low - 1)]_search

\* The search of every offset in every array comes to an end.
SearchEnds == <>(result # Unsettled)
=============================================================================

--------------------------- MODULE ReliableDelivery ---------------------------
(***************************************************************************)
(* What protocol Resume promises, seen from outside: in each direction the *)
(* frames one side has assigned a position to reach the handlers of the    *)
(* other side exactly once and in order, however often the transport was   *)
(* replaced.  Nothing is promised about when, and a session may be over    *)
(* before everything has arrived.                                          *)
(***************************************************************************)
EXTENDS Naturals, Sequences

VARIABLES
  requested,   \* frames sent by the requester, oldest first
  handled,     \* frames the responder has dispatched
  answered,    \* frames sent by the responder
  received     \* frames the requester has dispatched

Prefix(s, n) == SubSeq(s, 1, n)

Init ==
  /\ requested = <<>> /\ handled = <<>>
  /\ answered = <<>> /\ received = <<>>

\* s2 is s1 with any number of further frames.
Extends(s1, s2) == Len(s1) <= Len(s2) /\ Prefix(s2, Len(s1)) = s1

\* The receiving side moves on to a longer prefix of what was sent.
Delivers(sent, got, got2) ==
  \E n \in Len(got)..Len(sent) : got2 = Prefix(sent, n)

Next ==
  /\ Extends(requested, requested') /\ Extends(answered, answered')
  /\ Delivers(requested', handled, handled')
  /\ Delivers(answered', received, received')

Spec == Init /\ [][Next]_<<requested, handled, answered, received>>
=============================================================================

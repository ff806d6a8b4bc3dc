------------------------------- MODULE LossyFifo -------------------------------
(***************************************************************************)
(* What a WebTransport session promises to the protocol above it, in one   *)
(* direction: every frame written comes out exactly once and in the order  *)
(* of the writes, whatever stream or datagram carried it, except that a    *)
(* frame which may be lost comes out as the notice of its loss, in its     *)
(* place.  Nothing is promised about when.                                 *)
(***************************************************************************)
EXTENDS Naturals, Sequences

CONSTANT Notice(_)   \* what stands for a frame that was lost; itself if none may

VARIABLES
  sent,   \* frames written, oldest first
  got     \* frames and notices handed to the other side

Init == sent = <<>> /\ got = <<>>

Write ==
  /\ Len(sent') = Len(sent) + 1
  /\ SubSeq(sent', 1, Len(sent)) = sent
  /\ UNCHANGED got

Deliver ==
  /\ Len(got) < Len(sent)
  /\ LET f == sent[Len(got) + 1]
     IN got' \in {Append(got, f), Append(got, Notice(f))}
  /\ UNCHANGED sent

Next == Write \/ Deliver

Spec == Init /\ [][Next]_<<sent, got>>
=============================================================================

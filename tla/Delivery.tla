------------------------------- MODULE Delivery -------------------------------
(***************************************************************************)
(* What framing on a byte stream promises: whatever is sent, packets and   *)
(* what is no packet, arrives one by one, in order, each as it was sent.   *)
(***************************************************************************)
EXTENDS Sequences, Naturals

VARIABLES sent,   \* what has been put on the stream
          got     \* what the receiver has made of it

Init == sent = <<>> /\ got = <<>>

Send == /\ \E n \in 0 .. Len(sent') : SubSeq(sent', 1, n) = sent
        /\ UNCHANGED got

Receive == /\ Len(got) < Len(sent)
           /\ got' = Append(got, sent[Len(got) + 1])
           /\ UNCHANGED sent

Spec == Init /\ [][Send \/ Receive]_<<sent, got>>
===============================================================================

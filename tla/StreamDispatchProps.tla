-------------------------- MODULE StreamDispatchProps --------------------------
(* What must hold of the packets a stream accepts, its counts and its policy. *)
EXTENDS StreamDispatch

TypeOK ==
  /\ sets \in 0 .. MaxSets /\ clock \in 0 .. MaxTime /\ events \in 0 .. MaxEvents
  /\ pc \in {"idle", "compareAddr", "ssrc", "compareSSRC", "count", "remove",
            "panicked"}
  /\ addr \in Addrs \cup {NoAddr} /\ ssrc \in SSRCs \cup {NoSSRC}
  /\ isInit \in BOOLEAN /\ seq \in 0 .. W - 1 /\ closed \in BOOLEAN
  /\ losses \in Nat
  /\ chooser.row \in Nat /\ Len(chooser.times) <= SecMaxErr

\* Until a user sets them, a stream hears one address and one SSRC only, that
\* of the first packet where they were left open.
OneSource ==
  ~touched => \A i, j \in DOMAIN accepted :
                 accepted[i].addr = accepted[j].addr /\ accepted[i].ssrc = accepted[j].ssrc

\* Whatever users set meanwhile, an address or SSRC left open again included, a
\* packet reaches the handler only when its address and its SSRC have been those
\* of the stream during the call (stream.go:211-226).  When the address is opened
\* between the two looks at it, HandlePacket panics and nothing more is accepted.
InForce == [][accepted' # accepted /\ accepted' # <<>> =>
                packet.addr \in addrsInForce /\ packet.ssrc \in ssrcsInForce]_vars

\* The losses reported add up: modulo 2^16 they are the numbers that were
\* skipped from the first packet accepted to the last, whatever was lost,
\* repeated or overtaken on the way.
Skipped == SeqOf(accepted[Len(accepted)]) - SeqOf(accepted[1]) - (Len(accepted) - 1)
LossesAddUp == accepted # <<>> => (losses - Skipped) % W = 0

\* They are exactly the packets lost when packets only get lost, fewer than
\* 2^16 at a time.
InOrder == \A i \in 1 .. Len(accepted) - 1 :
             /\ accepted[i].addr = Me /\ accepted[i + 1].addr = Me
             /\ accepted[i].ssrc = MySSRC /\ accepted[i + 1].ssrc = MySSRC
             /\ accepted[i + 1].n - accepted[i].n \in 1 .. W
LossesExact ==
  accepted # <<>> /\ InOrder =>
    losses = accepted[Len(accepted)].n - accepted[1].n - (Len(accepted) - 1)

\* What the user can rely on: the sum always, the number in the common case.
LossesTrue == LossesAddUp /\ LossesExact

\* The chooser keeps a stream exactly while no more than MaxSerializedErr
\* errors come in a row, and no more than SecMaxErr of those it kept within a
\* second, counted from the calls themselves; nothing of an earlier stream counts.
Row(i) == {j \in 1 .. i : \A k \in j .. i : calls[k].what = "error"}
KeptBefore(i) == {j \in 1 .. i - 1 : /\ calls[j].what = "error" /\ calls[j].keep
                                     /\ calls[i].at - calls[j].at <= Second}
ChooserExact ==
  \A i \in DOMAIN calls : calls[i].what = "error" =>
    (calls[i].keep <=> /\ Cardinality(Row(i)) <= MaxSerializedErr
                       /\ Cardinality(KeptBefore(i)) < SecMaxErr)
===============================================================================

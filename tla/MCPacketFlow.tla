----------------------------- MODULE MCPacketFlow -----------------------------
(* Objects of a pool are alike, and so are streams that have a handler. *)
EXTENDS PacketFlowProps, TLC

Alike == Permutations(Data) \cup Permutations(Packets) \cup Permutations(Frames)
           \cup {p \in Permutations(Streams) : \A s \in Handlerless : p[s] \in Handlerless}
===============================================================================

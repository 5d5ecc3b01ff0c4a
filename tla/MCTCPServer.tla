------------------------------ MODULE MCTCPServer ------------------------------
(* Instances of TCPServer for TLC. *)
EXTENDS TCPServerProps, TLC

CONSTANTS s1, s2, s3, a1, a2

\* Every stream and every connection belongs to one remote address.
OneAddr == [x \in Streams \cup Channels |-> a1]

\* s3 and the second connection live at an address of their own.
TwoAddrs == [x \in Streams \cup Channels |-> IF x \in {s3} \cup (Channels \cap {2}) THEN a2 ELSE a1]
================================================================================

-------------------------------- MODULE MCWire --------------------------------
(* Layers near every limit of the setters, and bytes that are no packet. *)
EXTENDS WireProps

W(b) == <<b, 0, b, 1>>
SomeStamps == {[marker |-> TRUE, seq |-> 65535, timestamp |-> W(1), ssrc |-> W(2)]}
SomeConfigs ==
  {[Fresh EXCEPT !.extContents = <<W(5)>>, !.paddingLength = 3],
   [Fresh EXCEPT !.payload = <<<<9>>>>]}
SomeTypes == {96}
SomeWords == {<<W(3)>>, [i \in 1 .. 16 |-> W(4)]}
SomePaddings == {0, 18}
SomeContents == {<<7, 8>>}
SomeTimes == {12}

Start(first) == <<first, 0>> \o Zeros(10)
SomeJunk == {<<>>, Start(64), Start(144) \o <<0, 0, 0, 1>>}
===============================================================================

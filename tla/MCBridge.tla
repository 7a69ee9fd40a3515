------------------------------ MODULE MCBridge ------------------------------
(* Scripts of a client: data, an escaped IAC, an option, and subnegotiations,*)
(* one with an escape inside and longer than sb_buf, one whose code is IAC   *)
(* (155 + 100) and one whose code is SE (140 + 100).                         *)
EXTENDS SerialBridge

MCByte == Named \cup {"x", "code", "dtr on", "140", "155"}
MCCode == [cmd \in MCByte |-> CASE cmd = "155" -> "IAC" [] cmd = "140" -> "SE" [] OTHER -> "code"]

MCScripts ==
  {<<<<"data", "IAC">>, <<"data", "SE">>>>,
   <<<<"WILL", "44">>, <<"SB", <<"44", "set", "fast">>>>>>,
   <<<<"SB", <<"44", "ctl", "dtr on">>>>>>,
   <<<<"SB", <<"44", "140", "x", "IAC", "x">>>>, <<"data", "x">>>>,
   <<<<"SB", <<"44", "155">>>>>>}
=============================================================================

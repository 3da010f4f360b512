--------------------------- MODULE MCPingerSetup ----------------------------
(***************************************************************************)
(* An instance of PingerSetup for TLC: a name with addresses of both       *)
(* families, the IPv6 one first, and one with an IPv6 address only; every  *)
(* option with a value for each of its cases.                              *)
(***************************************************************************)
EXTENDS PingerSetup, TLC

MCDNS == ("dual" :> <<"six", "four", "four2">>) @@ ("only6" :> <<"six">>)
         @@ ("six" :> <<"six">>) @@ ("four" :> <<"four">>) @@ ("four2" :> <<"four2">>)
MCV4 == {"four", "four2"}

MCValues ==
  [protocol |-> {"udp", "icmp"}, id |-> {1, 0, 15, 16, 65, -1}, mark |-> {0, 1},
   df |-> BOOLEAN, tclass |-> {0, 1}, logger |-> {"std", "nil"},
   Size |-> {PayloadHeader, PayloadHeader - 1, PayloadHeader + 1, 5000, 6000},
   TTL |-> {64, 1}, InterfaceName |-> {Empty, "eth0", "gone"},
   Source |-> {Empty, "ip4", "ip6", "name", "bad"}, Interval |-> {2, 1, 0},
   Timeout |-> {1000, 0}, ResolveTimeout |-> {0, 1}]

MCClock == {-8, -1, 0, 5, 7}
=============================================================================

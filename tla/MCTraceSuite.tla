---------------------------- MODULE MCTraceSuite ----------------------------
(***************************************************************************)
(* An instance of TraceSuite for TLC: a host with two addresses, dialled   *)
(* at the same time, and the read loop of the connection that is used.     *)
(***************************************************************************)
EXTENDS TraceSuite

MCHooks ==
  [t \in Tracers |->
     CASE t = "dial6" -> <<"dnsEnd", "connStart", "connEnd">>
       [] t = "dial4" -> <<"connStart", "connEnd">>
       [] OTHER       -> <<"firstByteReceived">>]
=============================================================================

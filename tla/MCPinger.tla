------------------------------ MODULE MCPinger ------------------------------
(***************************************************************************)
(* Instances of Pinger for TLC.  Noise holds one packet for each reason    *)
(* for which processPacket turns a packet away.                            *)
(***************************************************************************)
EXTENDS Pinger

ForeignReply == [type |-> "echoReply", id |-> "foreign", long |-> TRUE,
                 uuid |-> ForeignUUID, seq |-> 0, n |-> 0]

MCNoNoise == {}
MCNoise == {NoPacket,                                 \* does not parse
            [NoPacket EXCEPT !.type = "other"],       \* not an echo reply
            ForeignReply,                             \* another program's
            [ForeignReply EXCEPT !.id = "own"],       \* its UUID is not ours
            [ForeignReply EXCEPT !.id = "own", !.long = FALSE]}
=============================================================================

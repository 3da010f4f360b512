----------------------------- MODULE EchoLedger -----------------------------
(***************************************************************************)
(* What the statistics of a Pinger promise, without sockets, goroutines,   *)
(* sequence numbers or UUIDs: every request is entered once when it has    *)
(* been sent, is answered at most once, and a further reply to a request   *)
(* that was answered is a duplicate.  Nothing else ever changes a counter  *)
(* and no counter is ever reset.  Pinger implements this specification.    *)
(***************************************************************************)
EXTENDS Naturals

VARIABLES
  awaited,   \* requests entered and not answered
  answered,  \* requests answered
  sent, recv, dups  \* Statistics.PacketsSent, PacketsRecv, PacketsRecvDuplicates

vars == <<awaited, answered, sent, recv, dups>>

Init == awaited = {} /\ answered = {} /\ sent = 0 /\ recv = 0 /\ dups = 0

Send ==
  /\ sent' = sent + 1
  /\ awaited' = awaited \cup {sent'}
  /\ UNCHANGED <<answered, recv, dups>>

Answer(n) ==
  /\ n \in awaited
  /\ awaited' = awaited \ {n} /\ answered' = answered \cup {n}
  /\ recv' = recv + 1
  /\ UNCHANGED <<sent, dups>>

Duplicate ==
  /\ answered # {}
  /\ dups' = dups + 1
  /\ UNCHANGED <<awaited, answered, sent, recv>>

Next == Send \/ (\E n \in awaited : Answer(n)) \/ Duplicate

Spec == Init /\ [][Next]_vars
=============================================================================

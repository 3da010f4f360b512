------------------------------- MODULE Pinger -------------------------------
(***************************************************************************)
(* The ICMP pinger of ping.go: Run, the three goroutines it starts, Stop,  *)
(* the socket and the network behind it.                                   *)
(*                                                                         *)
(* Run sets up a socket, starts three goroutines in an errgroup and waits  *)
(* for all of them:                                                        *)
(*   "watcher"   waits for the context or for Stop (closure in run);       *)
(*   "receiver"  recvICMP: reads the socket, hands packets to the loop     *)
(*               through a buffered channel;                               *)
(*   "loop"      runLoop: the only goroutine that sends requests and       *)
(*               processes packets, driven by two tickers, the channel     *)
(*               and the channel  done  that Stop closes.                  *)
(* "main" is the goroutine that called Run; Users are goroutines of the    *)
(* application that call Stop (the signal handler of cmd/ping is one).     *)
(*                                                                         *)
(* A callback of the application (OnSend, OnRecv, ...) is a control point: *)
(* the goroutine stays there until the callback returns and may call Stop  *)
(* from inside it.  One step of a goroutine is the code between two points *)
(* where another goroutine can see or change what it uses.                 *)
(***************************************************************************)
EXTENDS Integers, Sequences, FiniteSets

CONSTANTS
  Count,       \* Pinger.Count; not positive: no limit
  Privileged,  \* TRUE: protocol "icmp" (raw socket), FALSE: "udp"
  Dst,         \* how the kernel treats writes to the address, see WriteDenied
  Users,       \* goroutines of the application that call Stop once
  Interrupts,  \* what else can end a run: "callback", "cancel", "timeout"
  Noise,       \* packets the socket delivers that answer no request of ours
  MaxSeq,      \* last ICMP sequence number (65535 in the code)
  RecvCap,     \* capacity of the channel recv (5 in the code)
  MaxRuns,     \* bound: calls of Run on one Pinger
  MaxSent,     \* bound: no interval tick once this many requests were sent
  MaxCopies    \* bound: replies the network delivers for one request

Goroutines == {"watcher", "receiver", "loop"}
Actors == Goroutines \cup {"main"} \cup Users

\* A packet as processPacket sees it.  n is the request it answers: the
\* position of that request in wire (the send time in the payload tells
\* requests apart in the code); 0 in a packet that answers none of ours.
ForeignUUID == -1
Packet == [type: {"garbage", "other", "echoReply"},
           id: {"own", "kernel", "foreign"}, long: BOOLEAN,
           uuid: Nat \cup {ForeignUUID}, seq: Nat, n: Nat]

\* The constants are values the program can be run with.
ASSUME PingerAssumption ==
  /\ Count \in Int
  /\ Privileged \in BOOLEAN
  /\ Dst \in {"unicast", "broadcast", "prohibited"}
  /\ Users \cap (Goroutines \cup {"main", "none"}) = {}
  /\ Interrupts \subseteq {"callback", "cancel", "timeout"}
  /\ Noise \subseteq {p \in Packet : p.uuid = ForeignUUID /\ p.n = 0}
  /\ MaxSeq \in Nat /\ RecvCap \in Nat \ {0}
  /\ MaxRuns \in Nat /\ MaxSent \in Nat /\ MaxCopies \in Nat

VARIABLES
  pc,          \* where each goroutine is
  resume,      \* where an actor continues when its call of Stop returns
  sawOpen,     \* Stop's local variable open
  lock,        \* holder of Pinger.lock, or "none"
  done,        \* Pinger.done is closed
  err,         \* the error each goroutine returns to the errgroup
  groupErr,    \* the first error the errgroup has seen
  ctxDone,     \* the context given to RunWithContext is cancelled
  runErr,      \* what Run returned
  conn,        \* the socket is open
  recvCh,      \* contents of the channel recv
  recvOpen,    \* recv has not been closed
  held,        \* the packet recvICMP has read and not yet sent on recv
  intervalOn, intervalC,  \* ticker running, tick pending
  timeoutC,    \* tick of the timeout ticker pending
  site,        \* runLoop's latest call of sendICMP: "start" or "tick"
  broadcast,   \* SO_BROADCAST is set on the socket
  epoch,       \* index of the newest tracker UUID
  sequence,
  awaiting,    \* awaitingSequences, as pairs <<UUID, sequence>>
  PacketsSent, PacketsRecv, PacketsRecvDuplicates,
  wire,        \* every request written to the socket, in order
  copies,      \* copies[n]: replies delivered so far to request n
  credited,    \* history: requests counted in PacketsRecv
  finalStats,  \* what OnFinish was given
  runs,        \* calls of Run
  interrupted  \* history: Stop, cancellation or timeout has happened

stopVars  == <<resume, sawOpen, lock, done>>
groupVars == <<err, groupErr, ctxDone, runErr>>
ioVars    == <<conn, recvCh, recvOpen, held>>
loopVars  == <<intervalOn, intervalC, timeoutC, site, broadcast>>
trackVars == <<epoch, sequence, awaiting>>
statVars  == <<PacketsSent, PacketsRecv, PacketsRecvDuplicates>>
netVars   == <<wire, copies>>
histVars  == <<credited, finalStats, runs, interrupted>>
dataVars  == <<ioVars, loopVars, trackVars, statVars, netVars>>
vars == <<pc, stopVars, groupVars, dataVars, histVars>>

NoPacket == [type |-> "garbage", id |-> "foreign", long |-> FALSE,
             uuid |-> ForeignUUID, seq |-> 0, n |-> 0]

Stats == [sent |-> PacketsSent, recv |-> PacketsRecv,
          dups |-> PacketsRecvDuplicates]

\* A Pinger made by New, before Run.
Init ==
  /\ pc = [a \in Actors |-> IF a = "main" THEN "idle"
                            ELSE IF a \in Users THEN "ready" ELSE "exited"]
  /\ resume = [a \in Actors |-> "exited"]
  /\ sawOpen = [a \in Actors |-> FALSE]
  /\ lock = "none" /\ done = FALSE
  /\ err = [g \in Goroutines |-> "nil"]
  /\ groupErr = "nil" /\ ctxDone = FALSE /\ runErr = "nil"
  /\ conn = FALSE /\ recvCh = <<>> /\ recvOpen = FALSE /\ held = NoPacket
  /\ intervalOn = FALSE /\ intervalC = FALSE /\ timeoutC = FALSE
  /\ site = "start" /\ broadcast = FALSE
  /\ epoch = 0 /\ sequence = 0 /\ awaiting = {}
  /\ PacketsSent = 0 /\ PacketsRecv = 0 /\ PacketsRecvDuplicates = 0
  /\ wire = <<>> /\ copies = <<>>
  /\ credited = {} /\ runs = 0 /\ interrupted = FALSE
  /\ finalStats = [sent |-> 0, recv |-> 0, dups |-> 0]

\* Where goroutine a is in its own code when it may be inside a call of Stop.
StopLabels == {"stopLock", "stopCheck", "stopClose"}
At(a) == IF pc[a] \in StopLabels THEN resume[a] ELSE pc[a]

Goto(a, label) == pc' = [pc EXCEPT ![a] = label]

-----------------------------------------------------------------------------
(***************************************************************************)
(* Stop.  Under the mutex: look whether done is already closed, close it   *)
(* if not.  Every goroutine calls it, so the call is three steps of its    *)
(* caller, which then continues at resume.                                 *)
(***************************************************************************)
CallStop(a, back) ==
  /\ Goto(a, "stopLock")
  /\ resume' = [resume EXCEPT ![a] = back]

CanLock_NoMutex == TRUE
CanLock == lock = "none"

StopLock(a) ==
  /\ pc[a] = "stopLock"
  /\ CanLock
  /\ lock' = a
  /\ Goto(a, "stopCheck")
  /\ UNCHANGED <<resume, sawOpen, done, groupVars, dataVars, histVars>>

StopCheck(a) ==
  /\ pc[a] = "stopCheck"
  /\ sawOpen' = [sawOpen EXCEPT ![a] = ~done]
  /\ Goto(a, "stopClose")
  /\ UNCHANGED <<resume, lock, done, groupVars, dataVars, histVars>>

StopClose(a) ==
  /\ pc[a] = "stopClose"
  /\ done' = (done \/ sawOpen[a])
  /\ lock' = "none"
  /\ Goto(a, resume[a])
  /\ UNCHANGED <<resume, sawOpen, groupVars, dataVars, histVars>>

\* Goroutine g returns e; its deferred call of Stop comes first.
Leave(g, e) ==
  /\ CallStop(g, "return")
  /\ err' = [err EXCEPT ![g] = e]

CallbackLabels == {"onSetup", "onFinish", "onSend", "onSendRetry", "onSendError",
                   "onRecv", "onDuplicateRecv", "onReadTimeout", "onReadError"}

\* The application calls Stop from inside a callback.  (Bound: a goroutine
\* does not call it again from the same callback before it has called it
\* from somewhere else.)
CallbackStop(a) ==
  /\ "callback" \in Interrupts
  /\ pc[a] \in CallbackLabels \ {resume[a]}
  /\ CallStop(a, pc[a])
  /\ interrupted' = TRUE
  /\ UNCHANGED <<sawOpen, lock, done, groupVars, dataVars, credited, finalStats,
                 runs>>

\* The application calls Stop from a goroutine of its own, at any time.
UserStop(u) ==
  /\ pc[u] = "ready"
  /\ CallStop(u, "exited")
  /\ interrupted' = TRUE
  /\ UNCHANGED <<sawOpen, lock, done, groupVars, dataVars, credited, finalStats,
                 runs>>

-----------------------------------------------------------------------------
(***************************************************************************)
(* RunWithContext and run: set-up, start, wait, the deferred calls.        *)
(***************************************************************************)
Run_ResetsDuplicates ==
  /\ pc["main"] \in {"idle", "returned"}
  /\ runs < MaxRuns
  /\ Goto("main", "setup")
  /\ err' = [g \in Goroutines |-> "nil"]
  /\ groupErr' = "nil" /\ runErr' = "nil"
  /\ ctxDone' = FALSE
  /\ runs' = runs + 1
  /\ PacketsRecvDuplicates' = 0
  /\ UNCHANGED <<stopVars, ioVars, loopVars, trackVars, PacketsSent, PacketsRecv,
                 netVars, credited, finalStats, interrupted>>

Run ==
  /\ pc["main"] \in {"idle", "returned"}
  /\ runs < MaxRuns
  /\ Goto("main", "setup")
  /\ err' = [g \in Goroutines |-> "nil"]
  /\ groupErr' = "nil" /\ runErr' = "nil"
  /\ ctxDone' = FALSE
  /\ runs' = runs + 1
  /\ UNCHANGED <<stopVars, dataVars, credited, finalStats, interrupted>>

\* Size check, Resolve, a socket option, the interface, the source address
\* or SetFlagTTL fails: neither Stop nor OnFinish is called.
SetupFails ==
  /\ pc["main"] = "setup"
  /\ Goto("main", "returned")
  /\ runErr' = "setup"
  /\ UNCHANGED <<stopVars, err, groupErr, ctxDone, dataVars, histVars>>

\* icmp.ListenPacket fails: listen calls Stop before it returns the error.
ListenFails ==
  /\ pc["main"] = "setup"
  /\ CallStop("main", "returned")
  /\ runErr' = "listen"
  /\ UNCHANGED <<sawOpen, lock, done, err, groupErr, ctxDone, dataVars, histVars>>

SetupOK ==
  /\ pc["main"] = "setup"
  /\ Goto("main", "onSetup")
  /\ conn' = TRUE /\ broadcast' = FALSE
  /\ recvCh' = <<>> /\ recvOpen' = TRUE
  /\ UNCHANGED <<stopVars, groupVars, held, intervalOn, intervalC, timeoutC, site,
                 trackVars, statVars, netVars, histVars>>

Start ==
  /\ pc["main"] = "onSetup"
  /\ pc' = [pc EXCEPT !["main"] = "wait", !["watcher"] = "watch",
                      !["receiver"] = "top", !["loop"] = "write"]
  /\ site' = "start"
  /\ intervalOn' = TRUE /\ intervalC' = FALSE /\ timeoutC' = FALSE
  /\ UNCHANGED <<stopVars, groupVars, ioVars, broadcast, trackVars, statVars,
                 netVars, histVars>>

WaitReturns_LoopOnly == pc["loop"] = "exited"
WaitReturns_AnyOne == \E g \in Goroutines : pc[g] = "exited"
WaitReturns == \A g \in Goroutines : pc[g] = "exited"

\* g.Wait() returns; then, in this order, close(recv) and finish().
Finish ==
  /\ pc["main"] = "wait"
  /\ WaitReturns
  /\ recvOpen' = FALSE
  /\ runErr' = groupErr
  /\ finalStats' = Stats
  /\ Goto("main", "onFinish")
  /\ UNCHANGED <<stopVars, err, groupErr, ctxDone, conn, recvCh, held, loopVars,
                 trackVars, statVars, netVars, credited, runs, interrupted>>

CloseConn ==
  /\ pc["main"] = "onFinish"
  /\ conn' = FALSE
  /\ Goto("main", "returned")
  /\ UNCHANGED <<stopVars, groupVars, recvCh, recvOpen, held, loopVars, trackVars,
                 statVars, netVars, histVars>>

-----------------------------------------------------------------------------
(***************************************************************************)
(* The errgroup (golang.org/x/sync, external): the first error is kept and *)
(* cancels the group's context.                                            *)
(***************************************************************************)
GroupCtxDone == ctxDone \/ groupErr # "nil"

GoReturn(g) ==
  /\ pc[g] = "return"
  /\ groupErr' = IF groupErr = "nil" THEN err[g] ELSE groupErr
  /\ Goto(g, "exited")
  /\ UNCHANGED <<stopVars, err, ctxDone, runErr, dataVars, histVars>>

\* The watcher: the first select case, then the second.
WatchCtx ==
  /\ pc["watcher"] = "watch"
  /\ GroupCtxDone
  /\ Leave("watcher", "ctx")
  /\ UNCHANGED <<sawOpen, lock, done, groupErr, ctxDone, runErr, dataVars,
                 histVars>>

WatchDone_CtxErr ==
  /\ pc["watcher"] = "watch"
  /\ done
  /\ Leave("watcher", "ctx")
  /\ UNCHANGED <<sawOpen, lock, done, groupErr, ctxDone, runErr, dataVars,
                 histVars>>

WatchDone ==
  /\ pc["watcher"] = "watch"
  /\ done
  /\ Goto("watcher", "return")
  /\ UNCHANGED <<stopVars, groupVars, dataVars, histVars>>

-----------------------------------------------------------------------------
(***************************************************************************)
(* recvICMP.  The read deadline makes every read return; how long it waits *)
(* (expBackoff) is left out.                                               *)
(***************************************************************************)
RecvLeave(e) ==
  /\ Leave("receiver", e)
  /\ UNCHANGED <<sawOpen, lock, done, groupErr, ctxDone, runErr, dataVars,
                 histVars>>

RecvGoto(label) ==
  /\ Goto("receiver", label)
  /\ UNCHANGED <<stopVars, groupVars, dataVars, histVars>>

RecvDone_TopOnly == pc["receiver"] = "top" /\ done /\ RecvLeave("nil")

RecvDone == pc["receiver"] \in {"top", "deliver"} /\ done /\ RecvLeave("nil")

SetDeadlineFails == pc["receiver"] = "top" /\ ~done /\ RecvLeave("read")

SetDeadline == pc["receiver"] = "top" /\ ~done /\ RecvGoto("read")

ReadTimeout == pc["receiver"] = "read" /\ RecvGoto("onReadTimeout")

ReadAgain == pc["receiver"] = "onReadTimeout" /\ RecvGoto("top")

ReadFails == pc["receiver"] = "read" /\ RecvGoto("onReadError")

ReadAbort == pc["receiver"] = "onReadError" /\ RecvLeave("read")

\* The ICMP identifier of our replies: ours on a raw socket; on a datagram
\* socket the kernel puts its own into the request.
ReplyTo(n) ==
  [type |-> "echoReply", id |-> IF Privileged THEN "own" ELSE "kernel",
   long |-> TRUE, uuid |-> wire[n][1], seq |-> wire[n][2], n |-> n]

ReadInto(p) ==
  /\ pc["receiver"] = "read"
  /\ held' = p
  /\ Goto("receiver", "deliver")
  /\ UNCHANGED <<stopVars, groupVars, conn, recvCh, recvOpen, loopVars, trackVars,
                 statVars, wire, histVars>>

\* The network may lose, delay, reorder and duplicate replies.
ReadReply(n) ==
  /\ copies[n] < MaxCopies
  /\ copies' = [copies EXCEPT ![n] = @ + 1]
  /\ ReadInto(ReplyTo(n))

ReadNoise == \E p \in Noise : ReadInto(p) /\ UNCHANGED copies

Deliver ==
  /\ pc["receiver"] = "deliver"
  /\ Len(recvCh) < RecvCap
  /\ recvCh' = Append(recvCh, held)
  /\ Goto("receiver", "top")
  /\ UNCHANGED <<stopVars, groupVars, conn, recvOpen, held, loopVars, trackVars,
                 statVars, netVars, histVars>>

-----------------------------------------------------------------------------
(***************************************************************************)
(* runLoop.                                                                *)
(***************************************************************************)
\* Return from runLoop: the tickers are stopped, then Stop is called.
LoopLeave(e) ==
  /\ Leave("loop", e)
  /\ intervalOn' = FALSE /\ intervalC' = FALSE /\ timeoutC' = FALSE

AllReceived_OneMore == Count > 0 /\ PacketsRecv > Count
AllReceived == Count > 0 /\ PacketsRecv >= Count

\* The test at the end of the loop body.
EndIteration ==
  \/ /\ AllReceived
     /\ LoopLeave("nil")
  \/ /\ ~AllReceived
     /\ Goto("loop", "select")
     /\ UNCHANGED <<resume, err, intervalOn, intervalC, timeoutC>>

LoopFrame ==
  UNCHANGED <<sawOpen, lock, done, groupErr, ctxDone, runErr, conn, recvOpen, held,
              finalStats, runs, interrupted>>

\* case <-p.done and case <-timeout.C
SelectDone ==
  /\ pc["loop"] = "select" /\ done
  /\ LoopLeave("nil")
  /\ LoopFrame
  /\ UNCHANGED <<recvCh, site, broadcast, trackVars, statVars, netVars, credited>>

SelectTimeout ==
  /\ pc["loop"] = "select" /\ timeoutC
  /\ LoopLeave("nil")
  /\ LoopFrame
  /\ UNCHANGED <<recvCh, site, broadcast, trackVars, statVars, netVars, credited>>

AllSent_OneMore == Count > 0 /\ PacketsSent > Count
AllSent == Count > 0 /\ PacketsSent >= Count

SelectIntervalStop_Return ==
  /\ pc["loop"] = "select" /\ intervalC
  /\ AllSent
  /\ LoopLeave("nil")
  /\ LoopFrame
  /\ UNCHANGED <<recvCh, site, broadcast, trackVars, statVars, netVars, credited>>

\* case <-interval.C: all Count requests sent, or time for the next one.
SelectIntervalStop ==
  /\ pc["loop"] = "select" /\ intervalC
  /\ AllSent
  /\ intervalOn' = FALSE /\ intervalC' = FALSE
  /\ LoopFrame
  /\ UNCHANGED <<pc, resume, err, recvCh, timeoutC, site, broadcast, trackVars,
                 statVars, netVars, credited>>

SelectIntervalSend ==
  /\ pc["loop"] = "select" /\ intervalC
  /\ ~AllSent
  /\ intervalC' = FALSE
  /\ site' = "tick"
  /\ Goto("loop", "write")
  /\ LoopFrame
  /\ UNCHANGED <<resume, err, recvCh, intervalOn, timeoutC, broadcast, trackVars,
                 statVars, netVars, credited>>

-----------------------------------------------------------------------------
(***************************************************************************)
(* processPacket, on the packet at the head of the channel.                *)
(***************************************************************************)
matchID(id) == Privileged => id = "own"

IsOurs_AnyUUID(p) == p.type = "echoReply" /\ matchID(p.id) /\ p.long

\* Everything processPacket turns away: not parsed, not an echo reply, not
\* our identifier, too short, or not one of our tracker UUIDs.  Errors are
\* logged and the loop goes on.
IsOurs(p) ==
  /\ p.type = "echoReply"
  /\ matchID(p.id)
  /\ p.long
  /\ p.uuid \in 0..epoch

TakePacket ==
  /\ pc["loop"] = "select"
  /\ recvCh # <<>>
  /\ recvCh' = Tail(recvCh)

DiscardPacket ==
  /\ TakePacket
  /\ ~IsOurs(Head(recvCh))
  /\ EndIteration
  /\ LoopFrame
  /\ UNCHANGED <<site, broadcast, trackVars, statVars, netVars, credited>>

Forget_Keep(p) == awaiting' = awaiting
Forget(p) == awaiting' = awaiting \ {<<p.uuid, p.seq>>}

AcceptPacket ==
  /\ TakePacket
  /\ LET p == Head(recvCh) IN
       /\ IsOurs(p)
       /\ <<p.uuid, p.seq>> \in awaiting
       /\ Forget(p)
       /\ credited' = credited \cup {p.n}
  /\ PacketsRecv' = PacketsRecv + 1
  /\ Goto("loop", "onRecv")
  /\ LoopFrame
  /\ UNCHANGED <<resume, err, loopVars, epoch, sequence, PacketsSent,
                 PacketsRecvDuplicates, netVars>>

DuplicatePacket ==
  /\ TakePacket
  /\ LET p == Head(recvCh) IN
       /\ IsOurs(p)
       /\ <<p.uuid, p.seq>> \notin awaiting
  /\ PacketsRecvDuplicates' = PacketsRecvDuplicates + 1
  /\ Goto("loop", "onDuplicateRecv")
  /\ LoopFrame
  /\ UNCHANGED <<resume, err, loopVars, trackVars, PacketsSent, PacketsRecv,
                 netVars, credited>>

\* OnRecv or OnDuplicateRecv returns.
PacketDone ==
  /\ pc["loop"] \in {"onRecv", "onDuplicateRecv"}
  /\ EndIteration
  /\ LoopFrame
  /\ UNCHANGED <<recvCh, site, broadcast, trackVars, statVars, netVars, credited>>

-----------------------------------------------------------------------------
(***************************************************************************)
(* sendICMP.  The kernel refuses writes to a broadcast address with EACCES *)
(* until SO_BROADCAST is set, and to a prohibited route always.            *)
(***************************************************************************)
WriteDenied == Dst = "prohibited" \/ (Dst = "broadcast" /\ ~broadcast)

LoopGoto(label) ==
  /\ Goto("loop", label)
  /\ LoopFrame
  /\ UNCHANGED <<resume, err, recvCh, loopVars, trackVars, statVars, credited>>

\* EACCES: set SO_BROADCAST, which may fail, and write again in any case.
WriteEACCES ==
  /\ pc["loop"] = "write" /\ WriteDenied
  /\ LoopGoto("setBroadcast") /\ UNCHANGED netVars

SetBroadcastFails ==
  pc["loop"] = "setBroadcast" /\ LoopGoto("write") /\ UNCHANGED netVars

SetBroadcastFlag ==
  /\ pc["loop"] = "setBroadcast"
  /\ Goto("loop", "write")
  /\ broadcast' = TRUE
  /\ LoopFrame
  /\ UNCHANGED <<resume, err, recvCh, intervalOn, intervalC, timeoutC, site,
                 trackVars, statVars, netVars, credited>>

\* ENOBUFS: OnSendError, then write again.
WriteENOBUFS ==
  /\ pc["loop"] = "write" /\ ~WriteDenied
  /\ LoopGoto("onSendRetry") /\ UNCHANGED netVars

SendRetry == pc["loop"] = "onSendRetry" /\ LoopGoto("write") /\ UNCHANGED netVars

\* Any other error: OnSendError, then return it.
WriteFails ==
  /\ pc["loop"] = "write" /\ ~WriteDenied
  /\ LoopGoto("onSendError") /\ UNCHANGED netVars

\* The error of the send before the loop ends the run, a later one is logged.
SendFailed ==
  /\ pc["loop"] = "onSendError"
  /\ IF site = "start" THEN LoopLeave("send") ELSE EndIteration
  /\ LoopFrame
  /\ UNCHANGED <<recvCh, site, broadcast, trackVars, statVars, netVars, credited>>

WriteOK ==
  /\ pc["loop"] = "write" /\ ~WriteDenied
  /\ wire' = Append(wire, <<epoch, sequence>>)
  /\ copies' = Append(copies, 0)
  /\ LoopGoto("onSend")

NextNumber_SameUUID ==
  /\ epoch' = epoch
  /\ sequence' = IF sequence + 1 > MaxSeq THEN 0 ELSE sequence + 1

NextNumber_NoWrap == epoch' = epoch /\ sequence' = sequence + 1

NextNumber ==
  IF sequence + 1 > MaxSeq THEN epoch' = epoch + 1 /\ sequence' = 0
                           ELSE epoch' = epoch /\ sequence' = sequence + 1

\* OnSend returns: mark the sequence number as in flight, count the request,
\* take the next number; after MaxSeq start again at 0 under a new UUID.
MarkSent ==
  /\ pc["loop"] = "onSend"
  /\ awaiting' = awaiting \cup {<<epoch, sequence>>}
  /\ PacketsSent' = PacketsSent + 1
  /\ NextNumber
  /\ IF site = "start"
     THEN Goto("loop", "select")
          /\ UNCHANGED <<resume, err, intervalOn, intervalC, timeoutC>>
     ELSE EndIteration
  /\ LoopFrame
  /\ UNCHANGED <<recvCh, site, broadcast, PacketsRecv, PacketsRecvDuplicates,
                 netVars, credited>>

-----------------------------------------------------------------------------
(***************************************************************************)
(* Timers and the caller's context.                                        *)
(***************************************************************************)
IntervalTick ==
  /\ intervalOn /\ ~intervalC
  /\ PacketsSent < MaxSent
  /\ intervalC' = TRUE
  /\ UNCHANGED <<pc, stopVars, groupVars, ioVars, intervalOn, timeoutC, site,
                 broadcast, trackVars, statVars, netVars, histVars>>

SendLabels == {"write", "setBroadcast", "onSend", "onSendRetry", "onSendError"}
LoopLabels == SendLabels \cup {"select", "onRecv", "onDuplicateRecv"}

TimeoutTick ==
  /\ "timeout" \in Interrupts
  /\ At("loop") \in LoopLabels /\ ~timeoutC
  /\ timeoutC' = TRUE
  /\ interrupted' = TRUE
  /\ UNCHANGED <<pc, stopVars, groupVars, ioVars, intervalOn, intervalC, site,
                 broadcast, trackVars, statVars, netVars, credited, finalStats,
                 runs>>

CancelCtx ==
  /\ "cancel" \in Interrupts
  /\ pc["main"] \notin {"idle", "returned"} /\ ~ctxDone
  /\ ctxDone' = TRUE
  /\ interrupted' = TRUE
  /\ UNCHANGED <<pc, stopVars, err, groupErr, runErr, dataVars, credited,
                 finalStats, runs>>

\* Run has returned for the last time and nobody is in Stop: nothing is left
\* to do.  (With this step, TLC reports every other state without a successor.)
Terminated ==
  /\ pc["main"] = "returned" /\ runs = MaxRuns
  /\ \A a \in Actors \ {"main"} : pc[a] = "exited"
  /\ UNCHANGED vars

-----------------------------------------------------------------------------
StopStep(a) == StopLock(a) \/ StopCheck(a) \/ StopClose(a) \/ CallbackStop(a)

MainStep ==
  \/ Run \/ SetupFails \/ ListenFails \/ SetupOK \/ Start \/ Finish \/ CloseConn

GroupStep == WatchCtx \/ WatchDone \/ (\E g \in Goroutines : GoReturn(g))

ReceiverStep ==
  \/ RecvDone \/ SetDeadlineFails \/ SetDeadline \/ ReadTimeout \/ ReadAgain
  \/ ReadFails \/ ReadAbort \/ Deliver \/ ReadNoise
  \/ \E n \in DOMAIN wire : ReadReply(n)

LoopStep ==
  \/ SelectDone \/ SelectTimeout \/ SelectIntervalStop \/ SelectIntervalSend
  \/ DiscardPacket \/ AcceptPacket \/ DuplicatePacket \/ PacketDone
  \/ WriteEACCES \/ SetBroadcastFails \/ SetBroadcastFlag \/ WriteENOBUFS
  \/ SendRetry \/ WriteFails \/ SendFailed
  \/ WriteOK \/ MarkSent

EnvironmentStep ==
  \/ IntervalTick \/ TimeoutTick \/ CancelCtx
  \/ \E u \in Users : UserStop(u)

Next ==
  \/ \E a \in Actors : StopStep(a)
  \/ MainStep \/ GroupStep \/ ReceiverStep \/ LoopStep \/ EnvironmentStep
  \/ Terminated

Spec == Init /\ [][Next]_vars

-----------------------------------------------------------------------------
(***************************************************************************)
(* Fairness.  A goroutine that can go on eventually does; callbacks return *)
(* and the interval ticks.  Strong fairness for two kinds of choice: a     *)
(* select picks uniformly among its ready cases, so a case that is ready   *)
(* again and again is taken, and neither ENOBUFS nor the failure to set    *)
(* SO_BROADCAST lasts for ever.  Nothing is assumed of the network, of     *)
(* Users, of a cancellation or of the timeout.                             *)
(***************************************************************************)
StepOf(a) ==
  \/ StopLock(a) \/ StopCheck(a) \/ StopClose(a)
  \/ a = "main" /\ (SetupOK \/ Start \/ Finish \/ CloseConn)
  \/ a = "watcher" /\ (WatchCtx \/ WatchDone)
  \/ a = "receiver" /\ ReceiverStep
  \/ a = "loop" /\ LoopStep
  \/ a \in Goroutines /\ GoReturn(a)

Fairness ==
  /\ \A a \in Actors : WF_vars(StepOf(a))
  /\ SF_vars(SelectDone \/ SelectTimeout) /\ SF_vars(SelectIntervalSend)
  /\ SF_vars(DiscardPacket \/ AcceptPacket \/ DuplicatePacket)
  /\ SF_vars(WriteOK \/ WriteFails) /\ SF_vars(SetBroadcastFlag)
  /\ WF_vars(IntervalTick)

FairSpec == Spec /\ Fairness

-----------------------------------------------------------------------------
(***************************************************************************)
(* Properties.                                                             *)
(***************************************************************************)

Pair == Nat \X Nat
Labels == {"idle", "setup", "wait", "returned", "ready", "watch", "top", "read",
           "deliver", "write", "setBroadcast", "select", "return", "exited"}
          \cup CallbackLabels \cup StopLabels
Errors == {"nil", "setup", "listen", "ctx", "read", "send"}

FlagsOK ==
  /\ done \in BOOLEAN /\ ctxDone \in BOOLEAN
  /\ conn \in BOOLEAN /\ recvOpen \in BOOLEAN
  /\ intervalOn \in BOOLEAN /\ intervalC \in BOOLEAN /\ timeoutC \in BOOLEAN
  /\ broadcast \in BOOLEAN /\ interrupted \in BOOLEAN

\* Every variable has its type.
TypeOK ==
  /\ FlagsOK
  /\ pc \in [Actors -> Labels]
  /\ resume \in [Actors -> {"exited", "return", "returned"} \cup CallbackLabels]
  /\ sawOpen \in [Actors -> BOOLEAN] /\ lock \in Actors \cup {"none"}
  /\ err \in [Goroutines -> Errors] /\ groupErr \in Errors /\ runErr \in Errors
  /\ recvCh \in Seq(Packet) /\ held \in Packet /\ site \in {"start", "tick"}
  /\ epoch \in Nat /\ sequence \in 0..MaxSeq /\ awaiting \in SUBSET Pair
  /\ PacketsSent \in Nat /\ PacketsRecv \in Nat /\ PacketsRecvDuplicates \in Nat
  /\ wire \in Seq(Pair) /\ copies \in Seq(Nat) /\ Len(copies) = Len(wire)
  /\ credited \in SUBSET Nat /\ runs \in Nat
  /\ finalStats \in [sent: Nat, recv: Nat, dups: Nat]

\* At most one caller of Stop ever closes done (a second close would panic):
\* whoever has seen it open and is about to close it finds it still open,
\* however many goroutines, callbacks and users call Stop at once.
NoDoubleClose ==
  \A a \in Actors : pc[a] = "stopClose" /\ sawOpen[a] => ~done

\* Every request that was counted as sent is either still awaited or was
\* counted as received, also after the sequence number has wrapped: the loss
\* that Statistics computes is that of the requests without a reply.
Accounting == PacketsSent = PacketsRecv + Cardinality(awaiting)

\* PacketsRecv counts requests, not packets: a request answered by several,
\* late or reordered replies counts once (awaitingSequences removes it).
OncePerRequest == PacketsRecv = Cardinality(credited)

\* A packet is counted as a duplicate only if its request has been answered
\* before: no reply overtakes the marking of its request in sendICMP, and
\* packets of other programs are not counted.
DuplicatesWereAnswered ==
  [][PacketsRecvDuplicates' > PacketsRecvDuplicates
       => Head(recvCh).n \in credited]_vars

\* The requests and counters of a Pinger, as the ledger keeps them.
Ledger == INSTANCE EchoLedger WITH
  awaited <- 1..PacketsSent \ credited, answered <- credited,
  sent <- PacketsSent, recv <- PacketsRecv, dups <- PacketsRecvDuplicates

\* Run, with its goroutines, its wrapping sequence numbers and whatever the
\* network delivers, does to the statistics only what the ledger allows: a
\* request is entered when sendICMP has marked it, and processPacket turns it
\* from awaited to answered once; further runs go on with the same ledger.
ImplementsLedger == Ledger!Spec

\* A Pinger with a Count sends at most Count requests, and one more for each
\* further Run (the send before the loop of runLoop looks at no counter).
SendBound == Count > 0 /\ runs > 0 => PacketsSent <= Count + runs - 1

Ended ==
  /\ At("main") \in {"onFinish", "returned"}
  /\ runErr \notin {"setup", "listen"}

\* Run returns nil only if no goroutine failed, and the context's error only
\* if the caller's context was cancelled: the cancellation that the errgroup
\* derives from another goroutine's error never hides that error.
RunError ==
  Ended /\ runs > 0 =>
    /\ runErr = "nil" <=> \A g \in Goroutines : err[g] = "nil"
    /\ runErr = "ctx" => ctxDone

\* The socket and the channel recv are released exactly when nobody uses
\* them: both are open as long as the receiver or the loop runs, and Run
\* leaves neither an open socket nor a goroutine behind.
SocketLifetime ==
  /\ (\E g \in {"receiver", "loop"} : At(g) \notin {"return", "exited"})
       => conn /\ recvOpen
  /\ At("main") \in {"idle", "setup", "returned"}
       => ~conn /\ \A g \in Goroutines : pc[g] = "exited"

\* The statistics given to OnFinish are final: nothing is counted after them.
FinalStatsAreFinal == Ended => finalStats = Stats

\* What the documentation of Run says: without a Count, a run goes on until
\* it is interrupted; with one, until Count replies have been received.  (An
\* error of the socket also ends it, and is returned.)
RunsUntilInterrupted ==
  Ended /\ runs > 0 /\ runErr = "nil" /\ ~interrupted
    => Count > 0 /\ PacketsRecv >= Count

\* The same of the first call of Run on a Pinger.
FirstRunUntilInterrupted == runs = 1 => RunsUntilInterrupted

\* Once Stop has closed done, the context is cancelled or the timeout has
\* passed, Run returns, however the network behaves: the receiver is not stuck
\* on a full channel, nor the loop in its select or in a retry.
InterruptEndsRun ==
  done \/ ctxDone \/ timeoutC ~> At("main") \in {"idle", "returned"}

\* A run with a Count goes on for ever only if some request is never answered or
\* writes fail again and again: the loop sends what is left of its Count, the
\* replies get through a full channel and past duplicates, and the last ends it.
CountEndsRun ==
  Count > 0 /\ <>[](pc["main"] = "wait")
    => \/ <>[](\E n \in DOMAIN wire : copies[n] = 0)
       \/ []<><<WriteFails>>_vars
=============================================================================

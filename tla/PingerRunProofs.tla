-------------------------- MODULE PingerRunProofs ---------------------------
(***************************************************************************)
(* How a run of Pinger ends, for every value of the constants: the socket  *)
(* and the channel are released when nobody uses them, the statistics of   *)
(* OnFinish are final, no error is hidden, and a first run that nobody     *)
(* interrupts ends only for the reasons Run documents.                     *)
(*                                                                         *)
(* A step of Next is first summarised (StepSummary): it is a step of Run   *)
(* itself, a goroutine's return, or it is inside a goroutine or a call of  *)
(* Stop and moves nobody out of the part of the code where it is.          *)
(***************************************************************************)
EXTENDS PingerProofs

Gone == {"return", "exited"}

\* A goroutine that calls Stop goes back to a callback or returns.
ResumeInv ==
  \A g \in Goroutines :
    pc[g] \in StopLabels => resume[g] \in {"return"} \cup CallbackLabels

\* What a step inside a goroutine or Stop, or of the environment, leaves alone.
InnerData ==
  /\ UNCHANGED <<err, groupErr, runErr, conn, recvOpen, finalStats, runs>>
  /\ ctxDone => ctxDone'
  /\ interrupted => interrupted'
  /\ ~interrupted' => (timeoutC' => timeoutC) /\ (ctxDone' => ctxDone)
  /\ ~interrupted' /\ done' => done \/ \E a \in Actors : pc[a] \in StopLabels

InnerPlaces ==
  /\ At("main")' = At("main")
  /\ \A g \in Goroutines :
       /\ pc'[g] = "exited" <=> pc[g] = "exited"
       /\ At(g)' \in Gone <=> At(g) \in Gone
       /\ pc'[g] \in StopLabels => resume'[g] \in {"return"} \cup CallbackLabels
  /\ \/ interrupted'
     \/ \A a \in Actors : pc'[a] \in StopLabels => pc[a] \in StopLabels

InnerCounts ==
  /\ At("main") # "wait" => UNCHANGED statVars
  /\ PacketsRecv' >= PacketsRecv

Inner == InnerData /\ InnerPlaces /\ InnerCounts

\* Goroutine g returns e: why, and what it leaves alone.
Leaves(g, e) ==
  /\ At("main") = "wait" /\ pc[g] \notin StopLabels \cup Gone
  /\ pc' = [pc EXCEPT ![g] = "stopLock"]
  /\ resume' = [resume EXCEPT ![g] = "return"]
  /\ err' = [err EXCEPT ![g] = e]
  /\ UNCHANGED <<done, groupErr, ctxDone, runErr, conn, recvOpen, finalStats, runs,
                 interrupted, PacketsRecv>>
  /\ timeoutC' => timeoutC
  /\ e = "nil" => done \/ timeoutC \/ AllReceived
  /\ e = "ctx" => g = "watcher" /\ GroupCtxDone

LeaveStep == \E g \in Goroutines, e \in Errors : Leaves(g, e)

-----------------------------------------------------------------------------
USE DEF vars, stopVars, groupVars, ioVars, loopVars, trackVars, statVars, netVars,
        dataVars, histVars, Goto, CallStop, LoopFrame

\* The steps of Stop.
LEMMA StopSummary ==
  ASSUME TypeOK, PhaseInv, ResumeInv, NEW a \in Actors, StopStep(a)
  PROVE  Inner
<1> USE PingerAssumption DEF At, StopLabels, CallbackLabels, Gone, Actors, Goroutines
<1>0. /\ pc \in [Actors -> Labels]
      /\ resume \in [Actors -> {"exited", "return", "returned"} \cup CallbackLabels]
  BY DEF TypeOK
<1>1. CASE StopLock(a)
  <2>1. InnerData BY <1>1, Zenon DEF StopLock, InnerData
  <2>2. InnerPlaces BY <1>0, <1>1 DEF StopLock, InnerPlaces, ResumeInv
  <2>3. InnerCounts BY <1>1 DEF StopLock, InnerCounts, TypeOK
  <2> QED BY <2>1, <2>2, <2>3 DEF Inner
<1>2. CASE StopCheck(a)
  <2>1. InnerData BY <1>2, Zenon DEF StopCheck, InnerData
  <2>2. InnerPlaces BY <1>0, <1>2 DEF StopCheck, InnerPlaces, ResumeInv
  <2>3. InnerCounts BY <1>2 DEF StopCheck, InnerCounts, TypeOK
  <2> QED BY <2>1, <2>2, <2>3 DEF Inner
<1>3. CASE StopClose(a)
  <2>1. InnerData BY <1>3, Zenon DEF StopClose, InnerData
  <2>2. InnerPlaces BY <1>0, <1>3 DEF StopClose, InnerPlaces, ResumeInv
  <2>3. InnerCounts BY <1>3 DEF StopClose, InnerCounts, TypeOK
  <2> QED BY <2>1, <2>2, <2>3 DEF Inner
<1>4. CASE CallbackStop(a)
  <2>1. InnerData BY <1>4, Zenon DEF CallbackStop, InnerData
  <2>2. InnerPlaces BY <1>0, <1>4 DEF CallbackStop, InnerPlaces, ResumeInv
  <2>3. InnerCounts BY <1>4 DEF CallbackStop, InnerCounts, TypeOK
  <2> QED BY <2>1, <2>2, <2>3 DEF Inner
<1> QED BY <1>1, <1>2, <1>3, <1>4 DEF StopStep

\* The steps of the receiver.
LEMMA ReceiverSummary ==
  ASSUME TypeOK, PhaseInv, ResumeInv, ReceiverStep
  PROVE  Inner \/ LeaveStep
<1> USE PingerAssumption DEF At, StopLabels, CallbackLabels, Gone, Actors, Goroutines
<1>0. /\ pc \in [Actors -> Labels]
      /\ resume \in [Actors -> {"exited", "return", "returned"} \cup CallbackLabels]
  BY DEF TypeOK
<1>1. CASE RecvDone
  <2>1. Leaves("receiver", "nil")
    BY <1>0, <1>1 DEF RecvDone, RecvLeave, Leave, Leaves, PhaseInv
  <2> QED BY <2>1 DEF LeaveStep, Errors
<1>2. CASE SetDeadlineFails
  <2>1. Leaves("receiver", "read")
    BY <1>0, <1>2 DEF SetDeadlineFails, RecvLeave, Leave, Leaves, PhaseInv
  <2> QED BY <2>1 DEF LeaveStep, Errors
<1>3. CASE ReadAbort
  <2>1. Leaves("receiver", "read")
    BY <1>0, <1>3 DEF ReadAbort, RecvLeave, Leave, Leaves, PhaseInv
  <2> QED BY <2>1 DEF LeaveStep, Errors
<1>4. CASE SetDeadline
  <2>1. InnerData BY <1>4, Zenon DEF SetDeadline, RecvGoto, InnerData
  <2>2. InnerPlaces BY <1>0, <1>4 DEF SetDeadline, RecvGoto, InnerPlaces, ResumeInv
  <2>3. InnerCounts BY <1>4 DEF SetDeadline, RecvGoto, InnerCounts, TypeOK
  <2> QED BY <2>1, <2>2, <2>3 DEF Inner
<1>5. CASE ReadTimeout
  <2>1. InnerData BY <1>5, Zenon DEF ReadTimeout, RecvGoto, InnerData
  <2>2. InnerPlaces BY <1>0, <1>5 DEF ReadTimeout, RecvGoto, InnerPlaces, ResumeInv
  <2>3. InnerCounts BY <1>5 DEF ReadTimeout, RecvGoto, InnerCounts, TypeOK
  <2> QED BY <2>1, <2>2, <2>3 DEF Inner
<1>6. CASE ReadAgain
  <2>1. InnerData BY <1>6, Zenon DEF ReadAgain, RecvGoto, InnerData
  <2>2. InnerPlaces BY <1>0, <1>6 DEF ReadAgain, RecvGoto, InnerPlaces, ResumeInv
  <2>3. InnerCounts BY <1>6 DEF ReadAgain, RecvGoto, InnerCounts, TypeOK
  <2> QED BY <2>1, <2>2, <2>3 DEF Inner
<1>7. CASE ReadFails
  <2>1. InnerData BY <1>7, Zenon DEF ReadFails, RecvGoto, InnerData
  <2>2. InnerPlaces BY <1>0, <1>7 DEF ReadFails, RecvGoto, InnerPlaces, ResumeInv
  <2>3. InnerCounts BY <1>7 DEF ReadFails, RecvGoto, InnerCounts, TypeOK
  <2> QED BY <2>1, <2>2, <2>3 DEF Inner
<1>8. CASE Deliver
  <2>1. InnerData BY <1>8, Zenon DEF Deliver, InnerData
  <2>2. InnerPlaces BY <1>0, <1>8 DEF Deliver, InnerPlaces, ResumeInv
  <2>3. InnerCounts BY <1>8 DEF Deliver, InnerCounts, TypeOK
  <2> QED BY <2>1, <2>2, <2>3 DEF Inner
<1>9. CASE ReadNoise
  <2>0. PICK p \in Noise : ReadInto(p) BY <1>9 DEF ReadNoise
  <2>1. InnerData BY <2>0, Zenon DEF ReadInto, InnerData
  <2>2. InnerPlaces BY <1>0, <1>9 DEF ReadNoise, ReadInto, InnerPlaces, ResumeInv
  <2>3. InnerCounts BY <1>9 DEF ReadNoise, ReadInto, InnerCounts, TypeOK
  <2> QED BY <2>1, <2>2, <2>3 DEF Inner
<1>10. CASE \E n \in DOMAIN wire : ReadReply(n)
  <2>0. PICK n \in DOMAIN wire : ReadInto(ReplyTo(n)) BY <1>10 DEF ReadReply
  <2>1. InnerData BY <2>0, Zenon DEF ReadInto, InnerData
  <2>2. InnerPlaces BY <1>0, <1>10 DEF ReadReply, ReadInto, InnerPlaces, ResumeInv
  <2>3. InnerCounts BY <1>10 DEF ReadReply, ReadInto, InnerCounts, TypeOK
  <2> QED BY <2>1, <2>2, <2>3 DEF Inner
<1> QED BY <1>1, <1>2, <1>3, <1>4, <1>5, <1>6, <1>7, <1>8, <1>9, <1>10 DEF ReceiverStep

\* The steps of the loop.
LEMMA LoopSummary ==
  ASSUME TypeOK, PhaseInv, ResumeInv, LoopStep
  PROVE  Inner \/ LeaveStep
<1> USE PingerAssumption DEF At, StopLabels, CallbackLabels, Gone, Actors, Goroutines
<1>0. /\ pc \in [Actors -> Labels]
      /\ resume \in [Actors -> {"exited", "return", "returned"} \cup CallbackLabels]
  BY DEF TypeOK
<1> DEFINE Kept == UNCHANGED <<done, groupErr, ctxDone, runErr, conn, recvOpen,
                               finalStats, runs, interrupted, PacketsRecv>>
           Running == pc["loop"] \in {"select", "onRecv", "onDuplicateRecv", "onSend",
                                      "onSendError"}
<1>leave. ASSUME NEW e \in Errors, Running, Kept, LoopLeave(e),
             e = "nil" => done \/ timeoutC \/ AllReceived, e # "ctx"
      PROVE  Inner \/ LeaveStep
  <2>1. Leaves("loop", e)
    <3>1. timeoutC' => timeoutC BY <1>leave, Zenon DEF LoopLeave
    <3> QED BY <1>0, <1>leave, <3>1 DEF LoopLeave, Leave, Leaves, PhaseInv
  <2> QED BY <2>1 DEF LeaveStep
<1>go. ASSUME Running, Kept, Goto("loop", "select"), UNCHANGED <<resume, err, timeoutC>>
      PROVE  Inner \/ LeaveStep
  <2>1. InnerData BY <1>go, Zenon DEF InnerData
  <2>2. InnerPlaces BY <1>0, <1>go DEF InnerPlaces, ResumeInv
  <2>3. InnerCounts BY <1>0, <1>go DEF InnerCounts, PhaseInv, TypeOK
  <2> QED BY <2>1, <2>2, <2>3 DEF Inner
<1>end. ASSUME Running, Kept, EndIteration PROVE Inner \/ LeaveStep
  BY <1>end, <1>go, <1>leave, Zenon DEF EndIteration, Errors
<1>1. CASE SelectDone
  <2>1. Running /\ Kept /\ LoopLeave("nil") /\ (done \/ timeoutC)
    BY <1>1 DEF SelectDone
  <2> QED BY <1>leave, <2>1 DEF Errors
<1>2. CASE SelectTimeout
  <2>1. Running /\ Kept /\ LoopLeave("nil") /\ (done \/ timeoutC)
    BY <1>2 DEF SelectTimeout
  <2> QED BY <1>leave, <2>1 DEF Errors
<1>3. CASE DiscardPacket
  <2>1. Running /\ Kept /\ EndIteration BY <1>3 DEF DiscardPacket, TakePacket
  <2> QED BY <1>end, <2>1
<1>4. CASE PacketDone
  <2>1. Running /\ Kept /\ EndIteration BY <1>4 DEF PacketDone
  <2> QED BY <1>end, <2>1
<1>5. CASE SendFailed
  <2>1. Running /\ Kept /\ (LoopLeave("send") \/ EndIteration)
    BY <1>5 DEF SendFailed
  <2> QED BY <1>end, <1>leave, <2>1 DEF Errors
<1>6. CASE MarkSent
  <2>1. Running /\ Kept
        /\ \/ Goto("loop", "select") /\ UNCHANGED <<resume, err, timeoutC>>
           \/ EndIteration
    BY <1>6 DEF MarkSent
  <2> QED BY <1>end, <1>go, <2>1
<1>7. CASE SelectIntervalStop
  <2>1. InnerData BY <1>7, Zenon DEF SelectIntervalStop, InnerData
  <2>2. InnerPlaces BY <1>0, <1>7 DEF SelectIntervalStop, InnerPlaces, ResumeInv
  <2>3. InnerCounts BY <1>0, <1>7 DEF SelectIntervalStop, InnerCounts, PhaseInv, TypeOK
  <2> QED BY <2>1, <2>2, <2>3 DEF Inner
<1>8. CASE SelectIntervalSend
  <2>1. InnerData BY <1>8, Zenon DEF SelectIntervalSend, InnerData
  <2>2. InnerPlaces BY <1>0, <1>8 DEF SelectIntervalSend, InnerPlaces, ResumeInv
  <2>3. InnerCounts BY <1>0, <1>8 DEF SelectIntervalSend, InnerCounts, PhaseInv, TypeOK
  <2> QED BY <2>1, <2>2, <2>3 DEF Inner
<1>9. CASE AcceptPacket
  <2>1. InnerData BY <1>9, Zenon DEF AcceptPacket, TakePacket, InnerData
  <2>2. InnerPlaces BY <1>0, <1>9 DEF AcceptPacket, TakePacket, InnerPlaces, ResumeInv
  <2>3. InnerCounts BY <1>0, <1>9
        DEF AcceptPacket, TakePacket, InnerCounts, PhaseInv, TypeOK
  <2> QED BY <2>1, <2>2, <2>3 DEF Inner
<1>10. CASE DuplicatePacket
  <2>1. InnerData BY <1>10, Zenon DEF DuplicatePacket, TakePacket, InnerData
  <2>2. InnerPlaces BY <1>0, <1>10
        DEF DuplicatePacket, TakePacket, InnerPlaces, ResumeInv
  <2>3. InnerCounts BY <1>0, <1>10
        DEF DuplicatePacket, TakePacket, InnerCounts, PhaseInv, TypeOK
  <2> QED BY <2>1, <2>2, <2>3 DEF Inner
<1>11. CASE WriteEACCES
  <2>1. InnerData BY <1>11, Zenon DEF WriteEACCES, LoopGoto, InnerData
  <2>2. InnerPlaces BY <1>0, <1>11 DEF WriteEACCES, LoopGoto, InnerPlaces, ResumeInv
  <2>3. InnerCounts BY <1>0, <1>11
        DEF WriteEACCES, LoopGoto, InnerCounts, PhaseInv, TypeOK
  <2> QED BY <2>1, <2>2, <2>3 DEF Inner
<1>12. CASE SetBroadcastFails
  <2>1. InnerData BY <1>12, Zenon DEF SetBroadcastFails, LoopGoto, InnerData
  <2>2. InnerPlaces BY <1>0, <1>12
        DEF SetBroadcastFails, LoopGoto, InnerPlaces, ResumeInv
  <2>3. InnerCounts BY <1>0, <1>12
        DEF SetBroadcastFails, LoopGoto, InnerCounts, PhaseInv, TypeOK
  <2> QED BY <2>1, <2>2, <2>3 DEF Inner
<1>13. CASE SetBroadcastFlag
  <2>1. InnerData BY <1>13, Zenon DEF SetBroadcastFlag, InnerData
  <2>2. InnerPlaces BY <1>0, <1>13 DEF SetBroadcastFlag, InnerPlaces, ResumeInv
  <2>3. InnerCounts BY <1>0, <1>13 DEF SetBroadcastFlag, InnerCounts, PhaseInv, TypeOK
  <2> QED BY <2>1, <2>2, <2>3 DEF Inner
<1>14. CASE WriteENOBUFS
  <2>1. InnerData BY <1>14, Zenon DEF WriteENOBUFS, LoopGoto, InnerData
  <2>2. InnerPlaces BY <1>0, <1>14 DEF WriteENOBUFS, LoopGoto, InnerPlaces, ResumeInv
  <2>3. InnerCounts BY <1>0, <1>14
        DEF WriteENOBUFS, LoopGoto, InnerCounts, PhaseInv, TypeOK
  <2> QED BY <2>1, <2>2, <2>3 DEF Inner
<1>15. CASE SendRetry
  <2>1. InnerData BY <1>15, Zenon DEF SendRetry, LoopGoto, InnerData
  <2>2. InnerPlaces BY <1>0, <1>15 DEF SendRetry, LoopGoto, InnerPlaces, ResumeInv
  <2>3. InnerCounts BY <1>0, <1>15
        DEF SendRetry, LoopGoto, InnerCounts, PhaseInv, TypeOK
  <2> QED BY <2>1, <2>2, <2>3 DEF Inner
<1>16. CASE WriteFails
  <2>1. InnerData BY <1>16, Zenon DEF WriteFails, LoopGoto, InnerData
  <2>2. InnerPlaces BY <1>0, <1>16 DEF WriteFails, LoopGoto, InnerPlaces, ResumeInv
  <2>3. InnerCounts BY <1>0, <1>16
        DEF WriteFails, LoopGoto, InnerCounts, PhaseInv, TypeOK
  <2> QED BY <2>1, <2>2, <2>3 DEF Inner
<1>17. CASE WriteOK
  <2>1. InnerData BY <1>17, Zenon DEF WriteOK, LoopGoto, InnerData
  <2>2. InnerPlaces BY <1>0, <1>17 DEF WriteOK, LoopGoto, InnerPlaces, ResumeInv
  <2>3. InnerCounts BY <1>0, <1>17 DEF WriteOK, LoopGoto, InnerCounts, PhaseInv, TypeOK
  <2> QED BY <2>1, <2>2, <2>3 DEF Inner
<1> QED BY <1>1, <1>2, <1>3, <1>4, <1>5, <1>6, <1>7, <1>8, <1>9, <1>10, <1>11, <1>12,
        <1>13, <1>14, <1>15, <1>16, <1>17 DEF LoopStep

\* Every step is one of Run's, a goroutine's return, or an inner one.
LEMMA StepSummary ==
  ASSUME TypeOK, PhaseInv, ResumeInv, [Next]_vars
  PROVE  Inner \/ LeaveStep \/ WatchDone \/ MainStep \/ \E g \in Goroutines : GoReturn(g)
<1> USE PingerAssumption DEF At, StopLabels, CallbackLabels, Gone, Actors, Goroutines
<1>0. /\ pc \in [Actors -> Labels]
      /\ resume \in [Actors -> {"exited", "return", "returned"} \cup CallbackLabels]
  BY DEF TypeOK
<1>1. CASE WatchCtx
  <2>1. Leaves("watcher", "ctx")
    BY <1>0, <1>1 DEF WatchCtx, Leave, Leaves, PhaseInv, GroupCtxDone
  <2> QED BY <2>1 DEF LeaveStep, Errors
<1>2. CASE IntervalTick
  <2>1. InnerData BY <1>2, Zenon DEF IntervalTick, InnerData
  <2>2. InnerPlaces BY <1>0, <1>2 DEF IntervalTick, InnerPlaces, ResumeInv
  <2>3. InnerCounts BY <1>2 DEF IntervalTick, InnerCounts, TypeOK
  <2> QED BY <2>1, <2>2, <2>3 DEF Inner
<1>3. CASE TimeoutTick
  <2>1. InnerData BY <1>3, Zenon DEF TimeoutTick, InnerData
  <2>2. InnerPlaces BY <1>0, <1>3 DEF TimeoutTick, InnerPlaces, ResumeInv
  <2>3. InnerCounts BY <1>3 DEF TimeoutTick, InnerCounts, TypeOK
  <2> QED BY <2>1, <2>2, <2>3 DEF Inner
<1>4. CASE CancelCtx
  <2>1. InnerData BY <1>4, Zenon DEF CancelCtx, InnerData
  <2>2. InnerPlaces BY <1>0, <1>4 DEF CancelCtx, InnerPlaces, ResumeInv
  <2>3. InnerCounts BY <1>4 DEF CancelCtx, InnerCounts, TypeOK
  <2> QED BY <2>1, <2>2, <2>3 DEF Inner
<1>5. CASE \E u \in Users : UserStop(u)
  <2>0. PICK u \in Users : UserStop(u) BY <1>5
  <2>1. InnerData BY <2>0, Zenon DEF UserStop, InnerData
  <2>2. InnerPlaces BY <1>0, <1>5 DEF UserStop, InnerPlaces, ResumeInv
  <2>3. InnerCounts BY <1>5 DEF UserStop, InnerCounts, TypeOK
  <2> QED BY <2>1, <2>2, <2>3 DEF Inner
<1>6. CASE UNCHANGED vars
  <2>1. InnerData BY <1>6, Zenon DEF InnerData
  <2>2. InnerPlaces BY <1>0, <1>6 DEF InnerPlaces, ResumeInv
  <2>3. InnerCounts BY <1>6 DEF InnerCounts, TypeOK
  <2> QED BY <2>1, <2>2, <2>3 DEF Inner
<1> QED BY <1>1, <1>2, <1>3, <1>4, <1>5, <1>6, StopSummary, ReceiverSummary, LoopSummary
       DEF Next, GroupStep, EnvironmentStep, Terminated

\* Every goroutine keeps a place to go back to from Stop.
LEMMA ResumeStep == ASSUME TypeOK, PhaseInv, ResumeInv, [Next]_vars PROVE ResumeInv'
<1> USE PingerAssumption DEF StopLabels, CallbackLabels, Actors, Goroutines
<1>0. pc \in [Actors -> Labels] /\ DOMAIN resume = Actors BY DEF TypeOK
<1>1. CASE Inner BY <1>1 DEF Inner, InnerPlaces, ResumeInv
<1>2. CASE LeaveStep BY <1>0, <1>2 DEF LeaveStep, Leaves, ResumeInv
<1>3. CASE WatchDone BY <1>0, <1>3 DEF WatchDone, ResumeInv
<1>4. CASE MainStep
  BY <1>0, <1>4 DEF MainStep, Run, SetupFails, ListenFails, SetupOK, Start, Finish,
                    CloseConn, ResumeInv
<1>5. CASE \E g \in Goroutines : GoReturn(g) BY <1>0, <1>5 DEF GoReturn, ResumeInv
<1> QED BY <1>1, <1>2, <1>3, <1>4, <1>5, StepSummary

\* ResumeInv is an invariant.
LEMMA ResumeCorrect == Spec => []ResumeInv
<1>1. Init => ResumeInv
  BY PingerAssumption DEF Init, ResumeInv, Actors, Goroutines, StopLabels
<1>2. TypeOK /\ PhaseInv /\ ResumeInv /\ [Next]_vars => ResumeInv' BY ResumeStep
<1> QED BY <1>1, <1>2, TypeCorrect, PhaseCorrect, PTL DEF Spec

-----------------------------------------------------------------------------
(***************************************************************************)
(* The socket and the channel are open in one stretch of Run each.         *)
(***************************************************************************)
SocketInv ==
  /\ conn <=> At("main") \in {"onSetup", "wait", "onFinish"}
  /\ recvOpen <=> At("main") \in {"onSetup", "wait"}

\* Nobody but Run opens and closes the socket and the channel.
LEMMA SocketStep ==
  ASSUME TypeOK, PhaseInv, ResumeInv, SocketInv, [Next]_vars
  PROVE  SocketInv'
<1> USE PingerAssumption DEF At, StopLabels, CallbackLabels, Actors, Goroutines
<1>0. /\ pc \in [Actors -> Labels]
      /\ resume \in [Actors -> {"exited", "return", "returned"} \cup CallbackLabels]
  BY DEF TypeOK
<1>1. ASSUME UNCHANGED <<conn, recvOpen>>, At("main")' = At("main") PROVE SocketInv'
  BY <1>1 DEF SocketInv
<1>2. CASE Inner BY <1>1, <1>2 DEF Inner, InnerData, InnerPlaces
<1>3. CASE LeaveStep BY <1>0, <1>1, <1>3 DEF LeaveStep, Leaves
<1>4. CASE WatchDone BY <1>0, <1>1, <1>4 DEF WatchDone
<1>5. CASE MainStep
  <2>1. CASE Run BY <1>0, <2>1 DEF Run, SocketInv
  <2>2. CASE SetupFails BY <1>0, <2>2 DEF SetupFails, SocketInv
  <2>3. CASE ListenFails BY <1>0, <2>3 DEF ListenFails, SocketInv
  <2>4. CASE SetupOK BY <1>0, <2>4 DEF SetupOK, SocketInv
  <2>5. CASE Start BY <1>0, <2>5 DEF Start, SocketInv
  <2>6. CASE Finish BY <1>0, <2>6 DEF Finish, SocketInv
  <2>7. CASE CloseConn BY <1>0, <2>7 DEF CloseConn, SocketInv
  <2> QED BY <1>5, <2>1, <2>2, <2>3, <2>4, <2>5, <2>6, <2>7 DEF MainStep
<1>6. CASE \E g \in Goroutines : GoReturn(g) BY <1>0, <1>1, <1>6 DEF GoReturn
<1> QED BY <1>2, <1>3, <1>4, <1>5, <1>6, StepSummary

\* The socket and the channel outlive the goroutines that use them, and Run
\* leaves no socket and no goroutine behind, in every run.
THEOREM SocketOutlivesUse == Spec => []SocketLifetime
<1>1. Init => SocketInv
  BY PingerAssumption DEF Init, SocketInv, At, Actors, StopLabels
<1>2. TypeOK /\ PhaseInv /\ ResumeInv /\ SocketInv /\ [Next]_vars => SocketInv'
  BY SocketStep
<1>3. TypeOK /\ PhaseInv /\ ResumeInv /\ SocketInv => SocketLifetime
  BY PingerAssumption
     DEF SocketInv, PhaseInv, SocketLifetime, At, Goroutines, StopLabels
<1> QED BY <1>1, <1>2, <1>3, TypeCorrect, PhaseCorrect, ResumeCorrect, PTL DEF Spec

-----------------------------------------------------------------------------
(***************************************************************************)
(* The statistics of OnFinish.                                             *)
(***************************************************************************)
\* Once Run has called finish, nothing is counted before the next Run.
LEMMA FinalStep ==
  ASSUME TypeOK, PhaseInv, ResumeInv, FinalStatsAreFinal, [Next]_vars
  PROVE  FinalStatsAreFinal'
<1> USE PingerAssumption DEF At, StopLabels, CallbackLabels, Actors, Goroutines
<1>0. /\ pc \in [Actors -> Labels]
      /\ resume \in [Actors -> {"exited", "return", "returned"} \cup CallbackLabels]
  BY DEF TypeOK
<1>1. CASE Inner
  <2>1. At("main")' = At("main") /\ runErr' = runErr /\ finalStats' = finalStats
        /\ (At("main") # "wait" => UNCHANGED statVars)
    BY <1>1 DEF Inner, InnerData, InnerPlaces, InnerCounts
  <2> HIDE DEF At
  <2> QED BY <2>1 DEF FinalStatsAreFinal, Ended, Stats
<1>2. CASE LeaveStep
  <2>1. At("main")' = "wait" BY <1>0, <1>2 DEF LeaveStep, Leaves
  <2> QED BY <2>1 DEF FinalStatsAreFinal, Ended
<1>3. CASE WatchDone BY <1>0, <1>3 DEF WatchDone, FinalStatsAreFinal, Ended, Stats
<1>4. CASE MainStep
  <2>1. CASE Run BY <1>0, <2>1 DEF Run, FinalStatsAreFinal, Ended
  <2>2. CASE SetupFails BY <1>0, <2>2 DEF SetupFails, FinalStatsAreFinal, Ended
  <2>3. CASE ListenFails BY <1>0, <2>3 DEF ListenFails, FinalStatsAreFinal, Ended
  <2>4. CASE SetupOK BY <1>0, <2>4 DEF SetupOK, FinalStatsAreFinal, Ended
  <2>5. CASE Start BY <1>0, <2>5 DEF Start, FinalStatsAreFinal, Ended
  <2>6. CASE Finish BY <1>0, <2>6 DEF Finish, FinalStatsAreFinal, Ended, Stats
  <2>7. CASE CloseConn BY <1>0, <2>7 DEF CloseConn, FinalStatsAreFinal, Ended, Stats
  <2> QED BY <1>4, <2>1, <2>2, <2>3, <2>4, <2>5, <2>6, <2>7 DEF MainStep
<1>5. CASE \E g \in Goroutines : GoReturn(g)
  BY <1>0, <1>5 DEF GoReturn, FinalStatsAreFinal, Ended, Stats
<1> QED BY <1>1, <1>2, <1>3, <1>4, <1>5, StepSummary

\* Whatever the goroutines were doing when the run ended, nothing is counted
\* after the statistics that OnFinish gets.
THEOREM FinalStats == Spec => []FinalStatsAreFinal
<1>1. Init => FinalStatsAreFinal
  BY PingerAssumption DEF Init, FinalStatsAreFinal, Ended, At, Actors, StopLabels
<1>2. TypeOK /\ PhaseInv /\ ResumeInv /\ FinalStatsAreFinal /\ [Next]_vars
        => FinalStatsAreFinal'
  BY FinalStep
<1> QED BY <1>1, <1>2, TypeCorrect, PhaseCorrect, ResumeCorrect, PTL DEF Spec

-----------------------------------------------------------------------------
(***************************************************************************)
(* The errors.  A goroutine with an error is on its way out; the errgroup  *)
(* has an error as soon as one goroutine with an error is gone; and the    *)
(* context's error has a cause that came first.                            *)
(***************************************************************************)
ErrorInv ==
  /\ \A g \in Goroutines : err[g] # "nil" => At(g) \in Gone
  /\ At("main") \in {"setup", "onSetup"} => \A g \in Goroutines : err[g] = "nil"
  /\ groupErr = "nil" <=> \A g \in Goroutines : pc[g] = "exited" => err[g] = "nil"
  /\ \A g \in Goroutines : err[g] = "ctx" => g = "watcher" /\ GroupCtxDone
  /\ groupErr = "ctx" => ctxDone
  /\ Ended => runErr = groupErr

\* No step loses or invents an error.
LEMMA ErrorStep ==
  ASSUME TypeOK, PhaseInv, ResumeInv, ErrorInv, [Next]_vars
  PROVE  ErrorInv'
<1> USE PingerAssumption
    DEF At, StopLabels, CallbackLabels, Gone, Actors, Goroutines, GroupCtxDone
<1>0. /\ pc \in [Actors -> Labels]
      /\ resume \in [Actors -> {"exited", "return", "returned"} \cup CallbackLabels]
      /\ err \in [Goroutines -> Errors]
  BY DEF TypeOK
<1>1. CASE Inner
  <2>1. /\ UNCHANGED <<err, groupErr, runErr>> /\ (ctxDone => ctxDone')
        /\ At("main")' = At("main")
        /\ \A g \in Goroutines : /\ pc'[g] = "exited" <=> pc[g] = "exited"
                                 /\ At(g)' \in Gone <=> At(g) \in Gone
    BY <1>1 DEF Inner, InnerData, InnerPlaces
  <2> HIDE DEF At, Gone, Goroutines
  <2> QED BY <2>1 DEF ErrorInv, Ended
<1>2. CASE LeaveStep
  <2>1. PICK g \in Goroutines, e \in Errors : Leaves(g, e) BY <1>2 DEF LeaveStep
  <2>2. At("main") = "wait" /\ At("main")' = "wait"
    BY <1>0, <2>1 DEF Leaves
  <2> QED BY <1>0, <2>1, <2>2 DEF Leaves, ErrorInv, Ended
<1>3. CASE WatchDone BY <1>0, <1>3 DEF WatchDone, ErrorInv, Ended
<1>4. CASE MainStep
  <2>1. CASE Run BY <1>0, <2>1 DEF Run, ErrorInv, Ended
  <2>2. CASE SetupFails BY <1>0, <2>2 DEF SetupFails, ErrorInv, Ended
  <2>3. CASE ListenFails BY <1>0, <2>3 DEF ListenFails, ErrorInv, Ended
  <2>4. CASE SetupOK BY <1>0, <2>4 DEF SetupOK, ErrorInv, Ended
  <2>5. CASE Start BY <1>0, <2>5 DEF Start, ErrorInv, Ended
  <2>6. CASE Finish BY <1>0, <2>6 DEF Finish, ErrorInv, Ended
  <2>7. CASE CloseConn BY <1>0, <2>7 DEF CloseConn, ErrorInv, Ended
  <2> QED BY <1>4, <2>1, <2>2, <2>3, <2>4, <2>5, <2>6, <2>7 DEF MainStep
<1>5. CASE \E g \in Goroutines : GoReturn(g)
  <2>1. PICK g \in Goroutines : GoReturn(g) BY <1>5
  <2>2. At("main") = "wait" /\ At("main")' = "wait" /\ pc[g] = "return"
    BY <1>0, <2>1 DEF GoReturn, PhaseInv
  <2> QED BY <1>0, <2>1, <2>2 DEF GoReturn, ErrorInv, Ended
<1> QED BY <1>1, <1>2, <1>3, <1>4, <1>5, StepSummary

\* ErrorInv is an invariant.
LEMMA ErrorCorrect == Spec => []ErrorInv
<1>1. Init => ErrorInv
  BY PingerAssumption DEF Init, ErrorInv, Ended, At, Actors, Goroutines, StopLabels
<1>2. TypeOK /\ PhaseInv /\ ResumeInv /\ ErrorInv /\ [Next]_vars => ErrorInv'
  BY ErrorStep
<1> QED BY <1>1, <1>2, TypeCorrect, PhaseCorrect, ResumeCorrect, PTL DEF Spec

\* Run returns nil exactly if no goroutine failed, and the context's error only
\* if the caller's context was cancelled, in whichever order they return.
THEOREM RunErrorsAreTrue == Spec => []RunError
<1>1. PhaseInv /\ ErrorInv => RunError
  BY DEF PhaseInv, ErrorInv, RunError, Ended
<1> QED BY <1>1, PhaseCorrect, ErrorCorrect, PTL

-----------------------------------------------------------------------------
(***************************************************************************)
(* Why a first run ends.                                                   *)
(***************************************************************************)
\* The reasons that do not come from outside.
Cause ==
  \/ AllReceived
  \/ \E g \in Goroutines : err[g] # "nil"
  \/ runErr \in {"setup", "listen"}

\* The run is over or somebody is about to end it.
Ending ==
  \/ done
  \/ \E a \in Actors : pc[a] \in StopLabels
  \/ At("main") = "wait" /\ \E g \in Goroutines : At(g) \in Gone
  \/ At("main") \in {"onFinish", "returned"}

CauseInv ==
  /\ runs = 0 <=> At("main") = "idle"
  /\ At("main") \in {"setup", "onSetup", "wait"} => runErr = "nil"
  /\ runs <= 1 /\ ~interrupted => ~ctxDone /\ ~timeoutC
  /\ runs <= 1 /\ ~interrupted /\ Ending => runs = 1 /\ Cause

\* A run that nobody interrupts does not begin to end without a cause.
LEMMA CauseStep ==
  ASSUME TypeOK, TypeOK', PhaseInv, ResumeInv, ErrorInv, CauseInv, [Next]_vars
  PROVE  CauseInv'
<1> USE PingerAssumption
    DEF At, StopLabels, CallbackLabels, Gone, Actors, Goroutines, AllReceived
<1>0. /\ pc \in [Actors -> Labels]
      /\ resume \in [Actors -> {"exited", "return", "returned"} \cup CallbackLabels]
      /\ err \in [Goroutines -> Errors] /\ PacketsRecv \in Nat /\ runs \in Nat
  BY DEF TypeOK
<1>1. CASE Inner
  <2>1. /\ UNCHANGED <<err, runErr, runs>> /\ PacketsRecv' >= PacketsRecv
        /\ At("main")' = At("main")
        /\ \A g \in Goroutines : At(g)' \in Gone <=> At(g) \in Gone
        /\ ~interrupted' => /\ ~interrupted
                            /\ (timeoutC' => timeoutC) /\ (ctxDone' => ctxDone)
                            /\ done' => done \/ \E a \in Actors : pc[a] \in StopLabels
                            /\ \A a \in Actors :
                                 pc'[a] \in StopLabels => pc[a] \in StopLabels
    BY <1>1 DEF Inner, InnerData, InnerPlaces, InnerCounts
  <2> HIDE DEF At, Gone, Goroutines, Actors, StopLabels
  <2>2. PacketsRecv' \in Nat BY DEF TypeOK
  <2>3. Cause => Cause'
    BY <1>0, <2>1, <2>2 DEF Cause
  <2>4. ~interrupted' /\ Ending' => ~interrupted /\ Ending
    BY <2>1 DEF Ending
  <2> QED BY <2>1, <2>3, <2>4 DEF CauseInv
<1>2. CASE LeaveStep
  <2>1. PICK g \in Goroutines, e \in Errors : Leaves(g, e) BY <1>2 DEF LeaveStep
  <2>2. /\ At("main") = "wait" /\ At("main")' = "wait" /\ At(g) \notin Gone
        /\ UNCHANGED <<runErr, runs, interrupted, ctxDone, PacketsRecv>>
        /\ (timeoutC' => timeoutC)
        /\ e = "nil" => done \/ timeoutC \/ AllReceived
        /\ err' = [err EXCEPT ![g] = e]
    BY <1>0, <2>1 DEF Leaves
  <2>3. \A h \in Goroutines : err[h] # "nil" => err'[h] = err[h]
    BY <1>0, <2>2 DEF ErrorInv
  <2>4. Cause \/ AllReceived \/ e # "nil" => Cause'
    <3>1. err'[g] = e BY <1>0, <2>2
    <3> QED BY <2>2, <2>3, <3>1 DEF Cause
  <2>5. ASSUME runs <= 1, ~interrupted PROVE Cause'
    <3>1. ~timeoutC BY <2>5 DEF CauseInv
    <3>2. done => Cause BY <2>5 DEF CauseInv, Ending
    <3> QED BY <2>2, <2>4, <3>1, <3>2
  <2>6. runs # 0 /\ runErr = "nil" BY <2>2 DEF CauseInv
  <2>7. runs <= 1 /\ ~interrupted => ~ctxDone' /\ ~timeoutC' /\ runs = 1
    BY <1>0, <2>2, <2>6 DEF CauseInv
  <2> HIDE DEF At
  <2> QED BY <2>2, <2>5, <2>6, <2>7 DEF CauseInv
<1>3. ASSUME WatchDone \/ \E g \in Goroutines : GoReturn(g) PROVE CauseInv'
  <2>1. /\ UNCHANGED <<done, err, runErr, runs, interrupted, ctxDone, timeoutC, PacketsRecv>>
    BY <1>3 DEF WatchDone, GoReturn
  <2>2. At("main") = "wait" /\ At("main")' = "wait"
    BY <1>0, <1>3 DEF WatchDone, GoReturn, PhaseInv
  <2>3. Ending
    BY <1>3, <2>2 DEF WatchDone, GoReturn, Ending
  <2>4. Cause' <=> Cause BY <2>1 DEF Cause
  <2> HIDE DEF At
  <2> QED BY <2>1, <2>2, <2>3, <2>4 DEF CauseInv
<1>4. CASE MainStep
  <2>1. CASE Run
    <3>1. /\ runs' = runs + 1 /\ At("main")' = "setup" /\ runErr' = "nil" /\ ctxDone' = FALSE
          /\ UNCHANGED <<done, interrupted, timeoutC>>
          /\ \A a \in Actors : pc'[a] \in StopLabels => pc[a] \in StopLabels
      BY <1>0, <2>1 DEF Run
    <3>2. Ending' => Ending BY <3>1 DEF Ending
    <3>3. runs' <= 1 => runs = 0 BY <1>0, <3>1
    <3> HIDE DEF At
    <3> QED BY <1>0, <3>1, <3>2, <3>3 DEF CauseInv
  <2>2. CASE SetupFails \/ ListenFails
    <3>1. /\ At("main") = "setup" /\ At("main")' = "returned"
          /\ runErr' \in {"setup", "listen"}
          /\ UNCHANGED <<runs, interrupted, ctxDone, timeoutC>>
      BY <1>0, <2>2 DEF SetupFails, ListenFails
    <3>2. Cause' BY <3>1 DEF Cause
    <3> HIDE DEF At
    <3> QED BY <1>0, <3>1, <3>2 DEF CauseInv
  <2>3. CASE SetupOK \/ Start
    <3>1. /\ At("main") \in {"setup", "onSetup"} /\ At("main")' \in {"onSetup", "wait"}
          /\ UNCHANGED <<done, err, runErr, runs, interrupted, ctxDone, PacketsRecv>>
          /\ \A a \in Actors : pc'[a] \in StopLabels => pc[a] \in StopLabels
          /\ At("main")' = "wait" => \A g \in Goroutines : At(g)' \notin Gone
      BY <1>0, <2>3 DEF SetupOK, Start
    <3>2. timeoutC' => timeoutC BY <2>3, Zenon DEF SetupOK, Start
    <3>3. Ending' => Ending BY <3>1 DEF Ending
    <3>4. Cause' <=> Cause BY <3>1 DEF Cause
    <3> HIDE DEF At
    <3> QED BY <1>0, <3>1, <3>2, <3>3, <3>4 DEF CauseInv
  <2>4. CASE Finish
    <3>1. /\ At("main") = "wait" /\ At("main")' = "onFinish"
          /\ UNCHANGED <<err, runs, interrupted, ctxDone, timeoutC, PacketsRecv>>
      BY <1>0, <2>4 DEF Finish
    <3>2. Ending /\ runErr = "nil"
      BY <1>0, <2>4, <3>1 DEF Finish, WaitReturns, Ending, CauseInv
    <3>3. Cause => Cause' BY <3>1, <3>2 DEF Cause
    <3> HIDE DEF At
    <3> QED BY <1>0, <3>1, <3>2, <3>3 DEF CauseInv
  <2>5. CASE CloseConn
    <3>1. /\ At("main") = "onFinish" /\ At("main")' = "returned"
          /\ UNCHANGED <<err, runErr, runs, interrupted, ctxDone, timeoutC, PacketsRecv>>
      BY <1>0, <2>5 DEF CloseConn
    <3>2. Ending BY <3>1 DEF Ending
    <3>3. Cause => Cause' BY <3>1 DEF Cause
    <3> HIDE DEF At
    <3> QED BY <1>0, <3>1, <3>2, <3>3 DEF CauseInv
  <2> QED BY <1>4, <2>1, <2>2, <2>3, <2>4, <2>5 DEF MainStep
<1> QED BY <1>1, <1>2, <1>3, <1>4, StepSummary

\* CauseInv is an invariant.
LEMMA CauseCorrect == Spec => []CauseInv
<1>1. Init => CauseInv
  BY PingerAssumption
     DEF Init, CauseInv, Ending, At, Actors, Goroutines, StopLabels
<1>2. TypeOK /\ TypeOK' /\ PhaseInv /\ ResumeInv /\ ErrorInv /\ CauseInv /\ [Next]_vars
        => CauseInv'
  BY CauseStep
<1> QED BY <1>1, <1>2, TypeCorrect, PhaseCorrect, ResumeCorrect, ErrorCorrect, PTL
        DEF Spec

\* The first run of a Pinger that nobody stops, cancels or lets time out, and
\* that returns no error, has received the Count replies it was asked for.
THEOREM FirstRunCompletes == Spec => []FirstRunUntilInterrupted
<1>1. PhaseInv /\ ErrorInv /\ CauseInv => FirstRunUntilInterrupted
  <2> SUFFICES ASSUME PhaseInv, ErrorInv, CauseInv, runs = 1, Ended, runErr = "nil",
                      ~interrupted
               PROVE  Count > 0 /\ PacketsRecv >= Count
    BY Zenon DEF FirstRunUntilInterrupted, RunsUntilInterrupted
  <2>1. Ending BY DEF Ending, Ended
  <2>2. Cause BY <2>1 DEF CauseInv
  <2>3. \A g \in Goroutines : err[g] = "nil" BY DEF PhaseInv, ErrorInv, Ended
  <2> QED BY <2>2, <2>3 DEF Cause, AllReceived
<1> QED BY <1>1, PhaseCorrect, ErrorCorrect, CauseCorrect, PTL
=============================================================================

---------------------------- MODULE PingerProofs ----------------------------
(***************************************************************************)
(* Safety of Pinger for every value of its constants: any Count, any       *)
(* number of users, runs, requests and copies of replies, any channel      *)
(* capacity and any last sequence number.                                  *)
(***************************************************************************)
EXTENDS Pinger, FiniteSetTheorems, TLAPS

USE DEF vars, stopVars, groupVars, ioVars, loopVars, trackVars, statVars, netVars,
        dataVars, histVars, Goto, CallStop, LoopFrame


\* The flags stay Boolean (apart from the rest of TypeOK because only Zenon
\* reasons about Boolean-valued variables).
LEMMA FlagsStep == ASSUME FlagsOK, [Next]_vars PROVE FlagsOK'
<1> USE DEF FlagsOK
<1>1. ASSUME NEW a \in Actors, StopStep(a) PROVE FlagsOK'
  <2>1. CASE StopLock(a) BY <2>1, Zenon DEF StopLock
  <2>2. CASE StopCheck(a) BY <2>2, Zenon DEF StopCheck
  <2>3. CASE StopClose(a) BY <2>3, Zenon DEF StopClose
  <2>4. CASE CallbackStop(a) BY <2>4, Zenon DEF CallbackStop
  <2> QED BY <1>1, <2>1, <2>2, <2>3, <2>4 DEF StopStep
<1>2. CASE MainStep
  <2>1. CASE Run BY <2>1, Zenon DEF Run
  <2>2. CASE SetupFails BY <2>2, Zenon DEF SetupFails
  <2>3. CASE ListenFails BY <2>3, Zenon DEF ListenFails
  <2>4. CASE SetupOK BY <2>4, Zenon DEF SetupOK
  <2>5. CASE Start BY <2>5, Zenon DEF Start
  <2>6. CASE Finish BY <2>6, Zenon DEF Finish
  <2>7. CASE CloseConn BY <2>7, Zenon DEF CloseConn
  <2> QED BY <1>2, <2>1, <2>2, <2>3, <2>4, <2>5, <2>6, <2>7 DEF MainStep
<1>3. CASE GroupStep
  <2>1. CASE WatchCtx BY <2>1, Zenon DEF WatchCtx
  <2>2. CASE WatchDone BY <2>2, Zenon DEF WatchDone
  <2>3. CASE \E g \in Goroutines : GoReturn(g) BY <2>3, Zenon DEF GoReturn
  <2> QED BY <1>3, <2>1, <2>2, <2>3 DEF GroupStep
<1>4. CASE ReceiverStep
  <2> USE DEF RecvLeave, RecvGoto, ReadInto
  <2>1. CASE RecvDone BY <2>1, Zenon DEF RecvDone
  <2>2. CASE SetDeadlineFails BY <2>2, Zenon DEF SetDeadlineFails
  <2>3. CASE SetDeadline BY <2>3, Zenon DEF SetDeadline
  <2>4. CASE ReadTimeout BY <2>4, Zenon DEF ReadTimeout
  <2>5. CASE ReadAgain BY <2>5, Zenon DEF ReadAgain
  <2>6. CASE ReadFails BY <2>6, Zenon DEF ReadFails
  <2>7. CASE ReadAbort BY <2>7, Zenon DEF ReadAbort
  <2>8. CASE Deliver BY <2>8, Zenon DEF Deliver
  <2>9. CASE ReadNoise BY <2>9, Zenon DEF ReadNoise
  <2>10. CASE \E n \in DOMAIN wire : ReadReply(n) BY <2>10, Zenon DEF ReadReply
  <2> QED BY <1>4, <2>1, <2>2, <2>3, <2>4, <2>5, <2>6, <2>7, <2>8, <2>9,
            <2>10 DEF ReceiverStep
<1>5. CASE LoopStep
  <2> USE DEF LoopLeave, LoopGoto, EndIteration
  <2>1. CASE SelectDone BY <2>1, Zenon DEF SelectDone
  <2>2. CASE SelectTimeout BY <2>2, Zenon DEF SelectTimeout
  <2>3. CASE SelectIntervalStop BY <2>3, Zenon DEF SelectIntervalStop
  <2>4. CASE SelectIntervalSend BY <2>4, Zenon DEF SelectIntervalSend
  <2>5. CASE DiscardPacket BY <2>5, Zenon DEF DiscardPacket
  <2>6. CASE AcceptPacket BY <2>6, Zenon DEF AcceptPacket
  <2>7. CASE DuplicatePacket BY <2>7, Zenon DEF DuplicatePacket
  <2>8. CASE PacketDone BY <2>8, Zenon DEF PacketDone
  <2>9. CASE WriteEACCES BY <2>9, Zenon DEF WriteEACCES
  <2>10. CASE SetBroadcastFails BY <2>10, Zenon DEF SetBroadcastFails
  <2>11. CASE SetBroadcastFlag BY <2>11, Zenon DEF SetBroadcastFlag
  <2>12. CASE WriteENOBUFS BY <2>12, Zenon DEF WriteENOBUFS
  <2>13. CASE SendRetry BY <2>13, Zenon DEF SendRetry
  <2>14. CASE WriteFails BY <2>14, Zenon DEF WriteFails
  <2>15. CASE SendFailed BY <2>15, Zenon DEF SendFailed
  <2>16. CASE WriteOK BY <2>16, Zenon DEF WriteOK
  <2>17. CASE MarkSent BY <2>17, Zenon DEF MarkSent
  <2> QED BY <1>5, <2>1, <2>2, <2>3, <2>4, <2>5, <2>6, <2>7, <2>8, <2>9, <2>10,
            <2>11, <2>12, <2>13, <2>14, <2>15, <2>16, <2>17 DEF LoopStep
<1>6. CASE EnvironmentStep
  <2>1. CASE IntervalTick BY <2>1, Zenon DEF IntervalTick
  <2>2. CASE TimeoutTick BY <2>2, Zenon DEF TimeoutTick
  <2>3. CASE CancelCtx BY <2>3, Zenon DEF CancelCtx
  <2>4. CASE \E u \in Users : UserStop(u) BY <2>4, Zenon DEF UserStop
  <2> QED BY <1>6, <2>1, <2>2, <2>3, <2>4 DEF EnvironmentStep
<1>7. CASE UNCHANGED vars BY <1>7, Zenon
<1> HIDE DEF FlagsOK
<1> QED BY <1>1, <1>2, <1>3, <1>4, <1>5, <1>6, <1>7, Zenon DEF Next, Terminated

\* Every variable keeps its type in every step of every goroutine of Run, of
\* Stop and of the environment.
THEOREM TypeCorrect == Spec => []TypeOK
<1> USE PingerAssumption DEF TypeOK, Labels, StopLabels, CallbackLabels, Pair, Errors,
                             Actors, Goroutines
<1>1. Init => TypeOK
  <2>1. Init => FlagsOK BY Zenon DEF Init, FlagsOK
  <2> QED BY <2>1 DEF Init, NoPacket, Packet, ForeignUUID
<1>2. TypeOK /\ [Next]_vars => TypeOK'
  <2> SUFFICES ASSUME TypeOK, [Next]_vars PROVE TypeOK'
    OBVIOUS
  <2> FlagsOK' BY FlagsStep
  <2>1. ASSUME NEW a \in Actors, StopStep(a) PROVE TypeOK'
    <3>1. CASE StopLock(a) BY <3>1 DEF StopLock
    <3>2. CASE StopCheck(a) BY <3>2 DEF StopCheck
    <3>3. CASE StopClose(a) BY <3>3 DEF StopClose
    <3>4. CASE CallbackStop(a) BY <3>4 DEF CallbackStop
    <3> QED BY <2>1, <3>1, <3>2, <3>3, <3>4 DEF StopStep
  <2>2. CASE MainStep
    <3>1. CASE Run BY <3>1 DEF Run
    <3>2. CASE SetupFails BY <3>2 DEF SetupFails
    <3>3. CASE ListenFails BY <3>3 DEF ListenFails
    <3>4. CASE SetupOK BY <3>4 DEF SetupOK
    <3>5. CASE Start BY <3>5 DEF Start
    <3>6. CASE Finish BY <3>6 DEF Finish, Stats
    <3>7. CASE CloseConn BY <3>7 DEF CloseConn
    <3> QED BY <2>2, <3>1, <3>2, <3>3, <3>4, <3>5, <3>6, <3>7 DEF MainStep
  <2>3. CASE GroupStep
    <3>1. CASE WatchCtx BY <3>1 DEF WatchCtx, Leave
    <3>2. CASE WatchDone BY <3>2 DEF WatchDone
    <3>3. ASSUME NEW g \in Goroutines, GoReturn(g) PROVE TypeOK'
      BY <3>3 DEF GoReturn
    <3> QED BY <2>3, <3>1, <3>2, <3>3 DEF GroupStep
  <2>4. CASE ReceiverStep
    <3> USE DEF RecvLeave, RecvGoto, Leave
    <3>1. CASE RecvDone BY <3>1 DEF RecvDone
    <3>2. CASE SetDeadlineFails BY <3>2 DEF SetDeadlineFails
    <3>3. CASE SetDeadline BY <3>3 DEF SetDeadline
    <3>4. CASE ReadTimeout BY <3>4 DEF ReadTimeout
    <3>5. CASE ReadAgain BY <3>5 DEF ReadAgain
    <3>6. CASE ReadFails BY <3>6 DEF ReadFails
    <3>7. CASE ReadAbort BY <3>7 DEF ReadAbort
    <3>8. CASE Deliver BY <3>8 DEF Deliver
    <3>9. CASE ReadNoise BY <3>9 DEF ReadNoise, ReadInto
    <3>10. ASSUME NEW n \in DOMAIN wire, ReadReply(n) PROVE TypeOK'
      <4>1. ReplyTo(n) \in Packet
        <5>1. wire[n] \in Nat \X Nat /\ n \in Nat OBVIOUS
        <5> HIDE DEF TypeOK
        <5> QED BY <5>1, PingerAssumption DEF ReplyTo, Packet
      <4>2. copies' \in Seq(Nat) /\ Len(copies') = Len(wire)
        <5>1. copies' = [copies EXCEPT ![n] = copies[n] + 1] /\ n \in 1..Len(copies)
          BY <3>10 DEF ReadReply
        <5> HIDE DEF TypeOK
        <5>2. copies \in Seq(Nat) /\ Len(copies) = Len(wire) BY DEF TypeOK
        <5> QED BY <5>1, <5>2
      <4> QED BY <3>10, <4>1, <4>2 DEF ReadReply, ReadInto
    <3> QED BY <2>4, <3>1, <3>2, <3>3, <3>4, <3>5, <3>6, <3>7, <3>8, <3>9, <3>10
            DEF ReceiverStep
  <2>5. CASE LoopStep
    <3> USE DEF LoopLeave, Leave
    <3>0. EndIteration => /\ pc' \in [Actors -> Labels] /\ err' \in [Goroutines -> Errors]
                          /\ resume' \in [Actors -> {"exited", "return", "returned"}
                                                    \cup CallbackLabels]
      <4>1. CASE LoopLeave("nil") BY <4>1
      <4>2. CASE Goto("loop", "select") /\ UNCHANGED <<resume, err>> BY <4>2
      <4> HIDE DEF LoopLeave, Goto, TypeOK
      <4> QED BY <4>1, <4>2, Zenon DEF EndIteration
    <3>1. CASE SelectDone BY <3>1 DEF SelectDone
    <3>2. CASE SelectTimeout BY <3>2 DEF SelectTimeout
    <3>3. CASE SelectIntervalStop BY <3>3 DEF SelectIntervalStop
    <3>4. CASE SelectIntervalSend BY <3>4 DEF SelectIntervalSend
    <3>5. CASE DiscardPacket BY <3>0, <3>5 DEF DiscardPacket, TakePacket
    <3>6. CASE AcceptPacket
      <4>1. recvCh # <<>> /\ credited' = credited \cup {Head(recvCh).n}
        BY <3>6, Zenon DEF AcceptPacket, TakePacket
      <4>2. Head(recvCh).n \in Nat
        <5>1. recvCh \in Seq(Packet) OBVIOUS
        <5> HIDE DEF TypeOK
        <5>2. Head(recvCh) \in Packet BY <4>1, <5>1
        <5> QED BY <5>2 DEF Packet
      <4>3. awaiting' \in SUBSET Pair
        BY <3>6 DEF AcceptPacket, Forget
      <4>4. recvCh' \in Seq(Packet) /\ pc' \in [Actors -> Labels]
        BY <3>6 DEF AcceptPacket, TakePacket
      <4>5. PacketsRecv' \in Nat BY <3>6 DEF AcceptPacket
      <4>6. credited' \in SUBSET Nat BY <4>1, <4>2
      <4> QED BY <3>6, <4>3, <4>4, <4>5, <4>6 DEF AcceptPacket
    <3>7. CASE DuplicatePacket BY <3>7 DEF DuplicatePacket, TakePacket
    <3>8. CASE PacketDone BY <3>0, <3>8 DEF PacketDone
    <3>9. CASE WriteEACCES BY <3>9 DEF WriteEACCES, LoopGoto
    <3>10. CASE SetBroadcastFails BY <3>10 DEF SetBroadcastFails, LoopGoto
    <3>11. CASE SetBroadcastFlag BY <3>11 DEF SetBroadcastFlag
    <3>12. CASE WriteENOBUFS BY <3>12 DEF WriteENOBUFS, LoopGoto
    <3>13. CASE SendRetry BY <3>13 DEF SendRetry, LoopGoto
    <3>14. CASE WriteFails BY <3>14 DEF WriteFails, LoopGoto
    <3>15. CASE SendFailed
      <4>1. LoopLeave("send") \/ EndIteration BY <3>15, Zenon DEF SendFailed
      <4>2. UNCHANGED <<sawOpen, lock, groupErr, runErr, recvCh, held, site, trackVars,
                        statVars, netVars, credited, finalStats, runs>>
        BY <3>15, Zenon DEF SendFailed
      <4>3. CASE LoopLeave("send") BY <4>2, <4>3
      <4>4. CASE EndIteration BY <3>0, <4>2, <4>4
      <4> QED BY <4>1, <4>3, <4>4
    <3>16. CASE WriteOK
      <4>1. wire' \in Seq(Pair) /\ Len(wire') = Len(wire) + 1
        BY <3>16 DEF WriteOK
      <4>2. copies' \in Seq(Nat) /\ Len(copies') = Len(copies) + 1
        BY <3>16 DEF WriteOK
      <4> QED BY <3>16, <4>1, <4>2 DEF WriteOK, LoopGoto
    <3>17. CASE MarkSent
      <4>1. epoch' \in Nat /\ sequence' \in 0..MaxSeq
        BY <3>17 DEF MarkSent, NextNumber
      <4>2. awaiting' \in SUBSET Pair /\ PacketsSent' \in Nat
        BY <3>17 DEF MarkSent
      <4>3. (Goto("loop", "select") /\ UNCHANGED <<resume, err>>) \/ EndIteration
        BY <3>17, Zenon DEF MarkSent
      <4>4. UNCHANGED <<sawOpen, lock, groupErr, runErr, recvCh, held, site, PacketsRecv,
                        PacketsRecvDuplicates, netVars, credited, finalStats, runs>>
        BY <3>17, Zenon DEF MarkSent
      <4>5. CASE Goto("loop", "select") /\ UNCHANGED <<resume, err>>
        BY <4>1, <4>2, <4>4, <4>5
      <4>6. CASE EndIteration BY <3>0, <4>1, <4>2, <4>4, <4>6
      <4> QED BY <4>3, <4>5, <4>6
    <3> QED BY <2>5, <3>1, <3>2, <3>3, <3>4, <3>5, <3>6, <3>7, <3>8, <3>9, <3>10,
               <3>11, <3>12, <3>13, <3>14, <3>15, <3>16, <3>17 DEF LoopStep
  <2>6. CASE EnvironmentStep
    <3>1. CASE IntervalTick BY <3>1 DEF IntervalTick
    <3>2. CASE TimeoutTick BY <3>2 DEF TimeoutTick
    <3>3. CASE CancelCtx BY <3>3 DEF CancelCtx
    <3>4. ASSUME NEW u \in Users, UserStop(u) PROVE TypeOK'
      BY <3>4 DEF UserStop
    <3> QED BY <2>6, <3>1, <3>2, <3>3, <3>4 DEF EnvironmentStep
  <2>7. CASE UNCHANGED vars BY <2>7
  <2> QED BY <2>1, <2>2, <2>3, <2>4, <2>5, <2>6, <2>7 DEF Next, Terminated
<1> QED BY <1>1, <1>2, PTL DEF Spec

-----------------------------------------------------------------------------
(***************************************************************************)
(* The goroutines run only while Run waits for them.                       *)
(***************************************************************************)
PhaseInv == At("main") # "wait" => \A g \in Goroutines : pc[g] = "exited"

\* Goroutines are started by run and are gone when g.Wait() returns.
LEMMA PhaseStep == ASSUME TypeOK, PhaseInv, [Next]_vars PROVE PhaseInv'
<1> USE PingerAssumption DEF PhaseInv, At, StopLabels, CallbackLabels, Actors, Goroutines
<1>0. /\ pc \in [Actors -> Labels]
      /\ resume \in [Actors -> {"exited", "return", "returned"} \cup CallbackLabels]
  BY DEF TypeOK
<1>1. ASSUME NEW a \in Actors, StopStep(a) PROVE PhaseInv'
  <2>1. CASE StopLock(a) BY <1>0, <2>1 DEF StopLock
  <2>2. CASE StopCheck(a) BY <1>0, <2>2 DEF StopCheck
  <2>3. CASE StopClose(a) BY <1>0, <2>3 DEF StopClose
  <2>4. CASE CallbackStop(a) BY <1>0, <2>4 DEF CallbackStop
  <2> QED BY <1>1, <2>1, <2>2, <2>3, <2>4 DEF StopStep
<1>2. CASE MainStep
  <2>1. CASE Run BY <1>0, <2>1 DEF Run
  <2>2. CASE SetupFails BY <1>0, <2>2 DEF SetupFails
  <2>3. CASE ListenFails BY <1>0, <2>3 DEF ListenFails
  <2>4. CASE SetupOK BY <1>0, <2>4 DEF SetupOK
  <2>5. CASE Start BY <1>0, <2>5 DEF Start
  <2>6. CASE Finish BY <1>0, <2>6 DEF Finish, WaitReturns
  <2>7. CASE CloseConn BY <1>0, <2>7 DEF CloseConn
  <2> QED BY <1>2, <2>1, <2>2, <2>3, <2>4, <2>5, <2>6, <2>7 DEF MainStep
<1>3. CASE GroupStep
  <2> USE DEF Leave
  <2>1. CASE WatchCtx BY <1>0, <2>1 DEF WatchCtx
  <2>2. CASE WatchDone BY <1>0, <2>2 DEF WatchDone
  <2>3. CASE \E g \in Goroutines : GoReturn(g) BY <1>0, <2>3 DEF GoReturn
  <2> QED BY <1>3, <2>1, <2>2, <2>3 DEF GroupStep
<1>4. CASE ReceiverStep
  <2> USE DEF RecvLeave, RecvGoto, ReadInto, Leave
  <2>1. CASE RecvDone BY <1>0, <2>1 DEF RecvDone
  <2>2. CASE SetDeadlineFails BY <1>0, <2>2 DEF SetDeadlineFails
  <2>3. CASE SetDeadline BY <1>0, <2>3 DEF SetDeadline
  <2>4. CASE ReadTimeout BY <1>0, <2>4 DEF ReadTimeout
  <2>5. CASE ReadAgain BY <1>0, <2>5 DEF ReadAgain
  <2>6. CASE ReadFails BY <1>0, <2>6 DEF ReadFails
  <2>7. CASE ReadAbort BY <1>0, <2>7 DEF ReadAbort
  <2>8. CASE Deliver BY <1>0, <2>8 DEF Deliver
  <2>9. CASE ReadNoise BY <1>0, <2>9 DEF ReadNoise
  <2>10. CASE \E n \in DOMAIN wire : ReadReply(n) BY <1>0, <2>10 DEF ReadReply
  <2> QED BY <1>4, <2>1, <2>2, <2>3, <2>4, <2>5, <2>6, <2>7, <2>8, <2>9,
            <2>10 DEF ReceiverStep
<1>5. CASE LoopStep
  <2> USE DEF LoopLeave, LoopGoto, EndIteration, Leave, TakePacket
  <2>1. CASE SelectDone BY <1>0, <2>1 DEF SelectDone
  <2>2. CASE SelectTimeout BY <1>0, <2>2 DEF SelectTimeout
  <2>3. CASE SelectIntervalStop BY <1>0, <2>3 DEF SelectIntervalStop
  <2>4. CASE SelectIntervalSend BY <1>0, <2>4 DEF SelectIntervalSend
  <2>5. CASE DiscardPacket BY <1>0, <2>5 DEF DiscardPacket
  <2>6. CASE AcceptPacket BY <1>0, <2>6 DEF AcceptPacket
  <2>7. CASE DuplicatePacket BY <1>0, <2>7 DEF DuplicatePacket
  <2>8. CASE PacketDone BY <1>0, <2>8 DEF PacketDone
  <2>9. CASE WriteEACCES BY <1>0, <2>9 DEF WriteEACCES
  <2>10. CASE SetBroadcastFails BY <1>0, <2>10 DEF SetBroadcastFails
  <2>11. CASE SetBroadcastFlag BY <1>0, <2>11 DEF SetBroadcastFlag
  <2>12. CASE WriteENOBUFS BY <1>0, <2>12 DEF WriteENOBUFS
  <2>13. CASE SendRetry BY <1>0, <2>13 DEF SendRetry
  <2>14. CASE WriteFails BY <1>0, <2>14 DEF WriteFails
  <2>15. CASE SendFailed BY <1>0, <2>15 DEF SendFailed
  <2>16. CASE WriteOK BY <1>0, <2>16 DEF WriteOK
  <2>17. CASE MarkSent BY <1>0, <2>17 DEF MarkSent
  <2> QED BY <1>5, <2>1, <2>2, <2>3, <2>4, <2>5, <2>6, <2>7, <2>8, <2>9, <2>10,
            <2>11, <2>12, <2>13, <2>14, <2>15, <2>16, <2>17 DEF LoopStep
<1>6. CASE EnvironmentStep
  <2>1. CASE IntervalTick BY <1>0, <2>1 DEF IntervalTick
  <2>2. CASE TimeoutTick BY <1>0, <2>2 DEF TimeoutTick
  <2>3. CASE CancelCtx BY <1>0, <2>3 DEF CancelCtx
  <2>4. CASE \E u \in Users : UserStop(u) BY <1>0, <2>4 DEF UserStop
  <2> QED BY <1>6, <2>1, <2>2, <2>3, <2>4 DEF EnvironmentStep
<1>7. CASE UNCHANGED vars BY <1>7
<1> QED BY <1>1, <1>2, <1>3, <1>4, <1>5, <1>6, <1>7 DEF Next, Terminated

\* No goroutine of a run exists outside of its g.Wait().
LEMMA PhaseCorrect == Spec => []PhaseInv
<1>1. Init => PhaseInv
  BY PingerAssumption DEF Init, PhaseInv, At, Actors, Goroutines, StopLabels
<1>2. TypeOK /\ PhaseInv /\ [Next]_vars => PhaseInv' BY PhaseStep
<1> QED BY <1>1, <1>2, TypeCorrect, PTL DEF Spec

-----------------------------------------------------------------------------
(***************************************************************************)
(* Stop closes done once.  The mutex is held exactly between StopLock and  *)
(* StopClose, so nobody can close done between another caller's check and  *)
(* its close.                                                              *)
(***************************************************************************)
Holding == {"stopCheck", "stopClose"}

MutexInv ==
  \A a \in Actors : (pc[a] \in Holding <=> lock = a)

\* A step that is not one of Stop's leaves the mutex, done and the callers
\* that hold the mutex alone.
OutsideStop ==
  /\ lock' = lock /\ done' = done /\ sawOpen' = sawOpen
  /\ \A b \in Actors : pc'[b] # pc[b] => pc[b] \notin Holding /\ pc'[b] \notin Holding

\* Only the steps of Stop touch its mutex, the channel done and the callers
\* that hold the mutex.
LEMMA OutsideStopStep ==
  ASSUME TypeOK, PhaseInv,
         MainStep \/ GroupStep \/ ReceiverStep \/ LoopStep \/ EnvironmentStep
  PROVE  OutsideStop
<1> USE PingerAssumption DEF OutsideStop, Holding, Actors, Goroutines
<1>0. pc \in [Actors -> Labels] BY DEF TypeOK
<1>1. CASE MainStep
  <2>1. CASE Run BY <1>0, <2>1 DEF Run
  <2>2. CASE SetupFails BY <1>0, <2>2 DEF SetupFails
  <2>3. CASE ListenFails BY <1>0, <2>3 DEF ListenFails
  <2>4. CASE SetupOK BY <1>0, <2>4 DEF SetupOK
  <2>5. CASE Start
    BY <1>0, <2>5 DEF Start, PhaseInv, At, StopLabels
  <2>6. CASE Finish BY <1>0, <2>6 DEF Finish
  <2>7. CASE CloseConn BY <1>0, <2>7 DEF CloseConn
  <2> QED BY <1>1, <2>1, <2>2, <2>3, <2>4, <2>5, <2>6, <2>7 DEF MainStep
<1>2. CASE GroupStep
  <2> USE DEF Leave
  <2>1. CASE WatchCtx BY <1>0, <2>1 DEF WatchCtx
  <2>2. CASE WatchDone BY <1>0, <2>2 DEF WatchDone
  <2>3. CASE \E g \in Goroutines : GoReturn(g) BY <1>0, <2>3 DEF GoReturn
  <2> QED BY <1>2, <2>1, <2>2, <2>3 DEF GroupStep
<1>3. CASE ReceiverStep
  <2> USE DEF RecvLeave, RecvGoto, ReadInto, Leave
  <2>1. CASE RecvDone BY <1>0, <2>1 DEF RecvDone
  <2>2. CASE SetDeadlineFails BY <1>0, <2>2 DEF SetDeadlineFails
  <2>3. CASE SetDeadline BY <1>0, <2>3 DEF SetDeadline
  <2>4. CASE ReadTimeout BY <1>0, <2>4 DEF ReadTimeout
  <2>5. CASE ReadAgain BY <1>0, <2>5 DEF ReadAgain
  <2>6. CASE ReadFails BY <1>0, <2>6 DEF ReadFails
  <2>7. CASE ReadAbort BY <1>0, <2>7 DEF ReadAbort
  <2>8. CASE Deliver BY <1>0, <2>8 DEF Deliver
  <2>9. CASE ReadNoise BY <1>0, <2>9 DEF ReadNoise
  <2>10. CASE \E n \in DOMAIN wire : ReadReply(n) BY <1>0, <2>10 DEF ReadReply
  <2> QED BY <1>3, <2>1, <2>2, <2>3, <2>4, <2>5, <2>6, <2>7, <2>8, <2>9,
            <2>10 DEF ReceiverStep
<1>4. CASE LoopStep
  <2> USE DEF LoopLeave, LoopGoto, EndIteration, Leave, TakePacket
  <2>1. CASE SelectDone BY <1>0, <2>1 DEF SelectDone
  <2>2. CASE SelectTimeout BY <1>0, <2>2 DEF SelectTimeout
  <2>3. CASE SelectIntervalStop BY <1>0, <2>3 DEF SelectIntervalStop
  <2>4. CASE SelectIntervalSend BY <1>0, <2>4 DEF SelectIntervalSend
  <2>5. CASE DiscardPacket BY <1>0, <2>5 DEF DiscardPacket
  <2>6. CASE AcceptPacket BY <1>0, <2>6 DEF AcceptPacket
  <2>7. CASE DuplicatePacket BY <1>0, <2>7 DEF DuplicatePacket
  <2>8. CASE PacketDone BY <1>0, <2>8 DEF PacketDone
  <2>9. CASE WriteEACCES BY <1>0, <2>9 DEF WriteEACCES
  <2>10. CASE SetBroadcastFails BY <1>0, <2>10 DEF SetBroadcastFails
  <2>11. CASE SetBroadcastFlag BY <1>0, <2>11 DEF SetBroadcastFlag
  <2>12. CASE WriteENOBUFS BY <1>0, <2>12 DEF WriteENOBUFS
  <2>13. CASE SendRetry BY <1>0, <2>13 DEF SendRetry
  <2>14. CASE WriteFails BY <1>0, <2>14 DEF WriteFails
  <2>15. CASE SendFailed BY <1>0, <2>15 DEF SendFailed
  <2>16. CASE WriteOK BY <1>0, <2>16 DEF WriteOK
  <2>17. CASE MarkSent BY <1>0, <2>17 DEF MarkSent
  <2> QED BY <1>4, <2>1, <2>2, <2>3, <2>4, <2>5, <2>6, <2>7, <2>8, <2>9, <2>10,
            <2>11, <2>12, <2>13, <2>14, <2>15, <2>16, <2>17 DEF LoopStep
<1>5. CASE EnvironmentStep
  <2>1. CASE IntervalTick BY <1>0, <2>1 DEF IntervalTick
  <2>2. CASE TimeoutTick BY <1>0, <2>2 DEF TimeoutTick
  <2>3. CASE CancelCtx BY <1>0, <2>3 DEF CancelCtx
  <2>4. CASE \E u \in Users : UserStop(u) BY <1>0, <2>4 DEF UserStop
  <2> QED BY <1>5, <2>1, <2>2, <2>3, <2>4 DEF EnvironmentStep
<1> QED BY <1>1, <1>2, <1>3, <1>4, <1>5

\* Under the mutex, done does not change between the check and the close.
LEMMA MutexStep ==
  ASSUME TypeOK, PhaseInv, MutexInv, NoDoubleClose, [Next]_vars
  PROVE  MutexInv' /\ NoDoubleClose'
<1> USE DEF MutexInv, NoDoubleClose
<1>0. /\ pc \in [Actors -> Labels] /\ sawOpen \in [Actors -> BOOLEAN]
      /\ resume \in [Actors -> {"exited", "return", "returned"} \cup CallbackLabels]
      /\ "none" \notin Actors
  BY PingerAssumption DEF TypeOK, Actors, Goroutines
<1>1. OutsideStop => MutexInv' /\ NoDoubleClose'
  BY <1>0 DEF OutsideStop, Holding
<1>2. ASSUME NEW a \in Actors, StopStep(a) PROVE MutexInv' /\ NoDoubleClose'
  <2>1. CASE StopLock(a)
    BY <1>0, <2>1 DEF StopLock, CanLock, Holding
  <2>2. CASE StopCheck(a)
    <3>1. MutexInv' BY <1>0, <2>2 DEF StopCheck, Holding
    <3>2. ASSUME NEW b \in Actors, pc'[b] = "stopClose", sawOpen'[b] PROVE ~done'
      <4>1. b = a BY <1>0, <2>2, <3>2 DEF StopCheck, Holding
      <4>2. sawOpen'[a] = ~done /\ done' = done BY <1>0, <2>2, Zenon DEF StopCheck
      <4> QED BY <3>2, <4>1, <4>2, Zenon
    <3> QED BY <3>1, <3>2
  <2>3. CASE StopClose(a)
    <3>1. \A b \in Actors : pc'[b] # "stopClose"
      BY <1>0, <2>3 DEF StopClose, Holding, CallbackLabels
    <3>2. MutexInv' BY <1>0, <2>3 DEF StopClose, Holding, CallbackLabels
    <3> QED BY <3>1, <3>2
  <2>4. CASE CallbackStop(a)
    <3>1. OutsideStop
      BY <1>0, <2>4 DEF CallbackStop, OutsideStop, Holding, CallbackLabels
    <3> QED BY <1>1, <3>1
  <2> QED BY <1>2, <2>1, <2>2, <2>3, <2>4 DEF StopStep
<1>3. CASE UNCHANGED vars BY <1>3
<1> QED BY <1>1, <1>2, <1>3, OutsideStopStep DEF Next, Terminated

\* However many goroutines, callbacks and users call Stop, and whenever, done
\* is closed at most once: Stop never panics.
THEOREM DoneIsClosedOnce == Spec => []NoDoubleClose
<1>1. Init => MutexInv /\ NoDoubleClose
  BY PingerAssumption DEF Init, MutexInv, NoDoubleClose, Holding, Actors, Goroutines
<1>2. TypeOK /\ PhaseInv /\ MutexInv /\ NoDoubleClose /\ [Next]_vars
        => MutexInv' /\ NoDoubleClose'
  BY MutexStep
<1> QED BY <1>1, <1>2, TypeCorrect, PhaseCorrect, PTL DEF Spec

-----------------------------------------------------------------------------
(***************************************************************************)
(* The number of requests.  SendBound is not inductive: what allows the    *)
(* next send was decided when runLoop called sendICMP, several steps and a *)
(* callback before PacketsSent grows.                                      *)
(***************************************************************************)
SendInv ==
  Count > 0 =>
    /\ runs = 0 => PacketsSent = 0 /\ At("main") = "idle"
    /\ runs > 0 => PacketsSent <= Count + runs - 1
    /\ At("main") \in {"setup", "onSetup"} => PacketsSent <= Count + runs - 2
    /\ At("loop") \in SendLabels =>
         IF site = "start" THEN PacketsSent <= Count + runs - 2
                           ELSE PacketsSent < Count

\* A send that is about to be counted is within the bound: the test of the
\* interval case, or the one send before the loop, has been passed.
LEMMA SendStep == ASSUME TypeOK, PhaseInv, SendInv, [Next]_vars PROVE SendInv'
<1> USE PingerAssumption DEF SendInv, At, StopLabels, CallbackLabels, SendLabels,
                             Actors, Goroutines
<1>0. /\ pc \in [Actors -> Labels]
      /\ resume \in [Actors -> {"exited", "return", "returned"} \cup CallbackLabels]
      /\ PacketsSent \in Nat /\ runs \in Nat
  BY DEF TypeOK
<1>1. ASSUME NEW a \in Actors, StopStep(a) PROVE SendInv'
  <2>1. CASE StopLock(a) BY <1>0, <2>1 DEF StopLock
  <2>2. CASE StopCheck(a) BY <1>0, <2>2 DEF StopCheck
  <2>3. CASE StopClose(a) BY <1>0, <2>3 DEF StopClose
  <2>4. CASE CallbackStop(a) BY <1>0, <2>4 DEF CallbackStop
  <2> QED BY <1>1, <2>1, <2>2, <2>3, <2>4 DEF StopStep
<1>2. CASE MainStep
  <2>1. CASE Run BY <1>0, <2>1 DEF Run
  <2>2. CASE SetupFails BY <1>0, <2>2 DEF SetupFails
  <2>3. CASE ListenFails BY <1>0, <2>3 DEF ListenFails
  <2>4. CASE SetupOK BY <1>0, <2>4 DEF SetupOK
  <2>5. CASE Start
    BY <1>0, <2>5 DEF Start, PhaseInv
  <2>6. CASE Finish BY <1>0, <2>6 DEF Finish
  <2>7. CASE CloseConn
    BY <1>0, <2>7 DEF CloseConn
  <2> QED BY <1>2, <2>1, <2>2, <2>3, <2>4, <2>5, <2>6, <2>7 DEF MainStep
<1>3. CASE GroupStep
  <2> USE DEF Leave
  <2>1. CASE WatchCtx BY <1>0, <2>1 DEF WatchCtx
  <2>2. CASE WatchDone BY <1>0, <2>2 DEF WatchDone
  <2>3. CASE \E g \in Goroutines : GoReturn(g) BY <1>0, <2>3 DEF GoReturn
  <2> QED BY <1>3, <2>1, <2>2, <2>3 DEF GroupStep
<1>4. CASE ReceiverStep
  <2> USE DEF RecvLeave, RecvGoto, ReadInto, Leave
  <2>1. CASE RecvDone BY <1>0, <2>1 DEF RecvDone
  <2>2. CASE SetDeadlineFails BY <1>0, <2>2 DEF SetDeadlineFails
  <2>3. CASE SetDeadline BY <1>0, <2>3 DEF SetDeadline
  <2>4. CASE ReadTimeout BY <1>0, <2>4 DEF ReadTimeout
  <2>5. CASE ReadAgain BY <1>0, <2>5 DEF ReadAgain
  <2>6. CASE ReadFails BY <1>0, <2>6 DEF ReadFails
  <2>7. CASE ReadAbort BY <1>0, <2>7 DEF ReadAbort
  <2>8. CASE Deliver BY <1>0, <2>8 DEF Deliver
  <2>9. CASE ReadNoise BY <1>0, <2>9 DEF ReadNoise
  <2>10. CASE \E n \in DOMAIN wire : ReadReply(n) BY <1>0, <2>10 DEF ReadReply
  <2> QED BY <1>4, <2>1, <2>2, <2>3, <2>4, <2>5, <2>6, <2>7, <2>8, <2>9,
            <2>10 DEF ReceiverStep
<1>5. CASE LoopStep
  <2> USE DEF LoopLeave, LoopGoto, EndIteration, Leave, TakePacket
  <2>1. CASE SelectDone BY <1>0, <2>1 DEF SelectDone
  <2>2. CASE SelectTimeout BY <1>0, <2>2 DEF SelectTimeout
  <2>3. CASE SelectIntervalStop BY <1>0, <2>3 DEF SelectIntervalStop
  <2>4. CASE SelectIntervalSend
    BY <1>0, <2>4 DEF SelectIntervalSend, AllSent
  <2>5. CASE DiscardPacket BY <1>0, <2>5 DEF DiscardPacket
  <2>6. CASE AcceptPacket BY <1>0, <2>6 DEF AcceptPacket
  <2>7. CASE DuplicatePacket BY <1>0, <2>7 DEF DuplicatePacket
  <2>8. CASE PacketDone BY <1>0, <2>8 DEF PacketDone
  <2>9. CASE WriteEACCES BY <1>0, <2>9 DEF WriteEACCES
  <2>10. CASE SetBroadcastFails BY <1>0, <2>10 DEF SetBroadcastFails
  <2>11. CASE SetBroadcastFlag BY <1>0, <2>11 DEF SetBroadcastFlag
  <2>12. CASE WriteENOBUFS BY <1>0, <2>12 DEF WriteENOBUFS
  <2>13. CASE SendRetry BY <1>0, <2>13 DEF SendRetry
  <2>14. CASE WriteFails BY <1>0, <2>14 DEF WriteFails
  <2>15. CASE SendFailed BY <1>0, <2>15 DEF SendFailed
  <2>16. CASE WriteOK BY <1>0, <2>16 DEF WriteOK
  <2>17. CASE MarkSent
    <3>1. /\ PacketsSent' = PacketsSent + 1 /\ UNCHANGED <<site, runs>>
          /\ pc["loop"] = "onSend"
      BY <2>17 DEF MarkSent
    <3>2. \/ Goto("loop", "select") /\ UNCHANGED resume
          \/ CallStop("loop", "return")
      <4> HIDE DEF Goto, CallStop
      <4> QED BY <2>17, Zenon DEF MarkSent
    <3>3. At("main")' = At("main") /\ At("loop")' \notin SendLabels
      BY <1>0, <3>2
    <3>4. At("main") = "wait" BY <3>1 DEF PhaseInv
    <3> QED BY <1>0, <3>1, <3>3, <3>4
  <2> QED BY <1>5, <2>1, <2>2, <2>3, <2>4, <2>5, <2>6, <2>7, <2>8, <2>9, <2>10,
            <2>11, <2>12, <2>13, <2>14, <2>15, <2>16, <2>17 DEF LoopStep
<1>6. CASE EnvironmentStep
  <2>1. CASE IntervalTick BY <1>0, <2>1 DEF IntervalTick
  <2>2. CASE TimeoutTick BY <1>0, <2>2 DEF TimeoutTick
  <2>3. CASE CancelCtx BY <1>0, <2>3 DEF CancelCtx
  <2>4. CASE \E u \in Users : UserStop(u) BY <1>0, <2>4 DEF UserStop
  <2> QED BY <1>6, <2>1, <2>2, <2>3, <2>4 DEF EnvironmentStep
<1>7. CASE UNCHANGED vars BY <1>7
<1> QED BY <1>1, <1>2, <1>3, <1>4, <1>5, <1>6, <1>7 DEF Next, Terminated

\* A Pinger with a Count never sends more than Count requests in its first
\* run and one more in each further run.
THEOREM RequestsAreBounded == Spec => []SendBound
<1>1. Init => SendInv
  BY PingerAssumption
     DEF Init, SendInv, At, Actors, Goroutines, StopLabels, SendLabels
<1>2. TypeOK /\ PhaseInv /\ SendInv /\ [Next]_vars => SendInv'
  BY SendStep
<1>3. SendInv => SendBound
  BY DEF SendInv, SendBound
<1> QED BY <1>1, <1>2, <1>3, TypeCorrect, PhaseCorrect, PTL DEF Spec

-----------------------------------------------------------------------------
(***************************************************************************)
(* What is counted.  The invariant follows every request from the write to *)
(* the socket over the marking in sendICMP to the reply that processPacket *)
(* credits, under numbers that never repeat because a new UUID is taken    *)
(* when the sequence number wraps.                                         *)
(***************************************************************************)
\* x comes before the number that the next request will take.
Before(x) == x[1] < epoch \/ (x[1] = epoch /\ x[2] < sequence)

\* The last request on the wire has not been marked as in flight yet.
Marking == At("loop") = "onSend"

\* Requests on the wire have different numbers, all taken already except
\* that of a request which is still being marked.
WireInv ==
  /\ \A n \in 1..Len(wire) : Before(wire[n]) \/ (Marking /\ n = Len(wire))
  /\ \A m, n \in 1..Len(wire) : wire[m] = wire[n] => m = n
  /\ Marking => Len(wire) > 0 /\ wire[Len(wire)] = <<epoch, sequence>>

AwaitInv ==
  /\ IsFiniteSet(awaiting) /\ \A x \in awaiting : Before(x)
  /\ PacketsSent = PacketsRecv + Cardinality(awaiting)

\* A request is awaited, or counted, or being marked, and only one of them.
CreditInv ==
  /\ IsFiniteSet(credited) /\ credited \subseteq 1..Len(wire)
  /\ PacketsRecv = Cardinality(credited)
  /\ \A n \in credited : wire[n] \notin awaiting /\ Before(wire[n])
  /\ \A n \in 1..Len(wire) :
       wire[n] \in awaiting \/ n \in credited \/ (Marking /\ n = Len(wire))

\* A packet that carries one of our UUIDs answers the request it names.
Genuine(p) ==
  p.uuid # ForeignUUID => p.n \in 1..Len(wire) /\ wire[p.n] = <<p.uuid, p.seq>>

PacketInv == Genuine(held) /\ \A i \in 1..Len(recvCh) : Genuine(recvCh[i])

CountInv == WireInv /\ AwaitInv /\ CreditInv /\ PacketInv

\* Steps that neither count, nor move packets, nor enter or leave OnSend.
QuietStep ==
  \/ \E a \in Actors : StopStep(a)
  \/ Run \/ SetupFails \/ ListenFails \/ Start \/ Finish \/ CloseConn
  \/ GroupStep \/ EnvironmentStep
  \/ RecvDone \/ SetDeadlineFails \/ SetDeadline \/ ReadTimeout \/ ReadAgain
  \/ ReadFails \/ ReadAbort
  \/ SelectDone \/ SelectTimeout \/ SelectIntervalStop \/ SelectIntervalSend
  \/ PacketDone \/ WriteEACCES \/ SetBroadcastFails \/ SetBroadcastFlag
  \/ WriteENOBUFS \/ SendRetry \/ WriteFails \/ SendFailed

Quiet ==
  /\ UNCHANGED <<recvCh, held, trackVars, statVars, wire, credited>>
  /\ Marking' <=> Marking

\* Steps that neither read, process, write nor mark leave the counts alone.
LEMMA QuietStepIsQuiet == ASSUME TypeOK, PhaseInv, QuietStep PROVE Quiet
<1> USE PingerAssumption DEF Quiet, Marking, At, StopLabels, CallbackLabels, Actors,
                             Goroutines, Leave
<1>0. /\ pc \in [Actors -> Labels]
      /\ resume \in [Actors -> {"exited", "return", "returned"} \cup CallbackLabels]
  BY DEF TypeOK
<1>1. ASSUME NEW a \in Actors, StopStep(a) PROVE Quiet
  <2>1. CASE StopLock(a) BY <1>0, <2>1 DEF StopLock
  <2>2. CASE StopCheck(a) BY <1>0, <2>2 DEF StopCheck
  <2>3. CASE StopClose(a) BY <1>0, <2>3 DEF StopClose
  <2>4. CASE CallbackStop(a) BY <1>0, <2>4 DEF CallbackStop
  <2> QED BY <1>1, <2>1, <2>2, <2>3, <2>4 DEF StopStep
<1>2. CASE Run BY <1>0, <1>2 DEF Run
<1>3. CASE SetupFails BY <1>0, <1>3 DEF SetupFails
<1>4. CASE ListenFails BY <1>0, <1>4 DEF ListenFails
<1>5. CASE Start BY <1>0, <1>5 DEF Start, PhaseInv
<1>6. CASE Finish BY <1>0, <1>6 DEF Finish
<1>7. CASE CloseConn BY <1>0, <1>7 DEF CloseConn
<1>8. CASE GroupStep
  <2>1. CASE WatchCtx BY <1>0, <2>1 DEF WatchCtx
  <2>2. CASE WatchDone BY <1>0, <2>2 DEF WatchDone
  <2>3. CASE \E g \in Goroutines : GoReturn(g) BY <1>0, <2>3 DEF GoReturn
  <2> QED BY <1>8, <2>1, <2>2, <2>3 DEF GroupStep
<1>9. CASE RecvDone BY <1>0, <1>9 DEF RecvDone, RecvLeave, RecvGoto
<1>10. CASE SetDeadlineFails BY <1>0, <1>10 DEF SetDeadlineFails, RecvLeave,
      RecvGoto
<1>11. CASE SetDeadline BY <1>0, <1>11 DEF SetDeadline, RecvLeave, RecvGoto
<1>12. CASE ReadTimeout BY <1>0, <1>12 DEF ReadTimeout, RecvLeave, RecvGoto
<1>13. CASE ReadAgain BY <1>0, <1>13 DEF ReadAgain, RecvLeave, RecvGoto
<1>14. CASE ReadFails BY <1>0, <1>14 DEF ReadFails, RecvLeave, RecvGoto
<1>15. CASE ReadAbort BY <1>0, <1>15 DEF ReadAbort, RecvLeave, RecvGoto
<1>16. CASE SelectDone BY <1>0, <1>16 DEF SelectDone, LoopLeave, LoopGoto,
      EndIteration
<1>17. CASE SelectTimeout BY <1>0, <1>17 DEF SelectTimeout, LoopLeave, LoopGoto,
      EndIteration
<1>18. CASE SelectIntervalStop BY <1>0, <1>18 DEF SelectIntervalStop, LoopLeave,
      LoopGoto, EndIteration
<1>19. CASE SelectIntervalSend BY <1>0, <1>19 DEF SelectIntervalSend, LoopLeave,
      LoopGoto, EndIteration
<1>20. CASE PacketDone BY <1>0, <1>20 DEF PacketDone, LoopLeave, LoopGoto,
      EndIteration
<1>21. CASE WriteEACCES BY <1>0, <1>21 DEF WriteEACCES, LoopLeave, LoopGoto,
      EndIteration
<1>22. CASE SetBroadcastFails BY <1>0, <1>22 DEF SetBroadcastFails, LoopLeave,
      LoopGoto, EndIteration
<1>23. CASE SetBroadcastFlag BY <1>0, <1>23 DEF SetBroadcastFlag, LoopLeave,
      LoopGoto, EndIteration
<1>24. CASE WriteENOBUFS BY <1>0, <1>24 DEF WriteENOBUFS, LoopLeave, LoopGoto,
      EndIteration
<1>25. CASE SendRetry BY <1>0, <1>25 DEF SendRetry, LoopLeave, LoopGoto,
      EndIteration
<1>26. CASE WriteFails BY <1>0, <1>26 DEF WriteFails, LoopLeave, LoopGoto,
      EndIteration
<1>27. CASE SendFailed BY <1>0, <1>27 DEF SendFailed, LoopLeave, LoopGoto,
      EndIteration
<1>28. CASE EnvironmentStep
  <2>1. CASE IntervalTick BY <1>0, <2>1 DEF IntervalTick
  <2>2. CASE TimeoutTick BY <1>0, <2>2 DEF TimeoutTick
  <2>3. CASE CancelCtx BY <1>0, <2>3 DEF CancelCtx
  <2>4. CASE \E u \in Users : UserStop(u) BY <1>0, <2>4 DEF UserStop
  <2> QED BY <1>28, <2>1, <2>2, <2>3, <2>4 DEF EnvironmentStep
<1> QED BY <1>1, <1>2, <1>3, <1>4, <1>5, <1>6, <1>7, <1>8, <1>9, <1>10, <1>11,
          <1>12, <1>13, <1>14, <1>15, <1>16, <1>17, <1>18, <1>19, <1>20, <1>21,
          <1>22, <1>23, <1>24, <1>25, <1>26, <1>27, <1>28 DEF QuietStep

\* A step that takes the packet at the head of the channel leaves genuine
\* packets in it.
LEMMA TakeStep ==
  ASSUME TypeOK, PacketInv, TakePacket, UNCHANGED <<held, wire>>
  PROVE  /\ PacketInv'
         /\ recvCh # <<>> /\ Head(recvCh) \in Packet /\ Genuine(Head(recvCh))
<1>1. recvCh \in Seq(Packet) /\ recvCh # <<>> /\ recvCh' = Tail(recvCh)
  BY DEF TypeOK, TakePacket
<1>2. \A i \in 1..Len(recvCh') : i + 1 \in 1..Len(recvCh) /\ recvCh'[i] = recvCh[i + 1]
  BY <1>1
<1>3. PacketInv' BY <1>2 DEF PacketInv, Genuine
<1>4. Head(recvCh) = recvCh[1] /\ 1 \in 1..Len(recvCh) BY <1>1
<1> QED BY <1>1, <1>3, <1>4 DEF PacketInv

\* The reply that processPacket credits answers a request that is awaited
\* and has not been credited before.
LEMMA AcceptStep == ASSUME TypeOK, CountInv, AcceptPacket PROVE CountInv'
<1> DEFINE h == Head(recvCh)
           x == <<h.uuid, h.seq>>
<1>1. /\ TakePacket /\ IsOurs(h) /\ x \in awaiting
      /\ awaiting' = awaiting \ {x} /\ credited' = credited \cup {h.n}
      /\ PacketsRecv' = PacketsRecv + 1
      /\ UNCHANGED <<held, wire, epoch, sequence, PacketsSent>>
  BY Zenon DEF AcceptPacket, Forget
<1>2. PacketInv' /\ Genuine(h)
  BY <1>1, TakeStep DEF CountInv
<1>3. h.n \in 1..Len(wire) /\ wire[h.n] = x
  BY <1>1, <1>2 DEF IsOurs, Genuine, ForeignUUID, TypeOK
<1>4. ~Marking /\ ~Marking'
  BY PingerAssumption
     DEF AcceptPacket, TakePacket, Marking, At, StopLabels, TypeOK, Actors, Goroutines
<1> HIDE DEF h, x
<1>5. h.n \notin credited BY <1>1, <1>3 DEF CountInv, CreditInv
<1>6. WireInv' BY <1>1, <1>4 DEF CountInv, WireInv, Before
<1>7. AwaitInv'
  <2>1. IsFiniteSet(awaiting') /\ Cardinality(awaiting') = Cardinality(awaiting) - 1
    BY <1>1, FS_RemoveElement DEF CountInv, AwaitInv
  <2>2. Cardinality(awaiting) \in Nat
    BY FS_CardinalityType DEF CountInv, AwaitInv
  <2> QED BY <1>1, <2>1, <2>2 DEF CountInv, AwaitInv, Before, TypeOK
<1>8. CreditInv'
  <2>1. IsFiniteSet(credited') /\ Cardinality(credited') = Cardinality(credited) + 1
    BY <1>1, <1>5, FS_AddElement DEF CountInv, CreditInv
  <2>2. \A n \in credited' : wire'[n] \notin awaiting' /\ Before(wire[n])'
    BY <1>1, <1>3 DEF CountInv, CreditInv, AwaitInv, Before
  <2>3. \A n \in 1..Len(wire') : wire'[n] \in awaiting' \/ n \in credited'
    BY <1>1, <1>3, <1>4 DEF CountInv, CreditInv, WireInv
  <2> QED BY <1>1, <1>3, <2>1, <2>2, <2>3 DEF CountInv, CreditInv
<1> QED BY <1>2, <1>6, <1>7, <1>8 DEF CountInv

\* Marking a request adds a number that is not yet awaited, and the numbers
\* taken so far stay behind the next one.
LEMMA MarkStep == ASSUME TypeOK, CountInv, MarkSent PROVE CountInv'
<1> DEFINE x == <<epoch, sequence>>
<1>1. /\ awaiting' = awaiting \cup {x} /\ PacketsSent' = PacketsSent + 1
      /\ UNCHANGED <<recvCh, held, wire, credited, PacketsRecv>>
  BY Zenon DEF MarkSent
<1>2. NextNumber BY DEF MarkSent
<1>3. Marking /\ ~Marking'
  <2>1. \/ Goto("loop", "select") /\ UNCHANGED resume
        \/ CallStop("loop", "return")
    <3> HIDE DEF Goto, CallStop
    <3> QED BY Zenon DEF MarkSent, EndIteration, LoopLeave, Leave
  <2>2. pc["loop"] = "onSend" BY DEF MarkSent
  <2> QED BY <2>1, <2>2, PingerAssumption
          DEF Marking, At, StopLabels, TypeOK, Actors, Goroutines
<1>4. ~Before(x) /\ \A y \in Pair : Before(y) \/ y = x => Before(y)'
  <2>1. epoch \in Nat /\ sequence \in Nat BY PingerAssumption DEF TypeOK
  <2>2. CASE epoch' = epoch + 1 /\ sequence' = 0 BY <2>1, <2>2 DEF Before, Pair
  <2>3. CASE epoch' = epoch /\ sequence' = sequence + 1
    BY <2>1, <2>3 DEF Before, Pair
  <2> QED BY <1>2, <2>2, <2>3 DEF NextNumber
<1>5. /\ awaiting \subseteq Pair /\ x \in Pair
      /\ \A n \in 1..Len(wire) : wire[n] \in Pair
  BY PingerAssumption DEF TypeOK, Pair
<1> HIDE DEF x
<1>6. Len(wire) > 0 /\ wire[Len(wire)] = x
  BY <1>3 DEF CountInv, WireInv, x
<1>7. x \notin awaiting BY <1>4 DEF CountInv, AwaitInv
<1>8. WireInv'
  <2>1. \A n \in 1..Len(wire) : Before(wire[n])'
    BY <1>3, <1>4, <1>5, <1>6, <1>1 DEF CountInv, WireInv
  <2> QED BY <1>1, <1>3, <2>1 DEF CountInv, WireInv
<1>9. AwaitInv'
  <2>1. IsFiniteSet(awaiting') /\ Cardinality(awaiting') = Cardinality(awaiting) + 1
    BY <1>1, <1>7, FS_AddElement DEF CountInv, AwaitInv
  <2>2. Cardinality(awaiting) \in Nat
    BY FS_CardinalityType DEF CountInv, AwaitInv
  <2>3. \A y \in awaiting' : Before(y)'
    BY <1>1, <1>4, <1>5 DEF CountInv, AwaitInv
  <2> QED BY <1>1, <2>1, <2>2, <2>3 DEF CountInv, AwaitInv, TypeOK
<1>10. CreditInv'
  <2>1. \A n \in credited : wire[n] \notin awaiting' /\ Before(wire[n])'
    BY <1>1, <1>4, <1>5 DEF CountInv, CreditInv
  <2>2. \A n \in 1..Len(wire) : wire[n] \in awaiting' \/ n \in credited
    BY <1>1, <1>6 DEF CountInv, CreditInv
  <2> QED BY <1>1, <2>1, <2>2 DEF CountInv, CreditInv
<1>11. PacketInv' BY <1>1 DEF CountInv, PacketInv, Genuine
<1> QED BY <1>8, <1>9, <1>10, <1>11 DEF CountInv

\* The request that WriteOK puts on the wire has a number no earlier request
\* had.
LEMMA WriteStep == ASSUME TypeOK, CountInv, WriteOK PROVE CountInv'
<1> DEFINE x == <<epoch, sequence>>
<1>1. /\ wire' = Append(wire, x)
      /\ UNCHANGED <<recvCh, held, trackVars, PacketsSent, PacketsRecv, credited>>
  BY DEF WriteOK, LoopGoto
<1>2. ~Marking /\ Marking'
  BY PingerAssumption
     DEF WriteOK, LoopGoto, Marking, At, StopLabels, TypeOK, Actors, Goroutines
<1>3. wire \in Seq(Pair) /\ x \in Pair /\ ~Before(x)
  BY PingerAssumption DEF TypeOK, Pair, Before
<1> HIDE DEF x
<1>4. /\ Len(wire') = Len(wire) + 1 /\ wire'[Len(wire')] = x
      /\ \A n \in 1..Len(wire) : wire'[n] = wire[n]
  BY <1>1, <1>3
<1>5. \A y : Before(y)' <=> Before(y) BY <1>1 DEF Before
<1>6. \A n \in 1..Len(wire') : n \in 1..Len(wire) \/ n = Len(wire')
  BY <1>3, <1>4
<1>7. \A n \in 1..Len(wire) : Before(wire[n])
  BY <1>2 DEF CountInv, WireInv
<1>8. WireInv'
  <2>1. \A m, n \in 1..Len(wire') : wire'[m] = wire'[n] => m = n
    BY <1>3, <1>4, <1>6, <1>7 DEF CountInv, WireInv
  <2>2. \A n \in 1..Len(wire') : Before(wire[n])' \/ n = Len(wire')
    BY <1>4, <1>5, <1>6, <1>7
  <2>3. Len(wire') > 0 /\ wire'[Len(wire')] = <<epoch', sequence'>>
    BY <1>1, <1>3, <1>4 DEF x
  <2> QED BY <1>2, <2>1, <2>2, <2>3 DEF WireInv
<1>9. AwaitInv' BY <1>1, <1>5 DEF CountInv, AwaitInv
<1>10. CreditInv'
  <2>1. credited' \subseteq 1..Len(wire')
    BY <1>1, <1>3, <1>4 DEF CountInv, CreditInv
  <2>2. \A n \in credited' : wire'[n] \notin awaiting' /\ Before(wire[n])'
    BY <1>1, <1>4, <1>5 DEF CountInv, CreditInv
  <2>3. \A n \in 1..Len(wire') :
          wire'[n] \in awaiting' \/ n \in credited' \/ n = Len(wire')
    BY <1>1, <1>2, <1>4, <1>6 DEF CountInv, CreditInv
  <2> QED BY <1>1, <1>2, <2>1, <2>2, <2>3 DEF CountInv, CreditInv
<1>11. PacketInv'
  BY <1>1, <1>3, <1>4 DEF CountInv, PacketInv, Genuine
<1> QED BY <1>8, <1>9, <1>10, <1>11 DEF CountInv

\* The other steps that move packets.
LEMMA PacketStep ==
  ASSUME TypeOK, PhaseInv, CountInv,
         \/ SetupOK \/ ReadNoise \/ (\E n \in DOMAIN wire : ReadReply(n)) \/ Deliver
         \/ DiscardPacket \/ DuplicatePacket
  PROVE  CountInv'
<1>0. /\ pc \in [Actors -> Labels]
      /\ {"main", "receiver", "loop"} \subseteq Actors
  BY DEF TypeOK, Actors, Goroutines
<1>1. ASSUME UNCHANGED <<trackVars, PacketsSent, PacketsRecv, wire, credited>>,
             Marking' <=> Marking, PacketInv'
      PROVE  CountInv'
  BY <1>1 DEF CountInv, WireInv, AwaitInv, CreditInv, Before
<1>2. CASE SetupOK
  <2>1. PacketInv' BY <1>2 DEF SetupOK, CountInv, PacketInv, Genuine
  <2> QED BY <1>0, <1>1, <1>2, <2>1 DEF SetupOK, Marking, At, StopLabels
<1>3. ASSUME NEW q, Genuine(q), ReadInto(q) PROVE CountInv'
  <2>1. PacketInv' BY <1>3 DEF ReadInto, CountInv, PacketInv, Genuine
  <2> QED BY <1>0, <1>1, <1>3, <2>1 DEF ReadInto, Marking, At, StopLabels
<1>4. CASE ReadNoise
  BY <1>3, <1>4, PingerAssumption DEF ReadNoise, Genuine
<1>5. ASSUME NEW n \in DOMAIN wire, ReadReply(n) PROVE CountInv'
  <2>1. wire[n] \in Pair /\ n \in 1..Len(wire) BY DEF TypeOK
  <2>2. Genuine(ReplyTo(n)) BY <2>1 DEF Genuine, ReplyTo, Pair
  <2> QED BY <1>3, <1>5, <2>2 DEF ReadReply
<1>6. CASE Deliver
  <2>1. recvCh \in Seq(Packet) /\ recvCh' = Append(recvCh, held) /\ held \in Packet
    BY <1>6 DEF Deliver, TypeOK
  <2>2. \A i \in 1..Len(recvCh') : recvCh'[i] = held
                                   \/ (i \in 1..Len(recvCh) /\ recvCh'[i] = recvCh[i])
    BY <2>1
  <2>3. UNCHANGED <<held, wire>> BY <1>6 DEF Deliver
  <2>4. PacketInv' BY <2>2, <2>3 DEF CountInv, PacketInv, Genuine
  <2> QED BY <1>0, <1>1, <1>6, <2>4 DEF Deliver, Marking, At, StopLabels
<1>7. CASE DiscardPacket
  <2>1. /\ TakePacket
        /\ UNCHANGED <<held, trackVars, PacketsSent, PacketsRecv, wire, credited>>
    BY <1>7, Zenon DEF DiscardPacket
  <2>2. PacketInv' BY <2>1, TakeStep DEF CountInv
  <2>3. \/ Goto("loop", "select") /\ UNCHANGED resume
        \/ CallStop("loop", "return")
    <3> HIDE DEF Goto, CallStop
    <3> QED BY <1>7, Zenon DEF DiscardPacket, EndIteration, LoopLeave, Leave
  <2>4. Marking' <=> Marking
    BY <1>0, <2>1, <2>3 DEF TakePacket, Marking, At, StopLabels, TypeOK
  <2> QED BY <1>1, <2>1, <2>2, <2>4
<1>8. CASE DuplicatePacket
  <2>1. PacketInv' BY <1>8, TakeStep DEF DuplicatePacket, CountInv
  <2> QED BY <1>0, <1>1, <1>8, <2>1
          DEF DuplicatePacket, TakePacket, Marking, At, StopLabels
<1> QED BY <1>2, <1>4, <1>5, <1>6, <1>7, <1>8

\* Every step is one that leaves the counts alone or one of the seven that
\* read, process, write or mark.
LEMMA NextIsQuietOrCounts ==
  ASSUME Next
  PROVE  \/ QuietStep \/ AcceptPacket \/ MarkSent \/ WriteOK \/ UNCHANGED vars
         \/ SetupOK \/ ReadNoise \/ (\E n \in DOMAIN wire : ReadReply(n)) \/ Deliver
         \/ DiscardPacket \/ DuplicatePacket
BY DEF Next, QuietStep, MainStep, ReceiverStep, LoopStep, Terminated

\* The inductive invariant of the accounting survives every step.
LEMMA CountStep ==
  ASSUME TypeOK, PhaseInv, CountInv, [Next]_vars PROVE CountInv'
<1>1. ASSUME Quiet PROVE CountInv'
  BY <1>1 DEF Quiet, CountInv, WireInv, AwaitInv, CreditInv, PacketInv, Before, Genuine
<1>2. CASE UNCHANGED vars
  BY <1>2 DEF CountInv, WireInv, AwaitInv, CreditInv, PacketInv, Before, Genuine,
              Marking, At
<1> QED BY <1>1, <1>2, NextIsQuietOrCounts, QuietStepIsQuiet, AcceptStep, MarkStep,
           WriteStep, PacketStep

\* The inductive invariant of the accounting holds throughout.
LEMMA CountCorrect == Spec => []CountInv
<1>1. Init => CountInv
  BY PingerAssumption, FS_EmptySet
     DEF Init, CountInv, WireInv, AwaitInv, CreditInv, PacketInv, Before, Genuine,
         Marking, At, StopLabels, Actors, Goroutines, NoPacket, ForeignUUID
<1>2. TypeOK /\ PhaseInv /\ CountInv /\ [Next]_vars => CountInv'
  BY CountStep
<1> QED BY <1>1, <1>2, TypeCorrect, PhaseCorrect, PTL DEF Spec

\* Sent requests are exactly the received plus the awaited ones, for any
\* number of requests and wherever the sequence number wraps.
THEOREM SentIsReceivedOrAwaited == Spec => []Accounting
<1>1. CountInv => Accounting BY DEF CountInv, AwaitInv, Accounting
<1> QED BY <1>1, CountCorrect, PTL

\* However often and in whatever order the network delivers replies, each
\* request is counted in PacketsRecv at most once.
THEOREM RequestsCountOnce == Spec => []OncePerRequest
<1>1. CountInv => OncePerRequest BY DEF CountInv, CreditInv, OncePerRequest
<1> QED BY <1>1, CountCorrect, PTL

\* A duplicate that Statistics reports belongs to a request already credited.
THEOREM DuplicatesAreDuplicates == Spec => DuplicatesWereAnswered
<1>1. ASSUME TypeOK, PhaseInv, CountInv, [Next]_vars,
             PacketsRecvDuplicates' # PacketsRecvDuplicates
      PROVE  Head(recvCh).n \in credited
  <2>1. DuplicatePacket
    <3>1. QuietStep => UNCHANGED PacketsRecvDuplicates
      BY <1>1, QuietStepIsQuiet DEF Quiet
    <3> HIDE DEF Goto, CallStop
    <3> QED BY <1>1, <3>1, NextIsQuietOrCounts
            DEF AcceptPacket, MarkSent, WriteOK, LoopGoto, SetupOK, ReadNoise,
                ReadReply, ReadInto, Deliver, DiscardPacket
  <2> DEFINE h == Head(recvCh)
  <2>2. TakePacket /\ IsOurs(h) /\ <<h.uuid, h.seq>> \notin awaiting
    BY <2>1, Zenon DEF DuplicatePacket
  <2>3. Genuine(h) BY <1>1, <2>1, <2>2, TakeStep DEF DuplicatePacket, CountInv
  <2>4. h.n \in 1..Len(wire) /\ wire[h.n] = <<h.uuid, h.seq>>
    BY <1>1, <2>2, <2>3 DEF IsOurs, Genuine, ForeignUUID, TypeOK
  <2>5. ~Marking BY <2>2 DEF TakePacket, Marking, At, StopLabels
  <2> QED BY <1>1, <2>2, <2>4, <2>5 DEF CountInv, CreditInv
<1>2. TypeOK /\ PhaseInv /\ CountInv /\ [Next]_vars
        => [PacketsRecvDuplicates' > PacketsRecvDuplicates
              => Head(recvCh).n \in credited]_vars
  <2> SUFFICES ASSUME TypeOK, PhaseInv, CountInv, [Next]_vars,
                      PacketsRecvDuplicates' > PacketsRecvDuplicates
               PROVE  Head(recvCh).n \in credited
    OBVIOUS
  <2>1. PacketsRecvDuplicates' # PacketsRecvDuplicates BY DEF TypeOK
  <2> QED BY <1>1, <2>1
<1> QED BY <1>2, TypeCorrect, PhaseCorrect, CountCorrect, PTL
        DEF Spec, DuplicatesWereAnswered

-----------------------------------------------------------------------------
(***************************************************************************)
(* The refinement.  The ledger's requests are 1..PacketsSent, so the        *)
(* requests on the wire have to be these and the one that is being marked. *)
(***************************************************************************)
WrittenInv == Len(wire) = IF Marking THEN PacketsSent + 1 ELSE PacketsSent

\* The requests written to the socket are those counted as sent, and during
\* OnSend one more.
LEMMA WrittenStep ==
  ASSUME TypeOK, PhaseInv, CountInv, WrittenInv, [Next]_vars PROVE WrittenInv'
<1>0. /\ pc \in [Actors -> Labels] /\ {"main", "receiver", "loop"} \subseteq Actors
      /\ wire \in Seq(Pair) /\ PacketsSent \in Nat
  BY DEF TypeOK, Actors, Goroutines
<1>1. ASSUME UNCHANGED <<wire, PacketsSent>>, Marking' <=> Marking PROVE WrittenInv'
  BY <1>1 DEF WrittenInv
<1>2. CASE QuietStep BY <1>1, <1>2, QuietStepIsQuiet DEF Quiet
<1>3. CASE AcceptPacket
  BY <1>0, <1>1, <1>3 DEF AcceptPacket, TakePacket, Marking, At, StopLabels
<1>4. CASE MarkSent
  <2>1. PacketsSent' = PacketsSent + 1 /\ UNCHANGED wire
    BY <1>4, Zenon DEF MarkSent
  <2>2. Marking /\ ~Marking'
    <3>1. \/ Goto("loop", "select") /\ UNCHANGED resume
          \/ CallStop("loop", "return")
      <4> HIDE DEF Goto, CallStop
      <4> QED BY <1>4, Zenon DEF MarkSent, EndIteration, LoopLeave, Leave
    <3>2. pc["loop"] = "onSend" BY <1>4 DEF MarkSent
    <3> QED BY <3>1, <3>2, PingerAssumption
            DEF Marking, At, StopLabels, TypeOK, Actors, Goroutines
  <2> QED BY <2>1, <2>2 DEF WrittenInv
<1>5. CASE WriteOK
  <2>1. wire' = Append(wire, <<epoch, sequence>>) /\ UNCHANGED PacketsSent
    BY <1>5 DEF WriteOK, LoopGoto
  <2>2. ~Marking /\ Marking'
    BY <1>5, PingerAssumption
       DEF WriteOK, LoopGoto, Marking, At, StopLabels, TypeOK, Actors, Goroutines
  <2>3. Len(wire') = Len(wire) + 1 BY <1>0, <2>1, PingerAssumption DEF TypeOK, Pair
  <2> QED BY <2>1, <2>2, <2>3 DEF WrittenInv
<1>6. CASE UNCHANGED vars BY <1>1, <1>6 DEF Marking, At
<1>7. CASE SetupOK
  BY <1>0, <1>1, <1>7 DEF SetupOK, Marking, At, StopLabels
<1>8. CASE ReadNoise
  BY <1>0, <1>1, <1>8 DEF ReadNoise, ReadInto, Marking, At, StopLabels
<1>9. CASE \E n \in DOMAIN wire : ReadReply(n)
  BY <1>0, <1>1, <1>9 DEF ReadReply, ReadInto, Marking, At, StopLabels
<1>10. CASE Deliver
  BY <1>0, <1>1, <1>10 DEF Deliver, Marking, At, StopLabels
<1>11. CASE DiscardPacket
  <2>1. TakePacket /\ UNCHANGED <<PacketsSent, wire>>
    BY <1>11, Zenon DEF DiscardPacket
  <2>2. \/ Goto("loop", "select") /\ UNCHANGED resume
        \/ CallStop("loop", "return")
    <3> HIDE DEF Goto, CallStop
    <3> QED BY <1>11, Zenon DEF DiscardPacket, EndIteration, LoopLeave, Leave
  <2>3. Marking' <=> Marking
    BY <1>0, <2>1, <2>2 DEF TakePacket, Marking, At, StopLabels, TypeOK
  <2> QED BY <1>1, <2>1, <2>3
<1>12. CASE DuplicatePacket
  BY <1>0, <1>1, <1>12 DEF DuplicatePacket, TakePacket, Marking, At, StopLabels
<1> QED BY <1>2, <1>3, <1>4, <1>5, <1>6, <1>7, <1>8, <1>9, <1>10, <1>11, <1>12,
           NextIsQuietOrCounts

\* Every step of a Pinger is a step of the ledger or leaves it alone.
LEMMA LedgerStep ==
  ASSUME TypeOK, PhaseInv, CountInv, WrittenInv, [Next]_vars
  PROVE  [Ledger!Next]_(Ledger!vars)
<1>0. PacketsSent \in Nat /\ credited \subseteq 1..Len(wire) /\ wire \in Seq(Pair)
  BY DEF TypeOK, CountInv, CreditInv
<1>1. ASSUME UNCHANGED <<statVars, credited>> PROVE UNCHANGED Ledger!vars
  BY <1>1 DEF statVars, Ledger!vars
<1>2. CASE QuietStep
  <2>1. UNCHANGED <<statVars, credited>> BY <1>2, QuietStepIsQuiet DEF Quiet
  <2> QED BY <1>1, <2>1
<1>3. CASE MarkSent
  <2>1. /\ PacketsSent' = PacketsSent + 1
        /\ UNCHANGED <<PacketsRecv, PacketsRecvDuplicates, credited>>
    BY <1>3, Zenon DEF MarkSent
  <2>2. Marking BY <1>3 DEF MarkSent, Marking, At, StopLabels
  <2>3. PacketsSent + 1 \notin credited
    <3>1. ~Before(wire[Len(wire)])
      BY <2>2, PingerAssumption DEF CountInv, WireInv, Before, TypeOK
    <3>2. Len(wire) = PacketsSent + 1 BY <2>2 DEF WrittenInv
    <3> QED BY <3>1, <3>2 DEF CountInv, CreditInv
  <2>4. 1..PacketsSent' = 1..PacketsSent \cup {PacketsSent + 1}
    BY <1>0, <2>1
  <2>5. (1..PacketsSent \ credited)' = (1..PacketsSent \ credited) \cup {PacketsSent'}
    BY <2>1, <2>3, <2>4
  <2> QED BY <2>1, <2>5 DEF Ledger!Next, Ledger!Send
<1>4. CASE AcceptPacket
  <2> DEFINE h == Head(recvCh)
             x == <<h.uuid, h.seq>>
  <2>1. /\ TakePacket /\ IsOurs(h) /\ x \in awaiting
        /\ credited' = credited \cup {h.n} /\ PacketsRecv' = PacketsRecv + 1
        /\ UNCHANGED <<held, wire, PacketsSent, PacketsRecvDuplicates>>
    BY <1>4, Zenon DEF AcceptPacket, Forget
  <2>2. Genuine(h) BY <2>1, TakeStep DEF CountInv
  <2>3. h.n \in 1..Len(wire) /\ wire[h.n] = x
    BY <2>1, <2>2 DEF IsOurs, Genuine, ForeignUUID, TypeOK
  <2>4. ~Marking BY <2>1 DEF TakePacket, Marking, At, StopLabels
  <2> HIDE DEF h, x
  <2>5. h.n \in 1..PacketsSent \ credited
    BY <2>1, <2>3, <2>4 DEF CountInv, CreditInv, WrittenInv
  <2>6. (1..PacketsSent \ credited)' = (1..PacketsSent \ credited) \ {h.n}
    BY <2>1
  <2>7. Ledger!Answer(h.n) BY <2>1, <2>5, <2>6 DEF Ledger!Answer
  <2> QED BY <2>5, <2>7 DEF Ledger!Next
<1>5. CASE DuplicatePacket
  <2> DEFINE h == Head(recvCh)
  <2>1. /\ TakePacket /\ IsOurs(h) /\ <<h.uuid, h.seq>> \notin awaiting
        /\ PacketsRecvDuplicates' = PacketsRecvDuplicates + 1
        /\ UNCHANGED <<held, wire, PacketsSent, PacketsRecv, credited>>
    BY <1>5, Zenon DEF DuplicatePacket
  <2>2. Genuine(h) BY <2>1, TakeStep DEF CountInv
  <2>3. h.n \in 1..Len(wire) /\ wire[h.n] = <<h.uuid, h.seq>>
    BY <2>1, <2>2 DEF IsOurs, Genuine, ForeignUUID, TypeOK
  <2>4. ~Marking BY <2>1 DEF TakePacket, Marking, At, StopLabels
  <2>5. h.n \in credited BY <2>1, <2>3, <2>4 DEF CountInv, CreditInv
  <2>6. Ledger!Duplicate BY <2>1, <2>5 DEF Ledger!Duplicate
  <2> QED BY <2>6 DEF Ledger!Next
<1>6. CASE WriteOK BY <1>1, <1>6 DEF WriteOK, LoopGoto
<1>7. CASE UNCHANGED vars BY <1>1, <1>7 DEF vars, dataVars, histVars
<1>8. CASE \/ SetupOK \/ ReadNoise \/ (\E n \in DOMAIN wire : ReadReply(n))
           \/ Deliver \/ DiscardPacket
  <2>1. UNCHANGED <<statVars, credited>>
    <3> HIDE DEF Goto, CallStop
    <3> QED BY <1>8, Zenon DEF SetupOK, ReadNoise, ReadReply, ReadInto, Deliver,
                               DiscardPacket, histVars
  <2> QED BY <1>1, <2>1
<1> QED BY <1>2, <1>3, <1>4, <1>5, <1>6, <1>7, <1>8, NextIsQuietOrCounts

\* A Pinger implements the ledger: for every Count, every size of the sequence
\* number space, any number of runs and any behaviour of the network, of Stop
\* and of the callbacks, the statistics change only as the ledger allows.
THEOREM PingerImplementsLedger == Spec => ImplementsLedger
<1>1. Init => WrittenInv /\ Ledger!Init
  <2> SUFFICES ASSUME Init PROVE WrittenInv /\ Ledger!Init OBVIOUS
  <2>1. WrittenInv
    BY DEF Init, WrittenInv, Marking, At, StopLabels, Actors, Goroutines
  <2>2. PacketsSent = 0 /\ PacketsRecv = 0 /\ PacketsRecvDuplicates = 0
        /\ credited = {}
    BY Zenon DEF Init
  <2>3. 1..PacketsSent \ credited = {} BY <2>2
  <2>4. Ledger!Init BY <2>2, <2>3 DEF Ledger!Init
  <2> QED BY <2>1, <2>4
<1>2. TypeOK /\ PhaseInv /\ CountInv /\ WrittenInv /\ [Next]_vars => WrittenInv'
  BY WrittenStep
<1>3. TypeOK /\ PhaseInv /\ CountInv /\ WrittenInv /\ [Next]_vars
        => [Ledger!Next]_(Ledger!vars)
  BY LedgerStep
<1> QED BY <1>1, <1>2, <1>3, TypeCorrect, PhaseCorrect, CountCorrect, PTL
        DEF Spec, ImplementsLedger, Ledger!Spec

=============================================================================

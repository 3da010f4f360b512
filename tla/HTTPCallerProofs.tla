-------------------------- MODULE HTTPCallerProofs --------------------------
(***************************************************************************)
(* Proofs about HTTPCaller, for any number of workers.                     *)
(***************************************************************************)
EXTENDS HTTPCaller, TLAPS

\* What Run has started: everything once it waits.
StartInv ==
  /\ run = "idle" => scheduler = "none" /\ \A w \in Workers : worker[w] = "none"
  /\ run # "idle" => scheduler # "none"
  /\ run \in {"wait", "returned"} => \A w \in Workers : worker[w] # "none"

\* A Stop that was called after Run had started everything, and has returned,
\* leaves nothing behind.
StopInv ==
  /\ stop # "ready" => run \in {"wait", "returned"}
  /\ stop = "returned" => scheduler = "exited"
                          /\ \A w \in Workers : worker[w] = "exited"

\* Every step keeps the types; the scheduler sends only when there is room.
LEMMA TypeStep == ASSUME TypeOK, [Next]_vars PROVE TypeOK'
<1> USE HTTPCallerAssumption DEF HTTPCallerAssumption, TypeOK
<1>1. CASE RunScheduler BY <1>1 DEF RunScheduler
<1>2. ASSUME NEW w \in Workers, RunCaller(w) PROVE TypeOK'
  BY <1>2 DEF RunCaller
<1>3. CASE RunReturns BY <1>3 DEF RunReturns
<1>4. CASE Stop BY <1>4 DEF Stop
<1>5. CASE StopReturns BY <1>5 DEF StopReturns
<1>6. CASE SchedulerTick BY <1>6 DEF SchedulerTick
<1>7. CASE SchedulerSend BY <1>7 DEF SchedulerSend, HasRoom
<1>8. CASE SchedulerExit BY <1>8 DEF SchedulerExit
<1>9. ASSUME NEW w \in Workers, WorkerTake(w) PROVE TypeOK'
  BY <1>9 DEF WorkerTake
<1>10. ASSUME NEW w \in Workers, CallReturns(w) PROVE TypeOK'
  BY <1>10 DEF CallReturns, AfterCall
<1>11. ASSUME NEW w \in Workers, WorkerExit(w) PROVE TypeOK'
  BY <1>11 DEF WorkerExit
<1>12. CASE Tick BY <1>12 DEF Tick
<1>13. CASE CancelCtx BY <1>13 DEF CancelCtx
<1>14. CASE UNCHANGED vars BY <1>14 DEF vars
<1> QED
  BY <1>1, <1>2, <1>3, <1>4, <1>5, <1>6, <1>7, <1>8, <1>9, <1>10, <1>11, <1>12,
     <1>13, <1>14 DEF Next, SchedulerStep, WorkerStep

\* Workers are started in order, the last one when Run goes on to wait.
LEMMA StartStep == ASSUME TypeOK, StartInv, [Next]_vars PROVE StartInv'
<1> USE HTTPCallerAssumption DEF HTTPCallerAssumption, TypeOK, StartInv
<1>1. CASE RunScheduler BY <1>1 DEF RunScheduler
<1>2. ASSUME NEW w \in Workers, RunCaller(w) PROVE StartInv'
  <2>1. \A v \in Workers : worker'[v] = IF v = w THEN "select" ELSE worker[v]
    BY <1>2 DEF RunCaller
  <2>2. ASSUME w = maxConcurrentCalls, NEW v \in Workers PROVE worker'[v] # "none"
    <3>1. v = w \/ v \in 1..(w - 1)
      BY <2>2 DEF Workers
    <3> QED BY <1>2, <2>1, <3>1 DEF RunCaller
  <2> QED BY <1>2, <2>2 DEF RunCaller
<1>3. CASE RunReturns BY <1>3 DEF RunReturns
<1>4. CASE Stop BY <1>4 DEF Stop
<1>5. CASE StopReturns BY <1>5 DEF StopReturns
<1>6. CASE SchedulerStep
  BY <1>6 DEF SchedulerStep, SchedulerTick, SchedulerSend, SchedulerExit
<1>7. ASSUME NEW w \in Workers, WorkerStep(w) PROVE StartInv'
  BY <1>7 DEF WorkerStep, WorkerTake, CallReturns, AfterCall, WorkerExit
<1>8. CASE Tick \/ CancelCtx BY <1>8 DEF Tick, CancelCtx
<1>9. CASE UNCHANGED vars BY <1>9 DEF vars
<1> QED BY <1>1, <1>2, <1>3, <1>4, <1>5, <1>6, <1>7, <1>8, <1>9 DEF Next

\* Nobody starts a goroutine after Stop, so what it has waited for stays gone.
LEMMA StopStep ==
  ASSUME ~EarlyStop, TypeOK, StartInv, StopInv, [Next]_vars PROVE StopInv'
<1> USE DEF StopInv
<1>1. CASE RunScheduler BY <1>1 DEF RunScheduler
<1>2. ASSUME NEW w \in Workers, RunCaller(w) PROVE StopInv'
  BY <1>2 DEF RunCaller
<1>3. CASE RunReturns BY <1>3 DEF RunReturns
<1>4. CASE Stop BY <1>4 DEF Stop
<1>5. CASE StopReturns
  BY <1>5 DEF StopReturns, WaitReturns, Gone, StartInv, TypeOK
<1>6. CASE SchedulerStep
  BY <1>6 DEF SchedulerStep, SchedulerTick, SchedulerSend, SchedulerExit
<1>7. ASSUME NEW w \in Workers, WorkerStep(w) PROVE StopInv'
  <2>1. stop # "returned"
    BY <1>7 DEF WorkerStep, WorkerTake, CallReturns, WorkerExit
  <2> QED BY <1>7, <2>1 DEF WorkerStep, WorkerTake, CallReturns, WorkerExit
<1>8. CASE Tick \/ CancelCtx BY <1>8 DEF Tick, CancelCtx
<1>9. CASE UNCHANGED vars BY <1>9 DEF vars
<1> QED BY <1>1, <1>2, <1>3, <1>4, <1>5, <1>6, <1>7, <1>8, <1>9 DEF Next

\* Every variable keeps its type: the scheduler never puts more into workChan
\* than fits.
THEOREM CallerTypeCorrect == Spec => []TypeOK
<1>1. ASSUME Init PROVE TypeOK
  <2>1. workChan \in 0..maxConcurrentCalls
    BY <1>1, HTTPCallerAssumption DEF HTTPCallerAssumption, Init
  <2>2. worker \in [Workers -> {"none", "select", "call", "exited"}]
    BY <1>1 DEF Init
  <2> QED BY <1>1, <2>1, <2>2 DEF Init, TypeOK
<1> QED BY <1>1, TypeStep, PTL DEF Spec

\* If Stop is only called once Run has started everything, it is graceful, for
\* any number of workers and any moment: when it returns, no call is running
\* and none is started afterwards.  (Without the condition it is not: see the
\* run http_early_stop.)
THEOREM StopEndsCalls == ASSUME ~EarlyStop PROVE Spec => []StopIsGraceful
<1>1. Init => StartInv /\ StopInv
  BY DEF Init, StartInv, StopInv
<1>2. StopInv => StopIsGraceful
  BY DEF StopInv, StopIsGraceful
<1> QED BY <1>1, <1>2, CallerTypeCorrect, StartStep, StopStep, PTL DEF Spec
=============================================================================

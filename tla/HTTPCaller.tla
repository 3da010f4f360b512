----------------------------- MODULE HTTPCaller -----------------------------
(***************************************************************************)
(* The scheduling of HTTP probes in http.go: Run starts a scheduler, which *)
(* turns the ticks of a ticker into work, and maxConcurrentCalls workers,  *)
(* which do it; Stop closes doneChan and waits for all of them.            *)
(*                                                                         *)
(* The wait group doneWg is the set of goroutines that were started and    *)
(* have not returned.  What makeCall does is one step here: the timeout of *)
(* its context ends it.                                                    *)
(***************************************************************************)
EXTENDS Naturals, FiniteSets

CONSTANTS
  maxConcurrentCalls,  \* number of workers, and capacity of workChan
  EarlyStop,  \* the application may call Stop before Run has started everything
  Cancel      \* the application may cancel the context of RunWithContext

ASSUME HTTPCallerAssumption ==
  /\ maxConcurrentCalls \in Nat \ {0}
  /\ EarlyStop \in BOOLEAN /\ Cancel \in BOOLEAN

Workers == 1..maxConcurrentCalls

VARIABLES
  run,        \* the goroutine that calls Run
  stop,       \* the goroutine that calls Stop
  scheduler,  \* the goroutine of runWorkScheduler
  worker,     \* the goroutines of runCallers
  workChan,   \* number of items in the channel
  tick,       \* a tick of the ticker is pending
  doneChan,   \* doneChan is closed
  ctxDone     \* the context is cancelled

vars == <<run, stop, scheduler, worker, workChan, tick, doneChan, ctxDone>>

Init ==
  /\ run = "idle" /\ stop = "ready"
  /\ scheduler = "none" /\ worker = [w \in Workers |-> "none"]
  /\ workChan = 0 /\ tick = FALSE /\ doneChan = FALSE /\ ctxDone = FALSE

Gone(label) == label \in {"none", "exited"}

\* doneWg.Wait() returns
WaitReturns_SchedulerOnly == Gone(scheduler)
WaitReturns == Gone(scheduler) /\ \A w \in Workers : Gone(worker[w])

-----------------------------------------------------------------------------
(***************************************************************************)
(* Run and Stop.                                                           *)
(***************************************************************************)
RunScheduler ==
  /\ run = "idle"
  /\ run' = "starting"
  /\ scheduler' = "select"
  /\ UNCHANGED <<stop, worker, workChan, tick, doneChan, ctxDone>>

\* One turn of the loop in runCallers.
RunCaller(w) ==
  /\ run = "starting"
  /\ worker[w] = "none" /\ \A v \in 1..(w - 1) : worker[v] # "none"
  /\ worker' = [worker EXCEPT ![w] = "select"]
  /\ run' = IF w = maxConcurrentCalls THEN "wait" ELSE run
  /\ UNCHANGED <<stop, scheduler, workChan, tick, doneChan, ctxDone>>

RunReturns ==
  /\ run = "wait" /\ WaitReturns
  /\ run' = "returned"
  /\ UNCHANGED <<stop, scheduler, worker, workChan, tick, doneChan, ctxDone>>

\* Bound: Stop is called once (a second call would close doneChan again).
Stop ==
  /\ stop = "ready" /\ (EarlyStop \/ run \in {"wait", "returned"})
  /\ doneChan' = TRUE
  /\ stop' = "wait"
  /\ UNCHANGED <<run, scheduler, worker, workChan, tick, ctxDone>>

StopReturns ==
  /\ stop = "wait" /\ WaitReturns
  /\ stop' = "returned"
  /\ UNCHANGED <<run, scheduler, worker, workChan, tick, doneChan, ctxDone>>

-----------------------------------------------------------------------------
(***************************************************************************)
(* The scheduler.  Once it has taken a tick it sends on workChan outside   *)
(* of its select: it waits for room there, and for nothing else.           *)
(***************************************************************************)
SchedulerTick ==
  /\ scheduler = "select" /\ tick
  /\ tick' = FALSE
  /\ scheduler' = "send"
  /\ UNCHANGED <<run, stop, worker, workChan, doneChan, ctxDone>>

HasRoom_OneMore == workChan <= maxConcurrentCalls
HasRoom == workChan < maxConcurrentCalls

SchedulerSend ==
  /\ scheduler = "send"
  /\ HasRoom
  /\ workChan' = workChan + 1
  /\ scheduler' = "select"
  /\ UNCHANGED <<run, stop, worker, tick, doneChan, ctxDone>>

SchedulerExit ==
  /\ scheduler = "select" /\ (ctxDone \/ doneChan)
  /\ scheduler' = "exited" /\ tick' = FALSE
  /\ UNCHANGED <<run, stop, worker, workChan, doneChan, ctxDone>>

-----------------------------------------------------------------------------
(***************************************************************************)
(* The workers.                                                            *)
(***************************************************************************)
WorkerTake(w) ==
  /\ worker[w] = "select" /\ workChan > 0
  /\ workChan' = workChan - 1
  /\ worker' = [worker EXCEPT ![w] = "call"]
  /\ UNCHANGED <<run, stop, scheduler, tick, doneChan, ctxDone>>

\* makeCall returns; an error is logged.
AfterCall_ErrorExits == "exited"
AfterCall == "select"

CallReturns(w) ==
  /\ worker[w] = "call"
  /\ worker' = [worker EXCEPT ![w] = AfterCall]
  /\ UNCHANGED <<run, stop, scheduler, workChan, tick, doneChan, ctxDone>>

ToldToExit_NotByStop == ctxDone
ToldToExit_NotByCancel == doneChan
ToldToExit == ctxDone \/ doneChan

WorkerExit(w) ==
  /\ worker[w] = "select" /\ ToldToExit
  /\ worker' = [worker EXCEPT ![w] = "exited"]
  /\ UNCHANGED <<run, stop, scheduler, workChan, tick, doneChan, ctxDone>>

-----------------------------------------------------------------------------
Tick ==
  /\ scheduler \in {"select", "send"} /\ ~tick
  /\ tick' = TRUE
  /\ UNCHANGED <<run, stop, scheduler, worker, workChan, doneChan, ctxDone>>

CancelCtx ==
  /\ Cancel /\ ~ctxDone
  /\ ctxDone' = TRUE
  /\ UNCHANGED <<run, stop, scheduler, worker, workChan, tick, doneChan>>

SchedulerStep == SchedulerTick \/ SchedulerSend \/ SchedulerExit

WorkerStep(w) == WorkerTake(w) \/ CallReturns(w) \/ WorkerExit(w)

Next ==
  \/ RunScheduler \/ (\E w \in Workers : RunCaller(w)) \/ RunReturns
  \/ Stop \/ StopReturns
  \/ SchedulerStep \/ (\E w \in Workers : WorkerStep(w))
  \/ Tick \/ CancelCtx

Spec == Init /\ [][Next]_vars

\* Goroutines that can go on do, a call ends (its context has a timeout), and
\* a select whose exit case stays ready takes it (it picks uniformly).
Fairness ==
  /\ WF_vars(RunReturns) /\ WF_vars(StopReturns)
  /\ WF_vars(SchedulerStep) /\ SF_vars(SchedulerExit)
  /\ \A w \in Workers :
       WF_vars(RunCaller(w)) /\ WF_vars(WorkerStep(w)) /\ SF_vars(WorkerExit(w))

FairSpec == Spec /\ Fairness

-----------------------------------------------------------------------------
(***************************************************************************)
(* Properties.                                                             *)
(***************************************************************************)

\* Every variable has its type; the channel holds at most its capacity.
TypeOK ==
  /\ run \in {"idle", "starting", "wait", "returned"}
  /\ stop \in {"ready", "wait", "returned"}
  /\ scheduler \in {"none", "select", "send", "exited"}
  /\ worker \in [Workers -> {"none", "select", "call", "exited"}]
  /\ workChan \in 0..maxConcurrentCalls
  /\ tick \in BOOLEAN /\ doneChan \in BOOLEAN /\ ctxDone \in BOOLEAN

\* "Stop gracefully stops the execution": once Stop has returned, no call is
\* running and none is ever started.
StopIsGraceful == stop = "returned" => \A w \in Workers : worker[w] # "call"

\* The scheduler has taken a tick, the channel is full, and the workers that
\* could make room have returned.
SchedulerStuck ==
  /\ scheduler = "send" /\ workChan = maxConcurrentCalls
  /\ \A w \in Workers : worker[w] = "exited"

\* Stop returns, unless the scheduler got stuck: nothing else can keep it.
StopReturnsUnlessStuck == stop = "wait" ~> stop = "returned" \/ SchedulerStuck

\* Run returns once its context is cancelled, unless the scheduler got stuck.
CancelReturnsUnlessStuck ==
  ctxDone /\ run = "wait" ~> run = "returned" \/ SchedulerStuck

\* Work is done: a scheduler that waits for room in the channel gets it, or
\* the caller was stopped.
WorkIsDone == scheduler = "send" ~> scheduler = "select" \/ doneChan \/ ctxDone

\* Stop returns: a caller that is to be stopped gracefully does stop.
StopAlwaysReturns == stop = "wait" ~> stop = "returned"

=============================================================================

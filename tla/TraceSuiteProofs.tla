-------------------------- MODULE TraceSuiteProofs --------------------------
(***************************************************************************)
(* Proofs about TraceSuite, for any number of goroutines of the transport  *)
(* that run any hooks: what suite.mu protects.                             *)
(***************************************************************************)
EXTENDS TraceSuite, TLAPS

Labels == {"none", "working", "locked", "callback", "ended", "request", "onReq", "do",
           "read", "lockResp", "setEnd", "onResp", "returned"}

TraceType ==
  /\ pc \in [Goroutines -> Labels]
  /\ pc["call"] \in {"request", "onReq", "do", "read", "lockResp", "setEnd",
                     "onResp", "returned"}
  /\ \A t \in Tracers : pc[t] \in {"none", "working", "locked", "callback", "ended"}
  /\ next \in [Tracers -> Nat \ {0}]
  /\ now \in Nat /\ generalEnd \in Nat
  /\ timer \in [Events -> Nat] /\ stamp \in [Tracers -> Nat]

Holding(g) == pc[g] \in {"locked", "callback", "onReq", "setEnd", "onResp"}

\* A goroutine between Lock and Unlock is the holder of the mutex.
MutexInv == \A g \in Goroutines : Holding(g) => mu = g

\* No hook runs before client.Do.
DoInv == pc["call"] \in {"request", "onReq"} => \A t \in Tracers : pc[t] = "none"

\* A goroutine that is in a hook has one.
HookInv == \A t \in Tracers : pc[t] \in {"locked", "callback"} => MoreHooks(t)

\* All times have been read from the clock.
ClockInv == \A e \in Events : timer[e] < now

TraceInv ==
  /\ TraceType /\ MutexInv /\ DoInv /\ HookInv /\ ClockInv
  /\ CallbackSeesItsTimer /\ RespSeesTheEnd

-----------------------------------------------------------------------------
\* The event of a hook that is running is a field of the TraceSuite.
LEMMA EventIsField ==
  ASSUME TraceType, NEW t \in Tracers, MoreHooks(t) PROVE Event(t) \in Events
<1>1. Hooks[t] \in Seq(Events) /\ next[t] \in 1..Len(Hooks[t])
  BY TraceSuiteAssumption DEF TraceSuiteAssumption, TraceType, MoreHooks
<1> QED BY <1>1 DEF Event

\* makeCall starts with no hook running.
LEMMA TraceInit == Init => TraceInv
<1> SUFFICES ASSUME Init PROVE TraceInv OBVIOUS
<1>1. TraceType
  BY TraceSuiteAssumption DEF Init, TraceType, Labels, Goroutines, TraceSuiteAssumption
<1>2. \A t \in Tracers : pc[t] = "none"
  BY TraceSuiteAssumption DEF Init, Goroutines, TraceSuiteAssumption
<1>3. pc["call"] = "request"
  BY DEF Init, Goroutines
<1>4. MutexInv
  BY <1>2, <1>3 DEF MutexInv, Holding, Goroutines
<1>5. ClockInv
  BY DEF Init, ClockInv
<1> QED BY <1>1, <1>2, <1>3, <1>4, <1>5
           DEF TraceInv, DoInv, HookInv, CallbackSeesItsTimer, RespSeesTheEnd

\* A step of a hook.
LEMMA HookStepInv ==
  ASSUME TraceInv, NEW t \in Tracers, HookStep(t) \/ TracerEnds(t)
  PROVE  TraceInv'
<1>0. t \in Goroutines /\ "call" \in Goroutines /\ t # "call"
  BY TraceSuiteAssumption DEF Goroutines, TraceSuiteAssumption
<1>1. \A u \in Tracers : u \in Goroutines
  BY DEF Goroutines
<1>2. /\ \A g \in Goroutines : g # t => pc'[g] = pc[g]
      /\ pc'["call"] = pc["call"] /\ generalEnd' = generalEnd
  BY <1>0 DEF HookStep, HookEnters, HookSets, HookReturns, TracerEnds, Goto,
              TraceInv, TraceType
<1>3. CASE HookEnters(t)
  <2>1. pc[t] = "working" /\ MoreHooks(t) /\ mu = "none" /\ mu' = t /\ pc'[t] = "locked"
        /\ UNCHANGED <<next, now, timer, generalEnd, stamp>>
    BY <1>0, <1>3 DEF HookEnters, CanLock, Goto, TraceInv, TraceType
  <2>2. TraceType'
    BY <1>0, <1>2, <1>3 DEF TraceInv, TraceType, Labels, HookEnters, Goto
  <2>3. MutexInv'
    BY <1>2, <2>1, TraceSuiteAssumption
       DEF TraceInv, MutexInv, Holding, Goroutines, TraceSuiteAssumption
  <2>4. DoInv' /\ HookInv' /\ ClockInv' /\ RespSeesTheEnd'
    BY <1>0, <1>1, <1>2, <2>1
       DEF TraceInv, DoInv, HookInv, ClockInv, RespSeesTheEnd, MoreHooks
  <2>5. CallbackSeesItsTimer'
    BY <1>1, <1>2, <2>1 DEF TraceInv, CallbackSeesItsTimer, Event
  <2> QED BY <2>2, <2>3, <2>4, <2>5 DEF TraceInv
<1>4. CASE HookSets(t)
  <2>1. /\ pc[t] = "locked" /\ pc'[t] = "callback" /\ mu = t
        /\ timer' = [timer EXCEPT ![Event(t)] = now]
        /\ stamp' = [stamp EXCEPT ![t] = now] /\ now' = now + 1
        /\ UNCHANGED <<next, mu>>
    BY <1>0, <1>4 DEF HookSets, Goto, TraceInv, TraceType, MutexInv, Holding
  <2>2. Event(t) \in Events /\ Event(t)' = Event(t)
    <3>1. MoreHooks(t) /\ TraceType
      BY <2>1 DEF TraceInv, HookInv
    <3>2. Event(t)' = Event(t)
      BY <2>1 DEF Event
    <3> QED BY <3>1, <3>2, EventIsField
  <2>3. TraceType'
    <3>1. timer' \in [Events -> Nat] /\ stamp' \in [Tracers -> Nat] /\ now' \in Nat
      <4>1. now \in Nat /\ timer \in [Events -> Nat] /\ stamp \in [Tracers -> Nat]
        BY DEF TraceInv, TraceType
      <4>2. timer' \in [Events -> Nat] BY <2>1, <4>1
      <4>3. stamp' \in [Tracers -> Nat] BY <2>1, <4>1
      <4> QED BY <2>1, <4>1, <4>2, <4>3
    <3>2. pc' \in [Goroutines -> Labels]
      BY <1>4 DEF TraceInv, TraceType, Labels, HookSets, Goto
    <3> QED BY <1>2, <2>1, <3>1, <3>2, <1>1 DEF TraceInv, TraceType
  <2>4. MutexInv'
    BY <1>2, <2>1 DEF TraceInv, MutexInv, Holding
  <2>5. DoInv' /\ HookInv'
    BY <1>0, <1>1, <1>2, <2>1 DEF TraceInv, DoInv, HookInv, MoreHooks
  <2>6. ClockInv'
    BY <2>1 DEF TraceInv, ClockInv, TraceType
  <2>7. \A g \in Goroutines : g # t => ~Holding(g)
    BY <2>1 DEF TraceInv, MutexInv
  <2>8. RespSeesTheEnd'
    BY <1>0, <1>2, <2>7 DEF RespSeesTheEnd, Holding
  <2>9. CallbackSeesItsTimer'
    <3> SUFFICES ASSUME NEW u \in Tracers, pc'[u] = "callback"
                 PROVE  timer'[Event(u)'] = stamp'[u]
      BY DEF CallbackSeesItsTimer
    <3>1. u = t
      BY <1>1, <1>2, <2>7 DEF Holding
    <3> QED BY <2>1, <2>2, <3>1 DEF TraceInv, TraceType
  <2> QED BY <2>3, <2>4, <2>5, <2>6, <2>8, <2>9 DEF TraceInv
<1>5. CASE HookReturns(t)
  <2>1. /\ pc[t] = "callback" /\ pc'[t] = "working" /\ mu = t /\ mu' = "none"
        /\ next' = [next EXCEPT ![t] = next[t] + 1]
        /\ UNCHANGED <<now, timer, generalEnd, stamp>>
    BY <1>0, <1>5 DEF HookReturns, Unlock, Goto, TraceInv, TraceType, MutexInv, Holding
  <2>2. TraceType'
    BY <1>0, <1>2, <2>1, <1>5 DEF TraceInv, TraceType, Labels, HookReturns, Goto
  <2>3. \A u \in Tracers : u # t => next'[u] = next[u]
    BY <2>1 DEF TraceInv, TraceType
  <2>4. MutexInv'
    BY <1>2, <2>1 DEF TraceInv, MutexInv, Holding
  <2>5. DoInv' /\ HookInv' /\ ClockInv' /\ RespSeesTheEnd'
    BY <1>0, <1>1, <1>2, <2>1, <2>3
       DEF TraceInv, DoInv, HookInv, ClockInv, RespSeesTheEnd, MoreHooks
  <2>6. CallbackSeesItsTimer'
    BY <1>1, <1>2, <2>1, <2>3 DEF TraceInv, CallbackSeesItsTimer, Event
  <2> QED BY <2>2, <2>4, <2>5, <2>6 DEF TraceInv
<1>6. CASE TracerEnds(t)
  <2>1. pc[t] = "working" /\ pc'[t] = "ended"
        /\ UNCHANGED <<next, mu, now, timer, generalEnd, stamp>>
    BY <1>0, <1>6 DEF TracerEnds, Goto, TraceInv, TraceType
  <2>2. TraceType'
    BY <1>0, <1>2, <1>6 DEF TraceInv, TraceType, Labels, TracerEnds, Goto
  <2>3. MutexInv'
    BY <1>2, <2>1 DEF TraceInv, MutexInv, Holding
  <2>4. DoInv' /\ HookInv' /\ ClockInv' /\ RespSeesTheEnd'
    BY <1>0, <1>1, <1>2, <2>1
       DEF TraceInv, DoInv, HookInv, ClockInv, RespSeesTheEnd, MoreHooks
  <2>5. CallbackSeesItsTimer'
    BY <1>1, <1>2, <2>1 DEF TraceInv, CallbackSeesItsTimer, Event
  <2> QED BY <2>2, <2>3, <2>4, <2>5 DEF TraceInv
<1> QED BY <1>3, <1>4, <1>5, <1>6 DEF HookStep

\* A step of makeCall that sets no time.
LEMMA CallMoves ==
  ASSUME TraceInv, CallFrame, UNCHANGED <<now, generalEnd>>,
         \A t \in Tracers : pc'[t] = pc[t], TraceType', MutexInv', DoInv',
         pc'["call"] # "onResp"
  PROVE  TraceInv'
<1>1. HookInv' /\ ClockInv' /\ RespSeesTheEnd'
  BY DEF TraceInv, HookInv, ClockInv, RespSeesTheEnd, CallFrame, MoreHooks
<1>2. CallbackSeesItsTimer'
  BY DEF TraceInv, CallbackSeesItsTimer, Event, CallFrame
<1> QED BY <1>1, <1>2 DEF TraceInv

\* A step of makeCall.
LEMMA CallStepInv ==
  ASSUME TraceInv, RequestFails \/ CallFails \/ DoReturns \/ CallStep
  PROVE  TraceInv'
<1>0. "call" \in Goroutines /\ "call" \notin Tracers /\ "call" # "none"
      /\ Tracers \subseteq Goroutines
  BY TraceSuiteAssumption DEF Goroutines, TraceSuiteAssumption
<1> USE DEF TraceType, Labels, MutexInv, DoInv, Holding
<1>1. CASE RequestFails \/ CallFails \/ DoReturns \/ BodyRead
  <2>1. /\ pc' \in [Goroutines -> Labels]
        /\ \A g \in Goroutines : g # "call" => pc'[g] = pc[g]
        /\ pc'["call"] \in {"returned", "read", "lockResp"}
        /\ CallFrame /\ UNCHANGED <<mu, now, generalEnd>>
    BY <1>0, <1>1 DEF TraceInv, RequestFails, CallFails, DoReturns, BodyRead, Goto
  <2>2. TraceType' /\ MutexInv' /\ DoInv'
    BY <1>0, <2>1 DEF TraceInv, CallFrame
  <2> QED BY <1>0, <2>1, <2>2, CallMoves
<1>2. CASE EnterOnReq \/ LockResp
  <2>1. /\ mu = "none" /\ mu' = "call"
        /\ pc' \in [Goroutines -> Labels]
        /\ \A g \in Goroutines : g # "call" => pc'[g] = pc[g]
        /\ \/ pc["call"] = "request" /\ pc'["call"] = "onReq"
           \/ pc["call"] = "lockResp" /\ pc'["call"] = "setEnd"
        /\ CallFrame /\ UNCHANGED <<now, generalEnd>>
    BY <1>0, <1>2 DEF TraceInv, EnterOnReq, LockResp, CanLock, Goto
  <2>2. \A g \in Goroutines : g # "none"
    BY <1>0, TraceSuiteAssumption DEF Goroutines, TraceSuiteAssumption
  <2>3. TraceType' /\ MutexInv' /\ DoInv'
    BY <1>0, <2>1, <2>2 DEF TraceInv, CallFrame
  <2> QED BY <1>0, <2>1, <2>3, CallMoves
<1>3. CASE Do
  <2>1. /\ pc["call"] = "onReq" /\ pc'["call"] = "do"
        /\ \A t \in Tracers : pc[t] = "none" /\ pc'[t] = "working"
        /\ CallFrame /\ UNCHANGED <<now, generalEnd>>
    BY <1>0, <1>3 DEF TraceInv, Do
  <2>2. TraceType'
    BY <1>3, <2>1 DEF TraceInv, CallFrame, Do
  <2>3. MutexInv' /\ DoInv'
    BY <2>1 DEF Goroutines
  <2>4. HookInv' /\ ClockInv' /\ CallbackSeesItsTimer' /\ RespSeesTheEnd'
    BY <2>1 DEF TraceInv, HookInv, ClockInv, CallbackSeesItsTimer, RespSeesTheEnd,
                CallFrame
  <2> QED BY <2>2, <2>3, <2>4 DEF TraceInv
<1>4. CASE SetEnd
  <2>1. /\ pc' \in [Goroutines -> Labels]
        /\ \A g \in Goroutines : g # "call" => pc'[g] = pc[g]
        /\ pc["call"] = "setEnd" /\ pc'["call"] = "onResp"
        /\ generalEnd' = now /\ now' = now + 1
        /\ CallFrame /\ UNCHANGED mu
    BY <1>0, <1>4 DEF TraceInv, SetEnd, Goto
  <2>2. TraceType' /\ MutexInv' /\ DoInv'
    BY <1>0, <2>1 DEF TraceInv, CallFrame
  <2>3. HookInv' /\ CallbackSeesItsTimer'
    BY <1>0, <2>1 DEF TraceInv, HookInv, CallbackSeesItsTimer, CallFrame, MoreHooks,
                      Event
  <2>4. ClockInv' /\ RespSeesTheEnd'
    BY <2>1 DEF TraceInv, ClockInv, RespSeesTheEnd, CallFrame
  <2> QED BY <2>2, <2>3, <2>4 DEF TraceInv
<1>5. CASE CallReturns
  <2>1. /\ mu = "call" /\ mu' = "none"
        /\ pc' \in [Goroutines -> Labels]
        /\ \A g \in Goroutines : g # "call" => pc'[g] = pc[g]
        /\ pc'["call"] = "returned"
        /\ CallFrame /\ UNCHANGED <<now, generalEnd>>
    BY <1>0, <1>5 DEF TraceInv, CallReturns, Goto
  <2>2. TraceType' /\ MutexInv' /\ DoInv'
    BY <1>0, <2>1 DEF TraceInv, CallFrame
  <2> QED BY <1>0, <2>1, <2>2, CallMoves
<1> QED BY <1>1, <1>2, <1>3, <1>4, <1>5 DEF CallStep

-----------------------------------------------------------------------------
\* TraceInv is an invariant.
LEMMA TraceInvariant == Spec => []TraceInv
<1>1. ASSUME TraceInv, Expire \/ UNCHANGED vars PROVE TraceInv'
  BY <1>1 DEF Expire, vars, TraceInv, TraceType, MutexInv, Holding, DoInv, HookInv,
              MoreHooks, ClockInv, CallbackSeesItsTimer, Event, RespSeesTheEnd
<1>2. ASSUME TraceInv, [Next]_vars PROVE TraceInv'
  BY <1>1, <1>2, HookStepInv, CallStepInv DEF Next, Terminated
<1> QED BY <1>2, TraceInit, PTL DEF Spec

\* No two callbacks on one TraceSuite run at the same time.
THEOREM CallbacksExclude == Spec => []CallbacksAreExclusive
<1>1. TraceInv => CallbacksAreExclusive
  BY DEF TraceInv, MutexInv, Holding, CallbacksAreExclusive, InCallback
<1> QED BY <1>1, TraceInvariant, PTL

\* For as long as a callback runs, its timer holds the time of its own event.
THEOREM TimersAreOwn == Spec => []CallbackSeesItsTimer
<1>1. TraceInv => CallbackSeesItsTimer BY DEF TraceInv
<1> QED BY <1>1, TraceInvariant, PTL

\* While onResp runs, the end of the call is later than every timer.
THEOREM EndIsLast == Spec => []RespSeesTheEnd
<1>1. TraceInv => RespSeesTheEnd BY DEF TraceInv
<1> QED BY <1>1, TraceInvariant, PTL
=============================================================================

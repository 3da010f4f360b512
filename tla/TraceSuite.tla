----------------------------- MODULE TraceSuite -----------------------------
(***************************************************************************)
(* One call of makeCall in http.go, the TraceSuite it makes, and the       *)
(* goroutines of net/http that run the httptrace hooks of getClientTrace   *)
(* on that TraceSuite.                                                     *)
(*                                                                         *)
(* The hooks run on goroutines of the transport: one for each connection   *)
(* that is dialled (two at a time when a host has an IPv6 and an IPv4      *)
(* address) and the read and write loops of the connection that is used.   *)
(* A dial that lost, or whose request was given another connection, goes   *)
(* on after the response has arrived, and after makeCall has returned.     *)
(* All callbacks of the application are set, which makes the most of the   *)
(* mutex suite.mu.  Times are ticks of a clock that moves at each reading. *)
(***************************************************************************)
EXTENDS Naturals, Sequences

CONSTANTS
  Tracers,  \* goroutines of the transport that run hooks
  Hooks,    \* Hooks[t]: the hooks goroutine t runs, in order
  Reader    \* the read loop: a response has been read once it is through

\* The fields of TraceSuite that hooks set, named after the hooks.
Events == {"dnsStart", "dnsEnd", "connStart", "connEnd", "tlsStart", "tlsEnd",
           "wroteHeaders", "firstByteReceived"}

ASSUME TraceSuiteAssumption ==
  /\ Hooks \in [Tracers -> Seq(Events)]
  /\ Reader \in Tracers /\ "call" \notin Tracers /\ "none" \notin Tracers

Goroutines == Tracers \cup {"call"}

VARIABLES
  pc,         \* where each goroutine is
  next,       \* next[t]: index in Hooks[t] of the hook t runs next
  mu,         \* holder of suite.mu, or "none"
  now,        \* the clock
  timer,      \* the times hooks have set, 0 when not set
  generalEnd, \* set before onResp is called
  stamp,      \* stamp[t]: the time that t last read from the clock
  expired,    \* the context of the call is cancelled or timed out
  callErr     \* what makeCall returned

vars == <<pc, next, mu, now, timer, generalEnd, stamp, expired, callErr>>

Init ==
  /\ pc = [g \in Goroutines |-> IF g = "call" THEN "request" ELSE "none"]
  /\ next = [t \in Tracers |-> 1]
  /\ mu = "none" /\ now = 1
  /\ timer = [e \in Events |-> 0] /\ generalEnd = 0
  /\ stamp = [t \in Tracers |-> 0]
  /\ expired = FALSE /\ callErr = "nil"

Goto(g, label) == pc' = [pc EXCEPT ![g] = label]

CanLock_NoMutex == TRUE
CanLock == mu = "none"

-----------------------------------------------------------------------------
(***************************************************************************)
(* A hook: lock suite.mu, set the timer, call the application's callback,  *)
(* and unlock when the callback has returned.                              *)
(***************************************************************************)
MoreHooks(t) == next[t] <= Len(Hooks[t])

Event(t) == Hooks[t][next[t]]

HookEnters(t) ==
  /\ pc[t] = "working" /\ MoreHooks(t)
  /\ CanLock
  /\ mu' = t
  /\ Goto(t, "locked")
  /\ UNCHANGED <<next, now, timer, generalEnd, stamp, expired, callErr>>

HookSets(t) ==
  /\ pc[t] = "locked"
  /\ timer' = [timer EXCEPT ![Event(t)] = now]
  /\ stamp' = [stamp EXCEPT ![t] = now]
  /\ now' = now + 1
  /\ Goto(t, "callback")
  /\ UNCHANGED <<next, mu, generalEnd, expired, callErr>>

Unlock_Forgotten == mu' = mu
Unlock == mu' = "none"

\* The callback returns.
HookReturns(t) ==
  /\ pc[t] = "callback"
  /\ Unlock
  /\ next' = [next EXCEPT ![t] = @ + 1]
  /\ Goto(t, "working")
  /\ UNCHANGED <<now, timer, generalEnd, stamp, expired, callErr>>

\* The goroutine is through its hooks, or gives up (the dial or the
\* connection failed, or its context has expired) before the next one.
TracerEnds(t) ==
  /\ pc[t] = "working"
  /\ Goto(t, "ended")
  /\ UNCHANGED <<next, mu, now, timer, generalEnd, stamp, expired, callErr>>

-----------------------------------------------------------------------------
(***************************************************************************)
(* makeCall.                                                               *)
(***************************************************************************)
CallFrame == UNCHANGED <<next, timer, stamp, expired>>

\* http.NewRequestWithContext refuses the method or the URL.
RequestFails ==
  /\ pc["call"] = "request"
  /\ Goto("call", "returned")
  /\ callErr' = "request"
  /\ CallFrame /\ UNCHANGED <<mu, now, generalEnd>>

EnterOnReq ==
  /\ pc["call"] = "request"
  /\ CanLock
  /\ mu' = "call"
  /\ Goto("call", "onReq")
  /\ CallFrame /\ UNCHANGED <<now, generalEnd, callErr>>

\* onReq returns; client.Do starts.  Its goroutines run hooks from now on.
Do ==
  /\ pc["call"] = "onReq"
  /\ mu' = "none"
  /\ pc' = [g \in Goroutines |-> IF g = "call" THEN "do" ELSE "working"]
  /\ CallFrame /\ UNCHANGED <<now, generalEnd, callErr>>

\* client.Do or io.ReadAll fails: the connection, the response or the timeout.
CallFails ==
  /\ pc["call"] \in {"do", "read"}
  /\ Goto("call", "returned")
  /\ callErr' = IF expired THEN "timeout" ELSE "network"
  /\ CallFrame /\ UNCHANGED <<mu, now, generalEnd>>

\* client.Do returns the response; io.ReadAll reads its body.
DoReturns ==
  /\ pc["call"] = "do"
  /\ pc[Reader] \in {"working", "ended"} /\ ~MoreHooks(Reader)
  /\ Goto("call", "read")
  /\ CallFrame /\ UNCHANGED <<mu, now, generalEnd, callErr>>

BodyRead ==
  /\ pc["call"] = "read"
  /\ Goto("call", "lockResp")
  /\ CallFrame /\ UNCHANGED <<mu, now, generalEnd, callErr>>

LockResp_NoLock ==
  /\ pc["call"] = "lockResp"
  /\ Goto("call", "setEnd")
  /\ CallFrame /\ UNCHANGED <<mu, now, generalEnd, callErr>>

LockResp ==
  /\ pc["call"] = "lockResp"
  /\ CanLock
  /\ mu' = "call"
  /\ Goto("call", "setEnd")
  /\ CallFrame /\ UNCHANGED <<now, generalEnd, callErr>>

\* The time of the end is read under the mutex, then onResp is called.
SetEnd ==
  /\ pc["call"] = "setEnd"
  /\ generalEnd' = now
  /\ now' = now + 1
  /\ Goto("call", "onResp")
  /\ CallFrame /\ UNCHANGED <<mu, callErr>>

\* onResp returns; the deferred Unlock and cancel.
CallReturns ==
  /\ pc["call"] = "onResp"
  /\ mu' = "none"
  /\ Goto("call", "returned")
  /\ CallFrame /\ UNCHANGED <<now, generalEnd, callErr>>

-----------------------------------------------------------------------------
\* The context given to RunWithContext is cancelled, or the timeout is over.
Expire ==
  /\ ~expired
  /\ expired' = TRUE
  /\ UNCHANGED <<pc, next, mu, now, timer, generalEnd, stamp, callErr>>

\* The call and all goroutines of the transport have ended.
Terminated ==
  /\ pc["call"] = "returned" /\ expired
  /\ \A t \in Tracers : pc[t] \in {"none", "ended"}
  /\ UNCHANGED vars

HookStep(t) == HookEnters(t) \/ HookSets(t) \/ HookReturns(t)

CallStep == EnterOnReq \/ Do \/ BodyRead \/ LockResp \/ SetEnd \/ CallReturns

Next ==
  \/ \E t \in Tracers : HookStep(t) \/ TracerEnds(t)
  \/ RequestFails \/ CallFails \/ DoReturns \/ CallStep
  \/ Expire \/ Terminated

Spec == Init /\ [][Next]_vars

\* Goroutines go on and callbacks return; the context expires at the latest
\* when the timeout is over, and then ends client.Do and io.ReadAll.  Nothing
\* is assumed of the network.
Fairness ==
  /\ \A t \in Tracers : WF_vars(HookStep(t) \/ TracerEnds(t))
  /\ WF_vars(CallStep) /\ WF_vars(Expire) /\ WF_vars(expired /\ CallFails)

FairSpec == Spec /\ Fairness

-----------------------------------------------------------------------------
(***************************************************************************)
(* Properties.                                                             *)
(***************************************************************************)
InCallback(g) == pc[g] \in {"callback", "onReq", "onResp"}

\* "Before each callback call, mutex is used, meaning all operations inside
\* your callback are concurrent-safe": no two callbacks on one TraceSuite
\* run at the same time, those of late dials and onResp included.
CallbacksAreExclusive ==
  \A g, h \in Goroutines : InCallback(g) /\ InCallback(h) => g = h

\* "These timers are set before making a corresponding callback": for as long
\* as a callback runs, its timer holds the time of its own event, although
\* another dial sets the same timer.
CallbackSeesItsTimer ==
  \A t \in Tracers : pc[t] = "callback" => timer[Event(t)] = stamp[t]

\* What onResp computes from the timers is never negative: while it runs, the
\* end of the call is later than every timer, although dials may still be
\* going on.
RespSeesTheEnd ==
  pc["call"] = "onResp" => \A e \in Events : timer[e] < generalEnd

\* A call ends, whatever the network does: the timeout ends the request, and
\* no hook keeps suite.mu from the call.  (HTTPCaller counts on it.)
CallEnds == pc["call"] = "do" ~> pc["call"] = "returned"

=============================================================================

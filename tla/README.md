# Formal models of pro-bing

TLA+ models of the probing library in `src/`: the ICMP `Pinger` (`ping.go`) and
the `HTTPCaller` (`http.go`), the TLC configurations that check them on small
instances, and TLAPS proofs of safety properties of both, and of a refinement, for
every instance.

Run a check with `tlc -workers 2 -config X.cfg M` and the proofs with
`tlapm PingerProofs.tla` (likewise the other modules with `Proofs` in their names,
and `DataInduction`). `PROJECT.json` lists the runs, which source lines each
definition models, the mutants (plausible bugs each property is known to catch),
the findings, the hazards and the theorems.

## 1. The system

| component | state | operations | interacts with |
|---|---|---|---|
| Pinger run (`ping.go` 533-704, 754-1024) | `done`, `lock`, socket, channel `recv`, tickers, sequence number, tracker UUIDs, `awaitingSequences` | `Run`, `RunWithContext`, `Stop`; goroutines: watcher, `recvICMP`, `runLoop` (`sendICMP`, `processPacket`) | errgroup, kernel socket, application callbacks, users of `Stop` |
| RTT statistics (334-364, 709-734) | counters, lists, min/max/avg/stddev, `statsMu` | `updateStatistics`, counter updates, `Statistics` | written by the loop, read by anyone |
| Set-up (366-528, 540-593, 996-1024) | address, network, socket options | `Resolve`, `SetAddr`, `SetNetwork`, setters, `listen` | DNS, kernel |
| packetConn, platform files | socket, TTL, interface, source | reads, writes, options, ICMP filter | kernel |
| Packet encoding (736-752, 1026-1069) | none | `timeToBytes`, `bytesToTime`, `stripIPv4Header`, back-off | processPacket, sendICMP, recvICMP |
| HTTPCaller scheduling (`http.go` 359-420) | `workChan`, `doneChan`, `doneWg` | `Run`, `Stop`, scheduler, workers | context, `makeCall` |
| HTTP call, `TraceSuite` (422-618) | timers, `mu` | `makeCall`, httptrace hooks, callbacks | goroutines of net/http |
| cmd/ping | none | signal handler that calls `Stop` | Pinger |
| Logger | none | output | all |

What is hard in it:

- Four goroutines and any number of users end a run in any order and at the same
  time; `Stop` is reached from `listen`, all three
  goroutines, every callback and users; closing `done` twice, or sending on
  the closed `recv`, panics.
- The loop writes a request before it records it, and callbacks run in between.
- The network loses, delays, reorders and duplicates replies and delivers packets
  of other programs; sequence numbers wrap after 65536 requests.
- Channels of bounded capacity between goroutines that leave at different times.
- Retry loops, timeouts, and cancellation competing in selects.
- Statistics computed incrementally with truncating integers while others read.
- Address, network, family and socket are set by different calls, in any order, and
  nine steps of a set-up may fail; three platform files behave differently, of
  which a test run sees one.

What makes it correct, per component: the counters of the Pinger are those of its
requests (section 4); a run ends exactly when it should, returns the right error
and releases everything; a snapshot of the statistics is of one moment and close
to the exact values; `HTTPCaller.Stop` leaves nothing running and returns;
callbacks on one `TraceSuite` exclude each other and see their own timers; a run
that starts has a socket for its address and the options that were asked for, on
every platform, and recognises its own replies.

## 2. Modules

**`Pinger`** — the whole of a run. `pc[a]` is the control point of each actor:
`"main"` (the caller of `Run`), the goroutines `"watcher"`, `"receiver"`,
`"loop"`, and `Users`. One step is the code between two points at which another
actor can see or change what it uses. A callback is a control point: the
goroutine stays there until the callback returns, and the application may call
`Stop` from inside it. `Stop` is three steps of its caller (lock, look, close) and
continues at `resume`. The correspondence:

| code | actions |
|---|---|
| `Stop` 685-698 | `StopLock`, `StopCheck`, `StopClose`; callers `CallStop`, `CallbackStop`, `UserStop` |
| `RunWithContext` 540-593, `listen` | `Run`, `SetupFails`, `ListenFails`, `SetupOK`, `CloseConn` |
| `run` 595-631 | `Start`, `WatchCtx`, `WatchDone`, `Finish` (`g.Wait`, `close(recv)`, `finish`) |
| errgroup (external) | `GoReturn`, `GroupCtxDone` |
| `recvICMP` 754-799 | `RecvDone`, `SetDeadline(Fails)`, `ReadTimeout`, `ReadAgain`, `ReadFails`, `ReadAbort`, `ReadReply`, `ReadNoise`, `Deliver` |
| `runLoop` 633-683 | `SelectDone`, `SelectTimeout`, `SelectIntervalStop`, `SelectIntervalSend`, `EndIteration` |
| `processPacket` 820-906 | `DiscardPacket`, `AcceptPacket`, `DuplicatePacket`, `PacketDone`; `IsOurs`, `matchID` |
| `sendICMP` 908-994 | `WriteOK`, `WriteEACCES`, `SetBroadcastFails`, `SetBroadcastFlag`, `WriteENOBUFS`, `SendRetry`, `WriteFails`, `SendFailed`, `MarkSent` |

A packet is abstracted to what `processPacket` tells apart (does it parse, type,
identifier, long enough, UUID, sequence number) and the request it answers. A
tracker UUID is its index in `trackerUUIDs`; `awaiting` holds the pairs in
`awaitingSequences`. `wire` lists every request written, `copies` counts the
replies delivered to each. History variables: `credited` (requests counted in
`PacketsRecv`), `finalStats`, `interrupted`. `Privileged` selects the raw socket;
`matchID` is the Linux one. `Dst` says how the kernel answers writes: `"unicast"`,
`"broadcast"` (EACCES until SO_BROADCAST is set) or `"prohibited"` (EACCES always).

**`EchoLedger`** — what the counters promise, without any of this: a request is
entered when it has been sent (`Send`), answered at most once (`Answer`), and a
further reply is a duplicate (`Duplicate`); nothing else changes a counter. `Pinger`
instantiates it as `Ledger` with the requests on the wire as its requests, and
`ImplementsLedger` says that every behaviour of `Pinger` is one of the ledger.
`MarkSent` maps to `Send`, `AcceptPacket` to `Answer`, `DuplicatePacket` to
`Duplicate` and every other step to a stuttering step.

**`PingerProofs`**, **`PingerRunProofs`** — theorems about `Pinger`: its counters, and how a
run ends (section 5).
**`MCPinger`** — packets that answer no request, for TLC: one for each reason for
which `processPacket` turns a packet away.

**`EchoCodec`** — one request and its reply as bytes, as operators: the time in the
payload (`timeToBytes`, `bytesToTime`, on words of `TimeBytes` digits of base
`ByteBase`, wrapping), the marshalled request with its truncated identifier, the
ICMP filters of `utils_linux.go`, the receive buffer of each platform, the header
that macOS delivers and `stripIPv4Header` removes, `matchID` of each platform, and
what `processPacket` accepts.

**`PingerSetup`**, `MCPingerSetup` — everything before the first request. State:
the options, `addr`, `ipaddr`, `ipv4`, `network`, the socket and where the
application's goroutine is. The correspondence:

| code | actions |
|---|---|
| setters 470-522 and exported fields | `SetOption` |
| `SetNetwork`, `SetIPAddr` | `SetNetwork`, `SetIPAddr` |
| `SetAddr` 435-448 | `SetAddr`, `SetAddrFails` (the rollback), with `Resolve` in between |
| `Resolve` 382-431 | `ResolveOK` (`LookupWithTimeout` or `ResolveIPAddr`), `ResolveFails`; callers `CallResolve`, `SetAddr`, `Run` |
| `RunWithContext` 540-593 | `RunTooSmall`, `Run`, `SetMark`, `SetDoNotFragment`, `SetTrafficClass`, `SetTTL`, `SetIfIndex`, `SetSource` |
| `listen` 996-1024 | `ListenOK`, `ListenFails`, `InstallICMPIDFilter` |
| `run`, `runLoop` | `SetFlagTTL`, `Start` (the tickers and the allocations, which may panic), `WriteRefused` (EACCES with a nil logger), `RunReturns` |

The resolver is the constant `DNS`, a list of addresses for every name; a literal
address resolves to itself. `LinuxResults`, `WindowsResults` and `OtherResults` say
what the functions of each platform file may return. The application calls the
setters from one goroutine, as the code requires (they take no lock, except that
`addr` and `ipaddr` are written under `statsMu`); a `Statistics` in another
goroutine may see any state in between, so invariants over `addr` and `ipaddr` are
about what it reports. `network` is consulted by `Resolve` only: `Run` resolves only
if there is no address yet, so a `SetNetwork` after `NewPinger`, which resolves, has no
effect until the next `Resolve` or `SetAddr`. The module has this behaviour, and
`ResolveObeysNetwork` speaks of the moment of the resolution. A panic is the final
state `"panic"`: an interval or a timeout that is not positive, a `Size` beyond
`MaxAlloc`, or a nil logger that is called. `Pinger` starts where this module ends:
there the set-up is one step that fails or succeeds.

**`RttStatistics`**, `MCRttStatistics` — the counters and round-trip times under
`statsMu`. Fields are updated and read in steps of their own so that the
consistency of a snapshot rests on the mutex. Durations are integers, division
truncates towards zero, `uint8(ttl)` is modulo 256. `stddevm2` is exact in the model;
the code's float64 rounds once the squares pass 2^53, which a deviation of 95 ms does,
by a relative 2^-53 for each packet: far less than what the truncated average adds, and
than the bounds of `DeviationIsSane`. Round-trip times may be negative: the time in the payload
has no monotonic reading, so `receivedAt.Sub` compares wall clocks.

**`HTTPCaller`** — `Run`, `Stop`, the scheduler and the workers. `doneWg` is the
set of goroutines that have been started and have not returned. `makeCall` is one
step, which ends: `TraceSuite` checks that (`CallEnds`).

**`TraceSuite`**, `MCTraceSuite` — one `makeCall` and the goroutines of net/http
that run the httptrace hooks: `Hooks[t]` is the sequence of hooks goroutine `t`
runs. Dials may outlive the response and the call. All callbacks are set.

**`EchoCodecProofs`**, **`PingerSetupProofs`**, **`RttStatisticsProofs`**,
**`HTTPCallerProofs`**, **`TraceSuiteProofs`** — theorems about these modules
(section 5). **`DataInduction`** — induction over the naturals in a form the provers
can use, for the recursive functions of `EchoCodec` and `RttStatistics`.

## 3. Bounds and fairness

Bounds are constants and named in the guards: `MaxRuns` (calls of `Run`),
`MaxSent` (no interval tick after so many requests), `MaxCopies` (replies per
request), `MaxSeq` (65535 in the code), `RecvCap` (5), and in `RttStatistics`
`MaxSent` and `MaxDups`. A goroutine calls `Stop` once per callback (a repetition
changes nothing), users once. `HTTPCaller.Stop` is called once. In `PingerSetup`
`MaxChanged` bounds how many options differ from their defaults at a time, `MaxAlloc`
is the largest allocation (one `Size` exceeds it with the receive buffer only, one also
with the payload), and `EchoCodec` has a byte of 4 values, times of 2 bytes, 16
identifiers and a filter machine with 64 values in a word.

They are large enough for the cases that matter: with `MaxSeq` = 1 and 4 requests
the sequence number wraps twice; two copies give duplicates, before and after the
wrap; `RecvCap` = 1 fills the channel while the receiver holds a second packet;
two runs show what survives a run; two users, all callbacks and the deferred
calls meet in `Stop`; two dials set the same timers. Two changed options at a time
are enough for every interaction in the set-up, which tests options singly or in
pairs (privileged and logger, privileged and identifier, Source and family); each
option has a value for each of its cases. A name has an IPv6 address before two
IPv4 ones, so that first, last and preferred differ. Identifiers include the last
that fits, the first that does not, one that is equal in 16 bits and a negative one.

Fairness of `Pinger` (`FairSpec`): each goroutine that can go on does, callbacks
return, the set-up ends and the interval ticks (weak fairness). Strong fairness for
the cases of the loop's select (to leave, to send, to take a packet), because a Go
select chooses uniformly among ready cases, and for a write to get an answer other than
ENOBUFS and SO_BROADCAST to be set at some time, which are temporary conditions of the
kernel. Nothing is assumed of the network, users, cancellation or the timeout: where
the end of a run depends on replies and writes, the property says so (`CountEndsRun`).

Fairness of `HTTPCaller`: goroutines go on, calls end, and a worker or scheduler whose
exit case stays ready takes it in the end. Fairness of `TraceSuite`: goroutines go on, the context expires at the
latest after its timeout and then ends `client.Do` and `io.ReadAll`.

## 4. Runs

| run | shows |
|---|---|
| `pinger_counts` | Type invariant; `PacketsSent = PacketsRecv + awaited` (`Accounting`); each request counts once (`OncePerRequest`); duplicates only of answered requests (`DuplicatesWereAnswered`: no reply overtakes its own marking although it can be in the channel before it); at most `Count` requests, and one more for each further run (`SendBound`); the `Pinger` implements `EchoLedger` (`ImplementsLedger`). Two runs, wrap, broadcast, timeout, foreign packets. |
| `pinger_setup` | The socket is open exactly from `listen` to the return of `Run`, whichever step fails, and of the family of the target (`SocketFitsTarget`); `Addr` and `IPAddr` belong together except while `SetAddr` resolves (`AddrMatchesIPAddr`); with and without a `ResolveTimeout`, the address that `Resolve` stores is of the family `network` asks for (`ResolveObeysNetwork`); no run starts without an option that was asked for (`OptionsAreInForce`); the reply to the Pinger's own request passes filter, buffer and `processPacket` with its time and length, on every platform, exactly when the identifier fits 16 bits or is not compared (`OwnReplyIsRecognised`). |
| `pinger_stop` | `done` is closed once (`NoDoubleClose`); `Run` returns an error iff a goroutine failed, and the context's only if it was cancelled (`RunError`); socket and channel are open while used and released afterwards (`SocketLifetime`); nothing is counted after `OnFinish` (`FinalStatsAreFinal`); a run that was not interrupted has its `Count` replies (`FirstRunUntilInterrupted`). Two users, all callbacks, cancellation, failures. |
| `pinger_live` | After `Stop`, a cancellation or the timeout, `Run` returns, whatever the network does (`InterruptEndsRun`). A run with a `Count` goes on for ever only if some request is never answered or writes fail again and again (`CountEndsRun`). |
| `rtt_statistics` | Snapshots are of one moment; the average is off by at most (n-1)/2 ns; `stddevm2` is never negative and stays near the exact sum; `MinRtt` is the least round-trip time, and `MaxRtt` the greatest once one is not negative (`ExtremesAreExact`; see `rtt_max`). |
| `http_stop` | No call outlives `Stop` (`StopIsGraceful`); `Stop` and a cancelled `Run` return unless the scheduler is stuck in its send; work goes on after failed calls (`WorkIsDone`); at most `maxConcurrentCalls` items wait. |
| `trace_suite` | Callbacks exclude each other; a callback sees the time of its own event; in `onResp` the end is later than every timer; the call ends. |

Deadlock is checked except in `HTTPCaller`, where finding `http_hang` is one: the
modules `Pinger` and `TraceSuite` have a step `Terminated` for their regular end.
(`RttStatistics` always has a reader to serve, and a `PingerSetup` that has crashed
stutters.)

Five runs show where the code differs from what its documentation says (the
quotations are in `PROJECT.json`):

| run | what the code does |
|---|---|
| `pinger_prohibited` | A destination that always answers EACCES keeps `sendICMP` in its retry loop; neither timeout nor `Stop` ends the run. |
| `pinger_rerun` | A failed `listen` closes `done` for good; the next `Run` sends one request and returns nil. |
| `rtt_max` | `maxRtt` starts at 0 and the first sample is not special: when the clock was set back and every round-trip time is negative, `MaxRtt` is 0, which no reply had. |
| `http_hang` | The scheduler's send on a full `workChan` is outside of its select; when the workers have left, `Stop` never returns. |
| `http_early_stop` | `Stop` before or during the start of `Run` finds the wait group empty and returns; a call can start after it. |

## 5. Proofs

`PingerProofs` proves, for all constants that satisfy `PingerAssumption` (any
`Count`, any set of users, any sequence space, capacity and number of runs,
packets that do not carry our UUIDs as noise):

| theorem | property |
|---|---|
| `TypeCorrect` | `TypeOK` |
| `DoneIsClosedOnce` | `NoDoubleClose` |
| `RequestsAreBounded` | `SendBound` |
| `SentIsReceivedOrAwaited` | `Accounting` |
| `RequestsCountOnce` | `OncePerRequest` |
| `DuplicatesAreDuplicates` | `DuplicatesWereAnswered` |
| `PingerImplementsLedger` | `ImplementsLedger` |

The argument. `TypeOK` is inductive (the Boolean variables are a lemma apart).
`PhaseInv`: a goroutine of a run exists only while its caller is in `g.Wait()`; it
is needed because a step of `Run` would otherwise restart counters under a running
loop. `MutexInv`: the mutex is held exactly between `StopLock` and `StopClose`, so
`done` does not change between a caller's look and its close. `SendInv` adds to
`SendBound` what is known of a send in progress: the one before the loop is the
extra one of this run, any other has passed the test of the interval case.
`CountInv` is the inductive invariant of the accounting:

- `WireInv`: numbers on the wire are distinct and lie before the next number, in
  the order of (UUID, sequence), except the one that was written and not marked;
- `AwaitInv`: awaited numbers lie before the next number, and they are as many as
  sent less received;
- `CreditInv`: every request on the wire is awaited, credited or being marked;
  credited ones are no longer awaited, and are as many as received;
- `PacketInv`: a packet in the channel or in the receiver's hands that has one of
  our UUIDs is a reply to a request on the wire.

That the wrap starts a new UUID is what makes `WireInv` inductive; that the loop
both marks and processes is what makes a reply find its request marked.

The refinement (`LedgerStep`) needs one thing more, `WrittenInv`: the loop marks a
request right after the one write that put it on the wire, so the requests on the
wire without the one being marked are as many as `PacketsSent`, and the next `Send`
enters the number after the last.

`PingerRunProofs` proves, under the same assumptions, how a run ends:

| theorem | property |
|---|---|
| `SocketOutlivesUse` | `SocketLifetime` |
| `FinalStats` | `FinalStatsAreFinal` |
| `RunErrorsAreTrue` | `RunError` |
| `FirstRunCompletes` | `FirstRunUntilInterrupted` |

`StepSummary` sorts the actions first: a step is one of `Run` itself, the return of a
goroutine (`LeaveStep`, `WatchDone`), its arrival at the errgroup (`GoReturn`), or an
`Inner` step, which moves nobody out of the part of the code it is in and touches
neither errors, socket nor channel. `ResumeInv` is needed for that: a goroutine in `Stop`
goes back to a callback or returns, so a call of `Stop` never brings it back to its loop
after it has left. The invariants of the four theorems then look at five cases only:

- `SocketInv`: the socket and the channel are open in one stretch of `Run` each. With
  `PhaseInv` (goroutines exist only while `Run` waits) this is `SocketLifetime`, and the
  statistics of `OnFinish` are final because the loop has gone by then;
- `ErrorInv`: a goroutine with an error is on its way out; the errgroup has an error
  exactly if a goroutine with one is gone; the context's error belongs to the watcher,
  and it is the group's only if the caller's context was cancelled, because any other
  reason for the group's context to be done is an error that reached the group first;
- `CauseInv`: in a first run that nobody interrupts, whoever begins to end the run (a
  call of `Stop`, a goroutine that left, `done` closed) has a cause, which is an error
  or the last of `Count` replies, and no later step takes the cause away.

`PingerSetupProofs` proves, for every resolver, all option values and all sizes of
`EchoCodec`'s words (`SetupAssumption`, `CodecAssumption`):

| theorem | property |
|---|---|
| `SetupTypeCorrect` | `TypeOK` |
| `SocketsFit` | `SocketFitsTarget` |
| `AddrsMatch` | `AddrMatchesIPAddr` |
| `FamilyIsAskedFor` | `ResolveObeysNetwork` |
| `OptionsInForce` | `OptionsAreInForce` |
| `OwnRepliesRecognised` | `OwnReplyIsRecognised` |

Its invariant `SetupInv` adds to the types `TargetInv` (`ipv4` is the family of
`ipaddr`, and the name that belongs to `ipaddr` is `addr`, or `oldAddr` while
`SetAddr` is resolving: that is what makes the rollback right) and `SocketInv`
(after which step each option is in force; before it, the socket has the value that
stands for "not asked for"). `PickedAddress` is the lemma about `Resolve`, from which
`FamilyIsAskedFor` follows for the one step that stores an address. `ReplyInv`
says what the way of a reply depends on: the size was checked before the socket was
opened, and a filter is installed only on a raw socket. `SetupAssumption` says of the
option values that identifiers and sizes are integers and that the protocol is "udp" or
"icmp", the two that `SetPrivileged` chooses.

`OwnRepliesRecognised` rests on `EchoCodecProofs`, for every base and width of a time
and every width of the identifiers: `TimeRoundTrip` (`bytesToTime(timeToBytes(t)) = t`
for every signed `t` of the width) and `ReplyRecognised` (the reply passes filter,
buffer, `stripIPv4Header` and `matchID` exactly if its identifier fits the header or
is not compared). The argument of `TimeRoundTrip`: after the first `i` bytes the sum is
congruent to the time without its lower digits, by induction on `i`; the conversion to
a signed word adds a multiple of the modulus and commutes with addition (`Int64Add`);
after the last byte only one value of the width is congruent to the time.

`RttStatisticsProofs`, for any number of readers, replies and values of the
round-trip times:

| theorem | property |
|---|---|
| `StatisticsTypeCorrect` | `TypeOK` |
| `SnapshotsAreConsistent` | `SnapshotIsConsistent` |
| `AveragesAreAccurate` | `AverageIsAccurate` |
| `DeviationsAreSane` | `DeviationIsSane` |
| `ExtremesExact` | `ExtremesAreExact` |

Its invariant `StatInv`: `MutexInv` (the writer and the readers exclude each other),
`CountInv` (the lists are as long as the count, fewer received than sent while a reply is
being recorded), `ValueInv` (the average lies within the extremes and the sum of
squares within `n` times the square of their distance, where `n` is `Folded`: the
samples that Welford's step has taken in, one less than the count in the middle of an
update) and `SnapInv` (what a reader has copied so far is still what the fields
contain). `AccuracyInv` is the error analysis. Truncation moves the average by less than
one nanosecond in a step, so `n * avg` misses the sum of the samples by at most
`n * (n - 1) / 2`; the lemmas of the section on arithmetic carry that through the product
of the two deviations to the bound `n^3 * (max - min)` of `DeviationIsSane`.
`ExtremesInv` needs the number of samples seen, which is behind the count for one step.

`DataInduction` is what both modules use for their recursive functions. The induction
rule of the library has an operator as a parameter, which the provers cannot
instantiate. `SetInduction` has a set: a set of naturals that contains 0 and is closed
under successor is `Nat`, because otherwise moving its members up by one would map
`0..k` into `1..k` without a collision. `BoundedRecursion` derives from it that a
function defined by recursion up to `n` exists, without which nothing is known of
`Pow`, `Sum` or the sum of `bytesToTime`.

`HTTPCallerProofs`, for any number of workers: `CallerTypeCorrect` (`TypeOK`) and
`StopEndsCalls` (`StopIsGraceful`, under the condition `~EarlyStop`, without which
`http_early_stop` refutes it). The invariant says that `Run` has started everything
when it waits, and that what a returned `Stop` has waited for has exited.

`TraceSuiteProofs`, for any goroutines and hooks: `CallbacksExclude`
(`CallbacksAreExclusive`), `TimersAreOwn` (`CallbackSeesItsTimer`) and `EndIsLast`
(`RespSeesTheEnd`). The invariant: whoever is between Lock and Unlock is the holder
of the mutex, no hook runs before `client.Do`, and every timer is earlier than the
clock.

Every invariant and action property of a passing run and the refinement have a
theorem. Left to TLC: the liveness properties `InterruptEndsRun`, `CountEndsRun`,
`StopReturnsUnlessStuck`, `CancelReturnsUnlessStuck`, `WorkIsDone` and `CallEnds`, which
rest on fairness and `ENABLED`, and what the five runs that expect a violation show.

## 6. Not modelled

- The back-off of `recvICMP`: it only chooses how long a read waits, and the model
  lets any read time out.
- The logger's output; whether the Pinger's logger is nil is modelled where `listen`
  and `sendICMP` use it, not in the branch of `processPacket` that the code itself
  says cannot happen (`ping.go` 852).
- Concurrent calls of the setters, which the code does not protect.
- `HTTPCaller`'s options, which only fill in fields before `Run`; a second `Stop`
  (it panics) and a `Stop` from a callback (it waits for itself).
- The flags and the output of `cmd/ping`.

## 7. Plan

Done: `Pinger` with `EchoLedger`, `PingerSetup` with `EchoCodec`, `RttStatistics`,
`HTTPCaller` and `TraceSuite`, and a theorem for every invariant the runs check.
Next, in this order:

1. The safety side of `http_hang`: once the scheduler is stuck it stays stuck, and it
   gets stuck only after a Stop or a cancellation has made every worker leave.
2. What a step of `RttStatistics` may never do, as action properties (a finished
   snapshot never changes, counters never go back), if a run finds them worth stating.
3. The link between `Pinger` and `RttStatistics`: that the steps in which `Pinger`
   counts are the ones in which `RttStatistics` does.

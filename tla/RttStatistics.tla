--------------------------- MODULE RttStatistics ----------------------------
(***************************************************************************)
(* The counters and round-trip times of a Pinger and their mutex statsMu:  *)
(* updateStatistics and the two counters that the goroutine "loop" keeps,  *)
(* and Statistics, which any goroutine may call at any time.               *)
(*                                                                         *)
(* Field updates and reads are steps of their own, so that what a snapshot *)
(* contains depends on the mutex and not on the grain of the model.        *)
(* Durations are integers (nanoseconds).  stddevm2 is exact here; the code *)
(* keeps it in a float64, which rounds once it passes 2^53 (deviations of  *)
(* 95 ms), by a relative 2^-53 for each packet.                            *)
(***************************************************************************)
EXTENDS Integers, Sequences, FiniteSets, SequencesExt

CONSTANTS
  Readers,     \* goroutines that call Statistics
  RttValues,   \* round-trip times of packets (can be negative, see below)
  TtlValues,   \* TTLs of packets, -1 when the socket reports none
  RecordRtts, RecordTTLs,
  MaxSent,     \* bound: requests counted
  MaxDups      \* bound: duplicates counted

\* receivedAt.Sub(timestamp) compares wall clocks: after the clock was set
\* back, a round-trip time is negative.
ASSUME StatisticsAssumption ==
  /\ RttValues \subseteq Int /\ TtlValues \subseteq Int
  /\ RecordRtts \in BOOLEAN /\ RecordTTLs \in BOOLEAN
  /\ MaxSent \in Nat /\ MaxDups \in Nat
  /\ "loop" \notin Readers

VARIABLES
  pc,          \* where "loop" and each reader are
  writer,      \* "loop" holds statsMu for writing
  holders,     \* readers that hold statsMu for reading
  pkt,         \* the packet updateStatistics is called with
  PacketsSent, PacketsRecv, PacketsRecvDuplicates,
  rtts, ttls,  \* recorded when RecordRtts, RecordTTLs
  minRtt, maxRtt, avgRtt, stddevm2, stdDevRtt,
  snap,        \* the Statistics each reader has built, or is building
  samples      \* history: the round-trip times of all counted packets

muVars    == <<writer, holders>>
countVars == <<PacketsSent, PacketsRecv, PacketsRecvDuplicates>>
listVars  == <<rtts, ttls>>
rttVars   == <<minRtt, maxRtt, avgRtt, stddevm2, stdDevRtt>>
vars == <<pc, muVars, pkt, countVars, listVars, rttVars, snap, samples>>

NoStats == [sent |-> 0, recv |-> 0, dups |-> 0, rtts |-> <<>>, ttls |-> <<>>,
            min |-> 0, max |-> 0, avg |-> 0, dev |-> 0]

Init ==
  /\ pc = [a \in Readers \cup {"loop"} |-> "idle"]
  /\ writer = FALSE /\ holders = {}
  /\ pkt = [rtt |-> 0, ttl |-> 0]
  /\ PacketsSent = 0 /\ PacketsRecv = 0 /\ PacketsRecvDuplicates = 0
  /\ rtts = <<>> /\ ttls = <<>>
  /\ minRtt = 0 /\ maxRtt = 0 /\ avgRtt = 0 /\ stddevm2 = 0 /\ stdDevRtt = 0
  /\ snap = [r \in Readers |-> NoStats]
  /\ samples = <<>>

Goto(a, label) == pc' = [pc EXCEPT ![a] = label]

-----------------------------------------------------------------------------
(***************************************************************************)
(* Arithmetic.                                                             *)
(***************************************************************************)
Abs(x) == IF x < 0 THEN -x ELSE x

\* Division in Go truncates towards zero.
Quo(a, b) == IF a < 0 THEN -((-a) \div b) ELSE a \div b

Uint8_Plain(ttl) == ttl

\* uint8(ttl)
Uint8(ttl) == ttl % 256

\* time.Duration(math.Sqrt(m / n)), for m >= 0: the square root, truncated
SqrtQuo(m, n) == CHOOSE s \in 0..m : s * s * n <= m /\ (s + 1) * (s + 1) * n > m

-----------------------------------------------------------------------------
(***************************************************************************)
(* The writer: sendICMP and processPacket.                                 *)
(***************************************************************************)
CanLock_NotReaders == ~writer
CanLock == ~writer /\ holders = {}

Lock(label) ==
  /\ pc["loop"] = "idle"
  /\ CanLock
  /\ writer' = TRUE
  /\ Goto("loop", label)
  /\ UNCHANGED <<holders, countVars, listVars, rttVars, snap, samples>>

LockSent == PacketsSent < MaxSent /\ Lock("sent") /\ UNCHANGED pkt

CountSent ==
  /\ pc["loop"] = "sent"
  /\ PacketsSent' = PacketsSent + 1
  /\ writer' = FALSE
  /\ Goto("loop", "idle")
  /\ UNCHANGED <<holders, pkt, PacketsRecv, PacketsRecvDuplicates, listVars, rttVars,
                 snap, samples>>

\* Duplicates answer a request that was counted before (Pinger).
LockDuplicate ==
  /\ PacketsRecv > 0 /\ PacketsRecvDuplicates < MaxDups
  /\ Lock("duplicate") /\ UNCHANGED pkt

CountDuplicate ==
  /\ pc["loop"] = "duplicate"
  /\ PacketsRecvDuplicates' = PacketsRecvDuplicates + 1
  /\ writer' = FALSE
  /\ Goto("loop", "idle")
  /\ UNCHANGED <<holders, pkt, PacketsSent, PacketsRecv, listVars, rttVars, snap,
                 samples>>

\* updateStatistics is called for the first reply to a request that was sent
\* (Pinger: PacketsRecv never exceeds PacketsSent).
LockUpdate ==
  /\ PacketsRecv < PacketsSent
  /\ pkt' \in [rtt: RttValues, ttl: TtlValues]
  /\ Lock("record")

Record ==
  /\ pc["loop"] = "record"
  /\ PacketsRecv' = PacketsRecv + 1
  /\ rtts' = IF RecordRtts THEN Append(rtts, pkt.rtt) ELSE rtts
  /\ ttls' = IF RecordTTLs THEN Append(ttls, Uint8(pkt.ttl)) ELSE ttls
  /\ samples' = Append(samples, pkt.rtt)
  /\ Goto("loop", "extremes")
  /\ UNCHANGED <<muVars, pkt, PacketsSent, PacketsRecvDuplicates, rttVars, snap>>

NewMin_Zero == IF pkt.rtt < minRtt THEN pkt.rtt ELSE minRtt
NewMin == IF PacketsRecv = 1 \/ pkt.rtt < minRtt THEN pkt.rtt ELSE minRtt

UpdateExtremes ==
  /\ pc["loop"] = "extremes"
  /\ minRtt' = NewMin
  /\ maxRtt' = IF pkt.rtt > maxRtt THEN pkt.rtt ELSE maxRtt
  /\ Goto("loop", "welford")
  /\ UNCHANGED <<muVars, pkt, countVars, listVars, avgRtt, stddevm2, stdDevRtt, snap,
                 samples>>

Correction_OffByOne(delta) == Quo(delta, PacketsRecv + 1)
Correction(delta) == Quo(delta, PacketsRecv)

Spread_OldAverage(delta) == delta * delta
Spread(delta) == delta * (pkt.rtt - avgRtt')

\* Welford's method; PacketsRecv already counts this packet.
UpdateWelford ==
  /\ pc["loop"] = "welford"
  /\ LET delta == pkt.rtt - avgRtt IN
       /\ avgRtt' = avgRtt + Correction(delta)
       /\ stddevm2' = stddevm2 + Spread(delta)
  /\ stdDevRtt' = SqrtQuo(stddevm2', PacketsRecv)
  /\ writer' = FALSE
  /\ Goto("loop", "idle")
  /\ UNCHANGED <<holders, pkt, countVars, listVars, minRtt, maxRtt, snap, samples>>

-----------------------------------------------------------------------------
(***************************************************************************)
(* Statistics, called by a reader.                                         *)
(***************************************************************************)
ReaderFrame == UNCHANGED <<writer, pkt, countVars, listVars, rttVars, samples>>

RLock(r) ==
  /\ pc[r] = "idle"
  /\ ~writer
  /\ holders' = holders \cup {r}
  /\ snap' = [snap EXCEPT ![r] = NoStats]
  /\ Goto(r, "readSent")
  /\ ReaderFrame

ReadSent(r) ==
  /\ pc[r] = "readSent"
  /\ snap' = [snap EXCEPT ![r].sent = PacketsSent]
  /\ Goto(r, "readCounts")
  /\ UNCHANGED holders
  /\ ReaderFrame

ReadCounts(r) ==
  /\ pc[r] = "readCounts"
  /\ snap' = [snap EXCEPT ![r].recv = PacketsRecv, ![r].dups = PacketsRecvDuplicates]
  /\ Goto(r, "readRtts")
  /\ UNCHANGED holders
  /\ ReaderFrame

ReadRtts(r) ==
  /\ pc[r] = "readRtts"
  /\ snap' = [snap EXCEPT ![r] = [@ EXCEPT !.rtts = rtts, !.ttls = ttls,
                !.min = minRtt, !.max = maxRtt, !.avg = avgRtt, !.dev = stdDevRtt]]
  /\ holders' = holders \ {r}
  /\ Goto(r, "idle")
  /\ ReaderFrame

-----------------------------------------------------------------------------
Next ==
  \/ LockSent \/ CountSent \/ LockDuplicate \/ CountDuplicate
  \/ LockUpdate \/ Record \/ UpdateExtremes \/ UpdateWelford
  \/ \E r \in Readers : RLock(r) \/ ReadSent(r) \/ ReadCounts(r) \/ ReadRtts(r)

Spec == Init /\ [][Next]_vars

-----------------------------------------------------------------------------
(***************************************************************************)
(* Properties.                                                             *)
(***************************************************************************)
Stats == [sent: Nat, recv: Nat, dups: Nat, rtts: Seq(Int), ttls: Seq(0..255),
          min: Int, max: Int, avg: Int, dev: Nat]

\* Every variable has its type; recorded TTLs are bytes.
TypeOK ==
  /\ pc \in [Readers \cup {"loop"} -> {"idle", "sent", "duplicate", "record",
               "extremes", "welford", "readSent", "readCounts", "readRtts"}]
  /\ writer \in BOOLEAN /\ holders \subseteq Readers
  /\ pkt \in [rtt: Int, ttl: Int]
  /\ PacketsSent \in Nat /\ PacketsRecv \in Nat /\ PacketsRecvDuplicates \in Nat
  /\ rtts \in Seq(Int) /\ ttls \in Seq(0..255)
  /\ minRtt \in Int /\ maxRtt \in Int /\ avgRtt \in Int /\ stddevm2 \in Int
  /\ stdDevRtt \in Nat
  /\ snap \in [Readers -> Stats]
  /\ samples \in Seq(Int)

\* A snapshot is of one moment: its lists have as many entries as replies
\* were received, no more were received than sent (the loss it reports lies
\* between 0 and 100 percent), its average lies between its extremes, and
\* its deviation does not exceed their distance.
SnapshotIsConsistent ==
  \A r \in Readers : pc[r] = "idle" =>
    LET s == snap[r] IN
    /\ s.recv <= s.sent
    /\ Len(s.rtts) = (IF RecordRtts THEN s.recv ELSE 0)
    /\ Len(s.ttls) = (IF RecordTTLs THEN s.recv ELSE 0)
    /\ s.min <= s.avg /\ s.avg <= s.max /\ s.dev <= s.max - s.min

\* A reader that holds statsMu sees no update in progress.
Quiescent == pc["loop"] \notin {"record", "extremes", "welford"}

\* The sum of a sequence of integers.
Sum(s) ==
  LET sum[i \in 0..Len(s)] == IF i = 0 THEN 0 ELSE sum[i - 1] + s[i]
  IN  sum[Len(s)]

Total == Sum(samples)
Squares == Sum([i \in 1..Len(samples) |-> samples[i] * samples[i]])

\* The truncating divisions of the running average lose less than half a
\* nanosecond per reply: avgRtt is off by at most (n - 1) / 2.
AverageIsAccurate ==
  Quiescent => 2 * Abs(PacketsRecv * avgRtt - Total)
                 <= PacketsRecv * (PacketsRecv - 1)

\* stddevm2 is never negative (its square root would not be a number), and
\* stays close to the exact sum of squared deviations of the samples.
DeviationIsSane ==
  Quiescent =>
    /\ stddevm2 >= 0
    /\ PacketsRecv > 0 =>
         Abs(PacketsRecv * stddevm2 - (PacketsRecv * Squares - Total * Total))
           <= PacketsRecv * PacketsRecv * PacketsRecv * (maxRtt - minRtt)

\* MinRtt is the least round-trip time, in every order of the samples, and
\* MaxRtt the greatest as soon as one of them is not negative: the code starts
\* maxRtt at 0 and gives only minRtt the first sample.
ExtremesAreExact ==
  Quiescent /\ PacketsRecv > 0 =>
    /\ minRtt = Min(ToSet(samples))
    /\ (\E s \in ToSet(samples) : s >= 0) => maxRtt = Max(ToSet(samples))

\* What the documentation of Statistics says: MaxRtt is the maximum of the
\* round-trip times, which the same Statistics lists when they are recorded.
ReportedMaxIsMaximum ==
  \A r \in Readers :
    pc[r] = "idle" /\ snap[r].rtts # <<>> => snap[r].max = Max(ToSet(snap[r].rtts))
=============================================================================

------------------------ MODULE RttStatisticsProofs -------------------------
(***************************************************************************)
(* Proofs about RttStatistics, for any number of readers, samples and      *)
(* values of the round-trip times.                                         *)
(*                                                                         *)
(* The steps of an update are folded into one idea: while updateStatistics *)
(* is between Record and UpdateWelford, the average and the deviation are  *)
(* those of the samples before the last one.                               *)
(***************************************************************************)
EXTENDS RttStatistics, DataInduction

-----------------------------------------------------------------------------
(***************************************************************************)
(* Arithmetic.                                                             *)
(***************************************************************************)
\* The truncating quotient lies between 0 and its dividend and, multiplied
\* again, misses it by less than the divisor.
LEMMA QuoBounds ==
  ASSUME NEW a \in Int, NEW b \in Nat \ {0}
  PROVE  /\ Quo(a, b) \in Int
         /\ a >= 0 => 0 <= Quo(a, b) /\ Quo(a, b) <= a
         /\ a <= 0 => a <= Quo(a, b) /\ Quo(a, b) <= 0
         /\ b * Quo(a, b) - a <= b - 1 /\ a - b * Quo(a, b) <= b - 1
<1>1. ASSUME NEW c \in Nat
      PROVE  /\ c \div b \in Nat /\ c \div b <= c
             /\ b * (c \div b) <= c /\ c - b * (c \div b) <= b - 1
  <2>1. c \div b \in Int /\ c % b \in 0..(b - 1) /\ c = b * (c \div b) + (c % b)
    OBVIOUS
  <2> DEFINE q == c \div b
             r == c % b
  <2> HIDE DEF q, r
  <2>2. q \in Int /\ r \in 0..(b - 1) /\ c = b * q + r BY <2>1 DEF q, r
  <2>3. q >= 0 
    <3> SUFFICES ASSUME q <= -1 PROVE FALSE BY <2>2
    <3>1. b * q <= b * (-1) BY <2>2
    <3> QED BY <2>2, <3>1
  <2>4. q <= b * q BY <2>2, <2>3
  <2> QED BY <2>2, <2>3, <2>4 DEF q
<1>2. CASE a >= 0
  <2>1. Quo(a, b) = a \div b /\ a \in Nat BY <1>2 DEF Quo
  <2> QED BY <1>1, <1>2, <2>1
<1>3. CASE a < 0
  <2> DEFINE c == -a
             q == c \div b
  <2>1. Quo(a, b) = -q /\ c \in Nat BY <1>3 DEF Quo
  <2>2. q \in Nat /\ q <= c /\ b * q <= c /\ c - b * q <= b - 1 BY <1>1, <2>1
  <2> HIDE DEF q
  <2>3. b * (-q) = -(b * q) BY <2>2
  <2> QED BY <1>3, <2>1, <2>2, <2>3
<1> QED BY <1>2, <1>3

\* The truncated square root of a quotient exists.
LEMMA SqrtBounds ==
  ASSUME NEW m \in Nat, NEW n \in Nat \ {0}
  PROVE  SqrtQuo(m, n) \in Nat /\ SqrtQuo(m, n) * SqrtQuo(m, n) * n <= m
<1> DEFINE S == {s \in Nat : s * s * n <= m}
<1>1. ASSUME NEW s \in S PROVE s <= m
  <2>1. s * s >= s BY <1>1
  <2>2. (s * s) * n >= s * s BY <1>1
  <2> QED BY <1>1, <2>1, <2>2
<1>2. 0 \in S OBVIOUS
<1>3. \E s \in S : s + 1 \notin S
  <2>1. S \in SUBSET Nat OBVIOUS
  <2> HIDE DEF S
  <2> QED BY <1>1, <1>2, <2>1, LastElement
<1>4. PICK s \in 0..m : s * s * n <= m /\ (s + 1) * (s + 1) * n > m
  BY <1>1, <1>3
<1>5. \E z \in 0..m : z * z * n <= m /\ (z + 1) * (z + 1) * n > m
  BY <1>4
<1>6. LET z == SqrtQuo(m, n) IN z \in 0..m /\ z * z * n <= m
  BY <1>5, Zenon DEF SqrtQuo
<1> QED BY <1>6

\* A product is bounded by the product of the bounds of its factors.
LEMMA ProductBound ==
  ASSUME NEW x \in Int, NEW y \in Int, NEW a \in Int, NEW b \in Int,
         -a <= x, x <= a, -b <= y, y <= b
  PROVE  -(a * b) <= x * y /\ x * y <= a * b
<1>1. a >= 0 /\ b >= 0 OBVIOUS
<1>2. (a - x) * (b + y) >= 0 /\ (a + x) * (b - y) >= 0 OBVIOUS
<1>3. (a - x) * (b - y) >= 0 /\ (a + x) * (b + y) >= 0 OBVIOUS
<1>4. (a - x) * (b + y) = a * b + a * y - x * b - x * y
      /\ (a + x) * (b - y) = a * b - a * y + x * b - x * y
      /\ (a - x) * (b - y) = a * b - a * y - x * b + x * y
      /\ (a + x) * (b + y) = a * b + a * y + x * b + x * y
  OBVIOUS
<1> QED BY <1>2, <1>3, <1>4

\* Squares are compared by their roots.
LEMMA SquareRoot ==
  ASSUME NEW s \in Nat, NEW n \in Nat \ {0}, NEW d \in Nat, s * s * n <= n * (d * d)
  PROVE  s <= d
<1> SUFFICES ASSUME s >= d + 1 PROVE FALSE OBVIOUS
<1>1. s * s >= (d + 1) * (d + 1) OBVIOUS
<1>2. s * s >= d * d + 1 BY <1>1
<1>3. (s * s) * n >= (d * d + 1) * n BY <1>2
<1>4. (d * d + 1) * n = n * (d * d) + n OBVIOUS
<1> QED BY <1>3, <1>4

\* How the error of n * stddevm2 grows with one more sample x: n samples with
\* sum T and squares S before it, u and v the errors of the averages a and c.
LEMMA ErrorGrowth ==
  ASSUME NEW n \in Int, NEW m \in Int, NEW S \in Int, NEW T \in Int, NEW x \in Int,
         NEW a \in Int, NEW c \in Int
  PROVE  LET A == n * m - (n * S - T * T)
             B == (n + 1) * (m + (x - a) * (x - c))
                    - ((n + 1) * (S + x * x) - (T + x) * (T + x))
             u == n * a - T
             v == (n + 1) * c - (T + x)
         IN  n * B = (n + 1) * A - (n * (x - a)) * v - (n * x - T) * u
OBVIOUS

\* The error of n * stddevm2 stays below n^3 times the square R of the spread of
\* the samples: A and B are the errors before and after one more sample.
LEMMA ErrorBound ==
  ASSUME NEW n \in Nat \ {0}, NEW R \in Nat, NEW A \in Int, NEW B \in Int,
         NEW u \in Int, NEW v \in Int, NEW p \in Int, NEW q \in Int,
         n * B = (n + 1) * A - p * v - q * u,
         -(n * n * n * R) <= A, A <= n * n * n * R,
         -(n * R) <= p, p <= n * R, -(n * R) <= q, q <= n * R,
         -(n * (n - 1)) <= 2 * u, 2 * u <= n * (n - 1),
         -((n + 1) * n) <= 2 * v, 2 * v <= (n + 1) * n
  PROVE  LET N == n + 1 IN -(N * N * N * R) <= B /\ B <= N * N * N * R
<1> DEFINE K == n * n * (n + 2) * R
<1>1. -((n * R) * ((n + 1) * n)) <= p * (2 * v) /\ p * (2 * v) <= (n * R) * ((n + 1) * n)
  BY ProductBound
<1>2. -((n * R) * (n * (n - 1))) <= q * (2 * u) /\ q * (2 * u) <= (n * R) * (n * (n - 1))
  BY ProductBound
<1>3. (n * R) * ((n + 1) * n) + (n * R) * (n * (n - 1)) = 2 * (n * n * n * R)
  OBVIOUS
<1>4. p * (2 * v) = 2 * (p * v) /\ q * (2 * u) = 2 * (q * u)
  OBVIOUS
<1>5. -(n * n * n * R) <= p * v + q * u /\ p * v + q * u <= n * n * n * R
  BY <1>1, <1>2, <1>3, <1>4
<1>6. /\ (n + 1) * A <= (n + 1) * (n * n * n * R)
      /\ -((n + 1) * (n * n * n * R)) <= (n + 1) * A
  BY ProductBound
<1>7. (n + 1) * (n * n * n * R) + n * n * n * R = n * K
  OBVIOUS
<1>8. K \in Int OBVIOUS
<1>9. -(n * K) <= n * B /\ n * B <= n * K
  BY <1>5, <1>6, <1>7
<1>10. -K <= B /\ B <= K
  <2> HIDE DEF K
  <2>1. ASSUME B >= K + 1 PROVE FALSE
    <3>1. n * B >= n * (K + 1) BY <1>8, <2>1
    <3>2. n * (K + 1) = n * K + n BY <1>8
    <3> QED BY <1>8, <1>9, <3>1, <3>2
  <2>2. ASSUME -B >= K + 1 PROVE FALSE
    <3>1. n * (-B) >= n * (K + 1) BY <1>8, <2>2
    <3>2. n * (K + 1) = n * K + n /\ n * (-B) = -(n * B) BY <1>8
    <3> QED BY <1>8, <1>9, <3>1, <3>2
  <2> QED BY <1>8, <2>1, <2>2
<1>11. K <= (n + 1) * (n + 1) * (n + 1) * R
  <2>1. (n + 1) * (n + 1) * (n + 1) = n * n * (n + 2) + (n * n + 3 * n + 1) OBVIOUS
  <2>2. ((n + 1) * (n + 1) * (n + 1)) * R = (n * n * (n + 2)) * R + (n * n + 3 * n + 1) * R
    BY <2>1
  <2>3. (n * n + 3 * n + 1) * R >= 0 OBVIOUS
  <2> QED BY <2>2, <2>3
<1> QED BY <1>8, <1>10, <1>11

-----------------------------------------------------------------------------
(***************************************************************************)
(* Sums.                                                                   *)
(***************************************************************************)
\* The sum of nothing is 0, a sum of integers is one, and one more element
\* adds itself.
LEMMA SumAppend ==
  ASSUME NEW s \in Seq(Int)
  PROVE  /\ Sum(<<>>) = 0 /\ Sum(s) \in Int
         /\ \A x \in Int : Sum(Append(s, x)) = Sum(s) + x
<1> DEFINE F(t) == CHOOSE f :
             f = [i \in 0..Len(t) |-> IF i = 0 THEN 0 ELSE f[i - 1] + t[i]]
<1>1. ASSUME NEW t \in Seq(Int)
      PROVE  \A i \in 0..Len(t) : F(t)[i] = IF i = 0 THEN 0 ELSE F(t)[i - 1] + t[i]
  <2> DEFINE n == Len(t)
             h == [i \in 1..n |-> [x \in Int |-> x + t[i]]]
  <2>1. n \in Nat /\ h \in [1..n -> [Int -> Int]] OBVIOUS
  <2>2. PICK f : Iterates(f, Int, 0, h, n)
    <3> HIDE DEF n, h
    <3>1. 0 \in Int OBVIOUS
    <3> QED BY <2>1, <3>1, BoundedRecursion, Zenon
  <2>3. \A i \in 0..n : f[i] = IF i = 0 THEN 0 ELSE f[i - 1] + t[i]
    <3>1. ASSUME NEW i \in 1..n PROVE f[i - 1] \in Int /\ h[i] = [x \in Int |-> x + t[i]]
      <4>1. i - 1 \in 0..n BY <2>1
      <4> QED BY <2>2, <4>1, Zenon DEF Iterates
    <3>2. ASSUME NEW i \in 1..n PROVE f[i] = f[i - 1] + t[i]
      <4> HIDE DEF h, n
      <4> QED BY <2>2, <3>1 DEF Iterates
    <3> HIDE DEF h, n
    <3> QED BY <2>1, <2>2, <3>2 DEF Iterates
  <2>4. f = [i \in 0..n |-> IF i = 0 THEN 0 ELSE f[i - 1] + t[i]]
    <3>1. f = [i \in 0..n |-> f[i]] BY <2>2 DEF Iterates
    <3> QED BY <2>3, <3>1, Zenon
  <2>5. F(t) = [i \in 0..n |-> IF i = 0 THEN 0 ELSE F(t)[i - 1] + t[i]]
    BY <2>4, Zenon
  <2> HIDE DEF F
  <2> QED BY <2>5, Zenon
<1>2. \A t : Sum(t) = F(t)[Len(t)] BY Zenon DEF Sum
<1> HIDE DEF F
<1>3. ASSUME NEW t \in Seq(Int)
      PROVE  F(t)[0] = 0 /\ \A i \in 1..Len(t) : F(t)[i] = F(t)[i - 1] + t[i]
  <2>1. Len(t) \in Nat /\ 0 \in 0..Len(t) /\ \A i \in 1..Len(t) : i \in 0..Len(t) /\ i # 0
    OBVIOUS
  <2> QED BY <1>1, <2>1, Zenon
<1>4. Sum(<<>>) = 0
  <2>1. <<>> \in Seq(Int) /\ Len(<<>>) = 0 OBVIOUS
  <2> QED BY <1>2, <1>3, <2>1, Zenon
<1>5. Sum(s) \in Int
  <2> DEFINE P == {n \in Nat : n <= Len(s) => F(s)[n] \in Int}
  <2>1. P \in SUBSET Nat OBVIOUS
  <2>2. 0 \in P BY <1>3
  <2>3. ASSUME NEW n \in P PROVE n + 1 \in P
    <3> SUFFICES ASSUME n + 1 <= Len(s) PROVE F(s)[n + 1] \in Int OBVIOUS
    <3>1. F(s)[n + 1] = F(s)[n] + s[n + 1] /\ s[n + 1] \in Int BY <1>3
    <3> QED BY <2>3, <3>1
  <2>4. P = Nat
    <3> HIDE DEF P
    <3> QED BY <2>1, <2>2, <2>3, SetInduction
  <2> QED BY <1>2, <2>4
<1>6. ASSUME NEW x \in Int PROVE Sum(Append(s, x)) = Sum(s) + x
  <2> DEFINE t == Append(s, x)
             P == {n \in Nat : n <= Len(s) => F(s)[n] = F(t)[n]}
  <2>1. /\ t \in Seq(Int) /\ Len(t) = Len(s) + 1 /\ t[Len(s) + 1] = x /\ Len(s) \in Nat
        /\ \A i \in 1..Len(s) : t[i] = s[i]
    OBVIOUS
  <2> HIDE DEF t
  <2>2. P \in SUBSET Nat OBVIOUS
  <2>3. 0 \in P BY <1>3, <2>1
  <2>4. ASSUME NEW n \in P PROVE n + 1 \in P
    <3> SUFFICES ASSUME n + 1 <= Len(s) PROVE F(s)[n + 1] = F(t)[n + 1] OBVIOUS
    <3>1. F(s)[n + 1] = F(s)[n] + s[n + 1] BY <1>3
    <3>2. n + 1 \in 1..Len(t) /\ (n + 1) - 1 = n BY <2>1
    <3>3. F(t)[n + 1] = F(t)[n] + t[n + 1] BY <1>3, <2>1, <3>2
    <3> QED BY <2>1, <2>4, <3>1, <3>3
  <2>5. P = Nat
    <3> HIDE DEF P
    <3> QED BY <2>2, <2>3, <2>4, SetInduction
  <2>6. F(t)[Len(s)] = F(s)[Len(s)] BY <2>1, <2>5
  <2>7. F(t)[Len(s) + 1] = F(t)[Len(s)] + x
    <3>1. Len(s) + 1 \in 1..Len(t) /\ (Len(s) + 1) - 1 = Len(s) BY <2>1
    <3> QED BY <1>3, <2>1, <3>1
  <2> QED BY <1>2, <2>1, <2>6, <2>7 DEF t
<1> QED BY <1>4, <1>5, <1>6

-----------------------------------------------------------------------------
(***************************************************************************)
(* The inductive invariant.                                                *)
(***************************************************************************)
Pending == pc["loop"] \in {"extremes", "welford"}

\* The samples that the average and the deviation take into account.
Folded == IF Pending THEN PacketsRecv - 1 ELSE PacketsRecv

Width == maxRtt - minRtt

\* statsMu keeps the writer and the readers apart.
MutexInv ==
  /\ pc["loop"] \in {"idle", "sent", "duplicate", "record", "extremes", "welford"}
  /\ writer <=> pc["loop"] # "idle"
  /\ \A r \in Readers : /\ pc[r] \in {"idle", "readSent", "readCounts", "readRtts"}
                        /\ r \in holders <=> pc[r] # "idle"
  /\ writer => holders = {}

CountInv ==
  /\ PacketsRecv <= PacketsSent
  /\ pc["loop"] = "record" => PacketsRecv < PacketsSent
  /\ Pending => PacketsRecv > 0
  /\ Len(samples) = PacketsRecv
  /\ Len(rtts) = IF RecordRtts THEN PacketsRecv ELSE 0
  /\ Len(ttls) = IF RecordTTLs THEN PacketsRecv ELSE 0

ValueInv ==
  /\ Folded = 0 => avgRtt = 0 /\ stddevm2 = 0 /\ stdDevRtt = 0
  /\ Folded = 0 /\ pc["loop"] # "welford" => minRtt = 0 /\ maxRtt = 0
  /\ Folded > 0 => minRtt <= avgRtt /\ avgRtt <= maxRtt
  /\ pc["loop"] = "welford" => minRtt <= pkt.rtt /\ pkt.rtt <= maxRtt
  /\ 0 <= stddevm2 /\ stddevm2 <= Folded * (Width * Width)
  /\ stdDevRtt <= Width

SnapshotOK(s) ==
  /\ s.recv <= s.sent
  /\ Len(s.rtts) = (IF RecordRtts THEN s.recv ELSE 0)
  /\ Len(s.ttls) = (IF RecordTTLs THEN s.recv ELSE 0)
  /\ s.min <= s.avg /\ s.avg <= s.max /\ s.dev <= s.max - s.min

\* What a reader has copied so far is what the fields still contain.
SnapInv ==
  \A r \in Readers :
    /\ pc[r] = "idle" => SnapshotOK(snap[r])
    /\ pc[r] \in {"readCounts", "readRtts"} => snap[r].sent = PacketsSent
    /\ pc[r] = "readRtts" => snap[r].recv = PacketsRecv

StatInv == TypeOK /\ MutexInv /\ CountInv /\ ValueInv /\ SnapInv

ReaderStep(r) == RLock(r) \/ ReadSent(r) \/ ReadCounts(r) \/ ReadRtts(r)

\* A reader's step leaves the statistics and the goroutine loop alone.
LEMMA ReaderStepInv ==
  ASSUME StatInv, NEW r \in Readers, ReaderStep(r) PROVE StatInv'
<1> USE StatisticsAssumption DEF StatInv, ReaderFrame, countVars, listVars, rttVars, Goto
<1>0. /\ pc \in [Readers \cup {"loop"} -> {"idle", "sent", "duplicate", "record",
               "extremes", "welford", "readSent", "readCounts", "readRtts"}]
      /\ r # "loop" /\ snap \in [Readers -> Stats] /\ holders \subseteq Readers
  BY DEF TypeOK
<1>1. /\ UNCHANGED <<writer, pkt, countVars, listVars, rttVars, samples>>
      /\ pc' = [pc EXCEPT ![r] = pc'[r]]
  BY <1>0 DEF ReaderStep, RLock, ReadSent, ReadCounts, ReadRtts
<1>2. pc'["loop"] = pc["loop"] /\ \A q \in Readers \ {r} : pc'[q] = pc[q]
  BY <1>0, <1>1
<1>3. CountInv' /\ ValueInv'
  BY <1>1, <1>2 DEF CountInv, ValueInv, Pending, Folded, Width
<1>4. pc[r] # "idle" => writer = FALSE /\ pc["loop"] = "idle"
  BY DEF MutexInv, TypeOK
<1>5. MutexInv'
  <2>1. CASE RLock(r) BY <1>0, <2>1 DEF RLock, MutexInv
  <2>2. CASE ReadSent(r) BY <1>0, <2>2 DEF ReadSent, MutexInv
  <2>3. CASE ReadCounts(r) BY <1>0, <2>3 DEF ReadCounts, MutexInv
  <2>4. CASE ReadRtts(r) BY <1>0, <2>4 DEF ReadRtts, MutexInv
  <2> QED BY <2>1, <2>2, <2>3, <2>4 DEF ReaderStep
<1>6. snap' \in [Readers -> Stats] /\ \A q \in Readers \ {r} : snap'[q] = snap[q]
  <2> DEFINE s == snap[r]
  <2>0. s \in Stats BY <1>0
  <2>1. ASSUME NEW t \in Stats, snap' = [snap EXCEPT ![r] = t]
        PROVE  snap' \in [Readers -> Stats] /\ \A q \in Readers \ {r} : snap'[q] = snap[q]
    BY <1>0, <2>1
  <2>2. CASE RLock(r)
    <3>1. NoStats \in Stats BY DEF NoStats, Stats
    <3> QED BY <2>1, <2>2, <3>1 DEF RLock
  <2>3. CASE ReadSent(r)
    <3>1. [s EXCEPT !.sent = PacketsSent] \in Stats BY <2>0 DEF Stats, TypeOK
    <3> QED BY <1>0, <2>1, <2>3, <3>1 DEF ReadSent
  <2>4. CASE ReadCounts(r)
    <3>1. [s EXCEPT !.recv = PacketsRecv, !.dups = PacketsRecvDuplicates] \in Stats
      BY <2>0 DEF Stats, TypeOK
    <3>2. snap' = [snap EXCEPT ![r] = [s EXCEPT !.recv = PacketsRecv,
                                                !.dups = PacketsRecvDuplicates]]
      BY <1>0, <2>4 DEF ReadCounts
    <3> QED BY <2>1, <3>1, <3>2
  <2>5. CASE ReadRtts(r)
    <3>1. [s EXCEPT !.rtts = rtts, !.ttls = ttls, !.min = minRtt, !.max = maxRtt,
                    !.avg = avgRtt, !.dev = stdDevRtt] \in Stats
      BY <2>0 DEF Stats, TypeOK
    <3> QED BY <1>0, <2>1, <2>5, <3>1 DEF ReadRtts
  <2> QED BY <2>2, <2>3, <2>4, <2>5 DEF ReaderStep
<1>7. TypeOK'
  <2>1. pc'[r] \in {"readSent", "readCounts", "readRtts", "idle"}
        /\ holders' \subseteq Readers
    BY <1>0 DEF ReaderStep, RLock, ReadSent, ReadCounts, ReadRtts
  <2>2. pc' \in [Readers \cup {"loop"} -> {"idle", "sent", "duplicate", "record",
               "extremes", "welford", "readSent", "readCounts", "readRtts"}]
    BY <1>0, <1>1, <2>1
  <2> QED BY <1>1, <1>6, <2>1, <2>2 DEF TypeOK
<1>8. SnapInv'
  <2>0. \A q \in Readers \ {r} :
          /\ pc'[q] = "idle" => SnapshotOK(snap'[q])
          /\ pc'[q] \in {"readCounts", "readRtts"} => snap'[q].sent = PacketsSent'
          /\ pc'[q] = "readRtts" => snap'[q].recv = PacketsRecv'
    BY <1>1, <1>2, <1>6 DEF SnapInv
  <2> SUFFICES /\ pc'[r] = "idle" => SnapshotOK(snap'[r])
               /\ pc'[r] \in {"readCounts", "readRtts"} => snap'[r].sent = PacketsSent
               /\ pc'[r] = "readRtts" => snap'[r].recv = PacketsRecv
    BY <1>1, <2>0 DEF SnapInv, SnapshotOK
  <2>1. CASE RLock(r) BY <1>0, <2>1 DEF RLock
  <2>2. CASE ReadSent(r) BY <1>0, <2>2 DEF ReadSent, Stats
  <2>3. CASE ReadCounts(r) BY <1>0, <2>3 DEF ReadCounts, Stats, SnapInv
  <2>4. CASE ReadRtts(r)
    <3>1. /\ pc[r] = "readRtts" /\ pc'[r] = "idle"
          /\ snap'[r] = [snap[r] EXCEPT !.rtts = rtts, !.ttls = ttls, !.min = minRtt,
                           !.max = maxRtt, !.avg = avgRtt, !.dev = stdDevRtt]
      BY <1>0, <2>4 DEF ReadRtts
    <3>2. /\ snap'[r].sent = PacketsSent /\ snap'[r].recv = PacketsRecv
          /\ snap'[r].rtts = rtts /\ snap'[r].ttls = ttls /\ snap'[r].min = minRtt
          /\ snap'[r].max = maxRtt /\ snap'[r].avg = avgRtt /\ snap'[r].dev = stdDevRtt
      BY <1>0, <3>1 DEF Stats, SnapInv
    <3>3. ~Pending /\ Folded = PacketsRecv BY <1>4, <3>1 DEF Pending, Folded
    <3>4. minRtt <= avgRtt /\ avgRtt <= maxRtt /\ stdDevRtt <= maxRtt - minRtt
      <4>1. PacketsRecv = 0 \/ PacketsRecv > 0 BY DEF TypeOK
      <4>2. pc["loop"] # "welford" BY <1>4, <3>1
      <4> HIDE DEF StatInv
      <4>3. ValueInv BY DEF StatInv
      <4>4. CASE PacketsRecv = 0
        BY <3>3, <4>2, <4>3, <4>4 DEF ValueInv, Width
      <4>5. CASE PacketsRecv > 0
        BY <3>3, <4>3, <4>5 DEF ValueInv, Width
      <4> QED BY <4>1, <4>4, <4>5
    <3> QED BY <3>1, <3>2, <3>4 DEF SnapshotOK, CountInv
  <2> QED BY <2>1, <2>2, <2>3, <2>4 DEF ReaderStep
<1> QED BY <1>3, <1>5, <1>7, <1>8

LoopMove(from, to) ==
  pc["loop"] = from /\ pc' = [pc EXCEPT !["loop"] = to]

\* While the goroutine loop holds or takes the mutex no reader is under way:
\* snapshots stay as they are.
LEMMA LoopMoveInv ==
  ASSUME StatInv, holders = {}, holders' = holders, snap' = snap,
         NEW from, NEW to \in {"idle", "sent", "duplicate", "record", "extremes",
                               "welford"},
         LoopMove(from, to), writer' = (to # "idle")
  PROVE  /\ MutexInv' /\ SnapInv' /\ pc["loop"] = from /\ pc'["loop"] = to
         /\ pc' \in [Readers \cup {"loop"} -> {"idle", "sent", "duplicate", "record",
               "extremes", "welford", "readSent", "readCounts", "readRtts"}]
<1> USE DEF StatInv
<1>0. pc \in [Readers \cup {"loop"} -> {"idle", "sent", "duplicate", "record",
               "extremes", "welford", "readSent", "readCounts", "readRtts"}]
  BY DEF TypeOK
<1>1. /\ \A r \in Readers : pc'[r] = pc[r] /\ pc[r] = "idle"
      /\ pc["loop"] = from /\ pc'["loop"] = to
  BY <1>0, StatisticsAssumption DEF LoopMove, MutexInv
<1>2. MutexInv' BY <1>1 DEF MutexInv
<1>3. SnapInv' BY <1>1 DEF SnapInv, SnapshotOK
<1> QED BY <1>0, <1>1, <1>2, <1>3 DEF LoopMove

\* The counters of sendICMP and processPacket, and taking the mutex.
LEMMA CounterStepInv ==
  ASSUME StatInv,
         LockSent \/ CountSent \/ LockDuplicate \/ CountDuplicate \/ LockUpdate
  PROVE  StatInv'
<1> USE StatisticsAssumption
    DEF StatInv, CanLock, countVars, listVars, rttVars, muVars, Goto, LoopMove
<1>0. pc["loop"] # "idle" => holders = {} BY DEF MutexInv
<1>1. ASSUME NEW to \in {"sent", "duplicate", "record"}, Lock(to),
             pkt' \in [rtt: Int, ttl: Int],
             to = "record" => PacketsRecv < PacketsSent
      PROVE  StatInv'
  <2>1. /\ MutexInv' /\ SnapInv' /\ pc["loop"] = "idle" /\ pc'["loop"] = to
        /\ pc' \in [Readers \cup {"loop"} -> {"idle", "sent", "duplicate", "record",
              "extremes", "welford", "readSent", "readCounts", "readRtts"}]
    BY <1>1, LoopMoveInv DEF Lock
  <2>2. TypeOK' BY <1>1, <2>1 DEF TypeOK, Lock
  <2>3. CountInv' BY <1>1, <2>1 DEF CountInv, Pending, Lock
  <2>4. ValueInv' BY <1>1, <2>1 DEF ValueInv, Pending, Folded, Width, Lock
  <2> QED BY <2>1, <2>2, <2>3, <2>4
<1>2. CASE LockSent BY <1>1, <1>2 DEF LockSent, TypeOK
<1>3. CASE LockDuplicate BY <1>1, <1>3 DEF LockDuplicate, TypeOK
<1>4. CASE LockUpdate
  <2>1. pkt' \in [rtt: Int, ttl: Int] BY <1>4 DEF LockUpdate
  <2> QED BY <1>1, <1>4, <2>1 DEF LockUpdate
<1>5. CASE CountSent
  <2>1. /\ MutexInv' /\ SnapInv' /\ pc["loop"] = "sent" /\ pc'["loop"] = "idle"
        /\ pc' \in [Readers \cup {"loop"} -> {"idle", "sent", "duplicate", "record",
              "extremes", "welford", "readSent", "readCounts", "readRtts"}]
    BY <1>0, <1>5, LoopMoveInv DEF CountSent
  <2>2. PacketsSent' \in Nat BY <1>5 DEF TypeOK, CountSent
  <2>3. TypeOK' BY <1>5, <2>1, <2>2 DEF TypeOK, CountSent
  <2>4. CountInv' BY <1>5, <2>1 DEF CountInv, Pending, CountSent, TypeOK
  <2>5. ValueInv' BY <1>5, <2>1 DEF ValueInv, Pending, Folded, Width, CountSent
  <2> QED BY <2>1, <2>3, <2>4, <2>5
<1>6. CASE CountDuplicate
  <2>1. /\ MutexInv' /\ SnapInv' /\ pc["loop"] = "duplicate" /\ pc'["loop"] = "idle"
        /\ pc' \in [Readers \cup {"loop"} -> {"idle", "sent", "duplicate", "record",
              "extremes", "welford", "readSent", "readCounts", "readRtts"}]
    BY <1>0, <1>6, LoopMoveInv DEF CountDuplicate
  <2>2. PacketsRecvDuplicates' \in Nat BY <1>6 DEF TypeOK, CountDuplicate
  <2>3. TypeOK' BY <1>6, <2>1, <2>2 DEF TypeOK, CountDuplicate
  <2>4. CountInv' BY <1>6, <2>1 DEF CountInv, Pending, CountDuplicate
  <2>5. ValueInv' BY <1>6, <2>1 DEF ValueInv, Pending, Folded, Width, CountDuplicate
  <2> QED BY <2>1, <2>3, <2>4, <2>5
<1> QED BY <1>2, <1>3, <1>4, <1>5, <1>6

\* The first two thirds of updateStatistics.
LEMMA RecordStepInv ==
  ASSUME StatInv, Record \/ UpdateExtremes PROVE StatInv'
<1> USE DEF countVars, listVars, rttVars, muVars, Goto, LoopMove
<1> TypeOK /\ MutexInv /\ CountInv /\ ValueInv /\ SnapInv BY DEF StatInv
<1>0. pc["loop"] # "idle" => holders = {} /\ writer = TRUE BY DEF MutexInv, TypeOK
<1>1. CASE Record
  <2>1. /\ MutexInv' /\ SnapInv' /\ pc["loop"] = "record" /\ pc'["loop"] = "extremes"
        /\ pc' \in [Readers \cup {"loop"} -> {"idle", "sent", "duplicate", "record",
              "extremes", "welford", "readSent", "readCounts", "readRtts"}]
    BY <1>0, <1>1, LoopMoveInv DEF Record
  <2>2. /\ PacketsRecv' = PacketsRecv + 1 /\ PacketsRecv' \in Nat
        /\ rtts' \in Seq(Int) /\ Len(rtts') = IF RecordRtts THEN PacketsRecv + 1 ELSE 0
    BY <1>1 DEF Record, TypeOK, CountInv
  <2>3. ttls' \in Seq(0..255) /\ Len(ttls') = IF RecordTTLs THEN PacketsRecv + 1 ELSE 0
    <3>1. \A t \in Int : t % 256 \in 0..255 OBVIOUS
    <3>2. Uint8(pkt.ttl) \in 0..255 BY <3>1 DEF Uint8, TypeOK
    <3> HIDE DEF Uint8
    <3> QED BY <1>1, <3>2 DEF Record, TypeOK, CountInv
  <2>4. samples' \in Seq(Int) /\ Len(samples') = PacketsRecv + 1
    BY <1>1 DEF Record, TypeOK, CountInv
  <2>5. TypeOK' BY <1>1, <2>1, <2>2, <2>3, <2>4 DEF TypeOK, Record
  <2>6. CountInv' BY <1>1, <2>1, <2>2, <2>3, <2>4 DEF CountInv, Pending, Record, TypeOK
  <2>7. Folded' = Folded BY <2>1, <2>2 DEF Folded, Pending, TypeOK
  <2>8. ValueInv' BY <1>1, <2>1, <2>7 DEF ValueInv, Width, Record
  <2> QED BY <2>1, <2>5, <2>6, <2>8 DEF StatInv
<1>2. CASE UpdateExtremes
  <2>1. /\ MutexInv' /\ SnapInv' /\ pc["loop"] = "extremes" /\ pc'["loop"] = "welford"
        /\ pc' \in [Readers \cup {"loop"} -> {"idle", "sent", "duplicate", "record",
              "extremes", "welford", "readSent", "readCounts", "readRtts"}]
    BY <1>0, <1>2, LoopMoveInv DEF UpdateExtremes
  <2>2. /\ minRtt' \in Int /\ maxRtt' \in Int /\ pkt.rtt \in Int
        /\ minRtt' <= pkt.rtt /\ pkt.rtt <= maxRtt'
        /\ maxRtt <= maxRtt' /\ (PacketsRecv # 1 => minRtt' <= minRtt)
    BY <1>2 DEF UpdateExtremes, NewMin, TypeOK
  <2>3. TypeOK' BY <1>2, <2>1, <2>2 DEF TypeOK, UpdateExtremes
  <2>4. CountInv' BY <1>2, <2>1 DEF CountInv, Pending, UpdateExtremes
  <2>5. Folded' = Folded /\ Folded = PacketsRecv - 1 /\ Folded \in Nat
    BY <1>2, <2>1 DEF Folded, Pending, TypeOK, CountInv, UpdateExtremes
  <2>6. UNCHANGED <<avgRtt, stddevm2, stdDevRtt, pkt>> BY <1>2 DEF UpdateExtremes
  <2>7. PICK lo \in Int, hi \in Int, x \in Int, n \in Nat :
           /\ minRtt' = lo /\ maxRtt' = hi /\ pkt.rtt = x /\ Folded = n
           /\ lo <= x /\ x <= hi /\ maxRtt <= hi /\ (n > 0 => lo <= minRtt)
    BY <2>2, <2>5 DEF TypeOK
  <2> DEFINE w == hi - lo
             v == maxRtt - minRtt
  <2>8. Width' = w /\ Width = v /\ v \in Int /\ w \in Int
    BY <2>7 DEF Width, TypeOK
  <2>9. 0 <= w BY <2>7
  <2>10. CASE n = 0
    <3>1. avgRtt = 0 /\ stddevm2 = 0 /\ stdDevRtt = 0 BY <2>7, <2>10 DEF ValueInv
    <3>2. 0 <= n * (w * w) BY <2>8, <2>9
    <3> HIDE DEF w
    <3>3. ValueInv'
      BY <2>1, <2>5, <2>6, <2>7, <2>8, <2>9, <2>10, <3>1, <3>2 DEF ValueInv
    <3> QED BY <2>1, <2>3, <2>4, <3>3 DEF StatInv
  <2>11. CASE n > 0
    <3>1. /\ minRtt <= avgRtt /\ avgRtt <= maxRtt /\ stdDevRtt <= v
          /\ 0 <= stddevm2 /\ stddevm2 <= n * (v * v)
      BY <2>7, <2>8, <2>11 DEF ValueInv
    <3>2. 0 <= v /\ v <= w
      BY <2>7, <2>11, <3>1 DEF TypeOK
    <3> HIDE DEF v, w
    <3>3. v * v <= w * w BY <2>8, <3>2
    <3>4. n * (v * v) <= n * (w * w)
      BY <2>8, <3>3
    <3>5. lo <= avgRtt /\ avgRtt <= hi BY <2>7, <2>11, <3>1 DEF TypeOK
    <3>6. stdDevRtt <= w /\ stddevm2 <= n * (w * w)
      <4> DEFINE p == n * (v * v)
                 q == n * (w * w)
      <4>1. p \in Int /\ q \in Int /\ p <= q /\ stddevm2 <= p BY <2>8, <3>1, <3>4
      <4> HIDE DEF p, q
      <4>2. stddevm2 <= q BY <4>1 DEF TypeOK
      <4>3. stdDevRtt <= w BY <2>8, <3>1, <3>2 DEF TypeOK
      <4> QED BY <4>2, <4>3 DEF q
    <3>7. ValueInv'
      BY <2>1, <2>5, <2>6, <2>7, <2>8, <2>11, <3>1, <3>5, <3>6 DEF ValueInv
    <3> QED BY <2>1, <2>3, <2>4, <3>7 DEF StatInv
  <2> QED BY <2>10, <2>11
<1> QED BY <1>1, <1>2

\* The last third, Welford's method: the new average lies between the old one
\* and the sample, and the sum of squares grows by at most the square of the
\* width.
LEMMA WelfordStepInv ==
  ASSUME StatInv, UpdateWelford PROVE StatInv'
<1> TypeOK /\ MutexInv /\ CountInv /\ ValueInv /\ SnapInv BY DEF StatInv
<1>1. pc["loop"] = "welford" /\ holders = {} BY DEF MutexInv, UpdateWelford
<1>2. /\ MutexInv' /\ SnapInv' /\ pc'["loop"] = "idle"
      /\ pc' \in [Readers \cup {"loop"} -> {"idle", "sent", "duplicate", "record",
            "extremes", "welford", "readSent", "readCounts", "readRtts"}]
  BY <1>1, LoopMoveInv DEF UpdateWelford, LoopMove, Goto
<1>3. /\ UNCHANGED <<holders, pkt, PacketsSent, PacketsRecv, PacketsRecvDuplicates,
                     rtts, ttls, minRtt, maxRtt, snap, samples>>
      /\ writer' = FALSE
  BY DEF UpdateWelford, countVars, listVars
<1>4. CountInv' BY <1>1, <1>2, <1>3 DEF CountInv, Pending
<1>5. Folded = PacketsRecv - 1 /\ Folded' = PacketsRecv /\ Folded \in Nat
  BY <1>1, <1>2, <1>3 DEF Folded, Pending, CountInv, TypeOK
<1>6. PICK n \in Nat \ {0}, x \in Int, a \in Int, m \in Nat, lo \in Int, hi \in Int :
        /\ PacketsRecv = n /\ pkt.rtt = x /\ avgRtt = a /\ stddevm2 = m
        /\ minRtt = lo /\ maxRtt = hi
        /\ n - 1 = Folded /\ lo <= x /\ x <= hi
  <2>1. PacketsRecv \in Nat \ {0} /\ pkt.rtt \in Int /\ stddevm2 \in Nat
    BY <1>1, <1>5 DEF TypeOK, ValueInv
  <2>2. avgRtt \in Int /\ minRtt \in Int /\ maxRtt \in Int BY DEF TypeOK
  <2>3. minRtt <= pkt.rtt /\ pkt.rtt <= maxRtt BY <1>1 DEF ValueInv
  <2> QED BY <1>5, <2>1, <2>2, <2>3, Zenon
<1> DEFINE w == hi - lo
           q == Quo(x - a, n)
           c == a + q
           d == m + (x - a) * (x - c)
<1>7. /\ n = 1 => a = 0 /\ m = 0
      /\ n > 1 => lo <= a /\ a <= hi
      /\ m <= (n - 1) * (w * w) /\ Width = w
  BY <1>6 DEF ValueInv, Width
<1>8. avgRtt' = c /\ stddevm2' = d /\ stdDevRtt' = SqrtQuo(d, n)
  BY <1>6 DEF UpdateWelford, Correction, Spread
<1>9. /\ q \in Int
      /\ x - a >= 0 => 0 <= q /\ q <= x - a
      /\ x - a <= 0 => x - a <= q /\ q <= 0
      /\ n * q - (x - a) <= n - 1 /\ (x - a) - n * q <= n - 1
  BY QuoBounds
<1> HIDE DEF q
<1>10. c \in Int /\ d \in Int /\ w \in Nat BY <1>6, <1>9
<1>11. lo <= c /\ c <= hi /\ 0 <= d /\ d <= n * (w * w)
  <2>1. CASE n = 1
    <3>1. q = x BY <1>7, <1>9, <2>1
    <3>2. c = x BY <1>7, <2>1, <3>1
    <3>3. d = 0 BY <1>7, <1>10, <2>1, <3>2
    <3>4. 0 <= n * (w * w) BY <1>10
    <3> QED BY <1>6, <3>2, <3>3, <3>4
  <2>2. CASE n > 1
    <3>1. lo <= c /\ c <= hi BY <1>6, <1>7, <1>9, <2>2
    <3> DEFINE e == x - a
               f == x - c
    <3>2. /\ e \in Int /\ f \in Int /\ -w <= e /\ e <= w
          /\ e >= 0 => 0 <= f /\ f <= e
          /\ e <= 0 => e <= f /\ f <= 0
      BY <1>6, <1>7, <1>9, <1>10, <2>2
    <3> HIDE DEF e, f, w
    <3>3. 0 <= e * f BY <3>2
    <3>4. -w <= f /\ f <= w BY <1>10, <3>2
    <3>5. e * f <= w * w BY <1>10, <3>2, <3>4, ProductBound
    <3>6. (n - 1) * (w * w) + w * w = n * (w * w) BY <1>10
    <3>7. d = m + e * f BY DEF e, f
    <3> HIDE DEF d, c
    <3>8. 0 <= d /\ d <= n * (w * w)
      <4> DEFINE s == w * w
                 t == (n - 1) * s
                 z == n * s
                 g == e * f
      <4>1. s \in Int /\ t \in Int /\ z \in Int /\ g \in Int BY <1>10, <3>2
      <4>2. m <= t /\ t + s = z /\ 0 <= g /\ g <= s /\ d = m + g
        BY <1>7, <3>3, <3>5, <3>6, <3>7
      <4> HIDE DEF s, t, z, g
      <4>3. 0 <= d /\ d <= z BY <4>1, <4>2
      <4> QED BY <4>3 DEF z, s
    <3> QED BY <3>1, <3>8
  <2> QED BY <2>1, <2>2
<1> HIDE DEF c, d, w
<1>12. PICK s \in Nat : s = SqrtQuo(d, n) /\ s * s * n <= d
  <2>1. d \in Nat BY <1>10, <1>11
  <2> QED BY <2>1, SqrtBounds
<1>13. s <= w
  <2>1. s * s * n <= n * (w * w)
    <3> DEFINE y == s * s * n
               z == n * (w * w)
    <3>1. y \in Int /\ z \in Int /\ y <= d /\ d <= z BY <1>10, <1>11, <1>12
    <3> HIDE DEF y, z
    <3>2. y <= z BY <1>10, <3>1
    <3> QED BY <3>2 DEF y, z
  <2> QED BY <1>10, <2>1, SquareRoot
<1>14. TypeOK'
  BY <1>2, <1>3, <1>8, <1>10, <1>12 DEF TypeOK
<1>15. ValueInv'
  <2>1. Width' = w BY <1>3, <1>6 DEF Width, w
  <2>2. Folded' = n BY <1>5, <1>6
  <2>3. minRtt' = lo /\ maxRtt' = hi BY <1>3, <1>6
  <2>4. stdDevRtt' = s BY <1>8, <1>12
  <2> QED BY <1>2, <1>8, <1>11, <1>13, <2>1, <2>2, <2>3, <2>4 DEF ValueInv
<1> QED BY <1>2, <1>4, <1>14, <1>15 DEF StatInv

\* The invariant holds throughout.
LEMMA StatisticsInvariant == Spec => []StatInv
<1>1. Init => StatInv
  <2> SUFFICES ASSUME Init PROVE StatInv OBVIOUS
  <2>1. NoStats \in Stats /\ SnapshotOK(NoStats) BY DEF NoStats, Stats, SnapshotOK
  <2> HIDE DEF NoStats
  <2>2. /\ pc = [a \in Readers \cup {"loop"} |-> "idle"]
        /\ snap = [r \in Readers |-> NoStats]
        /\ writer = FALSE /\ holders = {} /\ pkt = [rtt |-> 0, ttl |-> 0]
    BY Zenon DEF Init
  <2>3. /\ PacketsSent = 0 /\ PacketsRecv = 0 /\ PacketsRecvDuplicates = 0
        /\ rtts = <<>> /\ ttls = <<>> /\ minRtt = 0 /\ maxRtt = 0 /\ avgRtt = 0
        /\ stddevm2 = 0 /\ stdDevRtt = 0 /\ samples = <<>>
    BY Zenon DEF Init
  <2>4. TypeOK
    <3>1. /\ pc \in [Readers \cup {"loop"} -> {"idle", "sent", "duplicate", "record",
               "extremes", "welford", "readSent", "readCounts", "readRtts"}]
      BY <2>2
    <3>2. writer \in BOOLEAN /\ holders \subseteq Readers BY <2>2, Zenon
    <3>3. pkt \in [rtt: Int, ttl: Int] BY <2>2
    <3>4. snap \in [Readers -> Stats] BY <2>1, <2>2, Zenon
    <3> QED BY <2>3, <3>1, <3>2, <3>3, <3>4 DEF TypeOK
  <2>5. MutexInv BY <2>2 DEF MutexInv
  <2>6. CountInv BY <2>2, <2>3 DEF CountInv, Pending
  <2>7. ValueInv BY <2>2, <2>3 DEF ValueInv, Folded, Pending, Width
  <2>8. SnapInv BY <2>1, <2>2 DEF SnapInv
  <2> QED BY <2>4, <2>5, <2>6, <2>7, <2>8 DEF StatInv
<1>2. StatInv /\ [Next]_vars => StatInv'
  <2> SUFFICES ASSUME StatInv, [Next]_vars PROVE StatInv' OBVIOUS
  <2>1. CASE UNCHANGED vars
    BY <2>1 DEF vars, muVars, countVars, listVars, rttVars, StatInv, TypeOK, MutexInv,
                CountInv, ValueInv, SnapInv, SnapshotOK, Pending, Folded, Width
  <2> QED BY <2>1, ReaderStepInv, CounterStepInv, RecordStepInv, WelfordStepInv
          DEF Next, ReaderStep
<1> QED BY <1>1, <1>2, PTL DEF Spec

\* The variables of the statistics keep their types; in particular the number
\* under the square root is never negative and recorded TTLs are bytes.
THEOREM StatisticsTypeCorrect == Spec => []TypeOK
<1>1. StatInv => TypeOK BY DEF StatInv
<1> QED BY <1>1, StatisticsInvariant, PTL

\* Whatever Statistics returns, to however many callers at once, is of one
\* moment: lists as long as the count, no more received than sent, the average
\* within the extremes and the deviation within their distance.
THEOREM SnapshotsAreConsistent == Spec => []SnapshotIsConsistent
<1>1. StatInv => SnapshotIsConsistent
  BY Zenon DEF StatInv, SnapInv, SnapshotIsConsistent, SnapshotOK
<1> QED BY <1>1, StatisticsInvariant, PTL

-----------------------------------------------------------------------------
(***************************************************************************)
(* How far the average and the sum of squared deviations are from the      *)
(* exact ones.  n samples with sum T and squares S, between lo and hi:     *)
(* the average a is off by at most (n - 1) / 2, and m by at most           *)
(* n^2 (hi - lo).                                                          *)
(***************************************************************************)
Accurate(n, T, S, a, m, lo, hi) ==
  /\ -(n * (n - 1)) <= 2 * (n * a - T) /\ 2 * (n * a - T) <= n * (n - 1)
  /\ n * lo <= T /\ T <= n * hi
  /\ -(n * n * n * (hi - lo)) <= n * m - (n * S - T * T)
  /\ n * m - (n * S - T * T) <= n * n * n * (hi - lo)
  /\ n = 0 => S = 0

\* Wider bounds do no harm.
LEMMA AccurateWider ==
  ASSUME NEW n \in Nat, NEW T \in Int, NEW S \in Int, NEW a \in Int, NEW m \in Int,
         NEW lo \in Int, NEW hi \in Int, NEW lo2 \in Int, NEW hi2 \in Int,
         Accurate(n, T, S, a, m, lo, hi), n > 0 => lo2 <= lo /\ hi <= hi2
  PROVE  Accurate(n, T, S, a, m, lo2, hi2)
<1>1. CASE n = 0
  <2>1. T = 0 BY <1>1 DEF Accurate
  <2>2. 0 * lo2 = 0 /\ 0 * hi2 = 0 /\ 0 * (hi2 - lo2) = 0 OBVIOUS
  <2> QED BY <1>1, <2>1, <2>2 DEF Accurate
<1>2. CASE n > 0
  <2>1. n * lo2 <= n * lo /\ n * hi <= n * hi2 BY <1>2
  <2>2. (n * n * n) * (hi - lo) <= (n * n * n) * (hi2 - lo2)
    <3>1. hi - lo <= hi2 - lo2 BY <1>2
    <3>2. n * n * n \in Nat OBVIOUS
    <3> DEFINE k == n * n * n
               r == hi - lo
               r2 == hi2 - lo2
    <3> HIDE DEF k, r, r2
    <3>3. k \in Nat /\ r \in Int /\ r2 \in Int /\ r <= r2 BY <3>1, <3>2 DEF k, r, r2
    <3>4. k * r <= k * r2 BY <3>3
    <3> QED BY <3>4 DEF k, r, r2
  <2> QED BY <1>2, <2>1, <2>2 DEF Accurate
<1> QED BY <1>1, <1>2

\* One more sample x, whose deviation is divided with an error q of the
\* truncation, keeps the bounds.
LEMMA AccurateStep ==
  ASSUME NEW n \in Nat, NEW T \in Int, NEW S \in Int, NEW a \in Int, NEW m \in Int,
         NEW lo \in Int, NEW hi \in Int, NEW x \in Int, NEW q \in Int,
         Accurate(n, T, S, a, m, lo, hi), lo <= x, x <= hi,
         n = 0 => a = 0 /\ m = 0, n > 0 => lo <= a /\ a <= hi,
         (n + 1) * q - (x - a) <= n, (x - a) - (n + 1) * q <= n
  PROVE  Accurate(n + 1, T + x, S + x * x, a + q,
                  m + (x - a) * (x - (a + q)), lo, hi)
<1> DEFINE N == n + 1
           u == n * a - T
           v == N * (a + q) - (T + x)
           A == n * m - (n * S - T * T)
           M == m + (x - a) * (x - (a + q))
           B == N * M - (N * (S + x * x) - (T + x) * (T + x))
           R == hi - lo
<1>1. v = u + (N * q - (x - a)) OBVIOUS
<1>2. -(N * (N - 1)) <= 2 * v /\ 2 * v <= N * (N - 1)
  <2>1. N * (N - 1) = n * (n - 1) + 2 * n OBVIOUS
  <2> QED BY <1>1, <2>1 DEF Accurate
<1>3. N * lo <= T + x /\ T + x <= N * hi
  <2>1. N * lo = n * lo + lo /\ N * hi = n * hi + hi OBVIOUS
  <2> QED BY <2>1 DEF Accurate
<1>4. -(N * N * N * R) <= B /\ B <= N * N * N * R
  <2>1. CASE n = 0
    <3>1. T = 0 /\ S = 0 /\ a = 0 /\ m = 0 BY <2>1 DEF Accurate
    <3>2. q = x BY <2>1, <3>1
    <3>3. B = 0 BY <2>1, <3>1, <3>2
    <3>4. R >= 0 OBVIOUS
    <3> QED BY <2>1, <3>3, <3>4
  <2>2. CASE n > 0
    <3> DEFINE p == n * (x - a)
               z == n * x - T
    <3>1. R \in Nat /\ A \in Int /\ B \in Int /\ u \in Int /\ v \in Int /\ p \in Int
          /\ z \in Int /\ n \in Nat \ {0}
      BY <2>2
    <3>2. n * B = (n + 1) * A - p * v - z * u BY ErrorGrowth
    <3>3. -(n * n * n * R) <= A /\ A <= n * n * n * R BY DEF Accurate
    <3>4. -(n * R) <= p /\ p <= n * R
      <4>1. -R <= x - a /\ x - a <= R BY <2>2
      <4>2. x - a \in Int OBVIOUS
      <4> DEFINE e == x - a
      <4> HIDE DEF e, R
      <4>3. -(n * R) <= n * e /\ n * e <= n * R
        BY <3>1, <4>1, <4>2, ProductBound DEF e
      <4> QED BY <4>3 DEF e
    <3>5. -(n * R) <= z /\ z <= n * R
      <4>1. n * lo <= n * x /\ n * x <= n * hi OBVIOUS
      <4>2. n * R = n * hi - n * lo OBVIOUS
      <4> QED BY <4>1, <4>2 DEF Accurate
    <3>6. -(n * (n - 1)) <= 2 * u /\ 2 * u <= n * (n - 1) BY DEF Accurate
    <3>7. -((n + 1) * n) <= 2 * v /\ 2 * v <= (n + 1) * n
      <4>1. N * (N - 1) = (n + 1) * n OBVIOUS
      <4> HIDE DEF v, N
      <4> QED BY <1>2, <4>1
    <3> HIDE DEF R, A, B, u, v, p, z
    <3> QED BY <3>1, <3>2, <3>3, <3>4, <3>5, <3>6, <3>7, ErrorBound
  <2> QED BY <2>1, <2>2
<1> QED BY <1>2, <1>3, <1>4 DEF Accurate

\* Sums of the samples that the average and the deviation take into account.
FoldedSum == IF Pending THEN Total - pkt.rtt ELSE Total
FoldedSquares == IF Pending THEN Squares - pkt.rtt * pkt.rtt ELSE Squares

AccuracyInv ==
  /\ FoldedSum \in Int /\ FoldedSquares \in Int
  /\ Accurate(Folded, FoldedSum, FoldedSquares, avgRtt, stddevm2, minRtt, maxRtt)

\* The squares of a longer sequence.
LEMMA SquaresAppend ==
  ASSUME NEW s \in Seq(Int), NEW x \in Int
  PROVE  LET sq(t) == [i \in 1..Len(t) |-> t[i] * t[i]]
         IN  sq(s) \in Seq(Int) /\ sq(Append(s, x)) = Append(sq(s), x * x)
<1> DEFINE sq(t) == [i \in 1..Len(t) |-> t[i] * t[i]]
           r == Append(s, x)
           left == sq(r)
           right == Append(sq(s), x * x)
<1>1. Len(s) \in Nat /\ Len(r) = Len(s) + 1 /\ r[Len(s) + 1] = x
      /\ \A i \in 1..Len(s) : r[i] = s[i] /\ s[i] \in Int
  OBVIOUS
<1>2. sq(s) \in Seq(Int) /\ Len(sq(s)) = Len(s)
  <2>1. \A i \in 1..Len(s) : s[i] * s[i] \in Int BY <1>1
  <2> QED BY <1>1, <2>1
<1>3. x * x \in Int OBVIOUS
<1>4. /\ right \in Seq(Int) /\ Len(right) = Len(s) + 1
      /\ right[Len(s) + 1] = x * x /\ \A i \in 1..Len(s) : right[i] = sq(s)[i]
  <2> HIDE DEF sq
  <2> QED BY <1>2, <1>3
<1>5. right = [i \in 1..(Len(s) + 1) |-> right[i]]
  <2> HIDE DEF right
  <2> QED BY <1>4
<1>6. ASSUME NEW i \in 1..(Len(s) + 1) PROVE right[i] = r[i] * r[i]
  <2>1. CASE i = Len(s) + 1 
    <3> HIDE DEF right, r
    <3> QED BY <1>1, <1>4, <2>1
  <2>2. CASE i # Len(s) + 1
    <3>1. i \in 1..Len(s) BY <1>1, <2>2
    <3>2. sq(s)[i] = s[i] * s[i] BY <3>1
    <3> HIDE DEF right, r, sq
    <3> QED BY <1>1, <1>4, <3>1, <3>2
  <2> QED BY <2>1, <2>2
<1>7. left = right
  <2> HIDE DEF right, r
  <2> QED BY <1>1, <1>5, <1>6
<1> QED BY <1>2, <1>7

\* Sums of the samples are integers; recording a sample adds it.
LEMMA SumsStep ==
  ASSUME StatInv
  PROVE  /\ Total \in Int /\ Squares \in Int
         /\ Record => Total' = Total + pkt.rtt /\ Squares' = Squares + pkt.rtt * pkt.rtt
<1> DEFINE sq(t) == [i \in 1..Len(t) |-> t[i] * t[i]]
<1>1. samples \in Seq(Int) /\ pkt.rtt \in Int BY DEF StatInv, TypeOK
<1>2. PICK x \in Int : x = pkt.rtt BY <1>1
<1>3. sq(samples) \in Seq(Int) /\ sq(Append(samples, x)) = Append(sq(samples), x * x)
  BY <1>1, SquaresAppend
<1>4. Squares = Sum(sq(samples)) /\ Squares' = Sum(sq(samples')) BY DEF Squares
<1> HIDE DEF sq
<1>5. /\ Sum(samples) \in Int /\ Sum(sq(samples)) \in Int
      /\ Sum(Append(samples, x)) = Sum(samples) + x
      /\ Sum(Append(sq(samples), x * x)) = Sum(sq(samples)) + x * x
  <2>1. x * x \in Int OBVIOUS
  <2> QED BY <1>1, <1>3, <2>1, SumAppend
<1>6. Record => samples' = Append(samples, x) BY <1>2 DEF Record
<1> QED BY <1>2, <1>3, <1>4, <1>5, <1>6 DEF Total

\* Only UpdateExtremes and UpdateWelford change what the bounds speak of.
LEMMA AccuracyFrame ==
  ASSUME StatInv, [Next]_vars, ~UpdateExtremes, ~UpdateWelford
  PROVE  UNCHANGED <<Folded, FoldedSum, FoldedSquares, avgRtt, stddevm2, minRtt, maxRtt>>
<1> USE DEF countVars, listVars, rttVars, muVars, Goto
<1> TypeOK /\ MutexInv BY DEF StatInv
<1>0. pc \in [Readers \cup {"loop"} -> {"idle", "sent", "duplicate", "record",
               "extremes", "welford", "readSent", "readCounts", "readRtts"}]
      /\ "loop" \notin Readers
  BY StatisticsAssumption DEF TypeOK
<1>1. ASSUME UNCHANGED <<PacketsRecv, samples, rttVars>>, Pending' = Pending,
             Pending => pkt' = pkt
      PROVE  UNCHANGED <<Folded, FoldedSum, FoldedSquares, avgRtt, stddevm2, minRtt,
                         maxRtt>>
  BY <1>1 DEF Folded, FoldedSum, FoldedSquares, Total, Squares
<1>2. CASE Record
  <2>1. /\ Pending' /\ ~Pending /\ PacketsRecv' = PacketsRecv + 1 /\ pkt' = pkt
        /\ UNCHANGED rttVars
    BY <1>0, <1>2 DEF Record, Pending
  <2>2. PICK T \in Int, S \in Int, x \in Int, n \in Nat :
          /\ Total = T /\ Squares = S /\ pkt.rtt = x /\ PacketsRecv = n
          /\ Total' = T + x /\ Squares' = S + x * x
    <3>1. pkt.rtt \in Int /\ PacketsRecv \in Nat BY DEF TypeOK
    <3> QED BY <1>2, <3>1, SumsStep
  <2>3. (n + 1) - 1 = n /\ (T + x) - x = T /\ (S + x * x) - x * x = S OBVIOUS
  <2> QED BY <2>1, <2>2, <2>3 DEF Folded, FoldedSum, FoldedSquares
<1>3. CASE LockSent BY <1>0, <1>1, <1>3 DEF LockSent, Lock, Pending
<1>4. CASE LockDuplicate BY <1>0, <1>1, <1>4 DEF LockDuplicate, Lock, Pending
<1>5. CASE LockUpdate BY <1>0, <1>1, <1>5 DEF LockUpdate, Lock, Pending
<1>6. CASE CountSent BY <1>0, <1>1, <1>6 DEF CountSent, Pending
<1>7. CASE CountDuplicate BY <1>0, <1>1, <1>7 DEF CountDuplicate, Pending
<1>8. ASSUME NEW r \in Readers, ReaderStep(r)
      PROVE  UNCHANGED <<Folded, FoldedSum, FoldedSquares, avgRtt, stddevm2, minRtt,
                         maxRtt>>
  <2>1. pc'["loop"] = pc["loop"] /\ UNCHANGED <<PacketsRecv, samples, rttVars, pkt>>
    BY <1>0, <1>8 DEF ReaderStep, RLock, ReadSent, ReadCounts, ReadRtts, ReaderFrame
  <2> QED BY <1>1, <2>1 DEF Pending
<1>9. CASE UNCHANGED vars BY <1>1, <1>9 DEF vars, Pending
<1> QED BY <1>2, <1>3, <1>4, <1>5, <1>6, <1>7, <1>8, <1>9 DEF Next, ReaderStep

\* The bounds on the errors survive every step.
LEMMA AccuracyStepInv ==
  ASSUME StatInv, AccuracyInv, [Next]_vars PROVE AccuracyInv'
<1> TypeOK /\ MutexInv /\ CountInv /\ ValueInv BY DEF StatInv
<1>1. CASE ~UpdateExtremes /\ ~UpdateWelford
  BY <1>1, AccuracyFrame DEF AccuracyInv, Accurate
<1>2. PICK n \in Nat, T \in Int, S \in Int, a \in Int, m \in Int, lo \in Int,
           hi \in Int, x \in Int :
        /\ Folded = n /\ FoldedSum = T /\ FoldedSquares = S /\ avgRtt = a
        /\ stddevm2 = m /\ minRtt = lo /\ maxRtt = hi /\ pkt.rtt = x
        /\ Accurate(n, T, S, a, m, lo, hi)
  <2>1. Folded \in Nat BY DEF Folded, CountInv, TypeOK
  <2>2. pkt.rtt \in Int /\ avgRtt \in Int /\ stddevm2 \in Int /\ minRtt \in Int
        /\ maxRtt \in Int
    BY DEF TypeOK
  <2> QED BY <2>1, <2>2, Zenon DEF AccuracyInv
<1>3. CASE UpdateExtremes
  <2>1. /\ pc["loop"] = "extremes" /\ pc'["loop"] = "welford"
        /\ UNCHANGED <<pkt, PacketsRecv, samples, avgRtt, stddevm2>>
    BY <1>3 DEF UpdateExtremes, Goto, TypeOK, countVars
  <2>2. UNCHANGED <<Folded, FoldedSum, FoldedSquares>>
    BY <2>1 DEF Folded, FoldedSum, FoldedSquares, Pending, Total, Squares
  <2>3. PICK lo2 \in Int, hi2 \in Int :
           /\ minRtt' = lo2 /\ maxRtt' = hi2
           /\ n > 0 => lo2 <= lo /\ hi <= hi2
    <3>1. n = PacketsRecv - 1 BY <1>2, <2>1 DEF Folded, Pending
    <3>2. /\ minRtt' = IF PacketsRecv = 1 \/ x < lo THEN x ELSE lo
          /\ maxRtt' = IF x > hi THEN x ELSE hi
      BY <1>2, <1>3 DEF UpdateExtremes, NewMin
    <3> QED BY <3>1, <3>2 DEF TypeOK
  <2>4. Accurate(n, T, S, a, m, lo2, hi2) BY <1>2, <2>3, AccurateWider
  <2> QED BY <1>2, <2>1, <2>2, <2>3, <2>4, Zenon DEF AccuracyInv
<1>4. CASE UpdateWelford
  <2>1. /\ pc["loop"] = "welford" /\ pc'["loop"] = "idle"
        /\ UNCHANGED <<pkt, PacketsRecv, samples, minRtt, maxRtt>>
    BY <1>4 DEF UpdateWelford, Goto, TypeOK, countVars
  <2>2. PacketsRecv = n + 1
    BY <1>2, <2>1 DEF Folded, Pending, TypeOK
  <2>3. Folded' = n + 1 BY <2>1, <2>2 DEF Folded, Pending
  <2>4. FoldedSum' = T + x /\ FoldedSquares' = S + x * x
    <3>1. FoldedSum' = Total /\ FoldedSquares' = Squares
      BY <2>1 DEF FoldedSum, FoldedSquares, Pending, Total, Squares
    <3>2. T = Total - x /\ S = Squares - x * x
      BY <1>2, <2>1 DEF FoldedSum, FoldedSquares, Pending
    <3>3. Total \in Int /\ Squares \in Int BY SumsStep
    <3> QED BY <3>1, <3>2, <3>3
  <2> DEFINE q == Quo(x - a, n + 1)
  <2>5. avgRtt' = a + q /\ stddevm2' = m + (x - a) * (x - (a + q))
    BY <1>2, <1>4, <2>2 DEF UpdateWelford, Correction, Spread
  <2>6. q \in Int /\ (n + 1) * q - (x - a) <= n /\ (x - a) - (n + 1) * q <= n
    BY QuoBounds
  <2> HIDE DEF q
  <2>7. /\ lo <= x /\ x <= hi
        /\ n = 0 => a = 0 /\ m = 0
        /\ n > 0 => lo <= a /\ a <= hi
    BY <1>2, <2>1 DEF ValueInv
  <2>8. Accurate(n + 1, T + x, S + x * x, a + q, m + (x - a) * (x - (a + q)), lo, hi)
    BY <1>2, <2>6, <2>7, AccurateStep
  <2>9. T + x \in Int /\ S + x * x \in Int /\ minRtt' = lo /\ maxRtt' = hi
    BY <1>2, <2>1
  <2> QED BY <2>3, <2>4, <2>5, <2>8, <2>9, Zenon DEF AccuracyInv
<1> QED BY <1>1, <1>3, <1>4

\* The bounds on the errors hold throughout.
LEMMA AccuracyInvariant == Spec => []AccuracyInv
<1>1. Init => AccuracyInv
  <2> SUFFICES ASSUME Init PROVE AccuracyInv OBVIOUS
  <2>1. /\ PacketsRecv = 0 /\ samples = <<>> /\ avgRtt = 0 /\ stddevm2 = 0
        /\ minRtt = 0 /\ maxRtt = 0 /\ ~Pending
    BY DEF Init, Pending
  <2>2. Sum(<<>>) = 0
    <3>1. <<>> \in Seq(Int) OBVIOUS
    <3> QED BY <3>1, SumAppend
  <2>3. [i \in 1..Len(samples) |-> samples[i] * samples[i]] = <<>>
    BY <2>1
  <2>4. Total = 0 /\ Squares = 0 BY <2>1, <2>2, <2>3 DEF Total, Squares
  <2> QED BY <2>1, <2>4 DEF AccuracyInv, Accurate, Folded, FoldedSum, FoldedSquares
<1>2. StatInv /\ AccuracyInv /\ [Next]_vars => AccuracyInv' BY AccuracyStepInv
<1> QED BY <1>1, <1>2, StatisticsInvariant, PTL DEF Spec

\* AvgRtt, computed with truncating divisions, is off by at most half a
\* nanosecond per reply after the first, for any number of replies.
THEOREM AveragesAreAccurate == Spec => []AverageIsAccurate
<1>1. StatInv /\ AccuracyInv => AverageIsAccurate
  <2> SUFFICES ASSUME StatInv, AccuracyInv, Quiescent
               PROVE  2 * Abs(PacketsRecv * avgRtt - Total)
                        <= PacketsRecv * (PacketsRecv - 1)
    BY DEF AverageIsAccurate
  <2>1. PICK n \in Nat, T \in Int, a \in Int : PacketsRecv = n /\ Total = T /\ avgRtt = a
    BY SumsStep DEF StatInv, TypeOK
  <2>2. -(n * (n - 1)) <= 2 * (n * a - T) /\ 2 * (n * a - T) <= n * (n - 1)
    BY <2>1 DEF AccuracyInv, Accurate, Folded, FoldedSum, Pending, Quiescent
  <2>3. 2 * Abs(n * a - T) <= n * (n - 1) BY <2>2 DEF Abs
  <2> QED BY <2>1, <2>3
<1> QED BY <1>1, StatisticsInvariant, AccuracyInvariant, PTL

\* The square root of updateStatistics is always of a number that is not
\* negative and not far from the sum of squared deviations of the samples.
THEOREM DeviationsAreSane == Spec => []DeviationIsSane
<1>1. StatInv /\ AccuracyInv => DeviationIsSane
  <2> SUFFICES ASSUME StatInv, AccuracyInv, Quiescent
               PROVE  /\ stddevm2 >= 0
                      /\ PacketsRecv > 0 =>
                           Abs(PacketsRecv * stddevm2
                                 - (PacketsRecv * Squares - Total * Total))
                             <= PacketsRecv * PacketsRecv * PacketsRecv
                                  * (maxRtt - minRtt)
    BY DEF DeviationIsSane
  <2>1. PICK n \in Nat, T \in Int, S \in Int, m \in Int, lo \in Int, hi \in Int :
          /\ PacketsRecv = n /\ Total = T /\ Squares = S /\ stddevm2 = m
          /\ minRtt = lo /\ maxRtt = hi
    BY SumsStep, Zenon DEF StatInv, TypeOK
  <2>2. /\ -(n * n * n * (hi - lo)) <= n * m - (n * S - T * T)
        /\ n * m - (n * S - T * T) <= n * n * n * (hi - lo)
    BY <2>1 DEF AccuracyInv, Accurate, Folded, FoldedSum, FoldedSquares, Pending,
                Quiescent
  <2>3. Abs(n * m - (n * S - T * T)) <= n * n * n * (hi - lo) BY <2>2 DEF Abs
  <2>4. stddevm2 >= 0 BY <2>1 DEF StatInv, ValueInv
  <2> QED BY <2>1, <2>3, <2>4
<1> QED BY <1>1, StatisticsInvariant, AccuracyInvariant, PTL

-----------------------------------------------------------------------------
(***************************************************************************)
(* The extremes.                                                           *)
(***************************************************************************)
\* The samples that minRtt and maxRtt take into account.
Seen == IF pc["loop"] = "extremes" THEN PacketsRecv - 1 ELSE PacketsRecv

Extremes(n) ==
  /\ n = 0 => minRtt = 0 /\ maxRtt = 0
  /\ \A i \in 1..n : minRtt <= samples[i] /\ samples[i] <= maxRtt
  /\ n > 0 => \E i \in 1..n : samples[i] = minRtt
  /\ maxRtt >= 0
  /\ maxRtt = 0 \/ \E i \in 1..n : samples[i] = maxRtt

ExtremesInv ==
  /\ pc["loop"] = "extremes" => samples[PacketsRecv] = pkt.rtt
  /\ Extremes(Seen)

\* A new sample takes its place among the extremes.
LEMMA ExtremesStepInv ==
  ASSUME StatInv, ExtremesInv, [Next]_vars PROVE ExtremesInv'
<1> TypeOK /\ MutexInv /\ CountInv BY DEF StatInv
<1> USE DEF countVars, listVars, rttVars, muVars, Goto
<1>0. pc \in [Readers \cup {"loop"} -> {"idle", "sent", "duplicate", "record",
               "extremes", "welford", "readSent", "readCounts", "readRtts"}]
      /\ "loop" \notin Readers
  BY StatisticsAssumption DEF TypeOK
<1>1. ASSUME UNCHANGED <<PacketsRecv, samples, minRtt, maxRtt>>,
             pc["loop"] # "extremes", pc'["loop"] # "extremes"
      PROVE  ExtremesInv'
  BY <1>1 DEF ExtremesInv, Extremes, Seen
<1>2. CASE LockSent BY <1>0, <1>1, <1>2 DEF LockSent, Lock
<1>3. CASE LockDuplicate BY <1>0, <1>1, <1>3 DEF LockDuplicate, Lock
<1>4. CASE LockUpdate BY <1>0, <1>1, <1>4 DEF LockUpdate, Lock
<1>5. CASE CountSent BY <1>0, <1>1, <1>5 DEF CountSent
<1>6. CASE CountDuplicate BY <1>0, <1>1, <1>6 DEF CountDuplicate
<1>7. CASE UpdateWelford BY <1>0, <1>1, <1>7 DEF UpdateWelford
<1>8. ASSUME UNCHANGED <<PacketsRecv, samples, minRtt, maxRtt, pkt>>,
             pc'["loop"] = pc["loop"]
      PROVE  ExtremesInv'
  BY <1>8 DEF ExtremesInv, Extremes, Seen
<1>9. ASSUME NEW r \in Readers, ReaderStep(r) PROVE ExtremesInv'
  BY <1>0, <1>8, <1>9
     DEF ReaderStep, RLock, ReadSent, ReadCounts, ReadRtts, ReaderFrame
<1>10. CASE UNCHANGED vars BY <1>8, <1>10 DEF vars
<1>11. CASE Record
  <2>1. /\ pc["loop"] = "record" /\ pc'["loop"] = "extremes"
        /\ UNCHANGED <<minRtt, maxRtt, pkt>>
        /\ samples' = Append(samples, pkt.rtt) /\ PacketsRecv' = PacketsRecv + 1
    BY <1>0, <1>11 DEF Record
  <2>2. samples \in Seq(Int) /\ Len(samples) = PacketsRecv /\ PacketsRecv \in Nat
        /\ pkt.rtt \in Int
    BY DEF TypeOK, CountInv
  <2>3. /\ samples'[PacketsRecv'] = pkt.rtt
        /\ \A i \in 1..PacketsRecv : samples'[i] = samples[i]
    BY <2>1, <2>2
  <2>4. Seen' = PacketsRecv /\ Seen = PacketsRecv BY <2>1, <2>2 DEF Seen
  <2> QED BY <2>1, <2>2, <2>3, <2>4 DEF ExtremesInv, Extremes
<1>12. CASE UpdateExtremes
  <2>1. /\ pc["loop"] = "extremes" /\ pc'["loop"] = "welford"
        /\ UNCHANGED <<samples, PacketsRecv, pkt>>
    BY <1>0, <1>12 DEF UpdateExtremes
  <2>2. PICK k \in Nat, x \in Int, lo \in Int, hi \in Int :
          PacketsRecv = k + 1 /\ pkt.rtt = x /\ minRtt = lo /\ maxRtt = hi
    <3>1. PacketsRecv - 1 \in Nat /\ PacketsRecv = (PacketsRecv - 1) + 1
      BY <2>1 DEF TypeOK, CountInv, Pending
    <3> QED BY <3>1 DEF TypeOK
  <2>3. PICK lo2 \in Int, hi2 \in Int :
          /\ minRtt' = lo2 /\ maxRtt' = hi2
          /\ lo2 = (IF k = 0 \/ x < lo THEN x ELSE lo)
          /\ hi2 = (IF x > hi THEN x ELSE hi)
    <3>1. /\ minRtt' = IF PacketsRecv = 1 \/ x < lo THEN x ELSE lo
          /\ maxRtt' = IF x > hi THEN x ELSE hi
      BY <1>12, <2>2 DEF UpdateExtremes, NewMin
    <3> QED BY <2>2, <3>1
  <2>4. Seen = k /\ Seen' = k + 1 BY <2>1, <2>2 DEF Seen
  <2>5. /\ samples[k + 1] = x /\ \A i \in 1..(k + 1) : samples[i] \in Int
        /\ k = 0 => lo = 0 /\ hi = 0
        /\ \A i \in 1..k : lo <= samples[i] /\ samples[i] <= hi
        /\ k > 0 => \E i \in 1..k : samples[i] = lo
        /\ hi >= 0
        /\ hi = 0 \/ \E i \in 1..k : samples[i] = hi
    <3>1. Len(samples) = k + 1 /\ samples \in Seq(Int)
      BY <2>2 DEF CountInv, TypeOK
    <3> QED BY <2>1, <2>2, <2>4, <3>1 DEF ExtremesInv, Extremes
  <2>6. /\ \A i \in 1..(k + 1) : lo2 <= samples[i] /\ samples[i] <= hi2
        /\ \E i \in 1..(k + 1) : samples[i] = lo2
        /\ hi2 >= 0
        /\ hi2 = 0 \/ \E i \in 1..(k + 1) : samples[i] = hi2
    <3>1. \A i \in 1..(k + 1) : i \in 1..k \/ i = k + 1 OBVIOUS
    <3>2. k + 1 \in 1..(k + 1) /\ \A i \in 1..k : i \in 1..(k + 1) OBVIOUS
    <3>3. \A i \in 1..(k + 1) : lo2 <= samples[i] /\ samples[i] <= hi2
      <4> SUFFICES ASSUME NEW i \in 1..(k + 1)
                   PROVE  lo2 <= samples[i] /\ samples[i] <= hi2
        OBVIOUS
      <4>1. PICK y \in Int : y = samples[i] BY <2>5
      <4>2. i \in 1..k => lo <= y /\ y <= hi BY <2>5, <4>1
      <4>3. i = k + 1 => y = x BY <2>5, <4>1
      <4>4. lo2 <= y /\ y <= hi2 BY <2>3, <3>1, <4>2, <4>3
      <4> QED BY <4>1, <4>4
    <3>4. \E i \in 1..(k + 1) : samples[i] = lo2
      BY <2>3, <2>5, <3>2
    <3>5. hi2 >= 0 BY <2>3, <2>5
    <3>6. hi2 = 0 \/ \E i \in 1..(k + 1) : samples[i] = hi2
      BY <2>3, <2>5, <3>2
    <3> QED BY <3>3, <3>4, <3>5, <3>6
  <2> QED BY <2>1, <2>3, <2>4, <2>6 DEF ExtremesInv, Extremes
<1> QED BY <1>2, <1>3, <1>4, <1>5, <1>6, <1>7, <1>9, <1>10, <1>11, <1>12
        DEF Next, ReaderStep

\* MinRtt is the least of all samples so far, negative ones included, and
\* MaxRtt the greatest of them once one of them is not negative.
THEOREM ExtremesExact == Spec => []ExtremesAreExact
<1>1. Init => ExtremesInv
  <2> SUFFICES ASSUME Init PROVE ExtremesInv OBVIOUS
  <2>1. /\ PacketsRecv = 0 /\ minRtt = 0 /\ maxRtt = 0 /\ pc["loop"] = "idle"
    BY DEF Init
  <2> QED BY <2>1 DEF ExtremesInv, Extremes, Seen
<1>2. StatInv /\ ExtremesInv /\ [Next]_vars => ExtremesInv' BY ExtremesStepInv
<1>3. StatInv /\ ExtremesInv => ExtremesAreExact
  <2> SUFFICES ASSUME StatInv, ExtremesInv, Quiescent, PacketsRecv > 0
               PROVE  /\ minRtt = Min(ToSet(samples))
                      /\ (\E s \in ToSet(samples) : s >= 0)
                           => maxRtt = Max(ToSet(samples))
    BY DEF ExtremesAreExact
  <2>1. PICK lo \in Int, hi \in Int : minRtt = lo /\ maxRtt = hi BY DEF StatInv, TypeOK
  <2>2. Extremes(PacketsRecv) BY DEF ExtremesInv, Seen, Quiescent
  <2>3. DOMAIN samples = 1..PacketsRecv /\ ToSet(samples) \in SUBSET Int
    BY DEF StatInv, TypeOK, CountInv, ToSet
  <2> DEFINE V == ToSet(samples)
  <2>4. V = {samples[i] : i \in 1..PacketsRecv} BY <2>3 DEF ToSet
  <2>5. lo \in V /\ \A y \in V : lo <= y /\ y <= hi
    BY <2>1, <2>2, <2>4 DEF Extremes
  <2>6. hi >= 0 /\ (hi = 0 \/ hi \in V) BY <2>1, <2>2, <2>4 DEF Extremes
  <2>7. V \in SUBSET Int BY <2>3
  <2> HIDE DEF V
  <2>8. lo = Min(V)
    <3>1. \A z \in V : (\A y \in V : z <= y) => z = lo BY <2>5, <2>7
    <3> QED BY <2>5, <3>1 DEF Min
  <2>9. ASSUME NEW x \in V, x >= 0 PROVE hi = Max(V)
    <3>1. hi \in V
      <4>1. CASE hi = 0
        <5>1. x <= hi /\ x \in Int BY <2>5, <2>7
        <5> QED BY <2>9, <4>1, <5>1
      <4> QED BY <2>6, <4>1
    <3>2. \A z \in V : (\A y \in V : z >= y) => z = hi BY <2>5, <2>7, <3>1
    <3>3. \A y \in V : hi >= y BY <2>5, <2>7
    <3> QED BY <3>1, <3>2, <3>3 DEF Max
  <2> QED BY <2>1, <2>8, <2>9 DEF V
<1> QED BY <1>1, <1>2, <1>3, StatisticsInvariant, PTL DEF Spec
=============================================================================

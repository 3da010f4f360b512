-------------------------- MODULE EchoCodecProofs ---------------------------
(***************************************************************************)
(* Proofs about EchoCodec, for every width of a byte, of a time and of an  *)
(* identifier: a time survives its way through the payload, and a reply    *)
(* its way through the filter, the buffer and processPacket.               *)
(***************************************************************************)
EXTENDS EchoCodec, DataInduction

-----------------------------------------------------------------------------
(***************************************************************************)
(* Remainders.                                                             *)
(***************************************************************************)
\* Quotient and remainder put together again.
LEMMA DivMod ==
  ASSUME NEW n \in Int, NEW m \in Nat \ {0}
  PROVE  /\ n \div m \in Int /\ n % m \in Int /\ 0 <= n % m /\ n % m < m
         /\ n = m * (n \div m) + (n % m)
OBVIOUS

\* There is only one remainder.
LEMMA ModUnique ==
  ASSUME NEW n \in Int, NEW m \in Nat \ {0}, NEW a \in Int, NEW r \in Int,
         n = m * a + r, 0 <= r, r < m
  PROVE  n % m = r
<1>1. PICK q \in Int, s \in Int : n % m = s /\ n = m * q + s /\ 0 <= s /\ s < m
  BY DivMod
<1>2. m * (q - a) = r - s
  <2>1. m * (q - a) = m * q - m * a BY <1>1
  <2> QED BY <1>1, <2>1
<1>3. q - a = 0
  <2>1. ASSUME q - a >= 1 PROVE FALSE
    <3>1. m * (q - a) >= m BY <1>1, <2>1
    <3> QED BY <1>1, <1>2, <3>1
  <2>2. ASSUME q - a <= -1 PROVE FALSE
    <3>1. m * (q - a) <= -m BY <1>1, <2>2
    <3> QED BY <1>1, <1>2, <3>1
  <2> QED BY <1>1, <2>1, <2>2
<1> QED BY <1>1, <1>2, <1>3

\* A multiple of the modulus does not count.
LEMMA ModShift ==
  ASSUME NEW n \in Int, NEW k \in Int, NEW m \in Nat \ {0}
  PROVE  (n + m * k) % m = n % m
<1>1. PICK q \in Int, s \in Int : n % m = s /\ n = m * q + s /\ 0 <= s /\ s < m
  BY DivMod
<1>2. n + m * k = m * (q + k) + s
  <2>1. m * (q + k) = m * q + m * k BY <1>1
  <2> QED BY <1>1, <2>1
<1>3. n + m * k \in Int /\ q + k \in Int BY <1>1
<1> QED BY <1>1, <1>2, <1>3, ModUnique

\* One digit of n in base b, at its weight w.
LEMMA Digit ==
  ASSUME NEW n \in Int, NEW b \in Nat \ {0}, NEW w \in Nat \ {0}
  PROVE  ((n \div w) % b) * w = (n % (b * w)) - (n % w)
<1>1. PICK q \in Int, s \in Int :
        n \div w = q /\ n % w = s /\ n = w * q + s /\ 0 <= s /\ s < w
  BY DivMod
<1>2. PICK e \in Int, d \in Int : q % b = d /\ q = b * e + d /\ 0 <= d /\ d < b
  BY <1>1, DivMod
<1>3. n = (b * w) * e + (d * w + s)
  <2>1. w * q = (b * w) * e + d * w BY <1>1, <1>2
  <2> QED BY <1>1, <1>2, <2>1
<1>4. 0 <= d * w + s /\ d * w + s < b * w
  <2>1. 0 <= d * w BY <1>2
  <2>2. (d + 1) * w <= b * w BY <1>2
  <2>3. (d + 1) * w = d * w + w BY <1>2
  <2> QED BY <1>1, <1>2, <2>1, <2>2, <2>3
<1>5. b * w \in Nat \ {0} /\ d * w + s \in Int BY <1>1, <1>2
<1>6. n % (b * w) = d * w + s
  BY <1>2, <1>3, <1>4, <1>5, ModUnique
<1>7. (d * w + s) - s = d * w BY <1>1, <1>2
<1> QED BY <1>1, <1>2, <1>6, <1>7, Zenon

-----------------------------------------------------------------------------
(***************************************************************************)
(* The send time.                                                          *)
(***************************************************************************)
\* The powers of ByteBase exist, and are positive.
LEMMA Powers ==
  /\ Pow[0] = 1
  /\ \A i \in 1..TimeBytes : Pow[i] = ByteBase * Pow[i - 1]
  /\ \A i \in 0..TimeBytes : Pow[i] \in Nat \ {0}
<1> DEFINE V == Nat \ {0}
           n == TimeBytes
           h == [i \in 1..n |-> [x \in V |-> ByteBase * x]]
<1>1. n \in Nat /\ ByteBase \in V BY CodecAssumption DEF CodecAssumption
<1>2. \A x \in V : ByteBase * x \in V BY <1>1
<1>3. h \in [1..n -> [V -> V]] BY <1>2
<1>4. PICK f : Iterates(f, V, 1, h, n)
  <2>1. 1 \in V OBVIOUS
  <2> HIDE DEF V, n, h
  <2> QED BY <1>1, <1>3, <2>1, BoundedRecursion, Zenon
<1>5. f \in [0..n -> V] /\ f[0] = 1 BY <1>4 DEF Iterates
<1>6. ASSUME NEW i \in 1..n PROVE f[i] = ByteBase * f[i - 1]
  <2>1. i - 1 \in 0..n BY <1>1
  <2>2. f[i - 1] \in V BY <1>5, <2>1, Zenon
  <2>3. h[i] = [x \in V |-> ByteBase * x] BY Zenon
  <2>4. f[i] = h[i][f[i - 1]] BY <1>4, Zenon DEF Iterates
  <2> HIDE DEF V, h
  <2> QED BY <2>2, <2>3, <2>4, Zenon
<1>7. f = [i \in 0..n |-> IF i = 0 THEN 1 ELSE ByteBase * f[i - 1]]
  <2>1. \A i \in 0..n : f[i] = IF i = 0 THEN 1 ELSE ByteBase * f[i - 1]
    BY <1>1, <1>5, <1>6
  <2>2. f = [i \in 0..n |-> f[i]] BY <1>5
  <2> QED BY <2>1, <2>2, Zenon
<1>8. Pow = [i \in 0..n |-> IF i = 0 THEN 1 ELSE ByteBase * Pow[i - 1]]
  BY <1>7, Zenon DEF Pow
<1> HIDE DEF V
<1>9. /\ Pow[0] = 1
      /\ \A i \in 1..n : Pow[i] = ByteBase * Pow[i - 1]
  <2>1. 0 \in 0..n /\ \A i \in 1..n : i \in 0..n /\ i # 0 BY <1>1
  <2> QED BY <1>8, <2>1, Zenon
<1>10. \A i \in 0..n : Pow[i] \in V
  <2> DEFINE P == {i \in Nat : i <= n => Pow[i] \in V}
  <2>1. P \in SUBSET Nat OBVIOUS
  <2>2. 0 \in P BY <1>9 DEF V
  <2>3. ASSUME NEW i \in P PROVE i + 1 \in P
    <3> SUFFICES ASSUME i + 1 <= n PROVE Pow[i + 1] \in V OBVIOUS
    <3>1. Pow[i + 1] = ByteBase * Pow[i] BY <1>1, <1>9
    <3>2. Pow[i] \in V BY <1>1
    <3> QED BY <1>2, <3>1, <3>2
  <2>4. P = Nat
    <3> HIDE DEF P
    <3> QED BY <2>1, <2>2, <2>3, SetInduction
  <2> QED BY <2>4
<1> QED BY <1>9, <1>10 DEF V

\* The modulus is positive.
LEMMA ModulusPositive == Modulus \in Nat \ {0}
<1>1. TimeBytes \in Nat /\ TimeBytes \in 0..TimeBytes
  BY CodecAssumption DEF CodecAssumption
<1> QED BY <1>1, Powers DEF Modulus

\* Int64 is the identity on the values of an int64.
LEMMA Int64Id ==
  ASSUME NEW x \in -(Modulus \div 2)..(Modulus - 1) \div 2
  PROVE  Int64(x) = x
<1>1. PICK M \in Nat \ {0} : M = Modulus BY ModulusPositive
<1>2. x \in Int /\ M \div 2 \in Int BY <1>1
<1>3. 0 <= x + M \div 2 /\ x + M \div 2 < M BY <1>1
<1>4. (x + M \div 2) % M = x + M \div 2
  <2>1. x + M \div 2 = M * 0 + (x + M \div 2) BY <1>2
  <2> QED BY <1>2, <1>3, <2>1, ModUnique
<1> QED BY <1>1, <1>2, <1>4 DEF Int64

\* Sums that wrap at every addition wrap once.
LEMMA Int64Add ==
  ASSUME NEW a \in Int, NEW b \in Int
  PROVE  /\ Int64(a) \in Int
         /\ Int64(Int64(a) + b) = Int64(a + b)
         /\ Int64(a % Modulus) = Int64(a)
<1>1. PICK M \in Nat \ {0} : M = Modulus BY ModulusPositive
<1>2. PICK H \in Int : H = M \div 2 BY <1>1
<1>3. \A x : Int64(x) = ((x + H) % M) - H BY <1>1, <1>2 DEF Int64
<1>4. PICK q \in Int, s \in Int : (a + H) % M = s /\ a + H = M * q + s
  <2>1. a + H \in Int OBVIOUS
  <2> QED BY <2>1, DivMod
<1>5. Int64(a) = s - H /\ Int64(a) \in Int BY <1>3, <1>4
<1>6. (s - H) + b + H = (a + b + H) + M * (-q)
  <2>1. M * (-q) = -(M * q) BY <1>4
  <2> QED BY <1>4, <2>1
<1>7. ((s - H) + b + H) % M = (a + b + H) % M
  <2>1. a + b + H \in Int /\ -q \in Int OBVIOUS
  <2>2. (a + b + H + M * (-q)) % M = (a + b + H) % M BY <2>1, ModShift
  <2> QED BY <1>6, <2>2, Zenon
<1>8. Int64(Int64(a) + b) = Int64(a + b)
  BY <1>3, <1>5, <1>7, Zenon
<1>9. Int64(a % M) = Int64(a)
  <2>1. PICK p \in Int, r \in Int : a % M = r /\ a = M * p + r BY DivMod
  <2>2. r + H = (a + H) + M * (-p)
    <3>1. M * (-p) = -(M * p) BY <2>1
    <3> QED BY <2>1, <3>1
  <2>3. (r + H) % M = (a + H) % M
    <3>1. a + H \in Int /\ -p \in Int OBVIOUS
    <3>2. (a + H + M * (-p)) % M = (a + H) % M BY <3>1, ModShift
    <3> QED BY <2>2, <3>2, Zenon
  <2> QED BY <1>3, <2>1, <2>3, Zenon
<1> QED BY <1>1, <1>5, <1>8, <1>9

\* Every send time of an int64 comes back from the bytes it travels as.
THEOREM TimeRoundTrip ==
  ASSUME NEW nsec \in -(Modulus \div 2)..(Modulus - 1) \div 2
  PROVE  bytesToTime(timeToBytes(nsec)) = nsec
<1> DEFINE T == TimeBytes
           b == timeToBytes(nsec)
           F == CHOOSE f : f = [i \in 0..T |->
                  IF i = 0 THEN 0 ELSE Int64(f[i - 1] + b[i - 1] * Weight(i - 1))]
           h == [i \in 1..T |-> [x \in Int |-> Int64(x + b[i - 1] * Weight(i - 1))]]
<1>1. T \in Nat /\ ByteBase \in Nat \ {0} /\ nsec \in Int
  BY CodecAssumption, ModulusPositive DEF CodecAssumption
<1>2. ASSUME NEW i \in 1..T
      PROVE  /\ Pow[T - i] \in Nat \ {0} /\ Pow[T - (i - 1)] = ByteBase * Pow[T - i]
             /\ b[i - 1] \in Int /\ Weight(i - 1) \in Int
             /\ b[i - 1] * Weight(i - 1)
                  = (nsec % Pow[T - (i - 1)]) - (nsec % Pow[T - i])
  <2>1. T - i \in 0..T /\ T - (i - 1) \in 1..T /\ (T - (i - 1)) - 1 = T - i
        /\ T - 1 - (i - 1) = T - i /\ i - 1 \in 0..(T - 1)
    BY <1>1
  <2>2. PICK w \in Nat \ {0} : Pow[T - i] = w BY <2>1, Powers
  <2>3. Pow[T - (i - 1)] = ByteBase * w BY <2>1, <2>2, Powers
  <2>4. Weight(i - 1) = w BY <2>1, <2>2 DEF Weight
  <2>5. b[i - 1] = (nsec \div w) % ByteBase
    BY <2>1, <2>4 DEF timeToBytes
  <2>6. (nsec \div w) % ByteBase \in Int BY <1>1, DivMod
  <2>7. ((nsec \div w) % ByteBase) * w = (nsec % (ByteBase * w)) - (nsec % w)
    BY <1>1, Digit
  <2>8. w \in Int OBVIOUS
  <2> HIDE DEF b
  <2> QED BY <2>2, <2>3, <2>4, <2>5, <2>6, <2>7, <2>8, Zenon
<1>3. h \in [1..T -> [Int -> Int]]
  <2>1. ASSUME NEW i \in 1..T, NEW x \in Int
        PROVE  Int64(x + b[i - 1] * Weight(i - 1)) \in Int
    <3>1. x + b[i - 1] * Weight(i - 1) \in Int BY <1>2
    <3> QED BY <3>1, Int64Add
  <2> QED BY <2>1
<1>4. PICK f : Iterates(f, Int, 0, h, T)
  <2>1. 0 \in Int OBVIOUS
  <2> HIDE DEF T, h
  <2> QED BY <1>1, <1>3, <2>1, BoundedRecursion, Zenon
<1>5. f \in [0..T -> Int] /\ f[0] = 0 BY <1>4 DEF Iterates
<1>6. ASSUME NEW i \in 1..T
      PROVE  f[i] = Int64(f[i - 1] + b[i - 1] * Weight(i - 1)) /\ f[i - 1] \in Int
  <2>1. i - 1 \in 0..T BY <1>1
  <2>2. f[i - 1] \in Int BY <1>5, <2>1, Zenon
  <2>3. h[i] = [x \in Int |-> Int64(x + b[i - 1] * Weight(i - 1))] BY Zenon
  <2>4. f[i] = h[i][f[i - 1]] BY <1>4, Zenon DEF Iterates
  <2> HIDE DEF h, b
  <2> QED BY <2>2, <2>3, <2>4, Zenon
<1> HIDE DEF b
<1>7. f = [i \in 0..T |->
            IF i = 0 THEN 0 ELSE Int64(f[i - 1] + b[i - 1] * Weight(i - 1))]
  <2>1. \A i \in 0..T :
          f[i] = IF i = 0 THEN 0 ELSE Int64(f[i - 1] + b[i - 1] * Weight(i - 1))
    BY <1>1, <1>5, <1>6
  <2>2. f = [i \in 0..T |-> f[i]] BY <1>5
  <2> QED BY <2>1, <2>2, Zenon
<1>8. F = [i \in 0..T |->
            IF i = 0 THEN 0 ELSE Int64(F[i - 1] + b[i - 1] * Weight(i - 1))]
  BY <1>7, Zenon
<1>9. bytesToTime(b) = F[T] BY Zenon DEF bytesToTime
<1> HIDE DEF F
<1>10. /\ F[0] = 0
       /\ \A i \in 1..T : F[i] = Int64(F[i - 1] + b[i - 1] * Weight(i - 1))
  <2>1. 0 \in 0..T /\ \A i \in 1..T : i \in 0..T /\ i # 0 BY <1>1
  <2> QED BY <1>8, <2>1, Zenon
<1> DEFINE P == {i \in Nat : i <= T =>
                   F[i] = Int64((nsec % Modulus) - (nsec % Pow[T - i]))}
<1>11. P \in SUBSET Nat OBVIOUS
<1>12. 0 \in P
  <2>1. PICK M \in Nat \ {0} : M = Modulus BY ModulusPositive
  <2>2. (nsec % M) - (nsec % M) = 0 BY <1>1, <2>1
  <2>3. 0 \in -(Modulus \div 2)..(Modulus - 1) \div 2 BY <2>1
  <2>4. Int64(0) = 0 BY <2>3, Int64Id
  <2>5. T - 0 = T BY <1>1
  <2> QED BY <1>10, <2>1, <2>2, <2>4, <2>5 DEF Modulus
<1>13. ASSUME NEW k \in P PROVE k + 1 \in P
  <2> SUFFICES ASSUME k + 1 <= T
               PROVE  F[k + 1] = Int64((nsec % Modulus) - (nsec % Pow[T - (k + 1)]))
    OBVIOUS
  <2>1. k + 1 \in 1..T /\ (k + 1) - 1 = k /\ k <= T BY <1>1
  <2>2. PICK c \in Int : c = (nsec % Modulus) - (nsec % Pow[T - k])
                         /\ F[k] = Int64(c)
    <3>1. PICK M \in Nat \ {0} : M = Modulus BY ModulusPositive
    <3>2. PICK w \in Nat \ {0} : w = Pow[T - k] BY <1>1, <2>1, Powers
    <3>3. (nsec % M) - (nsec % w) \in Int BY <1>1, <3>1, <3>2
    <3> QED BY <2>1, <3>1, <3>2, <3>3
  <2>3. PICK d \in Int : b[k] * Weight(k) = d
                         /\ d = (nsec % Pow[T - k]) - (nsec % Pow[T - (k + 1)])
    BY <1>2, <2>1
  <2>4. F[k + 1] = Int64(Int64(c) + d) BY <1>10, <2>1, <2>2, <2>3
  <2>5. c + d = (nsec % Modulus) - (nsec % Pow[T - (k + 1)])
    <3>1. PICK M \in Nat \ {0} : M = Modulus BY ModulusPositive
    <3>2. PICK w \in Nat \ {0} : w = Pow[T - k] BY <1>1, <2>1, Powers
    <3>3. PICK v \in Nat \ {0} : v = Pow[T - (k + 1)] BY <1>1, <2>1, Powers
    <3>4. nsec % M \in Int /\ nsec % w \in Int /\ nsec % v \in Int BY <1>1, DivMod
    <3> QED BY <2>2, <2>3, <3>1, <3>2, <3>3, <3>4
  <2> QED BY <2>4, <2>5, Int64Add
<1>14. P = Nat
  <2> HIDE DEF P
  <2> QED BY <1>11, <1>12, <1>13, SetInduction
<1>15. F[T] = Int64((nsec % Modulus) - (nsec % 1))
  <2>1. T \in P /\ T <= T /\ T - T = 0 BY <1>1, <1>14
  <2> QED BY <2>1, Powers
<1>16. F[T] = Int64(nsec % Modulus)
  <2>1. PICK M \in Nat \ {0} : M = Modulus BY ModulusPositive
  <2>2. nsec % M \in Int /\ nsec % 1 = 0 BY <1>1, DivMod
  <2>3. (nsec % M) - (nsec % 1) = nsec % M BY <2>2
  <2> QED BY <1>15, <2>1, <2>3
<1> QED BY <1>1, <1>9, <1>16, Int64Add, Int64Id DEF b

-----------------------------------------------------------------------------
(***************************************************************************)
(* The reply.                                                              *)
(***************************************************************************)
\* Identifiers of 16 bits, and only those, survive the header.
LEMMA Identifiers ==
  ASSUME NEW id \in Int
  PROVE  /\ id % IDs = id <=> id \in 0..IDs - 1
         /\ id \in 0..IDs - 1 => id % Words = id
<1>1. PICK m \in Nat \ {0} : m = IDs BY CodecAssumption DEF CodecAssumption
<1>2. PICK w \in Nat \ {0} : w = Words /\ w >= m BY <1>1, CodecAssumption DEF CodecAssumption
<1>3. id % m = id => id \in 0..m - 1 BY DivMod
<1>4. \A n \in Nat \ {0} : id \in 0..n - 1 => id % n = id
  <2>1. ASSUME NEW n \in Nat \ {0}, id \in 0..n - 1 PROVE id % n = id
    <3>1. id = n * 0 + id /\ 0 <= id /\ id < n BY <2>1
    <3> QED BY <3>1, ModUnique
  <2> QED BY <2>1
<1>5. id \in 0..m - 1 => id \in 0..w - 1 BY <1>2
<1> QED BY <1>1, <1>2, <1>3, <1>4, <1>5

\* What becomes of a request of this Pinger on its way back to processPacket:
\* nothing is cut off, and the header is gone.
LEMMA ReplyArrives ==
  ASSUME NEW platform \in Platforms, NEW protocol \in {"udp", "icmp"},
         NEW family \in {"ip4", "ip6"}, NEW id \in Int, NEW nsec,
         NEW size \in Int, size >= PayloadHeader
  PROVE  LET reply == Reply(Request(family, id, size, nsec), platform, protocol)
             raw == ReadFrom(reply, platform, protocol, size)
             packet == IF family = "ip4" THEN stripIPv4Header(raw) ELSE raw
         IN  /\ reply.type = "echoReply" /\ reply.family = family
             /\ reply.id = IF platform = "linux" /\ protocol = "udp" THEN 0 ELSE id % IDs
             /\ reply.time = timeToBytes(nsec)
             /\ packet.frame = reply /\ packet.header = 0
             /\ packet.nbytes = size + ICMPHeader
             /\ packet.buffer \in Int /\ packet.buffer >= size + ICMPHeader
<1> DEFINE reply == Reply(Request(family, id, size, nsec), platform, protocol)
           raw == ReadFrom(reply, platform, protocol, size)
           packet == IF family = "ip4" THEN stripIPv4Header(raw) ELSE raw
           header == HeaderBytes(platform, protocol, family)
           length == MessageLength(platform, family, size)
<1>1. /\ reply.type = "echoReply" /\ reply.family = family
      /\ reply.id = IF platform = "linux" /\ protocol = "udp" THEN 0 ELSE id % IDs
      /\ reply.time = timeToBytes(nsec)
  BY DEF Reply, Request
<1>2. reply.bytes = size + ICMPHeader
  BY DEF Reply, Request, PayloadHeader, ICMPHeader
<1>3. header \in {0, IPv4Header} /\ Offset(platform, protocol, family) = header
      /\ (family # "ip4" => header = 0)
  BY DEF HeaderBytes, Offset, IPv4Header
<1>4. length \in Int /\ length >= size + ICMPHeader
  BY DEF MessageLength, MessageLengthLinux, MessageLengthWindows, MessageLengthOther,
         Platforms, ICMPHeader, IPv4Header, IPv6Header
<1> HIDE DEF reply, header, length
<1>5. raw = [frame |-> reply, header |-> header, buffer |-> length + header,
             nbytes |-> header + (size + ICMPHeader)]
  <2>1. ~(header + (size + ICMPHeader) > length + header)
    BY <1>3, <1>4 DEF ICMPHeader, IPv4Header
  <2> QED BY <1>1, <1>2, <1>3, <2>1 DEF ReadFrom, header, length
<1>6. /\ packet.frame = reply /\ packet.header = 0
      /\ packet.nbytes = size + ICMPHeader
      /\ packet.buffer \in Int /\ packet.buffer >= size + ICMPHeader
  <2> HIDE DEF raw
  <2>1. CASE header = 0
    <3>1. packet = raw BY <1>5, <2>1 DEF stripIPv4Header, IPv4Header
    <3> QED BY <1>4, <1>5, <2>1, <3>1 DEF ICMPHeader
  <2>2. CASE header = IPv4Header
    <3>1. family = "ip4" BY <1>3, <2>2 DEF IPv4Header
    <3>2. packet = [raw EXCEPT !.header = 0, !.nbytes = @ - raw.header]
      BY <1>4, <1>5, <2>2, <3>1 DEF stripIPv4Header, IPv4Header, ICMPHeader, PayloadHeader
    <3>3. packet = [frame |-> reply, header |-> 0, buffer |-> length + header,
                    nbytes |-> (header + (size + ICMPHeader)) - header]
      BY <1>5, <3>2
    <3> QED BY <1>4, <2>2, <3>3 DEF ICMPHeader, IPv4Header
  <2> QED BY <1>3, <2>1, <2>2
<1> QED BY <1>1, <1>6 DEF reply

\* The reply passes the filter, if there is one, and processPacket accepts it,
\* exactly if its identifier is not compared or has 16 bits.
THEOREM ReplyRecognised ==
  ASSUME NEW platform \in Platforms, NEW protocol \in {"udp", "icmp"},
         NEW family \in {"ip4", "ip6"}, NEW id \in Int, NEW nsec,
         NEW size \in Int, size >= PayloadHeader,
         NEW filter \in BOOLEAN, filter => protocol = "icmp"
  PROVE  LET reply == Reply(Request(family, id, size, nsec), platform, protocol)
             raw == ReadFrom(reply, platform, protocol, size)
             packet == IF family = "ip4" THEN stripIPv4Header(raw) ELSE raw
         IN  /\ Accepts(packet, platform, protocol, family, id)
                /\ (filter => FilterAccepts(reply, id))
                  <=> \/ id \in 0..IDs - 1
                      \/ platform = "linux" /\ protocol = "udp"
             /\ packet.nbytes = size + ICMPHeader
             /\ packet.frame.time = timeToBytes(nsec)
<1> DEFINE reply == Reply(Request(family, id, size, nsec), platform, protocol)
           raw == ReadFrom(reply, platform, protocol, size)
           packet == IF family = "ip4" THEN stripIPv4Header(raw) ELSE raw
<1>1. /\ reply.type = "echoReply" /\ reply.family = family
      /\ reply.id = IF platform = "linux" /\ protocol = "udp" THEN 0 ELSE id % IDs
      /\ reply.time = timeToBytes(nsec)
      /\ packet.frame = reply /\ packet.header = 0
      /\ packet.nbytes = size + ICMPHeader
      /\ packet.buffer \in Int /\ packet.buffer >= size + ICMPHeader
  BY ReplyArrives
<1> HIDE DEF reply, packet
<1>2. Accepts(packet, platform, protocol, family, id)
        <=> matchID(platform, protocol, reply.id, id)
  BY <1>1 DEF Accepts, ICMPHeader, PayloadHeader
<1>3. matchID(platform, protocol, reply.id, id)
        <=> id % IDs = id \/ (platform = "linux" /\ protocol = "udp")
  BY <1>1 DEF matchID, matchIDLinux, matchIDWindows, matchIDOther, Platforms
<1>4. FilterAccepts(reply, id) <=> reply.id = id % Words
  BY <1>1 DEF FilterAccepts, RawHeader, FilterOffset4, FilterOffset6
<1>5. id \in 0..IDs - 1 /\ filter => FilterAccepts(reply, id)
  BY <1>1, <1>4, Identifiers
<1>6. Accepts(packet, platform, protocol, family, id) /\ (filter => FilterAccepts(reply, id))
        <=> id \in 0..IDs - 1 \/ (platform = "linux" /\ protocol = "udp")
  BY <1>2, <1>3, <1>5, Identifiers
<1> QED BY <1>1, <1>6 DEF reply, packet
=============================================================================

----------------------------- MODULE EchoCodec ------------------------------
(***************************************************************************)
(* An echo request and its reply as bytes: what sendICMP writes, what the  *)
(* filter of the socket, the receive buffer and processPacket make of it.  *)
(* Only lengths, the header fields and the payload's first two fields (the *)
(* send time and the UUID) are kept.  The operators have one form for each *)
(* platform file of the repository (utils_linux.go, utils_windows.go,      *)
(* utils_other.go).                                                        *)
(***************************************************************************)
EXTENDS Integers

CONSTANTS
  ByteBase,  \* values of a byte (256 in the code)
  TimeBytes, \* bytes of a time (timeSliceLength, 8 in the code)
  IDs,       \* values of an ICMP identifier (2^16)
  Words      \* values of a word of the filter's machine (2^32)

ASSUME CodecAssumption ==
  /\ ByteBase \in Nat \ {0, 1} /\ TimeBytes \in Nat \ {0}
  /\ IDs \in Nat \ {0} /\ Words \in Nat /\ Words >= IDs

Platforms == {"linux", "windows", "darwin", "bsd"}

PayloadHeader == 24   \* timeSliceLength + trackerLength
ICMPHeader == 8
IPv4Header == 20      \* replies to our requests carry no IP options
IPv6Header == 40

-----------------------------------------------------------------------------
(***************************************************************************)
(* The send time travels as the bytes of an int64, highest first.          *)
(***************************************************************************)
Pow[n \in 0..TimeBytes] == IF n = 0 THEN 1 ELSE ByteBase * Pow[n - 1]
Weight(i) == Pow[TimeBytes - 1 - i]
Modulus == Pow[TimeBytes]
Int64(x) == ((x + Modulus \div 2) % Modulus) - Modulus \div 2

\* The shift of a negative int64 is arithmetic: it rounds down, as \div does.
timeToBytes(nsec) ==
  [i \in 0..TimeBytes - 1 |-> (nsec \div Weight(i)) % ByteBase]

\* The additions wrap; time.Unix puts the quotient and the remainder of the
\* number of nanoseconds together again.
bytesToTime(b) ==
  LET nsec[i \in 0..TimeBytes] ==
        IF i = 0 THEN 0 ELSE Int64(nsec[i - 1] + b[i - 1] * Weight(i - 1))
  IN  nsec[TimeBytes]

-----------------------------------------------------------------------------
\* The message sendICMP marshals: icmp.Echo has 16 bits for the identifier.
Request(family, id, size, nsec) ==
  [type |-> "echo", family |-> family, id |-> id % IDs, time |-> timeToBytes(nsec),
   bytes |-> ICMPHeader + PayloadHeader
             + (IF size > PayloadHeader THEN size - PayloadHeader ELSE 0)]

\* The reply that comes back to our socket.  A datagram socket of Linux puts
\* an identifier of the kernel's choice (here 0) into the request.
Reply(request, platform, protocol) ==
  [request EXCEPT !.type = "echoReply",
                  !.id = IF platform = "linux" /\ protocol = "udp" THEN 0 ELSE @]

\* A raw IPv4 socket shows its filter the IP header, a raw IPv6 socket does not.
RawHeader(frame) == IF frame.family = "ip4" THEN IPv4Header ELSE 0

\* The filters of utils_linux.go: where they look for the ICMP header (the one
\* for IPv4 takes the length from the IP header), and what they accept.
FilterOffset4_None(frame) == 0
FilterOffset4(frame) == RawHeader(frame)
FilterOffset6(frame) == 0

FilterAccepts(frame, id) ==
  /\ RawHeader(frame) = IF frame.family = "ip4" THEN FilterOffset4(frame)
                                                ELSE FilterOffset6(frame)
  /\ frame.type = "echoReply"
  /\ frame.id = id % Words

\* getMessageLength
MessageLengthLinux(size) == size + ICMPHeader
MessageLengthOther(size) == size + ICMPHeader
MessageLengthWindows(family, size) ==
  LET header == IF family = "ip4" THEN IPv4Header ELSE IPv6Header
      needed == size + 2 * (header + ICMPHeader)
  IN  IF needed > 2048 THEN needed ELSE 2048

MessageLength(platform, family, size) ==
  CASE platform = "linux" -> MessageLengthLinux(size)
    [] platform = "windows" -> MessageLengthWindows(family, size)
    [] OTHER -> MessageLengthOther(size)

\* Only an unprivileged IPv4 socket of darwin delivers the IP header, too.
HeaderBytes(platform, protocol, family) ==
  IF platform = "darwin" /\ protocol = "udp" /\ family = "ip4"
  THEN IPv4Header ELSE 0

Offset_None(platform, protocol, family) == 0
Offset(platform, protocol, family) ==
  IF platform = "darwin" /\ protocol = "udp" /\ family = "ip4" THEN 20 ELSE 0

\* What ReadFrom returns for a frame: as much of it as the buffer holds.
ReadFrom(frame, platform, protocol, size) ==
  LET header == HeaderBytes(platform, protocol, frame.family)
      buffer == MessageLength(platform, frame.family, size)
                + Offset(platform, protocol, frame.family)
      total == header + frame.bytes
  IN  [frame |-> frame, header |-> header, buffer |-> buffer,
       nbytes |-> IF total > buffer THEN buffer ELSE total]

\* The header is dropped from the buffer and from the number of bytes.
stripIPv4Header(packet) ==
  IF packet.buffer >= IPv4Header /\ packet.header >= IPv4Header
  THEN [packet EXCEPT !.header = 0, !.nbytes = @ - packet.header] ELSE packet

matchIDLinux(protocol, ID, id) == protocol = "icmp" => ID = id
matchIDWindows(ID, id) == ID = id
matchIDOther(ID, id) == ID = id

matchID(platform, protocol, ID, id) ==
  CASE platform = "linux" -> matchIDLinux(protocol, ID, id)
    [] platform = "windows" -> matchIDWindows(ID, id)
    [] OTHER -> matchIDOther(ID, id)

\* processPacket accepts a packet as a reply: parsed for the family of the
\* target, our identifier, a payload that is long enough (the whole buffer is
\* parsed), and our UUID in it (in what was read: the rest of it is zero).
Accepts(packet, platform, protocol, family, id) ==
  /\ packet.header = 0
  /\ packet.frame.family = family /\ packet.frame.type = "echoReply"
  /\ matchID(platform, protocol, packet.frame.id, id)
  /\ packet.buffer >= ICMPHeader + PayloadHeader
  /\ packet.nbytes >= ICMPHeader + PayloadHeader
=============================================================================

---------------------------- MODULE PingerSetup -----------------------------
(***************************************************************************)
(* Before the first request: New, the setters, Resolve, SetAddr and the    *)
(* part of RunWithContext that opens and configures the socket, on every   *)
(* platform the repository has a file for; and whether the reply to a      *)
(* request sent over that socket is recognised.                            *)
(*                                                                         *)
(* The application calls the setters, SetAddr and Run from one goroutine;  *)
(* another may call Statistics at any time, which under statsMu sees addr  *)
(* and ipaddr as they are between two steps.                               *)
(***************************************************************************)
EXTENDS EchoCodec, Sequences, FiniteSets

CONSTANTS
  DNS,         \* for every name and literal address, the addresses it has
  V4,          \* the addresses that are IPv4
  Values,      \* the values each option is given
  Clock,       \* send times
  MaxAlloc,    \* bytes the runtime can allocate at once: it panics for more
  MaxChanged   \* bound: options that differ from what New sets

Names == DOMAIN DNS
IPs == UNION {{DNS[h][i] : i \in DOMAIN DNS[h]} : h \in Names}
NoAddr == "nil"
Empty == "empty"   \* the empty string
Family(ip) == IF ip \in V4 THEN "ip4" ELSE "ip6"

\* What New sets.  The interval counts half seconds.
Defaults ==
  [protocol |-> "udp", id |-> 1, mark |-> 0, df |-> FALSE, tclass |-> 0,
   logger |-> "std", Size |-> PayloadHeader, TTL |-> 64, InterfaceName |-> Empty,
   Source |-> Empty, Interval |-> 2, Timeout |-> 1000, ResolveTimeout |-> 0]

\* A literal address resolves to itself; no name is empty.
ASSUME SetupAssumption ==
  /\ DNS \in [Names -> Seq(IPs) \ {<<>>}]
  /\ IPs \subseteq Names /\ \A ip \in IPs : DNS[ip] = <<ip>>
  /\ Empty \notin Names /\ NoAddr \notin IPs /\ V4 \subseteq IPs
  /\ Clock \subseteq -(Modulus \div 2)..(Modulus - 1) \div 2
  /\ DOMAIN Values \subseteq DOMAIN Defaults
  /\ "df" \in DOMAIN Values => Values.df \subseteq BOOLEAN
  /\ "protocol" \in DOMAIN Values => Values.protocol \subseteq {"udp", "icmp"}
  /\ "id" \in DOMAIN Values => Values.id \subseteq Int
  /\ "Size" \in DOMAIN Values => Values.Size \subseteq Int
  /\ MaxAlloc \in Nat /\ MaxChanged \in Nat

VARIABLES
  platform,
  pc,         \* the application's goroutine
  caller,     \* who called Resolve
  opts,       \* the Pinger's options
  network,
  addr, ipaddr, ipv4,
  oldAddr,    \* SetAddr's local variable
  sock,       \* the socket
  stopped     \* done is closed

vars == <<platform, pc, caller, opts, network, addr, ipaddr, ipv4, oldAddr, sock,
          stopped>>
targetVars == <<addr, ipaddr, ipv4, oldAddr>>

NoSocket == [open |-> FALSE, family |-> "none", protocol |-> "none", filter |-> FALSE,
             mark |-> 0, df |-> FALSE, tclass |-> 0, TTL |-> 0, InterfaceName |-> Empty,
             Source |-> Empty]

Init ==
  /\ platform \in Platforms
  /\ addr \in Names \cup {Empty}
  /\ ipaddr = NoAddr /\ ipv4 = FALSE
  /\ opts = Defaults /\ network = "ip"
  /\ pc = "idle" /\ caller = "none" /\ oldAddr = Empty
  /\ sock = NoSocket /\ stopped = FALSE

Goto(label) == pc' = label

-----------------------------------------------------------------------------
(***************************************************************************)
(* The setters.                                                            *)
(***************************************************************************)
Changed(o) == {f \in DOMAIN o : o[f] # Defaults[f]}

\* SetPrivileged, SetID, SetMark, SetDoNotFragment, SetTrafficClass and
\* SetLogger each assign one field; the others are fields of the struct.
SetOption(f) ==
  /\ pc = "idle"
  /\ \E v \in Values[f] : opts' = [opts EXCEPT ![f] = v]
  /\ Cardinality(Changed(opts')) <= MaxChanged
  /\ UNCHANGED <<platform, pc, caller, network, targetVars, sock, stopped>>

NetworkOf_Any(n) == n
NetworkOf(n) == IF n \in {"ip4", "ip6"} THEN n ELSE "ip"

SetNetwork(n) ==
  /\ pc = "idle"
  /\ network' = NetworkOf(n)
  /\ UNCHANGED <<platform, pc, caller, opts, targetVars, sock, stopped>>

SetIPAddr_KeepFamily(ip) ==
  /\ pc = "idle"
  /\ ipaddr' = ip /\ addr' = ip
  /\ UNCHANGED <<platform, pc, caller, opts, network, ipv4, oldAddr, sock, stopped>>

SetIPAddr(ip) ==
  /\ pc = "idle"
  /\ ipv4' = (ip \in V4)
  /\ ipaddr' = ip /\ addr' = ip
  /\ UNCHANGED <<platform, pc, caller, opts, network, oldAddr, sock, stopped>>

\* SetAddr: the new name is visible while it is being resolved.
SetAddr(name) ==
  /\ pc = "idle"
  /\ oldAddr' = addr /\ addr' = name
  /\ Goto("resolve") /\ caller' = "SetAddr"
  /\ UNCHANGED <<platform, opts, network, ipaddr, ipv4, sock, stopped>>

Restore_Not == addr' = addr
Restore == addr' = oldAddr

SetAddrFails ==
  /\ pc = "restore"
  /\ Restore /\ oldAddr' = Empty
  /\ Goto("idle") /\ caller' = "none"
  /\ UNCHANGED <<platform, opts, network, ipaddr, ipv4, sock, stopped>>

\* A call of Resolve by the application, as in NewPinger.
CallResolve ==
  /\ pc = "idle"
  /\ Goto("resolve") /\ caller' = "app"
  /\ UNCHANGED <<platform, opts, network, targetVars, sock, stopped>>

-----------------------------------------------------------------------------
(***************************************************************************)
(* Resolve.                                                                *)
(***************************************************************************)
\* The positions, among the addresses of addr, of those that belong to the
\* network (external: the resolver).
LookupIP == {i \in DOMAIN DNS[addr] : network \in {"ip", Family(DNS[addr][i])}}

First(S) == {i \in S : \A j \in S : i <= j}
Last(S) == {i \in S : \A j \in S : i >= j}
V4Of(S) == {i \in S : DNS[addr][i] \in V4}

\* net.ResolveIPAddr (external): the first IPv4 address, or else the first.
ResolveIPAddr(ips) == First(IF V4Of(ips) = {} THEN ips ELSE V4Of(ips))

\* With a ResolveTimeout: for "ip6" the first IPv6 address, otherwise the last
\* IPv4 address; the first address if there is none.
LookupWithTimeout_First(ips) == First(ips)
LookupWithTimeout(ips) ==
  LET wanted == IF network = "ip6" THEN ips \ V4Of(ips) ELSE V4Of(ips)
  IN  IF wanted = {} THEN First(ips)
      ELSE IF network = "ip6" THEN First(wanted) ELSE Last(wanted)

ResolveFails ==
  /\ pc = "resolve"
  /\ IF caller = "SetAddr" THEN Goto("restore") /\ UNCHANGED caller
                           ELSE Goto("idle") /\ caller' = "none"
  /\ UNCHANGED <<platform, opts, network, targetVars, sock, stopped>>

ResolveOK ==
  /\ pc = "resolve"
  /\ addr # Empty
  /\ \E i \in IF opts.ResolveTimeout > 0 THEN LookupWithTimeout(LookupIP)
                                         ELSE ResolveIPAddr(LookupIP) :
       ipaddr' = DNS[addr][i]
  /\ ipv4' = (ipaddr' \in V4)
  /\ Goto(IF caller = "Run" THEN "listen" ELSE "idle")
  /\ caller' = "none" /\ oldAddr' = Empty
  /\ UNCHANGED <<platform, opts, network, addr, sock, stopped>>

-----------------------------------------------------------------------------
(***************************************************************************)
(* RunWithContext.                                                         *)
(***************************************************************************)
setupFrame == UNCHANGED <<platform, caller, opts, network, targetVars, stopped>>

RunTooSmall ==
  /\ pc = "idle" /\ opts.Size < PayloadHeader
  /\ UNCHANGED vars

Run ==
  /\ pc = "idle" /\ opts.Size >= PayloadHeader
  /\ IF ipaddr = NoAddr THEN Goto("resolve") /\ caller' = "Run"
                        ELSE Goto("listen") /\ UNCHANGED caller
  /\ UNCHANGED <<platform, opts, network, targetVars, sock, stopped>>

\* The socket can be bound to Source: an address of the socket's family, or a
\* name, which is resolved.
SourceFamily == [ip4 |-> {"ip4"}, ip6 |-> {"ip6"}, name |-> {"ip4", "ip6"}]
CanBind(family) ==
  opts.Source # Empty => opts.Source \in DOMAIN SourceFamily
                      /\ family \in SourceFamily[opts.Source]

SocketFamily == IF ipv4 THEN "ip4" ELSE "ip6"

ListenFails ==
  /\ pc = "listen"
  /\ stopped' = TRUE
  /\ Goto("idle")
  /\ UNCHANGED <<platform, caller, opts, network, targetVars, sock>>

ListenOK ==
  /\ pc = "listen" /\ CanBind(SocketFamily)
  /\ sock' = [NoSocket EXCEPT !.open = TRUE, !.family = SocketFamily,
                              !.protocol = opts.protocol]
  /\ Goto(IF opts.protocol = "icmp" THEN "filter" ELSE "mark")
  /\ setupFrame

\* What the functions of each platform's file may return: "ok" with the option
\* set, "error", or "nil" without doing anything.
LinuxResults == [filter |-> {"ok", "error"}, mark |-> {"ok", "error"},
                 df |-> {"ok", "error"}]
WindowsResults == [filter |-> {"nil"}, mark |-> {"error"}, df |-> {"error"}]
OtherResults_Silent == [filter |-> {"nil"}, mark |-> {"nil"}, df |-> {"nil"}]
OtherResults == [filter |-> {"nil"}, mark |-> {"error"}, df |-> {"error"}]

Results(f) ==
  CASE platform = "linux" -> LinuxResults[f]
    [] platform = "windows" -> WindowsResults[f]
    [] OTHER -> OtherResults[f]

\* An error of the filter is only logged, by a logger that may be nil.
InstallICMPIDFilter ==
  /\ pc = "filter"
  /\ \E r \in Results("filter") :
       /\ sock' = [sock EXCEPT !.filter = (r = "ok")]
       /\ Goto(IF r = "error" /\ opts.logger = "nil" THEN "panic" ELSE "mark")
  /\ setupFrame

\* The deferred conn.Close.
CloseAndReturn == sock' = NoSocket /\ Goto("idle")

Apply(f, r, next) ==
  \/ /\ r # "error"
     /\ sock' = IF r = "ok" THEN [sock EXCEPT ![f] = opts[f]] ELSE sock
     /\ Goto(next)
  \/ r = "error" /\ CloseAndReturn

Skip(next) == UNCHANGED sock /\ Goto(next)

SetMark ==
  /\ pc = "mark"
  /\ IF opts.mark # 0 THEN \E r \in Results("mark") : Apply("mark", r, "df")
                      ELSE Skip("df")
  /\ setupFrame

SetDoNotFragment ==
  /\ pc = "df"
  /\ IF opts.df THEN \E r \in Results("df") : Apply("df", r, "tclass")
                ELSE Skip("tclass")
  /\ setupFrame

SetTrafficClass ==
  /\ pc = "tclass"
  /\ IF opts.tclass # 0 THEN \E r \in {"ok", "error"} : Apply("tclass", r, "ttl")
                        ELSE Skip("ttl")
  /\ setupFrame

SetTTL == pc = "ttl" /\ Apply("TTL", "ok", "iface") /\ setupFrame

SetIfIndex ==
  /\ pc = "iface"
  /\ IF opts.InterfaceName # Empty
     THEN Apply("InterfaceName",
                IF opts.InterfaceName = "gone" THEN "error" ELSE "ok", "source")
     ELSE Skip("source")
  /\ setupFrame

\* net.ParseIP takes addresses only, while the bind above took names, too.
SetSource ==
  /\ pc = "source"
  /\ IF opts.Source # Empty
     THEN Apply("Source", IF opts.Source = "name" THEN "error" ELSE "ok", "flagTTL")
     ELSE Skip("flagTTL")
  /\ setupFrame

\* On Windows the error is dropped.
SetFlagTTL ==
  /\ pc = "flagTTL"
  /\ Skip("start") \/ (platform # "windows" /\ CloseAndReturn)
  /\ setupFrame

\* time.NewTicker panics unless its argument is positive, and so does an
\* allocation that is too large: of the payload, in the first send, ...
TickersPanic == opts.Timeout <= 0 \/ opts.Interval <= 0
PayloadPanics == opts.Size - PayloadHeader > MaxAlloc

\* ... or of the receive buffer, unless recvICMP finds done closed before.
BufferPanics ==
  MessageLength(platform, SocketFamily, opts.Size)
    + Offset(platform, opts.protocol, SocketFamily) > MaxAlloc

Start ==
  /\ pc = "start"
  /\ \/ ~TickersPanic /\ ~PayloadPanics /\ Skip("running")
     \/ (TickersPanic \/ PayloadPanics \/ BufferPanics) /\ Skip("panic")
  /\ setupFrame

\* Linux refuses a write (EACCES): sendICMP logs it, by a logger that may be nil.
WriteRefused ==
  /\ pc = "running" /\ platform = "linux" /\ opts.logger = "nil"
  /\ Skip("panic")
  /\ setupFrame

\* The goroutines of a run all end with Stop.
RunReturns ==
  /\ pc = "running"
  /\ CloseAndReturn /\ stopped' = TRUE
  /\ UNCHANGED <<platform, caller, opts, network, targetVars>>

\* A panic nobody recovers ends the program.
Crashed == pc = "panic" /\ UNCHANGED vars

-----------------------------------------------------------------------------
Next ==
  \/ (\E f \in DOMAIN Values : SetOption(f))
  \/ (\E n \in {"ip", "ip4", "ip6", "tcp"} : SetNetwork(n))
  \/ (\E ip \in IPs : SetIPAddr(ip))
  \/ (\E name \in Names \cup {Empty} : SetAddr(name)) \/ SetAddrFails
  \/ CallResolve \/ ResolveFails \/ ResolveOK
  \/ RunTooSmall \/ Run \/ ListenFails \/ ListenOK \/ InstallICMPIDFilter
  \/ SetMark \/ SetDoNotFragment \/ SetTrafficClass \/ SetTTL \/ SetIfIndex
  \/ SetSource \/ SetFlagTTL \/ Start \/ WriteRefused \/ RunReturns \/ Crashed

Spec == Init /\ [][Next]_vars

-----------------------------------------------------------------------------
(***************************************************************************)
(* Properties.                                                             *)
(***************************************************************************)
SetupLabels == {"filter", "mark", "df", "tclass", "ttl", "iface", "source",
                "flagTTL", "start", "running"}

\* Every variable has its type.
TypeOK ==
  /\ platform \in Platforms /\ network \in {"ip", "ip4", "ip6"}
  /\ pc \in {"idle", "resolve", "restore", "listen", "panic"} \cup SetupLabels
  /\ caller \in {"none", "app", "SetAddr", "Run"}
  /\ addr \in Names \cup {Empty} /\ oldAddr \in Names \cup {Empty}
  /\ ipaddr \in IPs \cup {NoAddr} /\ ipv4 \in BOOLEAN
  /\ stopped \in BOOLEAN
  /\ DOMAIN opts = DOMAIN Defaults /\ opts.df \in BOOLEAN
  /\ DOMAIN sock = DOMAIN NoSocket
  /\ sock.open \in BOOLEAN /\ sock.family \in {"none", "ip4", "ip6"}

\* The socket is open exactly from listen to the return of Run, whichever
\* step of the set-up fails, and is of the family of the address it will send
\* to, however addr, network and ipaddr were changed between runs.
SocketFitsTarget ==
  /\ pc \in SetupLabels => sock.open /\ ipaddr # NoAddr
                           /\ sock.family = Family(ipaddr)
  /\ pc \notin SetupLabels \cup {"panic"} => ~sock.open

IsAddrOf(ip, name) == name \in Names /\ \E i \in DOMAIN DNS[name] : DNS[name][i] = ip

HasV4(name) == \E i \in DOMAIN DNS[name] : DNS[name][i] \in V4

FamilyFor(net, name) ==
  IF net # "ip" THEN net ELSE IF HasV4(name) THEN "ip4" ELSE "ip6"

SettingAddr == pc \in {"resolve", "restore"} /\ caller = "SetAddr"

\* Addr and IPAddr, as Statistics reports them, belong together except while
\* SetAddr is resolving: a SetAddr that failed leaves the old pair behind.
AddrMatchesIPAddr == ipaddr # NoAddr /\ ~SettingAddr => IsAddrOf(ipaddr, addr)

\* Whether a ResolveTimeout is set or not, the address Resolve stores is of the
\* family the network restricts it to; with no restriction it is an IPv4 address
\* if the target has one.  (An address that is known already stays when
\* SetNetwork is called: Run resolves only if there is none.)
ResolveObeysNetwork ==
  [][pc = "resolve" /\ ipaddr' # ipaddr
       => Family(ipaddr') = FamilyFor(network, addr)]_vars

\* A run never starts without an option that was asked for.
OptionsAreInForce ==
  pc = "running" =>
    \A f \in {"protocol", "mark", "df", "tclass", "TTL", "InterfaceName", "Source"} :
      sock[f] = opts[f]

\* The reply to a request of this Pinger passes the filter of its socket, fits
\* the receive buffer and is accepted by processPacket, which finds in it the
\* time it was sent and its length, on every platform and with every option;
\* except that with an identifier of more than 16 bits a Pinger that compares
\* identifiers recognises none of its replies.
OwnReplyIsRecognised ==
  pc = "running" =>
    \A nsec \in Clock :
      LET family == SocketFamily
          reply == Reply(Request(family, opts.id, opts.Size, nsec), platform,
                         opts.protocol)
          raw == ReadFrom(reply, platform, opts.protocol, opts.Size)
          packet == IF ipv4 THEN stripIPv4Header(raw) ELSE raw
      IN  /\ Accepts(packet, platform, opts.protocol, family, opts.id)
             /\ (sock.filter => FilterAccepts(reply, opts.id))
               <=> \/ opts.id \in 0..IDs - 1
                   \/ platform = "linux" /\ opts.protocol = "udp"
          /\ packet.nbytes = opts.Size + ICMPHeader
          /\ bytesToTime(packet.frame.time) = nsec
=============================================================================

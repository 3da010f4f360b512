------------------------- MODULE PingerSetupProofs --------------------------
(***************************************************************************)
(* Proofs about PingerSetup, for every resolver, every set of option       *)
(* values and every platform.  The inductive invariant has four parts: the *)
(* types, what is known of the target (TargetInv), what is known of the    *)
(* socket at each step of its set-up (SocketInv), and what the way of a    *)
(* reply depends on (ReplyInv).                                            *)
(***************************************************************************)
EXTENDS PingerSetup, EchoCodecProofs

\* The name that goes with ipaddr: SetAddr shows the new one too early.
Settled == IF SettingAddr THEN oldAddr ELSE addr

TargetInv ==
  /\ caller # "none" <=> pc \in {"resolve", "restore"}
  /\ pc = "restore" => caller = "SetAddr"
  /\ pc \in {"listen"} \cup SetupLabels => ipaddr # NoAddr
  /\ ipaddr # NoAddr => ipv4 = (ipaddr \in V4) /\ IsAddrOf(ipaddr, Settled)

\* The steps of the set-up after which an option is in force.
AfterSource == {"flagTTL", "start", "running"}
AfterIface == {"source"} \cup AfterSource
AfterTTL == {"iface"} \cup AfterIface
AfterTclass == {"ttl"} \cup AfterTTL
AfterDf == {"tclass"} \cup AfterTclass
AfterMark == {"df"} \cup AfterDf

SocketInv ==
  /\ SocketFitsTarget
  /\ pc \in SetupLabels =>
       /\ sock.protocol = opts.protocol
       /\ sock.mark = IF pc \in AfterMark THEN opts.mark ELSE 0
       /\ sock.df = IF pc \in AfterDf THEN opts.df ELSE FALSE
       /\ sock.tclass = IF pc \in AfterTclass THEN opts.tclass ELSE 0
       /\ pc \in AfterTTL => sock.TTL = opts.TTL
       /\ sock.InterfaceName = IF pc \in AfterIface THEN opts.InterfaceName ELSE Empty
       /\ sock.Source = IF pc \in AfterSource THEN opts.Source ELSE Empty

SetupInv == TypeOK /\ TargetInv /\ SocketInv

-----------------------------------------------------------------------------
\* Whatever way Resolve picks an address, it is one of those of addr that the
\* network allows; and without a restriction an IPv4 address if there is one.
LEMMA PickedAddress ==
  ASSUME addr \in Names, network \in {"ip", "ip4", "ip6"},
         NEW i \in IF opts.ResolveTimeout > 0 THEN LookupWithTimeout(LookupIP)
                                              ELSE ResolveIPAddr(LookupIP)
  PROVE  /\ i \in DOMAIN DNS[addr]
         /\ Family(DNS[addr][i]) = FamilyFor(network, addr)
<1>1. i \in LookupIP
  BY DEF LookupWithTimeout, ResolveIPAddr, First, Last, V4Of
<1>2. i \in DOMAIN DNS[addr] /\ network \in {"ip", Family(DNS[addr][i])}
  BY <1>1 DEF LookupIP
<1>3. CASE network # "ip"
  BY <1>2, <1>3 DEF FamilyFor
<1>4. CASE network = "ip"
  <2>1. LookupIP = DOMAIN DNS[addr]
    BY <1>4 DEF LookupIP
  <2>2. V4Of(LookupIP) # {} <=> HasV4(addr)
    BY <2>1 DEF V4Of, HasV4
  <2>3. V4Of(LookupIP) # {} => i \in V4Of(LookupIP)
    BY <1>4 DEF LookupWithTimeout, ResolveIPAddr, First, Last
  <2>4. DNS[addr][i] \in V4 <=> HasV4(addr)
    BY <1>1, <2>2, <2>3 DEF V4Of
  <2> QED BY <1>2, <1>4, <2>4 DEF Family, FamilyFor
<1> QED BY <1>3, <1>4

\* New establishes the invariant.
LEMMA SetupInit == Init => SetupInv
<1> SUFFICES ASSUME Init PROVE SetupInv OBVIOUS
<1>1. TypeOK BY DEF Init, TypeOK, NoSocket, Defaults, SetupLabels
<1>2. TargetInv BY DEF Init, TargetInv, SetupLabels
<1>3. SocketInv BY DEF Init, SocketInv, SocketFitsTarget, NoSocket, SetupLabels
<1> QED BY <1>1, <1>2, <1>3 DEF SetupInv

\* The application's calls, which leave the socket alone.
LEMMA TargetStep ==
  ASSUME SetupInv,
         \/ (\E f \in DOMAIN Values : SetOption(f))
         \/ (\E n \in {"ip", "ip4", "ip6", "tcp"} : SetNetwork(n))
         \/ (\E ip \in IPs : SetIPAddr(ip))
         \/ (\E name \in Names \cup {Empty} : SetAddr(name)) \/ SetAddrFails
         \/ CallResolve \/ ResolveFails \/ ResolveOK
         \/ RunTooSmall \/ Run \/ ListenFails
  PROVE  SetupInv'
<1> USE DEF SetupInv, targetVars
<1>1. ASSUME NEW f \in DOMAIN Values, SetOption(f) PROVE SetupInv'
  <2>1. TypeOK'
    <3>1. PICK v \in Values[f] : opts' = [opts EXCEPT ![f] = v]
      BY <1>1 DEF SetOption
    <3>2. opts'.df \in BOOLEAN /\ DOMAIN opts' = DOMAIN Defaults
      BY <3>1, SetupAssumption DEF TypeOK, SetupAssumption
    <3> QED BY <1>1, <3>2 DEF TypeOK, SetupLabels, SetOption
  <2>2. TargetInv'
    BY <1>1 DEF TargetInv, Settled, SettingAddr, SetupLabels,
     IsAddrOf, TypeOK, SetOption
  <2>3. SocketInv'
    BY <1>1 DEF SocketInv, SocketFitsTarget, SetupLabels,
     AfterMark, AfterDf, AfterTclass, AfterTTL, AfterIface, AfterSource,
     SetOption
  <2> QED BY <2>1, <2>2, <2>3
<1>2. ASSUME NEW n \in {"ip", "ip4", "ip6", "tcp"}, SetNetwork(n) PROVE SetupInv'
  <2>1. TypeOK'
    BY <1>2 DEF TypeOK, SetupLabels, SetNetwork, NetworkOf
  <2>2. TargetInv'
    BY <1>2 DEF TargetInv, Settled, SettingAddr, SetupLabels,
     IsAddrOf, TypeOK, SetNetwork, NetworkOf
  <2>3. SocketInv'
    BY <1>2 DEF SocketInv, SocketFitsTarget, SetupLabels,
     AfterMark, AfterDf, AfterTclass, AfterTTL, AfterIface, AfterSource,
     SetNetwork, NetworkOf
  <2> QED BY <2>1, <2>2, <2>3
<1>3. ASSUME NEW ip \in IPs, SetIPAddr(ip) PROVE SetupInv'
  <2>1. TypeOK'
    BY <1>3, SetupAssumption DEF TypeOK, SetupLabels, SetupAssumption, SetIPAddr
  <2>2. TargetInv'
    <3>1. ip \in Names /\ DNS[ip] = <<ip>> /\ ip # NoAddr
      BY SetupAssumption DEF SetupAssumption
    <3>2. 1 \in DOMAIN DNS[ip] /\ DNS[ip][1] = ip
      BY <3>1
    <3>3. IsAddrOf(ip, ip)
      BY <3>1, <3>2 DEF IsAddrOf
    <3>4. caller' = "none" /\ pc' = "idle" /\ Settled' = ip
      BY <1>3 DEF SetIPAddr, TargetInv, Settled, SettingAddr
    <3>5. ipaddr' = ip /\ ipv4' = (ip \in V4)
      BY <1>3 DEF SetIPAddr
    <3> QED BY <3>1, <3>3, <3>4, <3>5 DEF TargetInv, SetupLabels, IsAddrOf
  <2>3. SocketInv'
    BY <1>3 DEF SocketInv, SocketFitsTarget, SetupLabels,
     AfterMark, AfterDf, AfterTclass, AfterTTL, AfterIface, AfterSource,
     SetIPAddr
  <2> QED BY <2>1, <2>2, <2>3
<1>4. ASSUME NEW name \in Names \cup {Empty}, SetAddr(name) PROVE SetupInv'
  <2>1. TypeOK'
    BY <1>4 DEF TypeOK, SetupLabels, SetAddr, Goto
  <2>2. TargetInv'
    BY <1>4 DEF TargetInv, Settled, SettingAddr, SetupLabels,
     IsAddrOf, TypeOK, SetAddr, Goto
  <2>3. SocketInv'
    BY <1>4 DEF SocketInv, SocketFitsTarget, SetupLabels,
     AfterMark, AfterDf, AfterTclass, AfterTTL, AfterIface, AfterSource,
     SetAddr, Goto
  <2> QED BY <2>1, <2>2, <2>3
<1>5. CASE SetAddrFails
  <2>1. TypeOK'
    BY <1>5 DEF TypeOK, SetupLabels, SetAddrFails, Restore, Goto
  <2>2. TargetInv'
    BY <1>5 DEF TargetInv, Settled, SettingAddr, SetupLabels,
     IsAddrOf, TypeOK, SetAddrFails, Restore, Goto
  <2>3. SocketInv'
    BY <1>5 DEF SocketInv, SocketFitsTarget, SetupLabels,
     AfterMark, AfterDf, AfterTclass, AfterTTL, AfterIface, AfterSource,
     SetAddrFails, Restore, Goto
  <2> QED BY <2>1, <2>2, <2>3
<1>6. CASE CallResolve
  <2>1. TypeOK'
    BY <1>6 DEF TypeOK, SetupLabels, CallResolve, Goto
  <2>2. TargetInv'
    BY <1>6 DEF TargetInv, Settled, SettingAddr, SetupLabels,
     IsAddrOf, TypeOK, CallResolve, Goto
  <2>3. SocketInv'
    BY <1>6 DEF SocketInv, SocketFitsTarget, SetupLabels,
     AfterMark, AfterDf, AfterTclass, AfterTTL, AfterIface, AfterSource,
     CallResolve, Goto
  <2> QED BY <2>1, <2>2, <2>3
<1>7. CASE ResolveFails
  <2>1. TypeOK'
    BY <1>7 DEF TypeOK, SetupLabels, ResolveFails, Goto
  <2>2. TargetInv'
    BY <1>7 DEF TargetInv, Settled, SettingAddr, SetupLabels,
     IsAddrOf, TypeOK, ResolveFails, Goto
  <2>3. SocketInv'
    BY <1>7 DEF SocketInv, SocketFitsTarget, SetupLabels,
     AfterMark, AfterDf, AfterTclass, AfterTTL, AfterIface, AfterSource,
     ResolveFails, Goto
  <2> QED BY <2>1, <2>2, <2>3
<1>8. CASE ResolveOK
  <2>1. PICK i \in IF opts.ResolveTimeout > 0 THEN LookupWithTimeout(LookupIP)
                                               ELSE ResolveIPAddr(LookupIP) :
                ipaddr' = DNS[addr][i]
    BY <1>8 DEF ResolveOK
  <2>2. addr \in Names /\ addr' = addr
    BY <1>8 DEF ResolveOK, TypeOK
  <2>3. i \in DOMAIN DNS[addr] /\ Family(ipaddr') = FamilyFor(network, addr)
    BY <2>1, <2>2, PickedAddress DEF TypeOK
  <2>4. ipaddr' \in IPs /\ ipaddr' # NoAddr /\ IsAddrOf(ipaddr', addr)
    BY <2>1, <2>2, <2>3, SetupAssumption DEF IPs, IsAddrOf, SetupAssumption
  <2>5. TypeOK'
    BY <1>8, <2>4 DEF TypeOK, SetupLabels, ResolveOK, Goto
  <2>6. TargetInv'
    <3>1. ~SettingAddr' /\ Settled' = addr
      BY <1>8, <2>2 DEF SettingAddr, Settled, ResolveOK, Goto
    <3>2. ipv4' = (ipaddr' \in V4) /\ caller' = "none"
          /\ pc' \in {"listen", "idle"}
      BY <1>8 DEF ResolveOK, Goto
    <3> QED BY <2>3, <2>4, <3>1, <3>2 DEF TargetInv, IsAddrOf
  <2>7. SocketInv'
    BY <1>8 DEF ResolveOK, Goto, SocketInv, SocketFitsTarget, SetupLabels
  <2> QED BY <2>5, <2>6, <2>7
<1>9. CASE RunTooSmall
  <2>1. TypeOK'
    BY <1>9 DEF TypeOK, SetupLabels, RunTooSmall, vars
  <2>2. TargetInv'
    BY <1>9 DEF TargetInv, Settled, SettingAddr, SetupLabels,
     IsAddrOf, TypeOK, RunTooSmall, vars
  <2>3. SocketInv'
    BY <1>9 DEF SocketInv, SocketFitsTarget, SetupLabels,
     AfterMark, AfterDf, AfterTclass, AfterTTL, AfterIface, AfterSource,
     RunTooSmall, vars
  <2> QED BY <2>1, <2>2, <2>3
<1>10. CASE Run
  <2>1. TypeOK'
    BY <1>10 DEF TypeOK, SetupLabels, Run, Goto
  <2>2. TargetInv'
    BY <1>10 DEF TargetInv, Settled, SettingAddr, SetupLabels,
     IsAddrOf, TypeOK, Run, Goto
  <2>3. SocketInv'
    BY <1>10 DEF SocketInv, SocketFitsTarget, SetupLabels,
     AfterMark, AfterDf, AfterTclass, AfterTTL, AfterIface, AfterSource,
     Run, Goto
  <2> QED BY <2>1, <2>2, <2>3
<1>11. CASE ListenFails
  <2>1. TypeOK'
    BY <1>11 DEF TypeOK, SetupLabels, ListenFails, Goto
  <2>2. TargetInv'
    BY <1>11 DEF TargetInv, Settled, SettingAddr, SetupLabels,
     IsAddrOf, TypeOK, ListenFails, Goto
  <2>3. SocketInv'
    BY <1>11 DEF SocketInv, SocketFitsTarget, SetupLabels,
     AfterMark, AfterDf, AfterTclass, AfterTTL, AfterIface, AfterSource,
     ListenFails, Goto
  <2> QED BY <2>1, <2>2, <2>3
<1> QED BY <1>1, <1>2, <1>3, <1>4, <1>5, <1>6, <1>7, <1>8, <1>9, <1>10, <1>11

\* During the set-up of the socket the target does not change.
LEMMA TargetFrame ==
  ASSUME SetupInv, UNCHANGED <<caller, targetVars>>,
         pc \in {"listen"} \cup SetupLabels, pc' \in SetupLabels \cup {"idle", "panic"}
  PROVE  TargetInv' /\ ipaddr' = ipaddr /\ ipaddr # NoAddr
<1>1. UNCHANGED <<caller, addr, ipaddr, ipv4, oldAddr>>
  BY DEF targetVars
<1>2. caller = "none" /\ caller' = "none" /\ pc' \notin {"resolve", "restore", "listen"}
  BY <1>1 DEF SetupInv, TargetInv, SetupLabels
<1>3. Settled' = Settled
  BY <1>1, <1>2 DEF Settled, SettingAddr
<1> QED BY <1>1, <1>2, <1>3 DEF SetupInv, TargetInv, IsAddrOf

\* What is left of the socket by a step that puts one option in force.
InForce(f, next) ==
  \/ sock' = NoSocket /\ pc' = "idle"
  \/ /\ pc' = next
     /\ DOMAIN sock' = DOMAIN NoSocket
     /\ \A g \in DOMAIN NoSocket \ {f} : sock'[g] = sock[g]
     /\ sock'[f] = opts[f]

\* The fields of the socket.
LEMMA Fields ==
  DOMAIN NoSocket = {"open", "family", "protocol", "filter", "mark", "df", "tclass",
                     "TTL", "InterfaceName", "Source"}
BY DEF NoSocket

\* An option that is set without an error is in force; with one, Run returns.
LEMMA ApplyStep ==
  ASSUME NEW f \in DOMAIN NoSocket, NEW r \in {"ok", "error"}, NEW next,
         DOMAIN sock = DOMAIN NoSocket, Apply(f, r, next)
  PROVE  InForce(f, next)
BY DEF Apply, CloseAndReturn, Goto, InForce

\* An option that was not asked for is in force from the start.
LEMMA SkipStep ==
  ASSUME NEW f, NEW next, DOMAIN sock = DOMAIN NoSocket, Skip(next), sock[f] = opts[f]
  PROVE  InForce(f, next)
BY DEF Skip, Goto, InForce

\* The options are put in force in the order of RunWithContext.
LEMMA InForceStep ==
  ASSUME SetupInv, setupFrame, NEW f, NEW next, InForce(f, next),
         \/ pc = "mark" /\ f = "mark" /\ next = "df"
         \/ pc = "df" /\ f = "df" /\ next = "tclass"
         \/ pc = "tclass" /\ f = "tclass" /\ next = "ttl"
         \/ pc = "ttl" /\ f = "TTL" /\ next = "iface"
         \/ pc = "iface" /\ f = "InterfaceName" /\ next = "source"
         \/ pc = "source" /\ f = "Source" /\ next = "flagTTL"
  PROVE  SetupInv'
<1>1. sock' = NoSocket \/ (sock'.open = sock.open /\ sock'.family = sock.family
                           /\ sock'.protocol = sock.protocol)
  BY Fields DEF InForce
<1>2. opts' = opts BY DEF setupFrame
<1>3. pc \in SetupLabels /\ pc' \in SetupLabels \cup {"idle"}
  BY DEF InForce, SetupLabels
<1>4. TypeOK'
  <2>1. DOMAIN sock' = DOMAIN NoSocket
    BY DEF InForce
  <2>2. sock'.open \in BOOLEAN /\ sock'.family \in {"none", "ip4", "ip6"}
    <3>1. CASE sock' = NoSocket
      BY <3>1 DEF NoSocket
    <3>2. CASE sock' # NoSocket
      BY <1>1, <3>2 DEF SetupInv, TypeOK
    <3> QED BY <3>1, <3>2
  <2> QED BY <1>2, <1>3, <2>1, <2>2
             DEF SetupInv, TypeOK, SetupLabels, setupFrame, targetVars
<1>5. TargetInv' /\ ipaddr' = ipaddr
  BY <1>3, TargetFrame DEF setupFrame
<1>6. SocketFitsTarget'
  BY <1>1, <1>3, <1>5
     DEF SetupInv, SocketInv, SocketFitsTarget, SetupLabels, NoSocket, InForce, Family
<1>7. SocketInv'
  <2>1. CASE pc' = "idle"
    BY <1>6, <2>1 DEF SocketInv, SetupLabels
  <2>2. CASE pc' # "idle"
    <3>1. /\ pc' = next /\ sock'[f] = opts[f]
          /\ \A g \in DOMAIN NoSocket \ {f} : sock'[g] = sock[g]
      BY <2>2 DEF InForce
    <3> QED
      BY <1>1, <1>2, <1>3, <1>6, <3>1, Fields
         DEF SetupInv, SocketInv, SetupLabels,
             AfterMark, AfterDf, AfterTclass, AfterTTL, AfterIface, AfterSource
  <2> QED BY <2>1, <2>2
<1> QED BY <1>4, <1>5, <1>7 DEF SetupInv

\* The steps that open, configure and close the socket.
LEMMA SocketStep ==
  ASSUME SetupInv,
         \/ ListenOK \/ InstallICMPIDFilter \/ SetMark \/ SetDoNotFragment
         \/ SetTrafficClass \/ SetTTL \/ SetIfIndex \/ SetSource \/ SetFlagTTL
         \/ Start \/ WriteRefused \/ RunReturns
  PROVE  SetupInv'
<1> USE DEF SetupInv, setupFrame, targetVars
<1>1. CASE ListenOK
  <2>1. TypeOK'
    BY <1>1 DEF TypeOK, SetupLabels,
     ListenOK, Goto, NoSocket, SocketFamily, Family
  <2>2. TargetInv' /\ ipaddr' = ipaddr /\ ipaddr # NoAddr
    BY <1>1, TargetFrame DEF SetupLabels, ListenOK, Goto, NoSocket, SocketFamily, Family
  <2>3. SocketInv'
    BY <1>1, <2>2 DEF SocketInv, SocketFitsTarget, SetupLabels,
     AfterMark, AfterDf, AfterTclass, AfterTTL, AfterIface, AfterSource,
     TypeOK, TargetInv, ListenOK, Goto, NoSocket, SocketFamily, Family
  <2> QED BY <2>1, <2>2, <2>3
<1>2. CASE InstallICMPIDFilter
  <2>1. TypeOK'
    BY <1>2 DEF TypeOK, SetupLabels,
     InstallICMPIDFilter, Goto
  <2>2. TargetInv' /\ ipaddr' = ipaddr /\ ipaddr # NoAddr
    BY <1>2, TargetFrame DEF SetupLabels, InstallICMPIDFilter, Goto
  <2>3. SocketInv'
    <3>1. PICK r : sock' = [sock EXCEPT !.filter = (r = "ok")]
      BY <1>2 DEF InstallICMPIDFilter
    <3>2. \A g \in DOMAIN NoSocket \ {"filter"} : sock'[g] = sock[g]
      BY <3>1 DEF TypeOK
    <3>3. pc = "filter" /\ pc' \in {"mark", "panic"} /\ opts' = opts
      BY <1>2 DEF InstallICMPIDFilter, Goto
    <3> QED BY <2>2, <3>2, <3>3, Fields
               DEF SocketInv, SocketFitsTarget, SetupLabels, Family,
                   AfterMark, AfterDf, AfterTclass, AfterTTL, AfterIface, AfterSource
  <2> QED BY <2>1, <2>2, <2>3
<1>3. CASE SetMark
  <2>1. DOMAIN sock = DOMAIN NoSocket /\ "mark" \in DOMAIN NoSocket
    BY Fields DEF TypeOK
  <2>2. ASSUME NEW r \in {"ok", "error"}, Apply("mark", r, "df")
        PROVE  InForce("mark", "df")
    BY <2>1, <2>2, ApplyStep
  <2>3. ASSUME Skip("df"), sock.mark = opts.mark
        PROVE  InForce("mark", "df")
    BY <2>1, <2>3, SkipStep
  <2>4. InForce("mark", "df")
    BY <1>3, <2>2, <2>3
       DEF SetMark, Results, LinuxResults, WindowsResults, OtherResults,
           TypeOK, SocketInv, SetupLabels,
           AfterMark, AfterDf, AfterTclass, AfterTTL, AfterIface, AfterSource
  <2> QED BY <1>3, <2>4, InForceStep DEF SetMark
<1>4. CASE SetDoNotFragment
  <2>1. DOMAIN sock = DOMAIN NoSocket /\ "df" \in DOMAIN NoSocket
    BY Fields DEF TypeOK
  <2>2. ASSUME NEW r \in {"ok", "error"}, Apply("df", r, "tclass")
        PROVE  InForce("df", "tclass")
    BY <2>1, <2>2, ApplyStep
  <2>3. ASSUME Skip("tclass"), sock.df = opts.df
        PROVE  InForce("df", "tclass")
    BY <2>1, <2>3, SkipStep
  <2>4. InForce("df", "tclass")
    BY <1>4, <2>2, <2>3
       DEF SetDoNotFragment, Results, LinuxResults, WindowsResults, OtherResults,
           TypeOK, SocketInv, SetupLabels,
           AfterMark, AfterDf, AfterTclass, AfterTTL, AfterIface, AfterSource
  <2> QED BY <1>4, <2>4, InForceStep DEF SetDoNotFragment
<1>5. CASE SetTrafficClass
  <2>1. DOMAIN sock = DOMAIN NoSocket /\ "tclass" \in DOMAIN NoSocket
    BY Fields DEF TypeOK
  <2>2. ASSUME NEW r \in {"ok", "error"}, Apply("tclass", r, "ttl")
        PROVE  InForce("tclass", "ttl")
    BY <2>1, <2>2, ApplyStep
  <2>3. ASSUME Skip("ttl"), sock.tclass = opts.tclass
        PROVE  InForce("tclass", "ttl")
    BY <2>1, <2>3, SkipStep
  <2>4. InForce("tclass", "ttl")
    BY <1>5, <2>2, <2>3
       DEF SetTrafficClass,
           TypeOK, SocketInv, SetupLabels,
           AfterMark, AfterDf, AfterTclass, AfterTTL, AfterIface, AfterSource
  <2> QED BY <1>5, <2>4, InForceStep DEF SetTrafficClass
<1>6. CASE SetTTL
  <2>1. DOMAIN sock = DOMAIN NoSocket /\ "TTL" \in DOMAIN NoSocket
    BY Fields DEF TypeOK
  <2>2. ASSUME NEW r \in {"ok", "error"}, Apply("TTL", r, "iface")
        PROVE  InForce("TTL", "iface")
    BY <2>1, <2>2, ApplyStep
  <2>4. InForce("TTL", "iface")
    BY <1>6, <2>2 DEF SetTTL
  <2> QED BY <1>6, <2>4, InForceStep DEF SetTTL
<1>7. CASE SetIfIndex
  <2>1. DOMAIN sock = DOMAIN NoSocket /\ "InterfaceName" \in DOMAIN NoSocket
    BY Fields DEF TypeOK
  <2>2. ASSUME NEW r \in {"ok", "error"}, Apply("InterfaceName", r, "source")
        PROVE  InForce("InterfaceName", "source")
    BY <2>1, <2>2, ApplyStep
  <2>3. ASSUME Skip("source"), sock.InterfaceName = opts.InterfaceName
        PROVE  InForce("InterfaceName", "source")
    BY <2>1, <2>3, SkipStep
  <2>4. InForce("InterfaceName", "source")
    BY <1>7, <2>2, <2>3
       DEF SetIfIndex,
           TypeOK, SocketInv, SetupLabels,
           AfterMark, AfterDf, AfterTclass, AfterTTL, AfterIface, AfterSource
  <2> QED BY <1>7, <2>4, InForceStep DEF SetIfIndex
<1>8. CASE SetSource
  <2>1. DOMAIN sock = DOMAIN NoSocket /\ "Source" \in DOMAIN NoSocket
    BY Fields DEF TypeOK
  <2>2. ASSUME NEW r \in {"ok", "error"}, Apply("Source", r, "flagTTL")
        PROVE  InForce("Source", "flagTTL")
    BY <2>1, <2>2, ApplyStep
  <2>3. ASSUME Skip("flagTTL"), sock.Source = opts.Source
        PROVE  InForce("Source", "flagTTL")
    BY <2>1, <2>3, SkipStep
  <2>4. InForce("Source", "flagTTL")
    BY <1>8, <2>2, <2>3
       DEF SetSource,
           TypeOK, SocketInv, SetupLabels,
           AfterMark, AfterDf, AfterTclass, AfterTTL, AfterIface, AfterSource
  <2> QED BY <1>8, <2>4, InForceStep DEF SetSource
<1>9. CASE SetFlagTTL
  <2>1. pc = "flagTTL" /\ pc' \in {"start", "idle"} /\ opts' = opts
    BY <1>9 DEF SetFlagTTL, Skip, CloseAndReturn, Goto
  <2>2. TargetInv' /\ ipaddr' = ipaddr /\ ipaddr # NoAddr
    BY <1>9, <2>1, TargetFrame DEF SetupLabels, SetFlagTTL
  <2>3. CASE sock' = sock /\ pc' = "start"
    <3>1. TypeOK'
      BY <1>9, <2>3 DEF TypeOK, SetupLabels, SetFlagTTL
    <3>2. SocketInv'
      BY <2>1, <2>2, <2>3 DEF SocketInv, SocketFitsTarget, SetupLabels, Family,
         AfterMark, AfterDf, AfterTclass, AfterTTL, AfterIface, AfterSource
    <3> QED BY <2>2, <3>1, <3>2
  <2>4. CASE sock' = NoSocket /\ pc' = "idle"
    <3>1. TypeOK'
      BY <1>9, <2>4 DEF TypeOK, SetupLabels, SetFlagTTL, NoSocket
    <3>2. SocketInv'
      BY <2>4 DEF SocketInv, SocketFitsTarget, SetupLabels, NoSocket
    <3> QED BY <2>2, <3>1, <3>2
  <2> QED BY <1>9, <2>3, <2>4 DEF SetFlagTTL, Skip, CloseAndReturn, Goto
<1>10. CASE Start
  <2>1. TypeOK'
    BY <1>10 DEF TypeOK, SetupLabels,
     Start, Skip, Goto
  <2>2. TargetInv' /\ ipaddr' = ipaddr /\ ipaddr # NoAddr
    BY <1>10, TargetFrame DEF SetupLabels, Start, Skip, Goto
  <2>3. SocketInv'
    BY <1>10, <2>2 DEF SocketInv, SocketFitsTarget, SetupLabels,
     AfterMark, AfterDf, AfterTclass, AfterTTL, AfterIface, AfterSource,
     TypeOK, TargetInv, Start, Skip, Goto
  <2> QED BY <2>1, <2>2, <2>3
<1>11. CASE RunReturns
  <2>1. TypeOK'
    BY <1>11 DEF TypeOK, SetupLabels,
     RunReturns, CloseAndReturn, NoSocket, Goto
  <2>2. TargetInv' /\ ipaddr' = ipaddr /\ ipaddr # NoAddr
    BY <1>11, TargetFrame DEF SetupLabels, RunReturns, CloseAndReturn, NoSocket, Goto
  <2>3. SocketInv'
    BY <1>11, <2>2 DEF SocketInv, SocketFitsTarget, SetupLabels,
     AfterMark, AfterDf, AfterTclass, AfterTTL, AfterIface, AfterSource,
     TypeOK, TargetInv, RunReturns, CloseAndReturn, NoSocket, Goto
  <2> QED BY <2>1, <2>2, <2>3
<1>12. CASE WriteRefused
  <2>1. TypeOK'
    BY <1>12 DEF TypeOK, SetupLabels, WriteRefused, Skip, Goto
  <2>2. TargetInv'
    BY <1>12, TargetFrame DEF SetupLabels, WriteRefused, Skip, Goto
  <2>3. SocketInv'
    BY <1>12 DEF SocketInv, SocketFitsTarget, SetupLabels, WriteRefused, Skip, Goto
  <2> QED BY <2>1, <2>2, <2>3
<1> QED BY <1>1, <1>2, <1>3, <1>4, <1>5, <1>6, <1>7, <1>8, <1>9, <1>10, <1>11, <1>12

-----------------------------------------------------------------------------
\* SetupInv is an invariant.
LEMMA SetupInvariant == Spec => []SetupInv
<1>1. ASSUME SetupInv, [Next]_vars PROVE SetupInv'
  <2>1. CASE UNCHANGED vars \/ Crashed
    <3>1. /\ UNCHANGED <<platform, pc, caller, opts, network, addr, ipaddr, ipv4>>
          /\ UNCHANGED <<oldAddr, sock, stopped>>
      BY <2>1 DEF Crashed, vars
    <3>2. TypeOK'
      BY <1>1, <3>1 DEF SetupInv, TypeOK
    <3>3. Settled' = Settled
      BY <3>1 DEF Settled, SettingAddr
    <3>4. TargetInv'
      BY <1>1, <3>1, <3>3 DEF SetupInv, TargetInv, IsAddrOf
    <3>5. SocketInv'
      BY <1>1, <3>1 DEF SetupInv, SocketInv, SocketFitsTarget, Family
    <3> QED BY <3>2, <3>4, <3>5 DEF SetupInv
  <2>2. CASE Next /\ ~Crashed
    BY <1>1, <2>2, TargetStep, SocketStep DEF Next
  <2> QED BY <1>1, <2>1, <2>2
<1> QED BY <1>1, SetupInit, PTL DEF Spec

\* Every variable of the set-up keeps its type.
THEOREM SetupTypeCorrect == Spec => []TypeOK
<1>1. SetupInv => TypeOK BY DEF SetupInv
<1> QED BY <1>1, SetupInvariant, PTL

\* The socket is open exactly while Run needs it, whichever step of its set-up
\* fails, and has the family of the address it sends to.
THEOREM SocketsFit == Spec => []SocketFitsTarget
<1>1. SetupInv => SocketFitsTarget BY DEF SetupInv, SocketInv
<1> QED BY <1>1, SetupInvariant, PTL

\* After any sequence of SetAddr, SetIPAddr, SetNetwork and Resolve, failed ones
\* included, IPAddr is an address of Addr.
THEOREM AddrsMatch == Spec => []AddrMatchesIPAddr
<1>1. SetupInv => AddrMatchesIPAddr
  BY DEF SetupInv, TargetInv, Settled, AddrMatchesIPAddr
<1> QED BY <1>1, SetupInvariant, PTL

\* Both ways of looking a name up store an address of the family the network
\* asks for, for every resolver; no other step of a look-up stores one.
THEOREM FamilyIsAskedFor == Spec => ResolveObeysNetwork
<1>1. ASSUME SetupInv, Next, pc = "resolve", ipaddr' # ipaddr
      PROVE  Family(ipaddr') = FamilyFor(network, addr)
  <2>1. ResolveOK
    <3>1. CASE \/ (\E f \in DOMAIN Values : SetOption(f))
               \/ (\E n \in {"ip", "ip4", "ip6", "tcp"} : SetNetwork(n))
               \/ (\E ip \in IPs : SetIPAddr(ip))
               \/ (\E name \in Names \cup {Empty} : SetAddr(name)) \/ SetAddrFails
               \/ CallResolve \/ RunTooSmall \/ Run \/ ListenFails
      BY <1>1, <3>1 DEF SetOption, SetNetwork, SetIPAddr, SetAddr, SetAddrFails,
                        CallResolve, RunTooSmall, Run, ListenFails
    <3>2. CASE \/ ListenOK \/ InstallICMPIDFilter \/ SetMark \/ SetDoNotFragment
               \/ SetTrafficClass \/ SetTTL \/ SetIfIndex \/ SetSource \/ SetFlagTTL
               \/ Start \/ WriteRefused \/ RunReturns \/ Crashed
      BY <1>1, <3>2 DEF ListenOK, InstallICMPIDFilter, SetMark, SetDoNotFragment,
                        SetTrafficClass, SetTTL, SetIfIndex, SetSource, SetFlagTTL,
                        Start, WriteRefused, RunReturns, Crashed
    <3>3. CASE ResolveFails BY <1>1, <3>3 DEF ResolveFails, targetVars
    <3> QED BY <1>1, <3>1, <3>2, <3>3 DEF Next
  <2>2. PICK i \in IF opts.ResolveTimeout > 0 THEN LookupWithTimeout(LookupIP)
                                               ELSE ResolveIPAddr(LookupIP) :
          ipaddr' = DNS[addr][i]
    BY <2>1 DEF ResolveOK
  <2>3. addr \in Names BY <1>1, <2>1 DEF ResolveOK, SetupInv, TypeOK
  <2> QED BY <1>1, <2>2, <2>3, PickedAddress DEF SetupInv, TypeOK
<1>2. SetupInv /\ [Next]_vars
        => [pc = "resolve" /\ ipaddr' # ipaddr
              => Family(ipaddr') = FamilyFor(network, addr)]_vars
  BY <1>1
<1> QED BY <1>2, SetupInvariant, PTL DEF Spec, ResolveObeysNetwork

\* No run starts without an option that was asked for, on any platform.
THEOREM OptionsInForce == Spec => []OptionsAreInForce
<1>1. SetupInv => OptionsAreInForce
  BY DEF SetupInv, SocketInv, OptionsAreInForce, SetupLabels,
         AfterMark, AfterDf, AfterTclass, AfterTTL, AfterIface, AfterSource
<1> QED BY <1>1, SetupInvariant, PTL

-----------------------------------------------------------------------------
(***************************************************************************)
(* Whether a run that has started can recognise a reply.                   *)
(***************************************************************************)
\* The options that matter have their types; the size was checked by Run and is
\* not changed while it is on its way; only privileged sockets have a filter.
ReplyInv ==
  /\ opts.id \in Int /\ opts.Size \in Int /\ opts.protocol \in {"udp", "icmp"}
  /\ caller = "Run" \/ pc \in {"listen"} \cup SetupLabels => opts.Size >= PayloadHeader
  /\ pc \in SetupLabels => sock.filter \in BOOLEAN
  /\ pc \in SetupLabels /\ sock.filter => opts.protocol = "icmp"
  /\ pc = "filter" => opts.protocol = "icmp"

\* The application's calls.
LEMMA ReplyTargetStep ==
  ASSUME SetupInv, ReplyInv,
         \/ (\E f \in DOMAIN Values : SetOption(f))
         \/ (\E n \in {"ip", "ip4", "ip6", "tcp"} : SetNetwork(n))
         \/ (\E ip \in IPs : SetIPAddr(ip))
         \/ (\E name \in Names \cup {Empty} : SetAddr(name)) \/ SetAddrFails
         \/ CallResolve \/ ResolveFails \/ ResolveOK
         \/ RunTooSmall \/ Run \/ ListenFails
  PROVE  ReplyInv'
<1>1. CASE \E f \in DOMAIN Values : SetOption(f)
  <2>1. PICK f \in DOMAIN Values : SetOption(f) BY <1>1
  <2>2. PICK v \in Values[f] : opts' = [opts EXCEPT ![f] = v] BY <2>1 DEF SetOption
  <2>3. DOMAIN opts = DOMAIN Defaults BY DEF SetupInv, TypeOK
  <2>4. opts'.id \in Int /\ opts'.Size \in Int /\ opts'.protocol \in {"udp", "icmp"}
    <3>1. DOMAIN opts = DOMAIN Defaults
          /\ {"id", "Size", "protocol"} \subseteq DOMAIN Defaults
      BY <2>3 DEF Defaults
    <3>2. opts'.id \in Int
      BY <2>2, <3>1, SetupAssumption DEF ReplyInv, SetupAssumption
    <3>3. opts'.Size \in Int
      BY <2>2, <3>1, SetupAssumption DEF ReplyInv, SetupAssumption
    <3>4. opts'.protocol \in {"udp", "icmp"}
      BY <2>2, <3>1, SetupAssumption DEF ReplyInv, SetupAssumption
    <3> QED BY <3>2, <3>3, <3>4
  <2>5. pc' = "idle" /\ caller' = "none"
    BY <2>1 DEF SetOption, SetupInv, TargetInv
  <2> QED BY <2>4, <2>5 DEF ReplyInv, SetupLabels
<1>2. CASE \/ (\E n \in {"ip", "ip4", "ip6", "tcp"} : SetNetwork(n))
           \/ (\E ip \in IPs : SetIPAddr(ip)) \/ RunTooSmall
  <2>1. UNCHANGED <<opts, pc, caller, sock>>
    BY <1>2 DEF SetNetwork, SetIPAddr, RunTooSmall, vars
  <2> QED BY <2>1 DEF ReplyInv
<1>3. CASE \/ (\E name \in Names \cup {Empty} : SetAddr(name)) \/ SetAddrFails
           \/ CallResolve \/ ResolveFails \/ ListenFails
  <2>1. opts' = opts /\ pc' \in {"idle", "resolve", "restore"}
        /\ (caller' = "Run" => caller = "Run")
    BY <1>3 DEF SetAddr, SetAddrFails, CallResolve, ResolveFails, ListenFails, Goto
  <2> QED BY <2>1 DEF ReplyInv, SetupLabels
<1>4. CASE ResolveOK
  <2>1. opts' = opts /\ pc' = (IF caller = "Run" THEN "listen" ELSE "idle")
        /\ caller' = "none"
    BY <1>4 DEF ResolveOK, Goto
  <2> QED BY <2>1 DEF ReplyInv, SetupLabels
<1>5. CASE Run
  <2>1. opts' = opts /\ pc' \in {"resolve", "listen"} /\ opts.Size >= PayloadHeader
    BY <1>5 DEF Run, Goto
  <2> QED BY <2>1 DEF ReplyInv, SetupLabels
<1> QED BY <1>1, <1>2, <1>3, <1>4, <1>5

\* The steps that open, configure and close the socket.
LEMMA ReplySocketStep ==
  ASSUME SetupInv, ReplyInv,
         \/ ListenOK \/ InstallICMPIDFilter \/ SetMark \/ SetDoNotFragment
         \/ SetTrafficClass \/ SetTTL \/ SetIfIndex \/ SetSource \/ SetFlagTTL
         \/ Start \/ WriteRefused \/ RunReturns
  PROVE  ReplyInv'
<1>1. opts' = opts /\ caller' = caller
  BY DEF ListenOK, InstallICMPIDFilter, SetMark, SetDoNotFragment, SetTrafficClass,
         SetTTL, SetIfIndex, SetSource, SetFlagTTL, Start,
         WriteRefused, RunReturns, setupFrame
<1>2. DOMAIN sock = DOMAIN NoSocket BY DEF SetupInv, TypeOK
<1>3. CASE ListenOK
  <2>1. pc' = (IF opts.protocol = "icmp" THEN "filter" ELSE "mark")
        /\ sock'.filter = FALSE /\ pc = "listen"
    BY <1>3 DEF ListenOK, Goto, NoSocket
  <2> QED BY <1>1, <2>1 DEF ReplyInv, SetupLabels
<1>4. CASE InstallICMPIDFilter
  <2>1. PICK r : /\ sock' = [sock EXCEPT !.filter = (r = "ok")]
                 /\ pc' = IF r = "error" /\ opts.logger = "nil" THEN "panic" ELSE "mark"
    BY <1>4 DEF InstallICMPIDFilter, Goto
  <2>2. sock'.filter \in BOOLEAN
    <3>1. sock'.filter = (r = "ok") BY <1>2, <2>1, Fields
    <3> QED BY <3>1, Zenon
  <2>3. pc = "filter" BY <1>4 DEF InstallICMPIDFilter
  <2> QED BY <1>1, <2>1, <2>2, <2>3 DEF ReplyInv, SetupLabels
<1>5. ASSUME NEW f \in DOMAIN NoSocket \ {"filter"}, NEW r, NEW next \in SetupLabels,
             Apply(f, r, next) \/ Skip(next), pc \in SetupLabels, next # "filter"
      PROVE  ReplyInv'
  <2>1. \/ sock'.filter = sock.filter /\ pc' = next
        \/ pc' = "idle"
    BY <1>2, <1>5, Fields DEF Apply, Skip, CloseAndReturn, Goto
  <2> QED BY <1>1, <1>5, <2>1 DEF ReplyInv, SetupLabels
<1>6. CASE \/ SetMark \/ SetDoNotFragment \/ SetTrafficClass \/ SetTTL \/ SetIfIndex
           \/ SetSource
  <2>1. {"mark", "df", "tclass", "TTL", "InterfaceName", "Source"}
          \subseteq DOMAIN NoSocket \ {"filter"}
    BY Fields
  <2>2. {"df", "tclass", "ttl", "iface", "source", "flagTTL"} \subseteq SetupLabels \ {"filter"}
    BY DEF SetupLabels
  <2>3. pc \in SetupLabels
    BY <1>6 DEF SetMark, SetDoNotFragment, SetTrafficClass, SetTTL, SetIfIndex, SetSource,
                SetupLabels
  <2>4. \/ \E r : Apply("mark", r, "df") \/ Skip("df")
        \/ \E r : Apply("df", r, "tclass") \/ Skip("tclass")
        \/ \E r : Apply("tclass", r, "ttl") \/ Skip("ttl")
        \/ \E r : Apply("TTL", r, "iface") \/ Skip("iface")
        \/ \E r : Apply("InterfaceName", r, "source") \/ Skip("source")
        \/ \E r : Apply("Source", r, "flagTTL") \/ Skip("flagTTL")
    BY <1>6, Zenon
       DEF SetMark, SetDoNotFragment, SetTrafficClass, SetTTL, SetIfIndex, SetSource
  <2> QED BY <1>5, <2>1, <2>2, <2>3, <2>4, Zenon
<1>7. CASE SetFlagTTL
  <2>1. pc = "flagTTL" /\ ((pc' = "start" /\ sock' = sock) \/ pc' = "idle")
    BY <1>7 DEF SetFlagTTL, Skip, CloseAndReturn, Goto
  <2> QED BY <1>1, <2>1 DEF ReplyInv, SetupLabels
<1>8. CASE Start
  <2>1. pc = "start" /\ sock' = sock
        /\ pc' \in {"running", "panic"}
    BY <1>8 DEF Start, Skip, Goto
  <2> QED BY <1>1, <2>1 DEF ReplyInv, SetupLabels
<1>9. CASE RunReturns
  <2>1. pc = "running" /\ pc' = "idle" BY <1>9 DEF RunReturns, CloseAndReturn, Goto
  <2> QED BY <1>1, <2>1 DEF ReplyInv, SetupLabels
<1>10. CASE WriteRefused
  <2>1. pc' = "panic" BY <1>10 DEF WriteRefused, Skip, Goto
  <2> QED BY <1>1, <2>1 DEF ReplyInv, SetupLabels, SetupInv, TargetInv
<1> QED BY <1>3, <1>4, <1>6, <1>7, <1>8, <1>9, <1>10

\* ReplyInv is an invariant.
LEMMA ReplyInvariant == Spec => []ReplyInv
<1>1. Init => ReplyInv
  BY DEF Init, ReplyInv, Defaults, PayloadHeader, SetupLabels
<1>2. ASSUME SetupInv, ReplyInv, [Next]_vars PROVE ReplyInv'
  <2>1. CASE UNCHANGED vars \/ Crashed
    BY <1>2, <2>1 DEF Crashed, vars, ReplyInv
  <2>2. CASE Next /\ ~Crashed
    BY <1>2, <2>2, ReplyTargetStep, ReplySocketStep DEF Next
  <2> QED BY <1>2, <2>1, <2>2
<1> QED BY <1>1, <1>2, SetupInvariant, PTL DEF Spec

\* On every platform, with every option and for every width of the fields, a
\* Pinger recognises the replies to its own requests exactly if its identifier
\* fits the header (or the kernel chooses it), and reads the time back.
THEOREM OwnRepliesRecognised == Spec => []OwnReplyIsRecognised
<1>1. ASSUME SetupInv, ReplyInv PROVE OwnReplyIsRecognised
  <2> SUFFICES ASSUME pc = "running", NEW nsec \in Clock
               PROVE  LET family == SocketFamily
                          reply == Reply(Request(family, opts.id, opts.Size, nsec),
                                         platform, opts.protocol)
                          raw == ReadFrom(reply, platform, opts.protocol, opts.Size)
                          packet == IF ipv4 THEN stripIPv4Header(raw) ELSE raw
                      IN  /\ Accepts(packet, platform, opts.protocol, family, opts.id)
                             /\ (sock.filter => FilterAccepts(reply, opts.id))
                               <=> \/ opts.id \in 0..IDs - 1
                                   \/ platform = "linux" /\ opts.protocol = "udp"
                          /\ packet.nbytes = opts.Size + ICMPHeader
                          /\ bytesToTime(packet.frame.time) = nsec
    BY Zenon DEF OwnReplyIsRecognised
  <2>1. PICK id, size, protocol, filter, fam :
          /\ id \in Int /\ size \in Int /\ size >= PayloadHeader
          /\ protocol \in {"udp", "icmp"} /\ filter \in BOOLEAN
          /\ filter => protocol = "icmp"
          /\ fam \in {"ip4", "ip6"} /\ (ipv4 <=> fam = "ip4")
          /\ opts.id = id /\ opts.Size = size /\ opts.protocol = protocol
          /\ sock.filter = filter /\ SocketFamily = fam
    BY <1>1 DEF ReplyInv, SetupLabels, SocketFamily
  <2>2. platform \in Platforms BY <1>1 DEF SetupInv, TypeOK
  <2>3. bytesToTime(timeToBytes(nsec)) = nsec
    <3>1. nsec \in -(Modulus \div 2)..(Modulus - 1) \div 2
      BY SetupAssumption, Zenon DEF SetupAssumption
    <3> QED BY <3>1, TimeRoundTrip
  <2> DEFINE reply == Reply(Request(fam, id, size, nsec), platform, protocol)
             raw == ReadFrom(reply, platform, protocol, size)
             packet == IF fam = "ip4" THEN stripIPv4Header(raw) ELSE raw
  <2>4. /\ Accepts(packet, platform, protocol, fam, id)
           /\ (filter => FilterAccepts(reply, id))
             <=> \/ id \in 0..IDs - 1
                 \/ platform = "linux" /\ protocol = "udp"
        /\ packet.nbytes = size + ICMPHeader
        /\ packet.frame.time = timeToBytes(nsec)
    BY <2>1, <2>2, ReplyRecognised
  <2> QED BY <2>1, <2>3, <2>4, Zenon
<1> QED BY <1>1, SetupInvariant, ReplyInvariant, PTL
=============================================================================

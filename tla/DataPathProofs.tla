--------------------------- MODULE DataPathProofs ---------------------------
(***************************************************************************)
(* Proofs about DataPath, for any destinations, rules, upstreams, clients  *)
(* and environments.                                                       *)
(***************************************************************************)
EXTENDS DataPath, WellFoundedInduction, TLAPS

(* The types of what a configuration is made from.                         *)
Typed ==
    /\ env \in Env /\ hy2 \in Hy2 /\ peer \in Device
    /\ rules \in Seq(Rule)
    /\ dns \in Settings

LEMMA TypedInit == Init => Typed
BY PathAssumption, ServerAssumption DEF Init, Typed, Settings, DefaultSettings

LEMMA TypedNext == Typed /\ [Next]_vars => Typed'
<1> SUFFICES ASSUME Typed, [Next]_vars PROVE Typed'
  OBVIOUS
<1> USE PathAssumption
<1>1. CASE Reconfigure
  BY <1>1 DEF Reconfigure, Typed
<1>2. CASE ChangeRules
  <2>1. rules' \in Seq(Rule)
    <3>1. CASE \E rule \in RuleKinds : Len(rules) < MaxRules /\ rules' = Append(rules, rule)
      BY <3>1 DEF Typed
    <3>2. ASSUME NEW i \in DOMAIN rules,
                 rules' = SubSeq(rules, 1, i - 1) \o SubSeq(rules, i + 1, Len(rules))
          PROVE  rules' \in Seq(Rule)
      BY <3>2 DEF Typed
    <3>3. ASSUME NEW i \in DOMAIN rules, rules' = [rules EXCEPT ![i].active = ~@]
          PROVE  rules' \in Seq(Rule)
      <4>1. rules[i] \in Rule
        BY DEF Typed
      <4>2. [rules[i] EXCEPT !.active = ~@] \in Rule
        BY <4>1 DEF Rule
      <4>3. QED
        BY <3>3, <4>2 DEF Typed
    <3>4. QED
      BY <1>2, <3>1, <3>2, <3>3 DEF ChangeRules
  <2>2. QED
    BY <1>2, <2>1 DEF ChangeRules, Typed
<1>3. CASE UpdateSettings
  BY <1>3 DEF UpdateSettings, Typed, Settings
<1>4. CASE TogglePeer
  BY <1>4 DEF TogglePeer, Typed, Device
<1>5. CASE UNCHANGED vars
  BY <1>5 DEF vars, Typed
<1>6. QED
  BY <1>1, <1>2, <1>3, <1>4, <1>5 DEF Next

LEMMA AlwaysTyped == Spec => []Typed
BY TypedInit, TypedNext, PTL DEF Spec

-----------------------------------------------------------------------------
(* --------------------------- the client's side ------------------------- *)

(* A rule is asked of a connection.                                        *)
Matches(config, i, app, d) == d \in config.rules[i].to /\ app \in config.rules[i].from

(* A set of places has a least one.                                        *)
LEMMA LeastPlace ==
  ASSUME NEW S, S \subseteq Nat, S # {}
  PROVE  LET i == CHOOSE i \in S : \A j \in S : i <= j
         IN  i \in S /\ \A j \in S : i <= j
<1>1. \E i \in S : \A j \in S : i <= j
  <2> DEFINE R == {pair \in Nat \X Nat : pair[1] < pair[2]}
  <2>1. IsWellFoundedOn(R, Nat)
    BY NatLessThanWellFounded, Zenon DEF OpToRel
  <2> HIDE DEF R
  <2>2. PICK i \in S : \A j \in S : <<j, i>> \notin R
    BY <2>1, WFMin
  <2>3. \A j \in S : ~(j < i)
    BY <2>2 DEF R
  <2>4. QED
    BY <2>3
<1>2. QED
  BY <1>1

(* Two lists, one after the other.                                         *)
Joined(S, s, t, m, k) ==
    /\ s \o t \in Seq(S) /\ Len(s \o t) = m + k /\ DOMAIN (s \o t) = 1 .. m + k
    /\ \A i \in 1 .. m : (s \o t)[i] = s[i]
    /\ \A i \in 1 .. k : (s \o t)[m + i] = t[i]

LEMMA Concatenated ==
  ASSUME NEW S, NEW s \in Seq(S), NEW t \in Seq(S),
         NEW m \in Nat, NEW k \in Nat, Len(s) = m, Len(t) = k
  PROVE  Joined(S, s, t, m, k)
BY DEF Joined

(* If the first m rules go directly and one of them matches, so does the   *)
(* connection.                                                             *)
LEMMA RouteDirect ==
  ASSUME NEW config, NEW app, NEW d, NEW n \in Nat, DOMAIN config.rules = 1 .. n,
         NEW m \in Nat, m <= n,
         \A i \in 1 .. m : config.rules[i].outbound = "direct-out",
         \E i \in 1 .. m : Matches(config, i, app, d)
  PROVE  ClientRoute(config, app, d) = "direct-out"
<1> DEFINE hits == {i \in DOMAIN config.rules :
                       d \in config.rules[i].to /\ app \in config.rules[i].from}
           first == CHOOSE i \in hits : \A j \in hits : i <= j
<1>1. hits \subseteq Nat /\ \E i \in 1 .. m : i \in hits
  BY DEF Matches
<1>2. first \in hits /\ first \in 1 .. m
  <2> HIDE DEF hits
  <2>1. first \in hits /\ \A j \in hits : first <= j
    BY <1>1, LeastPlace
  <2> HIDE DEF first
  <2>2. first \in Nat /\ first <= m
    BY <1>1, <2>1
  <2>3. first >= 1
    BY <2>1 DEF hits
  <2>4. QED
    BY <2>1, <2>2, <2>3
<1>3. ClientRoute(config, app, d) = config.rules[first].outbound
  BY <1>2 DEF ClientRoute, FirstOf
<1>4. QED
  BY <1>2, <1>3

(* If all that match go to the server, so does the connection.             *)
LEMMA RouteProxy ==
  ASSUME NEW config, NEW app, NEW d, NEW n \in Nat, DOMAIN config.rules = 1 .. n,
         \A i \in 1 .. n : Matches(config, i, app, d) => config.rules[i].outbound = "proxy",
         config.final = "proxy"
  PROVE  ClientRoute(config, app, d) = "proxy"
<1> DEFINE hits == {i \in DOMAIN config.rules :
                       d \in config.rules[i].to /\ app \in config.rules[i].from}
           first == CHOOSE i \in hits : \A j \in hits : i <= j
<1>1. CASE hits = {}
  BY <1>1 DEF ClientRoute, FirstOf
<1>2. CASE hits # {}
  <2>1. first \in hits
    <3>1. hits \subseteq Nat
      OBVIOUS
    <3> HIDE DEF hits
    <3>2. QED
      BY <1>2, <3>1, LeastPlace
  <2>2. ClientRoute(config, app, d) = config.rules[first].outbound
    BY <1>2 DEF ClientRoute, FirstOf
  <2>3. QED
    BY <2>1, <2>2 DEF Matches
<1>3. QED
  BY <1>1, <1>2

(* On Android, in the mode with a tunnel, applications are told apart.     *)
Inside == peer.device = "android" /\ peer.mode # "proxy"

LEMMA ClientRules ==
  /\ Client.final = "proxy"
  /\ Client.excluded = (IF Inside THEN Excluded ELSE {})
  /\ DOMAIN Client.rules = 1 .. (IF Inside THEN 6 ELSE 5)
  /\ Client.rules[1] = To({Endpoint}, "direct-out")
  /\ Client.rules[2] = To(Private, "direct-out")
  /\ Client.rules[3] = To(RuZone, "direct-out")
  /\ Client.rules[4] = To(RuDirect, "direct-out")
  /\ Inside => /\ Client.rules[5] = [to |-> Dests, from |-> DirectApps, outbound |-> "direct-out"]
               /\ Client.rules[6] = To(Abroad, "proxy")
  /\ ~Inside => Client.rules[5] = To(Abroad, "proxy")
<1> DEFINE apps == [to |-> Dests, from |-> DirectApps, outbound |-> "direct-out"]
           S    == { To({Endpoint}, "direct-out"), To(Private, "direct-out"),
                     To(RuZone, "direct-out"), To(RuDirect, "direct-out"),
                     To(Abroad, "proxy"), apps }
<1>1. /\ To({Endpoint}, "direct-out") \in S /\ To(Private, "direct-out") \in S
      /\ To(RuZone, "direct-out") \in S /\ To(RuDirect, "direct-out") \in S
      /\ To(Abroad, "proxy") \in S /\ apps \in S
  OBVIOUS
<1> HIDE DEF S, apps
<1>2. /\ BuildBaseRules \in Seq(S) /\ Len(BuildBaseRules) = 4
      /\ BuildBaseRules[1] = To({Endpoint}, "direct-out")
      /\ BuildBaseRules[2] = To(Private, "direct-out")
      /\ BuildBaseRules[3] = To(RuZone, "direct-out")
      /\ BuildBaseRules[4] = To(RuDirect, "direct-out")
  <2> DEFINE s == <<To({Endpoint}, "direct-out"), To(Private, "direct-out")>>
             t == <<To(RuZone, "direct-out"), To(RuDirect, "direct-out")>>
  <2>1. /\ s \in Seq(S) /\ Len(s) = 2
        /\ s[1] = To({Endpoint}, "direct-out") /\ s[2] = To(Private, "direct-out")
    BY <1>1
  <2>2. /\ t \in Seq(S) /\ Len(t) = 2
        /\ t[1] = To(RuZone, "direct-out") /\ t[2] = To(RuDirect, "direct-out")
    BY <1>1
  <2>3. BuildBaseRules = s \o t
    BY DEF BuildBaseRules, BuildDirectDomainRules
  <2> HIDE DEF s, t
  <2>4. Joined(S, s, t, 2, 2)
    BY <2>1, <2>2, Concatenated
  <2>5. (s \o t)[2 + 1] = t[1] /\ (s \o t)[2 + 2] = t[2]
    BY <2>4 DEF Joined
  <2>6. QED
    BY <2>1, <2>2, <2>3, <2>4, <2>5 DEF Joined
<1>3. /\ BuildProxyDomains \in Seq(S) /\ Len(BuildProxyDomains) = 1
      /\ BuildProxyDomains[1] = To(Abroad, "proxy")
  BY <1>1 DEF BuildProxyDomains
<1>4. CASE Inside
  <2> DEFINE s == BuildBaseRules \o BuildPackageNameRules
  <2>1. Client.rules = s \o BuildProxyDomains
    BY <1>4 DEF Inside, Client, BuildClientConfigMap, BuildTunConfigMap
  <2>2. /\ BuildPackageNameRules \in Seq(S) /\ Len(BuildPackageNameRules) = 1
        /\ BuildPackageNameRules[1] = apps
    BY <1>1 DEF BuildPackageNameRules, apps
  <2>3. Joined(S, BuildBaseRules, BuildPackageNameRules, 4, 1)
    BY <1>2, <2>2, Concatenated
  <2>4. s \in Seq(S) /\ Len(s) = 5 /\ s[4 + 1] = apps
    BY <2>2, <2>3 DEF Joined
  <2>5. \A i \in 1 .. 4 : s[i] = BuildBaseRules[i]
    BY <2>3 DEF Joined
  <2> HIDE DEF s
  <2>6. Joined(S, s, BuildProxyDomains, 5, 1)
    BY <1>3, <2>4, Concatenated
  <2>7. /\ DOMAIN Client.rules = 1 .. 6 /\ Client.rules[5 + 1] = To(Abroad, "proxy")
        /\ \A i \in 1 .. 5 : Client.rules[i] = s[i]
    BY <1>3, <2>1, <2>6 DEF Joined
  <2>8. Client.final = "proxy" /\ Client.excluded = Excluded
    BY <1>4 DEF Inside, Client, BuildClientConfigMap, BuildTunConfigMap
  <2>9. QED
    BY <1>2, <1>4, <2>4, <2>5, <2>7, <2>8 DEF apps
<1>5. CASE ~Inside
  <2>1. Client.rules = BuildBaseRules \o BuildProxyDomains
    <3>1. CASE peer.mode = "proxy"
      BY <3>1 DEF Client, BuildClientConfigMap, BuildProxyConfigMap
    <3>2. CASE peer.mode # "proxy"
      <4>1. BuildBaseRules \o <<>> = BuildBaseRules
        BY <1>2
      <4>2. QED
        BY <1>5, <3>2, <4>1 DEF Inside, Client, BuildClientConfigMap, BuildTunConfigMap
    <3>3. QED
      BY <3>1, <3>2
  <2>2. Joined(S, BuildBaseRules, BuildProxyDomains, 4, 1)
    BY <1>2, <1>3, Concatenated
  <2>3. /\ DOMAIN Client.rules = 1 .. 5 /\ Client.rules[4 + 1] = To(Abroad, "proxy")
        /\ \A i \in 1 .. 4 : Client.rules[i] = BuildBaseRules[i]
    BY <1>3, <2>1, <2>2 DEF Joined
  <2>4. Client.final = "proxy" /\ Client.excluded = {}
    BY <1>5 DEF Inside, Client, BuildClientConfigMap, BuildTunConfigMap, BuildProxyConfigMap
  <2>5. QED
    BY <1>2, <1>5, <2>3, <2>4
<1>6. QED
  BY <1>4, <1>5

(* What the client connects to directly, and what by way of the server.    *)
LEMMA ClientRoutes ==
  ASSUME NEW app \in Packages, NEW d \in Dests
  PROVE  ClientRoute(Client, app, d) =
            IF StaysOut(d) \/ (Inside /\ app \in DirectApps) THEN "direct-out" ELSE "proxy"
<1> DEFINE n == IF Inside THEN 6 ELSE 5
<1>1. n \in Nat /\ DOMAIN Client.rules = 1 .. n /\ n >= 5 /\ (Inside => n = 6)
  BY ClientRules
<1> HIDE DEF n
<1>2. CASE StaysOut(d)
  <2>1. \A i \in 1 .. 4 : Client.rules[i].outbound = "direct-out"
    BY ClientRules DEF To
  <2>2. \E i \in 1 .. 4 : Matches(Client, i, app, d)
    BY <1>2, ClientRules DEF StaysOut, Matches, To
  <2>3. ClientRoute(Client, app, d) = "direct-out"
    BY <1>1, <2>1, <2>2, RouteDirect
  <2>4. QED
    BY <1>2, <2>3
<1>3. CASE Inside /\ app \in DirectApps
  <2>1. \A i \in 1 .. 5 : Client.rules[i].outbound = "direct-out"
    BY <1>3, ClientRules DEF To
  <2>2. Matches(Client, 5, app, d)
    BY <1>3, ClientRules DEF Matches
  <2>3. ClientRoute(Client, app, d) = "direct-out"
    BY <1>1, <2>1, <2>2, RouteDirect
  <2>4. QED
    BY <1>3, <2>3
<1>4. CASE ~StaysOut(d) /\ ~(Inside /\ app \in DirectApps)
  <2>1. \A i \in 1 .. n : Matches(Client, i, app, d) => Client.rules[i].outbound = "proxy"
    <3>1. \A i \in 1 .. 4 : ~Matches(Client, i, app, d)
      BY <1>4, ClientRules DEF StaysOut, Matches, To
    <3>2. CASE Inside
      <4>1. ~Matches(Client, 5, app, d) /\ Client.rules[6].outbound = "proxy"
        BY <1>4, <3>2, ClientRules DEF Matches, To
      <4>2. QED
        BY <1>1, <3>1, <3>2, <4>1
    <3>3. CASE ~Inside
      <4>1. Client.rules[5].outbound = "proxy" /\ n = 5
        BY <3>3, ClientRules DEF To, n
      <4>2. QED
        BY <3>1, <4>1
    <3>4. QED
      BY <3>2, <3>3
  <2>2. ClientRoute(Client, app, d) = "proxy"
    BY <1>1, <2>1, ClientRules, RouteProxy
  <2>3. QED
    BY <1>4, <2>2
<1>5. QED
  BY <1>2, <1>3, <1>4

(* The client's DNS servers and the rules that choose among them.          *)
LEMMA ClientDNS ==
  /\ Client.dns.servers = BuildClientDNSServers
  /\ Client.dns.final = "dns-foreign"
  /\ Client.resolver = "dns-foreign"
  /\ \E n \in {2, 3} :
        /\ DOMAIN Client.dns.rules = 1 .. n
        /\ Client.dns.rules[1] = DNSRule(RuZone, "dns-ru")
        /\ Client.dns.rules[2] = DNSRule(RuDirect, "dns-ru")
        /\ n = 3 => Client.dns.rules[3] = DNSRule(Dests, "dns-foreign")
<1> DEFINE S == {DNSRule(RuZone, "dns-ru"), DNSRule(RuDirect, "dns-ru"),
                   DNSRule(Dests, "dns-foreign")}
<1>1. /\ DirectDNSRules \in Seq(S) /\ Len(DirectDNSRules) = 2
      /\ DirectDNSRules[1] = DNSRule(RuZone, "dns-ru")
      /\ DirectDNSRules[2] = DNSRule(RuDirect, "dns-ru")
  BY DEF DirectDNSRules
<1>2. DNSRule(Dests, "dns-foreign") \in S
  OBVIOUS
<1> HIDE DEF S
<1>3. CASE peer.mode = "proxy"
  <2>1. Client.dns = BuildProxyDNSConfig /\ Client.resolver = "dns-foreign"
    BY <1>3 DEF Client, BuildClientConfigMap, BuildProxyConfigMap
  <2>2. DOMAIN Client.dns.rules = 1 .. 2 /\ Client.dns.rules = DirectDNSRules
    BY <1>1, <2>1 DEF BuildProxyDNSConfig
  <2>3. QED
    BY <1>1, <2>1, <2>2 DEF BuildProxyDNSConfig
<1>4. CASE peer.mode # "proxy"
  <2>1. Client.dns = BuildClientDNSConfig /\ Client.resolver = "dns-foreign"
    BY <1>4 DEF Client, BuildClientConfigMap, BuildTunConfigMap
  <2> DEFINE t == <<DNSRule(Dests, "dns-foreign")>>
  <2>2. t \in Seq(S) /\ Len(t) = 1 /\ t[1] = DNSRule(Dests, "dns-foreign")
    BY <1>2
  <2>3. Client.dns.rules = DirectDNSRules \o t
    BY <2>1 DEF BuildClientDNSConfig
  <2> HIDE DEF t
  <2>4. Joined(S, DirectDNSRules, t, 2, 1)
    BY <1>1, <2>2, Concatenated
  <2>5. Client.dns.rules[2 + 1] = DNSRule(Dests, "dns-foreign")
    BY <2>2, <2>3, <2>4 DEF Joined
  <2>6. /\ DOMAIN Client.dns.rules = 1 .. 3
        /\ Client.dns.rules[1] = DirectDNSRules[1] /\ Client.dns.rules[2] = DirectDNSRules[2]
    BY <2>3, <2>4 DEF Joined
  <2>7. QED
    BY <1>1, <2>1, <2>5, <2>6 DEF BuildClientDNSConfig
<1>5. QED
  BY <1>3, <1>4

(* A name is asked of the first server with a tag.                         *)
AskedOf(tag) == FirstOf(BuildClientDNSServers, LAMBDA s : s.tag = tag)

LEMMA ServerOfTag ==
  ASSUME NEW tag \in {"dns-ru", "dns-foreign"}
  PROVE  AskedOf(tag) =
            {[tag |-> tag, detour |-> IF tag = "dns-ru" THEN "none" ELSE "proxy"]}
<1> DEFINE list == BuildClientDNSServers
           hits == {i \in DOMAIN list : list[i].tag = tag}
           first == CHOOSE i \in hits : \A j \in hits : i <= j
<1>1. /\ DOMAIN list = 1 .. 4
      /\ list[1] = [tag |-> "dns-foreign", detour |-> "proxy"]
      /\ list[2] = [tag |-> "dns-foreign-alt", detour |-> "proxy"]
      /\ list[3] = [tag |-> "dns-ru", detour |-> "none"]
      /\ list[4] = [tag |-> "dns-ru-alt", detour |-> "none"]
  BY DEF BuildClientDNSServers
<1>2. hits = {IF tag = "dns-ru" THEN 3 ELSE 1}
  <2> HIDE DEF list
  <2>1. list[1].tag = "dns-foreign" /\ list[2].tag = "dns-foreign-alt"
        /\ list[3].tag = "dns-ru" /\ list[4].tag = "dns-ru-alt"
    BY <1>1
  <2>2. \A i : i \in hits <=> i \in {1, 2, 3, 4} /\ list[i].tag = tag
    BY <1>1
  <2>3. QED
    BY <2>1, <2>2
<1>3. AskedOf(tag) = {list[first]}
  <2>1. hits # {}
    BY <1>2
  <2>2. QED
    BY <2>1 DEF AskedOf, FirstOf
<1>4. first = IF tag = "dns-ru" THEN 3 ELSE 1
  <2> HIDE DEF hits
  <2>1. QED
    BY <1>2
<1>5. QED
  BY <1>1, <1>3, <1>4

(* Which way the client's DNS asks for the address of a name.              *)
LEMMA Resolves ==
  ASSUME NEW d \in Dests, NEW s \in Answering(Client, d)
  PROVE  s.detour = IF d \in RuZone \cup RuDirect THEN "none" ELSE "proxy"
<1> DEFINE list == Client.dns.rules
           hits == {i \in DOMAIN list : d \in list[i].names}
           first == CHOOSE i \in hits : \A j \in hits : i <= j
           tag == IF hits = {} THEN "dns-foreign" ELSE list[first].server
<1>1. Answering(Client, d) = AskedOf(tag)
  <2> DEFINE hit == FirstOf(list, LAMBDA r : d \in r.names)
  <2>1. Answering(Client, d) =
           AskedOf(IF hit = {} THEN Client.dns.final ELSE (CHOOSE r \in hit : TRUE).server)
    BY ClientDNS DEF Answering, Tagged, AskedOf
  <2>2. hit = IF hits = {} THEN {} ELSE {list[first]}
    BY DEF FirstOf
  <2> HIDE DEF hit, hits, first, list
  <2>3. (IF hit = {} THEN Client.dns.final ELSE (CHOOSE r \in hit : TRUE).server) = tag
    BY <2>2, ClientDNS
  <2>4. QED
    BY <2>1, <2>3
<1>2. tag = IF d \in RuZone \cup RuDirect THEN "dns-ru" ELSE "dns-foreign"
  <2>1. PICK n \in {2, 3} :
           /\ DOMAIN list = 1 .. n
           /\ list[1] = DNSRule(RuZone, "dns-ru") /\ list[2] = DNSRule(RuDirect, "dns-ru")
           /\ n = 3 => list[3] = DNSRule(Dests, "dns-foreign")
    BY ClientDNS
  <2> HIDE DEF list
  <2>2. CASE d \in RuZone \cup RuDirect
    <3>1. hits \subseteq Nat /\ (1 \in hits \/ 2 \in hits)
      <4>1. DOMAIN list \subseteq Nat /\ 1 \in DOMAIN list /\ 2 \in DOMAIN list
        BY <2>1
      <4>2. list[1].names = RuZone /\ list[2].names = RuDirect
        BY <2>1 DEF DNSRule
      <4>3. QED
        BY <2>2, <4>1, <4>2
    <3>2. first \in hits /\ \A j \in hits : first <= j
      <4> HIDE DEF hits
      <4>1. QED
        BY <3>1, LeastPlace
    <3>3. first \in {1, 2}
      BY <2>1, <3>1, <3>2
    <3> HIDE DEF first
    <3>4. QED
      BY <2>1, <2>2, <3>1, <3>3 DEF DNSRule
  <2>3. CASE d \notin RuZone \cup RuDirect
    <3>1. hits \subseteq {3} /\ (3 \in hits => list[3].server = "dns-foreign")
      BY <2>1, <2>3 DEF DNSRule
    <3>2. hits # {} => first = 3
      BY <3>1
    <3> HIDE DEF first
    <3>3. QED
      BY <2>3, <3>1, <3>2
  <2>4. QED
    BY <2>2, <2>3
<1> HIDE DEF tag
<1>3. tag \in {"dns-ru", "dns-foreign"}
  BY <1>2
<1>4. Answering(Client, d) =
         {[tag |-> tag, detour |-> IF tag = "dns-ru" THEN "none" ELSE "proxy"]}
  BY <1>1, <1>3, ServerOfTag
<1>5. QED
  BY <1>2, <1>4

(* The client's configuration refers to nothing it does not define.        *)
LEMMA Complete == ClientLoads(Client)
<1>1. Client.outbounds = BuildOutbounds(hy2, peer)
  BY DEF Client, BuildClientConfigMap, BuildTunConfigMap, BuildProxyConfigMap
<1> DEFINE out  == BuildOutbounds(hy2, peer)
           tags == {out[i].tag : i \in DOMAIN out}
<1>2. /\ \A i, j \in DOMAIN out : out[i].tag = out[j].tag => i = j
      /\ \A i \in DOMAIN out : out[i].members \subseteq tags
      /\ {"proxy", "direct-out"} \subseteq tags
  <2>1. CASE Hy2Enabled(hy2)
    <3>1. /\ DOMAIN out = 1 .. 4
          /\ out[1] = [tag |-> "proxy", members |-> {"vless-reality", "proxy-hy2"}, user |-> {}]
          /\ out[2] = [tag |-> "vless-reality", members |-> {}, user |-> {peer.key}]
          /\ out[3] = [tag |-> "proxy-hy2", members |-> {}, user |-> {}]
          /\ out[4] = [tag |-> "direct-out", members |-> {}, user |-> {}]
      BY <2>1 DEF BuildOutbounds
    <3> HIDE DEF out
    <3>2. /\ out[1].tag = "proxy" /\ out[2].tag = "vless-reality"
          /\ out[3].tag = "proxy-hy2" /\ out[4].tag = "direct-out"
          /\ out[1].members = {"vless-reality", "proxy-hy2"}
          /\ out[2].members = {} /\ out[3].members = {} /\ out[4].members = {}
      BY <3>1
    <3>3. DOMAIN out = {1, 2, 3, 4}
      BY <3>1
    <3>4. QED
      BY <3>2, <3>3
  <2>2. CASE ~Hy2Enabled(hy2)
    <3>1. /\ DOMAIN out = 1 .. 2
          /\ out[1] = [tag |-> "proxy", members |-> {}, user |-> {peer.key}]
          /\ out[2] = [tag |-> "direct-out", members |-> {}, user |-> {}]
      BY <2>2 DEF BuildOutbounds
    <3> HIDE DEF out
    <3>2. /\ out[1].tag = "proxy" /\ out[2].tag = "direct-out"
          /\ out[1].members = {} /\ out[2].members = {} /\ DOMAIN out = {1, 2}
      BY <3>1
    <3>3. QED
      BY <3>2
  <2>3. QED
    BY <2>1, <2>2
<1>3. ClientTags(Client) = tags
  BY <1>1 DEF ClientTags
<1>4. \A i \in DOMAIN Client.rules : Client.rules[i].outbound \in {"proxy", "direct-out"}
  BY ClientRules DEF To
<1>5. LET servers == {Client.dns.servers[i] : i \in DOMAIN Client.dns.servers}
      IN  /\ \A s \in servers : s.detour \in {"proxy", "none"}
          /\ \A tag \in {"dns-ru", "dns-foreign"} : \E s \in servers : s.tag = tag
  BY ClientDNS DEF BuildClientDNSServers
<1>6. \A i \in DOMAIN Client.dns.rules :
         Client.dns.rules[i].server \in {"dns-ru", "dns-foreign"}
  BY ClientDNS DEF DNSRule
<1>7. Client.final = "proxy" /\ Client.dns.final = "dns-foreign" /\ Client.resolver = "dns-foreign"
  BY ClientRules, ClientDNS
<1>8. Client.outbounds = out
  BY <1>1
<1> HIDE DEF out, tags
<1>9. QED
  BY <1>2, <1>3, <1>4, <1>5, <1>6, <1>7, <1>8 DEF ClientLoads

(* ResolvedWhereRouted: at all times, the client's configuration refers to *)
(* nothing it does not define; a tunnel asks for a name the way it will    *)
(* connect to it; and a local proxy, which has only the resolver of the    *)
(* configuration to ask, asks for any name through the server.  It holds   *)
(* of every client and every setting.                                      *)
THEOREM ResolvedCorrect == Spec => []ResolvedWhereRouted
<1>1. ResolvedWhereRouted
  <2>1. ASSUME NEW app \in Packages, NEW d \in Dests \ (Private \cup {Endpoint}),
               ~AppStaysOut(app), NEW s \in ClientResolves(Client, app, d)
        PROVE  s.detour = IF ClientRoute(Client, app, d) = "direct-out" /\ peer.mode # "proxy"
                          THEN "none" ELSE "proxy"
    <3>1. ~(Inside /\ app \in DirectApps)
      BY <2>1 DEF Inside, AppStaysOut
    <3>2. StaysOut(d) <=> d \in RuZone \cup RuDirect
      BY <2>1 DEF StaysOut
    <3>3. ClientRoute(Client, app, d) =
             IF d \in RuZone \cup RuDirect THEN "direct-out" ELSE "proxy"
      BY <3>1, <3>2, ClientRoutes
    <3>4. CASE peer.mode # "proxy"
      <4>1. Client.hijack = TRUE
        BY <3>4 DEF Client, BuildClientConfigMap, BuildTunConfigMap
      <4>2. s \in Answering(Client, d)
        BY <2>1, <4>1 DEF ClientResolves
      <4>3. QED
        BY <3>3, <3>4, <4>2, Resolves
    <3>5. CASE peer.mode = "proxy"
      <4>1. Client.hijack = FALSE
        BY <3>5 DEF Client, BuildClientConfigMap, BuildProxyConfigMap
      <4>2. s \in Tagged(Client, "dns-foreign")
        BY <2>1, <4>1, ClientDNS DEF ClientResolves
      <4>3. Tagged(Client, "dns-foreign") = AskedOf("dns-foreign")
        BY ClientDNS DEF Tagged, AskedOf
      <4>4. s.detour = "proxy"
        BY <4>2, <4>3, ServerOfTag
      <4>5. QED
        BY <3>5, <4>4
    <3>6. QED
      BY <3>4, <3>5
  <2>2. QED
    BY <2>1, Complete DEF ResolvedWhereRouted
<1>2. QED
  BY <1>1, PTL

-----------------------------------------------------------------------------
(* --------------------------- the server's side ------------------------- *)

(* The outbound abroad is built exactly if the DNS settings count on it.   *)
LEMMA ForeignLeg ==
  ASSUME NEW e \in Env
  PROVE  BuildForeignOutbound(e) = IF HasForeignLeg(e) THEN {"foreign-out"} ELSE {}
BY DEF Env, BuildForeignOutbound, HasForeignLeg

(* The rules the server's configuration has for a destination are the      *)
(* effective ones of the panel.                                            *)
LEMMA RulesOfServer ==
  ASSUME Typed, NEW d \in Dests
  PROVE  /\ {i \in DOMAIN Server.rules : d \in Server.rules[i].matches} = Effective(d)
         /\ \A i \in Effective(d) :
               Server.rules[i].target = ActionToOutbound[rules[i].action]
<1>1. /\ DOMAIN Server.rules = {i \in DOMAIN rules : Written(rules[i])}
      /\ \A i \in DOMAIN Server.rules :
            /\ Server.rules[i].matches = PopulateRouteRuleFields(rules[i])
            /\ Server.rules[i].target = ActionToOutbound[rules[i].action]
  BY DEF Server, GenerateConfig, RouteRules
<1>2. \A i \in DOMAIN rules :
         (Written(rules[i]) /\ d \in PopulateRouteRuleFields(rules[i])) <=> i \in Effective(d)
  BY DEF Written, Expressible, PopulateRouteRuleFields, Effective
<1>3. Effective(d) \subseteq DOMAIN rules
  BY DEF Effective
<1>4. QED
  BY <1>1, <1>2, <1>3

LeastOf(S) == CHOOSE i \in S : \A j \in S : i <= j

LEMMA VerdictOfServer ==
  ASSUME Typed, NEW d \in Dests
  PROVE  Verdict(Server, d) =
            IF Effective(d) # {}
            THEN ActionToOutbound[rules[CHOOSE i \in Effective(d) :
                                           \A j \in Effective(d) : i <= j].action]
            ELSE IF HasForeignLeg(env) THEN "foreign-out" ELSE "direct-out"
<1> DEFINE first == LeastOf(Effective(d))
<1>1. Verdict(Server, d) = IF Effective(d) = {} THEN Server.final ELSE Server.rules[first].target
  <2> DEFINE hits == {i \in DOMAIN Server.rules : d \in Server.rules[i].matches}
  <2>1. Verdict(Server, d) = IF hits = {} THEN Server.final ELSE Server.rules[LeastOf(hits)].target
    BY DEF Verdict, LeastOf
  <2>2. hits = Effective(d)
    BY RulesOfServer
  <2> HIDE DEF hits
  <2>3. QED
    BY <2>1, <2>2
<1>2. Server.final = IF HasForeignLeg(env) THEN "foreign-out" ELSE "direct-out"
  BY ForeignLeg DEF Typed, Server, GenerateConfig
<1>3. Effective(d) # {} => first \in Effective(d)
  <2>1. Effective(d) \subseteq Nat
    BY DEF Effective, Typed
  <2>2. QED
    BY <2>1, LeastPlace DEF LeastOf
<1> HIDE DEF first
<1>4. Effective(d) # {} => Server.rules[first].target = ActionToOutbound[rules[first].action]
  BY <1>3, RulesOfServer
<1>5. QED
  BY <1>1, <1>2, <1>4 DEF first, LeastOf

(* The client presents its key, which the server knows if it is active.    *)
LEMMA Admitted == (Keys(Client) \cap Server.users = {}) <=> ~peer.active
<1>1. Keys(Client) = {peer.key}
  <2>1. Client.outbounds = BuildOutbounds(hy2, peer)
    BY DEF Client, BuildClientConfigMap, BuildTunConfigMap, BuildProxyConfigMap
  <2>2. \A i \in DOMAIN Client.outbounds : Client.outbounds[i].user \subseteq {peer.key}
    BY <2>1 DEF BuildOutbounds
  <2>3. \E i \in DOMAIN Client.outbounds : Client.outbounds[i].user = {peer.key}
    BY <2>1 DEF BuildOutbounds
  <2>4. QED
    BY <2>2, <2>3 DEF Keys
<1>2. Server.users = IF peer.active THEN {peer.key} ELSE {}
  BY DEF Server, GenerateConfig, Users
<1>3. QED
  BY <1>1, <1>2

(* FirstRuleDecides: at all times, through client and server, the first    *)
(* effective rule decides on a connection of an active client that does    *)
(* not stay out of the server, and none on any other.                      *)
THEOREM FirstRuleCorrect == Spec => []FirstRuleDecides
<1>1. ASSUME Typed PROVE FirstRuleDecides
  <2>1. SUFFICES ASSUME NEW app \in Packages, NEW d \in Dests
                 PROVE  Outcome(Server, Client, app, d) =
                           IF StaysOut(d) \/ AppStaysOut(app) THEN "past the server"
                           ELSE IF ~peer.active THEN "refused" ELSE Verdict(Server, d)
    BY <1>1, VerdictOfServer DEF FirstRuleDecides
  <2>2. (app \in Client.excluded \/ ClientRoute(Client, app, d) = "direct-out")
            <=> StaysOut(d) \/ AppStaysOut(app)
    BY ClientRules, ClientRoutes DEF Inside, AppStaysOut
  <2>3. QED
    BY <2>2, Admitted DEF Outcome
<1>2. QED
  BY <1>1, AlwaysTyped, PTL

(* ----------------------- when the server starts ------------------------ *)

(* A DNS configuration that is generated from lists of upstreams.          *)
LEMMA DNSOfServer ==
  ASSUME NEW e \in Env, NEW used \in Settings
  PROVE  LET dnsOf   == BuildDNSConfig(e, used)
             ru      == SplitCommaList(used.ru)
             foreign == SplitCommaList(used.foreign)
             tags    == {dnsOf.servers[i].tag : i \in DOMAIN dnsOf.servers}
         IN  /\ DOMAIN dnsOf.servers = ({"ru"} \X DOMAIN ru) \cup ({"foreign"} \X DOMAIN foreign)
             /\ \A i \in DOMAIN ru : dnsOf.servers[<<"ru", i>>] =
                   [tag |-> <<"dns-ru", ru[i]>>, addr |-> ru[i], detour |-> "none"]
             /\ \A i \in DOMAIN foreign : dnsOf.servers[<<"foreign", i>>] =
                   [tag |-> <<"dns-foreign", foreign[i]>>, addr |-> foreign[i],
                    detour |-> IF HasForeignLeg(e) THEN "foreign-out" ELSE "none"]
             /\ \A i \in DOMAIN dnsOf.rules : dnsOf.rules[i].server \in tags
             /\ dnsOf.final \subseteq tags
<1> DEFINE dnsOf   == BuildDNSConfig(e, used)
           ru      == SplitCommaList(used.ru)
           foreign == SplitCommaList(used.foreign)
           tags    == {dnsOf.servers[i].tag : i \in DOMAIN dnsOf.servers}
           detour  == IF HasForeignLeg(e) THEN "foreign-out" ELSE "none"
           ruTag   == <<"dns-ru", First(ru)>>
           foreignTag == <<"dns-foreign", First(foreign)>>
<1>1. dnsOf.servers = [i \in ({"ru"} \X DOMAIN ru) \cup ({"foreign"} \X DOMAIN foreign) |->
                         IF i[1] = "ru"
                         THEN [tag |-> <<"dns-ru", ru[i[2]]>>, addr |-> ru[i[2]], detour |-> "none"]
                         ELSE [tag |-> <<"dns-foreign", foreign[i[2]]>>, addr |-> foreign[i[2]],
                               detour |-> detour]]
  BY DEF BuildDNSConfig
<1>2. dnsOf.rules = (IF DOMAIN ru = {} THEN <<>> ELSE <<[names |-> RuZone, server |-> ruTag]>>)
                    \o (IF DOMAIN foreign = {} THEN <<>>
                        ELSE <<[names |-> Dests, server |-> foreignTag]>>)
  BY DEF BuildDNSConfig
<1>3. dnsOf.final = IF DOMAIN foreign # {} THEN {foreignTag}
                    ELSE IF DOMAIN ru # {} THEN {ruTag} ELSE {}
  BY DEF BuildDNSConfig
<1>4. /\ DOMAIN ru # {} => \E i \in DOMAIN ru : First(ru) = ru[i]
      /\ DOMAIN foreign # {} => \E i \in DOMAIN foreign : First(foreign) = foreign[i]
  <2>1. DOMAIN ru \subseteq Nat /\ DOMAIN foreign \subseteq Nat
    BY DEF SplitCommaList, Settings
  <2> HIDE DEF ru, foreign
  <2>2. QED
    BY <2>1, LeastPlace DEF First
<1> HIDE DEF dnsOf, ru, foreign
<1>5. /\ DOMAIN dnsOf.servers = ({"ru"} \X DOMAIN ru) \cup ({"foreign"} \X DOMAIN foreign)
      /\ \A i \in DOMAIN ru : dnsOf.servers[<<"ru", i>>] =
            [tag |-> <<"dns-ru", ru[i]>>, addr |-> ru[i], detour |-> "none"]
      /\ \A i \in DOMAIN foreign : dnsOf.servers[<<"foreign", i>>] =
            [tag |-> <<"dns-foreign", foreign[i]>>, addr |-> foreign[i], detour |-> detour]
  BY <1>1
<1>6. /\ \A i \in DOMAIN ru : <<"dns-ru", ru[i]>> \in tags
      /\ \A i \in DOMAIN foreign : <<"dns-foreign", foreign[i]>> \in tags
  <2>1. ASSUME NEW i \in DOMAIN ru PROVE <<"dns-ru", ru[i]>> \in tags
    <3>1. <<"ru", i>> \in DOMAIN dnsOf.servers
      BY <1>5
    <3>2. dnsOf.servers[<<"ru", i>>] =
             [tag |-> <<"dns-ru", ru[i]>>, addr |-> ru[i], detour |-> "none"]
      BY <1>5, Zenon
    <3> DEFINE server == dnsOf.servers[<<"ru", i>>]
    <3>3. server.tag \in tags
      BY <3>1, Zenon
    <3> HIDE DEF tags, server
    <3>4. server.tag = <<"dns-ru", ru[i]>>
      BY <3>2 DEF server
    <3>5. QED
      BY <3>3, <3>4
  <2>2. ASSUME NEW i \in DOMAIN foreign PROVE <<"dns-foreign", foreign[i]>> \in tags
    <3>1. <<"foreign", i>> \in DOMAIN dnsOf.servers
      BY <1>5
    <3>2. dnsOf.servers[<<"foreign", i>>] =
             [tag |-> <<"dns-foreign", foreign[i]>>, addr |-> foreign[i], detour |-> detour]
      BY <1>5, Zenon
    <3> DEFINE server == dnsOf.servers[<<"foreign", i>>]
    <3>3. server.tag \in tags
      BY <3>1, Zenon
    <3> HIDE DEF tags, server
    <3>4. server.tag = <<"dns-foreign", foreign[i]>>
      BY <3>2 DEF server
    <3>5. QED
      BY <3>3, <3>4
  <2>3. QED
    BY <2>1, <2>2
<1>7. /\ DOMAIN ru # {} => ruTag \in tags
      /\ DOMAIN foreign # {} => foreignTag \in tags
  BY <1>4, <1>6
<1>8. \A i \in DOMAIN dnsOf.rules : dnsOf.rules[i].server \in tags
  <2> DEFINE S == [names : SUBSET Dests, server : tags]
             r == IF DOMAIN ru = {} THEN <<>> ELSE <<[names |-> RuZone, server |-> ruTag]>>
             f == IF DOMAIN foreign = {} THEN <<>>
                  ELSE <<[names |-> Dests, server |-> foreignTag]>>
  <2> HIDE DEF tags, ruTag, foreignTag
  <2>1. r \in Seq(S) /\ f \in Seq(S)
    <3>1. DOMAIN ru # {} => [names |-> RuZone, server |-> ruTag] \in S
      BY <1>7, ServerAssumption
    <3>2. DOMAIN foreign # {} => [names |-> Dests, server |-> foreignTag] \in S
      BY <1>7
    <3> HIDE DEF S
    <3>3. <<>> \in Seq(S) /\ \A x \in S : <<x>> \in Seq(S)
      OBVIOUS
    <3>4. QED
      BY <3>1, <3>2, <3>3, Zenon
  <2>2. dnsOf.rules = r \o f
    BY <1>2
  <2> HIDE DEF r, f, S
  <2>3. dnsOf.rules \in Seq(S)
    BY <2>1, <2>2
  <2>4. \A i \in DOMAIN dnsOf.rules : dnsOf.rules[i] \in S
    BY <2>3
  <2>5. QED
    BY <2>4 DEF S
<1>9. dnsOf.final \subseteq tags
  BY <1>3, <1>7
<1>10. QED
  BY <1>5, <1>8, <1>9 DEF dnsOf, ru, foreign

(* No upstream is listed twice.                                            *)
Once(list) == \A i, j \in DOMAIN list : list[i] = list[j] /\ list[i] # Blank => i = j

(* The server's configuration names only outbounds it has.                 *)
LEMMA OutboundsOfServer ==
  ASSUME Typed, NEW used \in Settings
  PROVE  Missing(GenerateConfig(env, rules, used, {peer})) = {} <=>
            \/ HasForeignLeg(env)
            \/ \A i \in DOMAIN rules : rules[i].active /\ Expressible(rules[i])
                                           => rules[i].action # "proxy"
<1> DEFINE config  == GenerateConfig(env, rules, used, {peer})
           written == {i \in DOMAIN rules : Written(rules[i])}
<1>1. /\ DOMAIN config.rules = written
      /\ \A i \in written : config.rules[i].target = ActionToOutbound[rules[i].action]
  BY DEF GenerateConfig, RouteRules
<1>2. config.outbounds = {"direct-out"} \cup (IF HasForeignLeg(env) THEN {"foreign-out"} ELSE {})
  BY ForeignLeg DEF Typed, GenerateConfig, Outbounds
<1>3. config.final = IF HasForeignLeg(env) THEN "foreign-out" ELSE "direct-out"
  BY ForeignLeg DEF Typed, GenerateConfig
<1>4. \A i \in written : /\ rules[i].action \in {"direct", "proxy", "block"}
                          /\ ActionToOutbound[rules[i].action] =
                                CASE rules[i].action = "direct" -> "direct-out"
                                  [] rules[i].action = "proxy"  -> "foreign-out"
                                  [] rules[i].action = "block"  -> "reject"
  <2>1. ASSUME NEW i \in written PROVE rules[i] \in Rule
    BY DEF Typed
  <2>2. QED
    BY <2>1 DEF Rule, ActionToOutbound
<1> DEFINE targets == {config.rules[i].target : i \in DOMAIN config.rules}
<1>5. "foreign-out" \in targets <=> \E i \in written : rules[i].action = "proxy"
  <2> HIDE DEF config, written
  <2>1. \A i \in written : config.rules[i].target = "foreign-out" <=> rules[i].action = "proxy"
    BY <1>1, <1>4
  <2>2. QED
    BY <1>1, <2>1
<1>6. targets \subseteq {"direct-out", "foreign-out", "reject"}
  BY <1>1, <1>4
<1>7. Missing(config) = (targets \cup {config.final}) \ (config.outbounds \cup {"reject"})
  BY DEF Missing
<1> HIDE DEF config, targets
<1>8. Missing(config) = {} <=> HasForeignLeg(env) \/ "foreign-out" \notin targets
  BY <1>2, <1>3, <1>6, <1>7
<1>9. QED
  BY <1>5, <1>8 DEF Written, config

(* Its DNS servers' tags differ exactly if no upstream is listed twice.    *)
LEMMA TagsOfServer ==
  ASSUME NEW e \in Env, NEW used \in Settings
  PROVE  LET servers == BuildDNSConfig(e, used).servers
         IN  (\A i, j \in DOMAIN servers : servers[i].tag = servers[j].tag => i = j)
                <=> Once(used.ru) /\ Once(used.foreign)
<1> DEFINE servers == BuildDNSConfig(e, used).servers
           ru      == SplitCommaList(used.ru)
           foreign == SplitCommaList(used.foreign)
<1>1. /\ Once(used.ru) <=> \A i, j \in DOMAIN ru : ru[i] = ru[j] => i = j
      /\ Once(used.foreign) <=> \A i, j \in DOMAIN foreign : foreign[i] = foreign[j] => i = j
  BY DEF Once, SplitCommaList
<1>2. /\ DOMAIN servers = ({"ru"} \X DOMAIN ru) \cup ({"foreign"} \X DOMAIN foreign)
      /\ \A i \in DOMAIN ru : servers[<<"ru", i>>] =
            [tag |-> <<"dns-ru", ru[i]>>, addr |-> ru[i], detour |-> "none"]
      /\ \A i \in DOMAIN foreign : servers[<<"foreign", i>>] =
            [tag |-> <<"dns-foreign", foreign[i]>>, addr |-> foreign[i],
             detour |-> IF HasForeignLeg(e) THEN "foreign-out" ELSE "none"]
  BY DNSOfServer
<1> HIDE DEF servers, ru, foreign
<1>3. ASSUME NEW p \in DOMAIN servers
      PROVE  \/ \E i \in DOMAIN ru : p = <<"ru", i>> /\ servers[p].tag = <<"dns-ru", ru[i]>>
             \/ \E i \in DOMAIN foreign :
                   p = <<"foreign", i>> /\ servers[p].tag = <<"dns-foreign", foreign[i]>>
  <2>1. CASE p \in {"ru"} \X DOMAIN ru
    <3>1. PICK i \in DOMAIN ru : p = <<"ru", i>>
      BY <2>1
    <3>2. servers[p] = [tag |-> <<"dns-ru", ru[i]>>, addr |-> ru[i], detour |-> "none"]
      BY <1>2, <3>1, Zenon
    <3>3. servers[p].tag = <<"dns-ru", ru[i]>>
      BY <3>2
    <3>4. QED
      BY <3>1, <3>3
  <2>2. CASE p \in {"foreign"} \X DOMAIN foreign
    <3>1. PICK i \in DOMAIN foreign : p = <<"foreign", i>>
      BY <2>2
    <3>2. servers[p] = [tag |-> <<"dns-foreign", foreign[i]>>, addr |-> foreign[i],
                        detour |-> IF HasForeignLeg(e) THEN "foreign-out" ELSE "none"]
      BY <1>2, <3>1, Zenon
    <3>3. servers[p].tag = <<"dns-foreign", foreign[i]>>
      BY <3>2
    <3>4. QED
      BY <3>1, <3>3
  <2>3. QED
    BY <1>2, <2>1, <2>2
<1>4. ASSUME NEW i \in DOMAIN ru
      PROVE  <<"ru", i>> \in DOMAIN servers /\ servers[<<"ru", i>>].tag = <<"dns-ru", ru[i]>>
  <2>1. <<"ru", i>> \in DOMAIN servers
    BY <1>2
  <2> DEFINE p == <<"ru", i>>
  <2>2. servers[p].tag = <<"dns-ru", ru[i]>>
    <3>1. \A j : p = <<"ru", j>> => j = i
      OBVIOUS
    <3>2. \A j : p # <<"foreign", j>>
      OBVIOUS
    <3> HIDE DEF p
    <3>3. p \in DOMAIN servers
      BY <2>1 DEF p
    <3>4. QED
      BY <1>3, <3>1, <3>2, <3>3
  <2>3. QED
    BY <2>1, <2>2
<1>5. ASSUME NEW i \in DOMAIN foreign
      PROVE  /\ <<"foreign", i>> \in DOMAIN servers
             /\ servers[<<"foreign", i>>].tag = <<"dns-foreign", foreign[i]>>
  <2>1. <<"foreign", i>> \in DOMAIN servers
    BY <1>2
  <2> DEFINE p == <<"foreign", i>>
  <2>2. servers[p].tag = <<"dns-foreign", foreign[i]>>
    <3>1. \A j : p = <<"foreign", j>> => j = i
      OBVIOUS
    <3>2. \A j : p # <<"ru", j>>
      OBVIOUS
    <3> HIDE DEF p
    <3>3. p \in DOMAIN servers
      BY <2>1 DEF p
    <3>4. QED
      BY <1>3, <3>1, <3>2, <3>3
  <2>3. QED
    BY <2>1, <2>2
<1> DEFINE Distinct == \A i, j \in DOMAIN servers : servers[i].tag = servers[j].tag => i = j
<1>6. ASSUME Distinct PROVE Once(used.ru) /\ Once(used.foreign)
  <2>1. ASSUME NEW i \in DOMAIN ru, NEW j \in DOMAIN ru, ru[i] = ru[j] PROVE i = j
    <3> DEFINE p == <<"ru", i>>
               q == <<"ru", j>>
    <3>1. /\ p \in DOMAIN servers /\ servers[p].tag = <<"dns-ru", ru[i]>>
          /\ q \in DOMAIN servers /\ servers[q].tag = <<"dns-ru", ru[i]>>
      BY <1>4, <2>1, Zenon
    <3>2. p = q => i = j
      OBVIOUS
    <3> HIDE DEF p, q
    <3>3. QED
      BY <1>6, <3>1, <3>2
  <2>2. ASSUME NEW i \in DOMAIN foreign, NEW j \in DOMAIN foreign, foreign[i] = foreign[j]
        PROVE  i = j
    <3> DEFINE p == <<"foreign", i>>
               q == <<"foreign", j>>
    <3>1. /\ p \in DOMAIN servers /\ servers[p].tag = <<"dns-foreign", foreign[i]>>
          /\ q \in DOMAIN servers /\ servers[q].tag = <<"dns-foreign", foreign[i]>>
      BY <1>5, <2>2, Zenon
    <3>2. p = q => i = j
      OBVIOUS
    <3> HIDE DEF p, q
    <3>3. QED
      BY <1>6, <3>1, <3>2
  <2>3. QED
    BY <1>1, <2>1, <2>2
<1>7. ASSUME Once(used.ru), Once(used.foreign) PROVE Distinct
  <2> SUFFICES ASSUME NEW p \in DOMAIN servers, NEW q \in DOMAIN servers,
                      servers[p].tag = servers[q].tag
               PROVE  p = q
    OBVIOUS
  <2>1. CASE \E i \in DOMAIN ru : p = <<"ru", i>> /\ servers[p].tag = <<"dns-ru", ru[i]>>
    <3>1. PICK i \in DOMAIN ru : p = <<"ru", i>> /\ servers[p].tag = <<"dns-ru", ru[i]>>
      BY <2>1
    <3>2. PICK j \in DOMAIN ru : q = <<"ru", j>> /\ servers[q].tag = <<"dns-ru", ru[j]>>
      BY <1>3, <3>1
    <3>3. ru[i] = ru[j]
      BY <3>1, <3>2
    <3>4. QED
      BY <1>1, <1>7, <3>1, <3>2, <3>3
  <2>2. CASE \E i \in DOMAIN foreign :
                p = <<"foreign", i>> /\ servers[p].tag = <<"dns-foreign", foreign[i]>>
    <3>1. PICK i \in DOMAIN foreign :
             p = <<"foreign", i>> /\ servers[p].tag = <<"dns-foreign", foreign[i]>>
      BY <2>2
    <3>2. PICK j \in DOMAIN foreign :
             q = <<"foreign", j>> /\ servers[q].tag = <<"dns-foreign", foreign[j]>>
      BY <1>3, <3>1
    <3>3. foreign[i] = foreign[j]
      BY <3>1, <3>2
    <3>4. QED
      BY <1>1, <1>7, <3>1, <3>2, <3>3
  <2>3. QED
    BY <1>3, <2>1, <2>2
<1>8. QED
  BY <1>6, <1>7 DEF servers

(* The resolver that is named is among the upstreams.                      *)
LEMMA ResolverOfServer ==
  ASSUME NEW e \in Env, NEW used \in Settings
  PROVE  LET servers == BuildDNSConfig(e, used).servers
         IN  /\ (\E p \in DOMAIN servers : servers[p].tag = <<"dns-foreign", Default>>)
                    <=> \E i \in DOMAIN used.foreign : used.foreign[i] = Default
             /\ \A p \in DOMAIN servers :
                   servers[p].detour \in {"none"} \cup BuildForeignOutbound(e)
<1> DEFINE dnsOf == BuildDNSConfig(e, used)
           servers == dnsOf.servers
           ru      == SplitCommaList(used.ru)
           foreign == SplitCommaList(used.foreign)
           detour  == IF HasForeignLeg(e) THEN "foreign-out" ELSE "none"
<1>1. servers = [i \in ({"ru"} \X DOMAIN ru) \cup ({"foreign"} \X DOMAIN foreign) |->
                         IF i[1] = "ru"
                         THEN [tag |-> <<"dns-ru", ru[i[2]]>>, addr |-> ru[i[2]], detour |-> "none"]
                         ELSE [tag |-> <<"dns-foreign", foreign[i[2]]>>, addr |-> foreign[i[2]],
                               detour |-> detour]]
  BY DEF BuildDNSConfig
<1>2. (\E i \in DOMAIN foreign : foreign[i] = Default)
         <=> \E i \in DOMAIN used.foreign : used.foreign[i] = Default
  BY ServerAssumption DEF SplitCommaList
<1> HIDE DEF servers, ru, foreign
<1>3. (\E p \in DOMAIN servers : servers[p].tag = <<"dns-foreign", Default>>)
         <=> \E i \in DOMAIN foreign : foreign[i] = Default
  <2>1. ASSUME NEW p \in DOMAIN servers, servers[p].tag = <<"dns-foreign", Default>>
        PROVE  \E i \in DOMAIN foreign : foreign[i] = Default
    <3>1. CASE p \in {"ru"} \X DOMAIN ru
      BY <1>1, <2>1, <3>1
    <3>2. CASE p \in {"foreign"} \X DOMAIN foreign
      BY <1>1, <2>1, <3>2
    <3>3. QED
      BY <1>1, <3>1, <3>2
  <2>2. ASSUME NEW i \in DOMAIN foreign, foreign[i] = Default
        PROVE  \E p \in DOMAIN servers : servers[p].tag = <<"dns-foreign", Default>>
    <3> DEFINE p == <<"foreign", i>>
    <3>1. p \in {"foreign"} \X DOMAIN foreign /\ p[1] = "foreign" /\ p[2] = i
      OBVIOUS
    <3> HIDE DEF p
    <3>2. p \in DOMAIN servers /\ servers[p].tag = <<"dns-foreign", Default>>
      BY <1>1, <2>2, <3>1
    <3>3. QED
      BY <3>2
  <2>3. QED
    BY <2>1, <2>2
<1>4. \A p \in DOMAIN servers : servers[p].detour \in {"none", detour}
  BY <1>1
<1>5. QED
  BY <1>2, <1>3, <1>4, ForeignLeg DEF servers

(* What lists of upstreams have, but for empty parts.                      *)
Listed(list) == {list[i] : i \in DOMAIN list} \ {Blank}

(* Every server is one that sing-box takes exactly if that is so of what   *)
(* either list has.                                                        *)
LEMMA AddressesOfServer ==
  ASSUME NEW e \in Env, NEW used \in Settings
  PROVE  LET servers == BuildDNSConfig(e, used).servers
         IN  (\A p \in DOMAIN servers : servers[p].addr \in Serves[servers[p].detour])
                <=> /\ Listed(used.ru) \subseteq Serves["none"]
                    /\ Listed(used.foreign)
                          \subseteq Serves[IF HasForeignLeg(e) THEN "foreign-out" ELSE "none"]
<1> DEFINE servers == BuildDNSConfig(e, used).servers
           ru      == SplitCommaList(used.ru)
           foreign == SplitCommaList(used.foreign)
           detour  == IF HasForeignLeg(e) THEN "foreign-out" ELSE "none"
<1>1. /\ \A i \in DOMAIN ru : ru[i] \in Listed(used.ru)
      /\ \A a \in Listed(used.ru) : \E i \in DOMAIN ru : ru[i] = a
      /\ \A i \in DOMAIN foreign : foreign[i] \in Listed(used.foreign)
      /\ \A a \in Listed(used.foreign) : \E i \in DOMAIN foreign : foreign[i] = a
  BY DEF SplitCommaList, Listed
<1>2. /\ DOMAIN servers = ({"ru"} \X DOMAIN ru) \cup ({"foreign"} \X DOMAIN foreign)
      /\ \A i \in DOMAIN ru : servers[<<"ru", i>>] =
            [tag |-> <<"dns-ru", ru[i]>>, addr |-> ru[i], detour |-> "none"]
      /\ \A i \in DOMAIN foreign : servers[<<"foreign", i>>] =
            [tag |-> <<"dns-foreign", foreign[i]>>, addr |-> foreign[i], detour |-> detour]
  BY DNSOfServer
<1> HIDE DEF servers, ru, foreign, detour
<1> DEFINE Served(p) == servers[p].addr \in Serves[servers[p].detour]
<1>3. ASSUME NEW i \in DOMAIN ru
      PROVE  /\ <<"ru", i>> \in DOMAIN servers
             /\ Served(<<"ru", i>>) <=> ru[i] \in Serves["none"]
  <2> DEFINE server == servers[<<"ru", i>>]
  <2>1. server = [tag |-> <<"dns-ru", ru[i]>>, addr |-> ru[i], detour |-> "none"]
    BY <1>2, Zenon
  <2>2. Served(<<"ru", i>>) <=> server.addr \in Serves[server.detour]
    OBVIOUS
  <2> HIDE DEF server, Served
  <2>3. server.addr = ru[i] /\ server.detour = "none"
    BY <2>1
  <2>4. QED
    BY <1>2, <2>2, <2>3
<1>4. ASSUME NEW i \in DOMAIN foreign
      PROVE  /\ <<"foreign", i>> \in DOMAIN servers
             /\ Served(<<"foreign", i>>) <=> foreign[i] \in Serves[detour]
  <2> DEFINE server == servers[<<"foreign", i>>]
  <2>1. server = [tag |-> <<"dns-foreign", foreign[i]>>, addr |-> foreign[i], detour |-> detour]
    BY <1>2, Zenon
  <2>2. Served(<<"foreign", i>>) <=> server.addr \in Serves[server.detour]
    OBVIOUS
  <2> HIDE DEF server, Served
  <2>3. server.addr = foreign[i] /\ server.detour = detour
    BY <2>1
  <2>4. QED
    BY <1>2, <2>2, <2>3
<1>5. ASSUME NEW p \in DOMAIN servers
      PROVE  \/ \E i \in DOMAIN ru : p = <<"ru", i>>
             \/ \E i \in DOMAIN foreign : p = <<"foreign", i>>
  BY <1>2
<1> HIDE DEF Served
<1>6. (\A p \in DOMAIN servers : Served(p))
         <=> /\ \A i \in DOMAIN ru : ru[i] \in Serves["none"]
             /\ \A i \in DOMAIN foreign : foreign[i] \in Serves[detour]
  <2>1. ASSUME \A p \in DOMAIN servers : Served(p)
        PROVE  /\ \A i \in DOMAIN ru : ru[i] \in Serves["none"]
               /\ \A i \in DOMAIN foreign : foreign[i] \in Serves[detour]
    BY <1>3, <1>4, <2>1, Zenon
  <2>2. ASSUME \A i \in DOMAIN ru : ru[i] \in Serves["none"],
               \A i \in DOMAIN foreign : foreign[i] \in Serves[detour],
               NEW p \in DOMAIN servers
        PROVE  Served(p)
    BY <1>3, <1>4, <1>5, <2>2, Zenon
  <2>3. QED
    BY <2>1, <2>2, Zenon
<1>7. /\ (\A i \in DOMAIN ru : ru[i] \in Serves["none"]) <=> Listed(used.ru) \subseteq Serves["none"]
      /\ (\A i \in DOMAIN foreign : foreign[i] \in Serves[detour])
            <=> Listed(used.foreign) \subseteq Serves[detour]
  BY <1>1
<1>8. QED
  BY <1>6, <1>7 DEF Served, servers, detour

(* LoadsWhen: at all times, the server's configuration, generated from the *)
(* settings or from the default ones, loads exactly if no rule that is     *)
(* written asks for a foreign server that is not there, sing-box accepts   *)
(* each one's pattern or port, the resolver the generator names is among   *)
(* the upstreams, none of these is listed twice, and sing-box can reach    *)
(* each the way it is told to.                                             *)
THEOREM LoadsCorrect == Spec => []LoadsWhen
<1>1. ASSUME Typed PROVE LoadsWhen
  <2>1. ASSUME NEW used \in {dns, DefaultSettings}
        PROVE  Loads(GenerateConfig(env, rules, used, {peer})) <=>
                  /\ \A i \in DOMAIN rules : rules[i].active /\ Expressible(rules[i]) =>
                        /\ HasForeignLeg(env) \/ rules[i].action # "proxy"
                        /\ Accepted(rules[i])
                  /\ Default \in Listed(used.foreign)
                  /\ Once(used.ru) /\ Once(used.foreign)
                  /\ Listed(used.ru) \subseteq Serves["none"]
                  /\ Listed(used.foreign)
                        \subseteq Serves[IF HasForeignLeg(env) THEN "foreign-out" ELSE "none"]
    <3> DEFINE config  == GenerateConfig(env, rules, used, {peer})
               dnsOf   == BuildDNSConfig(env, used)
               servers == dnsOf.servers
               tags    == {servers[i].tag : i \in DOMAIN servers}
               written == {i \in DOMAIN rules : rules[i].active /\ Expressible(rules[i])}
               fits    == /\ Listed(used.ru) \subseteq Serves["none"]
                          /\ Listed(used.foreign)
                                \subseteq Serves[IF HasForeignLeg(env) THEN "foreign-out" ELSE "none"]
    <3>1. used \in Settings /\ env \in Env
      BY <1>1, ServerAssumption DEF Typed, DefaultSettings, Settings
    <3>2. /\ config.dns = dnsOf /\ config.resolver = <<"dns-foreign", Default>>
          /\ ServerTags(config) = tags
          /\ config.outbounds = {"direct-out"} \cup BuildForeignOutbound(env)
      BY DEF GenerateConfig, ServerTags, Outbounds
    <3>3. /\ \A i \in DOMAIN dnsOf.rules : dnsOf.rules[i].server \in tags
          /\ dnsOf.final \subseteq tags
      BY <3>1, DNSOfServer
    <3>4. Missing(config) = {} <=>
             \A i \in written : HasForeignLeg(env) \/ rules[i].action # "proxy"
      BY <1>1, <3>1, OutboundsOfServer
    <3>5. (\A i, j \in DOMAIN servers : servers[i].tag = servers[j].tag => i = j)
             <=> Once(used.ru) /\ Once(used.foreign)
      BY <3>1, TagsOfServer
    <3>6. /\ <<"dns-foreign", Default>> \in tags
                <=> \E i \in DOMAIN used.foreign : used.foreign[i] = Default
          /\ \A p \in DOMAIN servers : servers[p].detour \in {"none"} \cup BuildForeignOutbound(env)
      BY <3>1, ResolverOfServer
    <3>7. Default \in Listed(used.foreign)
             <=> \E i \in DOMAIN used.foreign : used.foreign[i] = Default
      BY ServerAssumption DEF Listed
    <3>8. (\A i \in DOMAIN config.rules : config.rules[i].taken)
             <=> \A i \in written : Accepted(rules[i])
      BY DEF GenerateConfig, RouteRules, Written
    <3>9. (\A p \in DOMAIN servers : servers[p].addr \in Serves[servers[p].detour]) <=> fits
      BY <3>1, AddressesOfServer
    <3> HIDE DEF config, dnsOf, tags, fits, written
    <3>10. Loads(config) <=>
             /\ Missing(config) = {}
             /\ \A i \in DOMAIN config.rules : config.rules[i].taken
             /\ \A i, j \in DOMAIN servers : servers[i].tag = servers[j].tag => i = j
             /\ <<"dns-foreign", Default>> \in tags
             /\ \A p \in DOMAIN servers : servers[p].addr \in Serves[servers[p].detour]
      BY <3>2, <3>3, <3>6 DEF Loads
    <3>11. Loads(config) <=>
             /\ \A i \in written : /\ HasForeignLeg(env) \/ rules[i].action # "proxy"
                                   /\ Accepted(rules[i])
             /\ Default \in Listed(used.foreign)
             /\ Once(used.ru) /\ Once(used.foreign)
             /\ fits
      BY <3>4, <3>5, <3>6, <3>7, <3>8, <3>9, <3>10, Zenon
    <3>12. QED
      BY <3>11 DEF config, fits, written
  <2>2. QED
    BY <2>1 DEF LoadsWhen, Once, Listed
<1>2. QED
  BY <1>1, AlwaysTyped, PTL

=============================================================================

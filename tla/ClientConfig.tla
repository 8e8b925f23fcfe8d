---------------------------- MODULE ClientConfig ----------------------------
(***************************************************************************)
(* The configuration a client downloads for its own sing-box, as a         *)
(* function of the server's settings and the client: all the traffic of    *)
(* the device through a tunnel interface, or a local proxy that            *)
(* applications are pointed at.                                            *)
(*                                                                         *)
(* The rules of the panel play no part: the lists of domains are in the    *)
(* code.  On Android some applications are kept out of the tunnel, and     *)
(* some are routed directly within it.                                     *)
(***************************************************************************)
EXTENDS Integers, Sequences, FiniteSets

CONSTANTS
    Dests, RuZone,  \* as in ServerConfig
    RuDirect,     \* ruDirectDomains
    Abroad,       \* buildProxyDomains
    Private,      \* private addresses
    Endpoint,     \* the server itself
    Packages,     \* applications of a device
    Excluded,     \* androidAutoExcludePackages
    DirectApps    \* buildPackageNameRules

Device == [key : Nat, device : {"", "iphone", "android"}, mode : {"", "tun", "proxy"},
           active : BOOLEAN]

(* Hysteria2 as a second way to the server: switched on, password set.      *)
Hy2 == [enabled : BOOLEAN, password : BOOLEAN]

To(dests, outbound) == [to |-> dests, from |-> Packages, outbound |-> outbound]

-----------------------------------------------------------------------------
BuildDirectDomainRules == <<To(RuZone, "direct-out"), To(RuDirect, "direct-out")>>

BuildProxyDomains == <<To(Abroad, "proxy")>>

(* The sniffing and the DNS rule at the top only look or answer: no outbound. *)
(* The local proxy has no DNS rule: it hijacks nothing.                       *)
BuildBaseRules ==
    <<To({Endpoint}, "direct-out"), To(Private, "direct-out")>> \o BuildDirectDomainRules

BuildPackageNameRules == <<[to |-> Dests, from |-> DirectApps, outbound |-> "direct-out"]>>

BuildClientDNSServers ==
    << [tag |-> "dns-foreign", detour |-> "proxy"], [tag |-> "dns-foreign-alt", detour |-> "proxy"],
       [tag |-> "dns-ru", detour |-> "none"], [tag |-> "dns-ru-alt", detour |-> "none"] >>

DNSRule(names, server) == [names |-> names, server |-> server]

(* A changed list of DNS rules: the list of direct domains is forgotten.    *)
DirectDNSRulesShort == <<DNSRule(RuZone, "dns-ru")>>

DirectDNSRules == <<DNSRule(RuZone, "dns-ru"), DNSRule(RuDirect, "dns-ru")>>

BuildClientDNSConfig ==
    [servers |-> BuildClientDNSServers, final |-> "dns-foreign",
     rules |-> DirectDNSRules \o <<DNSRule(Dests, "dns-foreign")>>]

BuildProxyDNSConfig ==
    [servers |-> BuildClientDNSServers, final |-> "dns-foreign", rules |-> DirectDNSRules]

Hy2Enabled(hy2) == hy2.enabled /\ hy2.password

(* "proxy" is the way to the server, or the faster of two.                   *)
BuildOutbounds(hy2, peer) ==
    IF ~Hy2Enabled(hy2)
    THEN << [tag |-> "proxy", members |-> {}, user |-> {peer.key}],
            [tag |-> "direct-out", members |-> {}, user |-> {}] >>
    ELSE << [tag |-> "proxy", members |-> {"vless-reality", "proxy-hy2"}, user |-> {}],
            [tag |-> "vless-reality", members |-> {}, user |-> {peer.key}],
            [tag |-> "proxy-hy2", members |-> {}, user |-> {}],
            [tag |-> "direct-out", members |-> {}, user |-> {}] >>

BuildTunConfigMap(hy2, peer) ==
    LET android == peer.device = "android"
    IN  [excluded  |-> IF android THEN Excluded ELSE {},
         hijack    |-> TRUE,
         dns       |-> BuildClientDNSConfig,
         outbounds |-> BuildOutbounds(hy2, peer),
         rules     |-> BuildBaseRules \o (IF android THEN BuildPackageNameRules ELSE <<>>)
                       \o BuildProxyDomains,
         final |-> "proxy", resolver |-> "dns-foreign"]

BuildProxyConfigMap(hy2, peer) ==
    [excluded  |-> {},
     hijack    |-> FALSE,
     dns       |-> BuildProxyDNSConfig,
     outbounds |-> BuildOutbounds(hy2, peer),
     rules     |-> BuildBaseRules \o BuildProxyDomains,
     final |-> "proxy", resolver |-> "dns-foreign"]

BuildClientConfigMap(hy2, peer) ==
    IF peer.mode = "proxy" THEN BuildProxyConfigMap(hy2, peer) ELSE BuildTunConfigMap(hy2, peer)

-----------------------------------------------------------------------------
(* The first element of a list of rules that satisfies Test, or none.       *)
FirstOf(list, Test(_)) ==
    LET hits == {i \in DOMAIN list : Test(list[i])}
    IN  IF hits = {} THEN {} ELSE {list[CHOOSE i \in hits : \A j \in hits : i <= j]}

(* How the device's sing-box routes what "app" asks of d,                    *)
ClientRoute(config, app, d) ==
    LET hit == FirstOf(config.rules, LAMBDA r : d \in r.to /\ app \in r.from)
    IN  IF hit = {} THEN config.final ELSE (CHOOSE r \in hit : TRUE).outbound

Tagged(config, tag) == FirstOf(config.dns.servers, LAMBDA s : s.tag = tag)

(* which server answers what the device asks of its DNS,                     *)
Answering(config, d) ==
    LET hit == FirstOf(config.dns.rules, LAMBDA r : d \in r.names)
    IN  Tagged(config, IF hit = {} THEN config.dns.final ELSE (CHOOSE r \in hit : TRUE).server)

(* and which one is asked for the address of d: in the tunnel the device's   *)
(* question is hijacked; a local proxy is handed the name itself, and looks  *)
(* it up, of the default resolver, only to connect to it directly.           *)
ClientResolves(config, app, d) ==
    IF config.hijack THEN Answering(config, d)
    ELSE IF ClientRoute(config, app, d) = "direct-out" THEN Tagged(config, config.resolver)
    ELSE {}

ClientTags(config) == {config.outbounds[i].tag : i \in DOMAIN config.outbounds}

ClientLoads(config) ==
    /\ \A i, j \in DOMAIN config.outbounds :
          config.outbounds[i].tag = config.outbounds[j].tag => i = j
    /\ \A i \in DOMAIN config.rules : config.rules[i].outbound \in ClientTags(config)
    /\ \A i \in DOMAIN config.outbounds : config.outbounds[i].members \subseteq ClientTags(config)
    /\ config.final \in ClientTags(config)
    /\ LET servers == {config.dns.servers[i] : i \in DOMAIN config.dns.servers}
       IN  /\ \A s \in servers : s.detour \in ClientTags(config) \cup {"none"}
           /\ \A i \in DOMAIN config.dns.rules :
                 \E s \in servers : s.tag = config.dns.rules[i].server
           /\ \E s \in servers : s.tag = config.resolver
=============================================================================

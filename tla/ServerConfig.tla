---------------------------- MODULE ServerConfig ----------------------------
(***************************************************************************)
(* The configuration the API writes for the server's sing-box, as a        *)
(* function of the environment, the rules in the order of their            *)
(* priorities, the DNS settings and the clients.                           *)
(*                                                                         *)
(* Kept are the tags, who refers to them, which destinations a rule        *)
(* matches, and whether sing-box can make anything of the patterns and the *)
(* upstreams, which the API takes from requests without looking at them;   *)
(* ports, keys, TLS and logging are left out, and those of the environment *)
(* are taken to be valid.  A destination stands for the domain, address    *)
(* and port a connection asks for.                                         *)
(*                                                                         *)
(* What the code appends to a list for some elements of another one keeps  *)
(* the places those have there: the list is a function on a set of places, *)
(* and its first element is the one at the least of them.                  *)
(***************************************************************************)
EXTENDS Integers, Sequences, FiniteSets

CONSTANTS
    Dests,     \* destinations
    RuZone,    \* those under .ru, .su and .xn--p1ai
    Patterns,  \* what rules have in "pattern"
    Meant,     \* the destinations a pattern names, taken literally
    Number,    \* the number a pattern starts with, or 0
    Takes,     \* Takes[type]: the patterns sing-box takes in a rule of that type
               \* (an address or prefix for ip, no empty name for domain, ...)
    Addrs,     \* what the lists of DNS upstreams have for addresses
    Serves,    \* Serves[detour]: those sing-box takes for a server it reaches that
               \* way (a host name it can only look up through an outbound)
    Default,   \* 1.1.1.1, the one the generator names itself
    DefaultRu, DefaultForeign,  \* the upstreams if the settings cannot be read
    Blank      \* a part of a comma-separated list with nothing in it

RuleTypes == {"domain", "domain_suffix", "domain_keyword", "ip", "geoip", "port", "regex"}

ASSUME ServerAssumption ==
    /\ RuZone \subseteq Dests
    /\ Meant \in [Patterns -> SUBSET Dests] /\ Number \in [Patterns -> Nat]
    /\ Takes \in [RuleTypes -> SUBSET Patterns]
    /\ Serves \in [{"none", "foreign-out"} -> SUBSET Addrs]
    /\ Default \in Addrs /\ Blank \notin Addrs
    /\ DefaultRu \in Seq(Addrs) /\ DefaultForeign \in Seq(Addrs)

(* config.ServerConfig: whether an address and the credentials of the foreign *)
(* server are set, and how it is reached.                                     *)
Env == [ip : BOOLEAN, transport : {"vless", "hysteria2"}, uuid : BOOLEAN, auth : BOOLEAN]

Rule == [type : RuleTypes,
         pattern : Patterns, action : {"direct", "proxy", "block"}, active : BOOLEAN]

Settings == [ru : Seq(Addrs \cup {Blank}), foreign : Seq(Addrs \cup {Blank})]

-----------------------------------------------------------------------------
First(list) == list[CHOOSE i \in DOMAIN list : \A j \in DOMAIN list : i <= j]

SplitCommaList(list) == [i \in {j \in DOMAIN list : list[j] # Blank} |-> list[i]]

(* A changed hasForeignLeg: an address is enough.                           *)
HasForeignAddress(env) == env.ip

(* Asked by the DNS settings, to decide on a detour,                        *)
HasForeignLeg(env) ==
    env.ip /\ IF env.transport = "hysteria2" THEN env.auth ELSE env.uuid

(* and decided again where the outbound is built.                           *)
BuildForeignOutbound(env) ==
    CASE env.ip /\ env.transport = "hysteria2" /\ env.auth -> {"foreign-out"}
      [] env.ip /\ env.transport # "hysteria2" /\ env.uuid -> {"foreign-out"}
      [] OTHER -> {}

Outbounds(env) == {"direct-out"} \cup BuildForeignOutbound(env)

(* What is used if the settings cannot be read.                             *)
DefaultSettings == [ru |-> DefaultRu, foreign |-> DefaultForeign]

(* The upstreams of both lists, those abroad through the foreign server if   *)
(* there is one; names of the Russian zones go to the first of the Russian   *)
(* ones, all others to the first foreign one.                                *)
BuildDNSConfig(env, dns) ==
    LET ru      == SplitCommaList(dns.ru)
        foreign == SplitCommaList(dns.foreign)
        empty(list) == DOMAIN list = {}
        detour  == IF HasForeignLeg(env) THEN "foreign-out" ELSE "none"
    IN  [servers |-> [i \in ({"ru"} \X DOMAIN ru) \cup ({"foreign"} \X DOMAIN foreign) |->
                         IF i[1] = "ru"
                         THEN [tag |-> <<"dns-ru", ru[i[2]]>>, addr |-> ru[i[2]],
                               detour |-> "none"]
                         ELSE [tag |-> <<"dns-foreign", foreign[i[2]]>>, addr |-> foreign[i[2]],
                               detour |-> detour]],
         rules   |-> (IF empty(ru) THEN <<>>
                      ELSE <<[names |-> RuZone, server |-> <<"dns-ru", First(ru)>>]>>)
                     \o (IF empty(foreign) THEN <<>>
                         ELSE <<[names |-> Dests, server |-> <<"dns-foreign", First(foreign)>>]>>),
         final   |-> IF ~empty(foreign) THEN {<<"dns-foreign", First(foreign)>>}
                     ELSE IF ~empty(ru) THEN {<<"dns-ru", First(ru)>>} ELSE {}]

(* populateRouteRuleFields: a geoip rule and a port that is no number cannot *)
(* be written; a regular expression is written as a domain of that spelling, *)
(* which no destination has.  Any other pattern is written as it stands, and *)
(* any number, whether or not sing-box accepts it.                           *)
Expressible(rule) ==
    /\ rule.type # "geoip"
    /\ rule.type = "port" => Number[rule.pattern] > 0

PopulateRouteRuleFields(rule) == IF rule.type = "regex" THEN {} ELSE Meant[rule.pattern]

Accepted(rule) == IF rule.type = "port" THEN Number[rule.pattern] < 2 ^ 16
                  ELSE rule.pattern \in Takes[rule.type]

ActionToOutbound == [direct |-> "direct-out", proxy |-> "foreign-out", block |-> "reject"]

(* A changed Written: rules that are switched off are written as well.       *)
WrittenAll(rule) == Expressible(rule)

Written(rule) == rule.active /\ Expressible(rule)

RouteRules(rules) ==
    [i \in {j \in DOMAIN rules : Written(rules[j])} |->
        [matches |-> PopulateRouteRuleFields(rules[i]),
         taken   |-> Accepted(rules[i]),
         target  |-> ActionToOutbound[rules[i].action]]]

(* The users of the inbound are the active clients.                          *)
Users(peers) == {p.key : p \in {q \in peers : q.active}}

GenerateConfig(env, rules, dns, peers) ==
    [users     |-> Users(peers),
     outbounds |-> Outbounds(env),
     dns       |-> BuildDNSConfig(env, dns),
     rules     |-> RouteRules(rules),
     final     |-> IF BuildForeignOutbound(env) # {} THEN "foreign-out" ELSE "direct-out",
     resolver  |-> <<"dns-foreign", Default>>]

-----------------------------------------------------------------------------
(* validateConfig: the outbounds rules refer to that are not there (logged,  *)
(* and the configuration is written all the same).                           *)
Missing(config) ==
    ({config.rules[i].target : i \in DOMAIN config.rules} \cup {config.final})
        \ (config.outbounds \cup {"reject"})

ServerTags(config) == {config.dns.servers[i].tag : i \in DOMAIN config.dns.servers}

(* What sing-box demands of a configuration: every tag is defined once and   *)
(* every reference has its tag, it can make a matcher of every rule and a    *)
(* server of every upstream.                                                 *)
Loads(config) ==
    /\ Missing(config) = {}
    /\ \A i \in DOMAIN config.rules : config.rules[i].taken
    /\ \A i, j \in DOMAIN config.dns.servers :
          config.dns.servers[i].tag = config.dns.servers[j].tag => i = j
    /\ \A i \in DOMAIN config.dns.servers :
          /\ config.dns.servers[i].detour \in config.outbounds \cup {"none"}
          /\ config.dns.servers[i].addr \in Serves[config.dns.servers[i].detour]
    /\ \A i \in DOMAIN config.dns.rules : config.dns.rules[i].server \in ServerTags(config)
    /\ config.dns.final \subseteq ServerTags(config)
    /\ config.resolver \in ServerTags(config)

(* Where sing-box sends a connection to d: the first rule that matches.      *)
Verdict(config, d) ==
    LET hits == {i \in DOMAIN config.rules : d \in config.rules[i].matches}
    IN  IF hits = {} THEN config.final
        ELSE config.rules[CHOOSE i \in hits : \A j \in hits : i <= j].target
=============================================================================

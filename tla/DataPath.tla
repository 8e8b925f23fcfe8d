------------------------------ MODULE DataPath ------------------------------
(***************************************************************************)
(* Where a client's connections go: the configuration the client has       *)
(* downloaded composed with the one the server runs, over everything the   *)
(* two are made from.  Any of it may change at any time: the environment   *)
(* with a restart, the rest with a request of the panel.                   *)
(*                                                                         *)
(* That the server runs the latest configuration is the subject of         *)
(* ConfigSync, and what is in the table of rules that of RuleTable.        *)
(***************************************************************************)
EXTENDS ServerConfig

CONSTANTS
    RuDirect, Abroad, Private, Endpoint, Packages, Excluded, DirectApps,
    Envs,       \* bound on the environments
    Hy2s,       \* bound on the settings of Hysteria2 for clients
    RuleKinds,  \* bound on the rules, all switched on
    MaxRules,   \* bound on how many there are
    Upstreams,  \* bound on lists of DNS upstreams
    Devices     \* bound on the clients, all switched on

INSTANCE ClientConfig

ASSUME PathAssumption ==
    /\ RuDirect \cup Abroad \cup Private \cup {Endpoint} \subseteq Dests
    /\ Excluded \cup DirectApps \subseteq Packages
    /\ Envs \subseteq Env /\ Hy2s \subseteq Hy2 /\ Devices \subseteq Device
    /\ RuleKinds \subseteq Rule /\ MaxRules \in Nat
    /\ Upstreams \subseteq Seq(Addrs \cup {Blank})

VARIABLES
    env, hy2,  \* the environment the API was started in
    rules,     \* routing_rules, in the order of their priorities
    dns,       \* dns_settings
    peer       \* a client

vars == <<env, hy2, rules, dns, peer>>

Init ==
    /\ env \in Envs /\ hy2 \in Hy2s
    /\ rules = <<>> /\ dns = DefaultSettings
    /\ peer \in Devices

-----------------------------------------------------------------------------
(* A restart with other settings.                                            *)
Reconfigure ==
    /\ \/ env' \in Envs /\ UNCHANGED hy2
       \/ hy2' \in Hy2s /\ UNCHANGED env
    /\ UNCHANGED <<rules, dns, peer>>

(* CreateRule puts a rule at the end; DeleteRule; UpdateRule switches one on  *)
(* or off.  Other orders come about by other sequences of these.              *)
ChangeRules ==
    /\ \/ \E rule \in RuleKinds : Len(rules) < MaxRules /\ rules' = Append(rules, rule)
       \/ \E i \in DOMAIN rules :
             rules' \in {SubSeq(rules, 1, i - 1) \o SubSeq(rules, i + 1, Len(rules)),
                        [rules EXCEPT ![i].active = ~@]}
    /\ UNCHANGED <<env, hy2, dns, peer>>

(* UpdateSettings: a request names the upstreams it wants to change.         *)
UpdateSettings ==
    /\ \E list \in Upstreams : dns' \in {[dns EXCEPT !.ru = list], [dns EXCEPT !.foreign = list]}
    /\ UNCHANGED <<env, hy2, rules, peer>>

(* TogglePeer.                                                               *)
TogglePeer ==
    /\ peer' = [peer EXCEPT !.active = ~@]
    /\ UNCHANGED <<env, hy2, rules, dns>>

Next == Reconfigure \/ ChangeRules \/ UpdateSettings \/ TogglePeer

Spec == Init /\ [][Next]_vars

-----------------------------------------------------------------------------
Server == GenerateConfig(env, rules, dns, {peer})
Client == BuildClientConfigMap(hy2, peer)

(* The key a client presents over VLESS.                                     *)
Keys(client) == UNION {client.outbounds[i].user : i \in DOMAIN client.outbounds}

(* What becomes of a connection of "app" to d, by way of VLESS.              *)
Outcome(server, client, app, d) ==
    IF app \in client.excluded \/ ClientRoute(client, app, d) = "direct-out" THEN "past the server"
    ELSE IF Keys(client) \cap server.users = {} THEN "refused"
    ELSE Verdict(server, d)

(* What is not for the server, whatever the panel's rules say of it.          *)
AppStaysOut(app) == peer.device = "android" /\ peer.mode # "proxy" /\ app \in Excluded \cup DirectApps
StaysOut(d)      == d \in RuZone \cup RuDirect \cup Private \cup {Endpoint}

(* The rules an administrator can count on: those that are switched on and     *)
(* name destinations literally.                                               *)
Effective(d) == {i \in DOMAIN rules : /\ rules[i].active
                                      /\ rules[i].type \notin {"geoip", "regex"}
                                      /\ d \in Meant[rules[i].pattern]
                                      /\ rules[i].type = "port" => Number[rules[i].pattern] > 0}

(* The server's configuration, generated from the settings or, if they cannot  *)
(* be read, from the default ones, loads exactly if                            *)
(*   - no rule that is written asks for a foreign server that is not there,    *)
(*   - each has a pattern, or a port of 16 bits, that sing-box accepts,        *)
(*   - the resolver that the generator names is among the upstreams,           *)
(*   - no upstream is listed twice, and                                        *)
(*   - sing-box can reach each: if there is no foreign server, those abroad    *)
(*     must do without it.                                                     *)
(* The check the generator makes of itself sees the first only, and nobody     *)
(* checks the patterns and upstreams of a request.                             *)
LoadsWhen ==
    LET once(list)   == \A i, j \in DOMAIN list : list[i] = list[j] /\ list[i] # Blank => i = j
        listed(list) == {list[i] : i \in DOMAIN list} \ {Blank}
        detour       == IF HasForeignLeg(env) THEN "foreign-out" ELSE "none"
    IN  \A used \in {dns, DefaultSettings} :
            Loads(GenerateConfig(env, rules, used, {peer})) <=>
                /\ \A i \in DOMAIN rules : rules[i].active /\ Expressible(rules[i]) =>
                      /\ HasForeignLeg(env) \/ rules[i].action # "proxy"
                      /\ Accepted(rules[i])
                /\ Default \in listed(used.foreign)
                /\ once(used.ru) /\ once(used.foreign)
                /\ listed(used.ru) \subseteq Serves["none"]
                /\ listed(used.foreign) \subseteq Serves[detour]

(* Through client and server, the first effective rule decides on a connection *)
(* of an active client, and the foreign server (or the lack of one) on those   *)
(* no rule names; what stays out of the server no rule can reach, and a client *)
(* that is switched off gets nothing from it.                                  *)
FirstRuleDecides ==
    LET server == Server
        client == Client
    IN  Loads(server) =>
    \A app \in Packages, d \in Dests :
        Outcome(server, client, app, d) =
            IF StaysOut(d) \/ AppStaysOut(app) THEN "past the server"
            ELSE IF ~peer.active THEN "refused"
            ELSE IF Effective(d) # {}
                 THEN ActionToOutbound[rules[CHOOSE i \in Effective(d) :
                                                \A j \in Effective(d) : i <= j].action]
            ELSE IF HasForeignLeg(env) THEN "foreign-out" ELSE "direct-out"

(* The client's configuration refers to nothing it does not define, and no     *)
(* name is asked for outside the tunnel unless it is connected to outside it.  *)
(* With a tunnel interface, names are asked for the way they are connected to: *)
(* directly, or through the server - but for applications that Android routes  *)
(* by their own name, which ask through the server for some addresses they do  *)
(* not use it for.  A local proxy asks only for names it connects to directly, *)
(* and asks through the server: the DNS rules it was given decide nothing.     *)
ResolvedWhereRouted ==
    LET client == Client IN
    /\ ClientLoads(client)
    /\ \A app \in Packages, d \in Dests \ (Private \cup {Endpoint}) :
          ~AppStaysOut(app) =>
              LET direct == ClientRoute(client, app, d) = "direct-out"
              IN  \A s \in ClientResolves(client, app, d) :
                     s.detour = IF direct /\ peer.mode # "proxy" THEN "none" ELSE "proxy"
=============================================================================

----------------------------- MODULE MCDataPath -----------------------------
(* An instance of DataPath for TLC: one destination of each kind, and rules  *)
(* of each way to be written, up to two at a time.                           *)
EXTENDS DataPath, TLC

MCDests    == {"vk.ru", "vk.com", "youtube.com", "example.org", "10.0.0.1", "server"}
MCPatterns == {"vk.", "example", "443", "70000", "https", ".*", "93.184.0.0/16", "93.184"}
MCMeant    == ("vk." :> {"vk.ru", "vk.com"}) @@ ("example" :> {"example.org"})
              @@ ("443" :> {"example.org", "youtube.com"}) @@ ("93.184.0.0/16" :> {"example.org"})
              @@ [p \in {"https", "70000", "93.184"} |-> {}] @@ (".*" :> MCDests)
MCNumber   == ("443" :> 443) @@ ("70000" :> 70000) @@ [p \in MCPatterns |-> 0]

(* sing-box takes an address or a prefix for an ip, and any other text for a *)
(* name; a host name for a server it asks by way of the foreign one only.    *)
MCTakes  == [t \in RuleTypes |-> IF t = "ip" THEN {"93.184.0.0/16"} ELSE MCPatterns]
MCServes == [detour \in {"none", "foreign-out"} |->
               {"1.1.1.1", "8.8.8.8", "77.88.8.8"}
                 \cup (IF detour = "none" THEN {} ELSE {"dns.example"})]

R(type, pattern, action) == [type |-> type, pattern |-> pattern, action |-> action, active |-> TRUE]

MCRules == { R("domain_keyword", "vk.", "block"), R("domain", "example", "proxy"),
             R("port", "443", "block"),
             R("port", "https", "proxy"), R("port", "70000", "direct"),
             R("ip", "93.184.0.0/16", "direct"), R("ip", "93.184", "direct"),
             R("geoip", ".*", "proxy"), R("regex", ".*", "direct") }

E(ip, transport, uuid, auth) == [ip |-> ip, transport |-> transport, uuid |-> uuid, auth |-> auth]

MCEnvs == { E(FALSE, "vless", TRUE, TRUE),
            E(TRUE, "vless", TRUE, FALSE),     E(TRUE, "vless", FALSE, TRUE),
            E(TRUE, "hysteria2", FALSE, TRUE), E(TRUE, "hysteria2", TRUE, FALSE) }

MCUpstreams == { <<>>, <<"blank", "1.1.1.1", "dns.example">>, <<"1.1.1.1", "1.1.1.1">> }
MCDefaultRu == <<"77.88.8.8">>
MCDefaultForeign == <<"1.1.1.1", "8.8.8.8">>

MCHy2s    == {[enabled |-> e, password |-> TRUE] : e \in BOOLEAN}
D(device, mode) == [key |-> 1, device |-> device, mode |-> mode, active |-> TRUE]
MCDevices == { D("iphone", "tun"), D("android", ""), D("android", "proxy") }
=============================================================================

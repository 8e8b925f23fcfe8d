SPECIFICATION Spec
CONSTANTS
    Dests <- MCDests
    RuZone = {"vk.ru"}
    Patterns <- MCPatterns
    Meant <- MCMeant
    Number <- MCNumber
    Takes <- MCTakes
    Addrs = {"1.1.1.1", "8.8.8.8", "77.88.8.8", "dns.example"}
    Serves <- MCServes
    Default = "1.1.1.1"
    DefaultRu <- MCDefaultRu
    DefaultForeign <- MCDefaultForeign
    Blank = "blank"
    RuDirect = {"vk.ru", "vk.com"}
    Abroad = {"youtube.com"}
    Private = {"10.0.0.1"}
    Endpoint = "server"
    Packages = {"auto", "gms", "weather", "other"}
    Excluded = {"auto", "gms"}
    DirectApps = {"auto", "weather"}
    Envs <- MCEnvs
    Hy2s <- MCHy2s
    RuleKinds <- MCRules
    MaxRules = 2
    Upstreams <- MCUpstreams
    Devices <- MCDevices
INVARIANTS
    LoadsWhen
    FirstRuleDecides
    ResolvedWhereRouted

------------------------------ MODULE ConfigSync ------------------------------
(***************************************************************************)
(* How a change made in the admin panel reaches sing-box.                  *)
(*                                                                         *)
(* Every mutating HTTP handler of the API commits its change to SQLite and *)
(* then, on its own goroutine and without any lock, regenerates the whole  *)
(* sing-box configuration from three separate reads (rules, DNS settings,  *)
(* peers), rewrites the configuration file in place (truncate, then write) *)
(* and asks sing-box to reload it: PUT /configs of the Clash API first,    *)
(* `docker restart` when that fails.  Handlers run concurrently, any step  *)
(* may fail, the API process may die between two steps, and sing-box may   *)
(* crash and be restarted by Docker on whatever the file holds.            *)
(*                                                                         *)
(* Data is abstract: a peer or a rule is an identifier with a status, the  *)
(* priorities of the rules are one opaque order, the DNS settings are one  *)
(* opaque value, and a configuration is what Generate makes of the three.  *)
(* Some configurations sing-box refuses (Refused; DataPath tells which): it *)
(* keeps crashing in front of them until the file is written anew.         *)
(***************************************************************************)
EXTENDS Naturals, FiniteSets

CONSTANTS
    Handlers,        \* goroutines that serve requests
    Main,            \* the goroutine of main(), which publishes once at startup
    Peers, Rules,    \* identifiers (UUIDs: never reused once deleted)
    SeedPeers,       \* rows the migrations insert again at every start
    SeedRules,
    Orders,          \* priority orders of the rules
    FirstOrder,
    Upstreams,       \* DNS settings
    DefaultUpstream, \* those of the seed, and GenerateConfig's fallback
    PresetSizes,     \* numbers of rules in the presets
    Empty, Corrupt,  \* unreadable contents of the configuration file
    NoConfig,        \* sing-box is not running
    Refused,         \* configurations the program can write and sing-box refuses
    MaxRequests,     \* bound on mutating requests
    MaxCrashes       \* bound on deaths of the API process

ASSUME ConstantsAssumption ==
    /\ Main \notin Handlers
    /\ SeedPeers \subseteq Peers /\ SeedRules \subseteq Rules
    /\ FirstOrder \in Orders /\ DefaultUpstream \in Upstreams
    /\ PresetSizes \subseteq Nat
    /\ MaxRequests \in Nat /\ MaxCrashes \in Nat

VARIABLES
    peers,     \* wg_peers: status of every peer
    rules,     \* routing_rules: status of every rule, and their order
    dns,       \* the single row of dns_settings
    req,       \* req[g]: what goroutine g is doing
    file,      \* contents of the configuration file
    running,   \* configuration sing-box runs with
    api,       \* the API process: "down", "starting" or "serving"
    excused,   \* history: something happened that may leave sing-box stale
    requests,  \* number of mutating requests accepted
    crashes    \* number of deaths of the API process

db   == <<peers, rules, dns>>
vars == <<peers, rules, dns, req, file, running, api, excused, requests, crashes>>

-----------------------------------------------------------------------------
Procs  == Handlers \cup {Main}
Status == {"new", "active", "inactive", "deleted"}
Live   == {"active", "inactive"}

Tables == [peers : [Peers -> Status],
           rules : [rows : [Rules -> Status], order : Orders],
           dns   : Upstreams]

Database == [peers |-> peers, rules |-> rules, dns |-> dns]

(* Active peers become users; active rules become route rules, in their    *)
(* order; the DNS settings become the DNS section.                         *)
Generate(t) == [users |-> {p \in Peers : t.peers[p] = "active"},
                route |-> {r \in Rules : t.rules.rows[r] = "active"},
                order |-> t.rules.order,
                dns   |-> t.dns]

Config   == [users : SUBSET Peers, route : SUBSET Rules, order : Orders, dns : Upstreams]
Loadable == file \notin {Empty, Corrupt} \cup Refused

ASSUME ContentsAssumption ==
    /\ Empty # Corrupt /\ \A x \in {Empty, Corrupt, NoConfig} : x \notin Config
    /\ Refused \subseteq Config

Ops == [kind : {"createPeer", "createRule", "startup", "sync"}]
       \cup [kind : {"deletePeer"}, peer : Peers]
       \cup [kind : {"togglePeer"}, peer : Peers, on : BOOLEAN]
       \cup [kind : {"deleteRule"}, rule : Rules]
       \cup [kind : {"updateRule"}, rule : Rules, on : BOOLEAN]
       \cup [kind : {"reorderRules"}, order : Orders]
       \cup [kind : {"applyPreset"}, size : PresetSizes]
       \cup [kind : {"updateDns"}, upstream : Upstreams]

Stages == {"idle", "commit", "clear", "fill",
           "rules", "dns", "peers", "truncate", "write", "clash", "docker", "reply"}

(* req[g].todo: rules ApplyPreset has still to delete; left: still to create;  *)
(* dirty: a statement of the request was committed; clean: since the first     *)
(* read of the publish nobody else committed or touched the file, and no read  *)
(* fell back to a default; outcome: how it ended.                              *)
Request == [stage : Stages, op : Ops, todo : SUBSET Rules, left : Nat, snap : Tables,
            dirty : BOOLEAN, clean : BOOLEAN,
            outcome : {"none", "failed", "unpublished", "published"}]

NoSnap == [peers |-> [p \in Peers |-> "new"],
           rules |-> [rows |-> [r \in Rules |-> "new"], order |-> FirstOrder],
           dns   |-> DefaultUpstream]

Fresh(op, stage) == [stage |-> stage, op |-> op, todo |-> {}, left |-> 0, snap |-> NoSnap,
                     dirty |-> FALSE, clean |-> FALSE, outcome |-> "none"]
Idle == Fresh([kind |-> "sync"], "idle")

(* Goroutine g has read the first table and has not finished reloading.    *)
Publishing == {"dns", "peers", "truncate", "write", "clash", "docker"}
InWindow(g) == req[g].stage \in Publishing

-----------------------------------------------------------------------------
Init ==
    /\ peers = NoSnap.peers /\ rules = NoSnap.rules /\ dns = DefaultUpstream
    /\ req = [g \in Procs |-> Idle]
    /\ file = Empty /\ running = NoConfig /\ api = "down"
    /\ excused = FALSE /\ requests = 0 /\ crashes = 0

(* A step of g that others cannot notice.                                  *)
Privately(g, r) == req' = [req EXCEPT ![g] = r] /\ UNCHANGED excused

(* A step of g that commits or touches the file: no other publish in       *)
(* progress may count on what it has read or written.                      *)
Publicly(g, r) ==
    /\ req' = [h \in Procs |-> IF h = g THEN r ELSE [req[h] EXCEPT !.clean = FALSE]]
    /\ excused' = (excused \/ \E h \in Procs \ {g} : InWindow(h))

(* The request of g ends.  Unpublished changes excuse staleness from now on. *)
Finish(g, outcome) ==
    /\ req' = [req EXCEPT ![g].stage = "reply", ![g].outcome = outcome, ![g].snap = NoSnap]
    /\ excused' = (excused \/ (req[g].dirty /\ outcome # "published"))

-----------------------------------------------------------------------------
(* Requests.                                                               *)
Requested(h, op) == requests < MaxRequests /\ requests' = requests + 1
                    /\ Privately(h, Fresh(op, "commit"))

Accept(h) ==
    /\ api = "serving" /\ req[h].stage = "idle"
    /\ \/ Requested(h, [kind |-> "createPeer"])
       \/ \E p \in Peers : peers[p] # "new" /\
            \/ Requested(h, [kind |-> "deletePeer", peer |-> p])
            \/ \E on \in BOOLEAN : Requested(h, [kind |-> "togglePeer", peer |-> p, on |-> on])
       \/ Requested(h, [kind |-> "createRule"])
       \/ \E r \in Rules : rules.rows[r] # "new" /\
            \/ Requested(h, [kind |-> "deleteRule", rule |-> r])
            \/ \E on \in BOOLEAN : Requested(h, [kind |-> "updateRule", rule |-> r, on |-> on])
       \/ \E o \in Orders : Requested(h, [kind |-> "reorderRules", order |-> o])
       \/ \E u \in Upstreams : Requested(h, [kind |-> "updateDns", upstream |-> u])
       \/ \E n \in PresetSizes : Requested(h, [kind |-> "applyPreset", size |-> n])
       \/ Privately(h, Fresh([kind |-> "sync"], "rules")) /\ UNCHANGED requests
    /\ UNCHANGED <<db, file, running, api, crashes>>

(* One SQL statement of h is committed.                                    *)
Committed(h, r) == Publicly(h, [r EXCEPT !.dirty = TRUE])
                   /\ UNCHANGED <<file, running, api, requests, crashes>>
Doing(h, kind)  == req[h].stage = "commit" /\ req[h].op.kind = kind
Publish(h)      == [req[h] EXCEPT !.stage = "rules"]

(* A new rule comes with a priority, anywhere in the order.                 *)
InsertRule == \E r \in Rules, o \in Orders :
    rules.rows[r] = "new" /\ rules' = [rules EXCEPT !.rows[r] = "active", !.order = o]

CreatePeer(h) ==
    /\ Doing(h, "createPeer")
    /\ \E p \in Peers : peers[p] = "new" /\ peers' = [peers EXCEPT ![p] = "active"]
    /\ Committed(h, Publish(h)) /\ UNCHANGED <<rules, dns>>

(* A changed DeletePeer: an error of the last statement is ignored.         *)
DeletePeerIgnoringErrors(h) ==
    /\ Doing(h, "deletePeer") /\ UNCHANGED peers
    /\ Committed(h, Publish(h)) /\ UNCHANGED <<rules, dns>>

DeletePeer(h) ==
    /\ Doing(h, "deletePeer") /\ peers[req[h].op.peer] \in Live
    /\ peers' = [peers EXCEPT ![req[h].op.peer] = "deleted"]
    /\ Committed(h, Publish(h)) /\ UNCHANGED <<rules, dns>>

(* A changed TogglePeer: it answers without publishing.                     *)
TogglePeerUnpublished(h) ==
    /\ Doing(h, "togglePeer") /\ peers[req[h].op.peer] \in Live
    /\ peers' = [peers EXCEPT ![req[h].op.peer] = IF req[h].op.on THEN "active" ELSE "inactive"]
    /\ Committed(h, [req[h] EXCEPT !.stage = "reply"]) /\ UNCHANGED <<rules, dns>>

TogglePeer(h) ==
    /\ Doing(h, "togglePeer") /\ peers[req[h].op.peer] \in Live
    /\ peers' = [peers EXCEPT ![req[h].op.peer] = IF req[h].op.on THEN "active" ELSE "inactive"]
    /\ Committed(h, Publish(h)) /\ UNCHANGED <<rules, dns>>

CreateRule(h) ==
    /\ Doing(h, "createRule")
    /\ InsertRule
    /\ Committed(h, Publish(h)) /\ UNCHANGED <<peers, dns>>

(* A changed UpdateRule: it answers without publishing.                     *)
UpdateRuleUnpublished(h) ==
    /\ Doing(h, "updateRule") /\ rules.rows[req[h].op.rule] \in Live
    /\ rules' = [rules EXCEPT !.rows[req[h].op.rule] =
                     IF req[h].op.on THEN "active" ELSE "inactive"]
    /\ Committed(h, [req[h] EXCEPT !.stage = "reply"]) /\ UNCHANGED <<peers, dns>>

(* All columns are written back: an update may carry a new priority, or     *)
(* put back the one it read before a reorder.                               *)
UpdateRule(h) ==
    /\ Doing(h, "updateRule") /\ rules.rows[req[h].op.rule] \in Live
    /\ \E o \in Orders :
        rules' = [rules EXCEPT !.order = o, !.rows[req[h].op.rule] =
                     IF req[h].op.on THEN "active" ELSE "inactive"]
    /\ Committed(h, Publish(h)) /\ UNCHANGED <<peers, dns>>

DeleteRule(h) ==
    /\ Doing(h, "deleteRule") /\ rules.rows[req[h].op.rule] \in Live
    /\ rules' = [rules EXCEPT !.rows[req[h].op.rule] = "deleted"]
    /\ Committed(h, Publish(h)) /\ UNCHANGED <<peers, dns>>

ReorderRules(h) ==
    /\ Doing(h, "reorderRules")
    /\ rules' = [rules EXCEPT !.order = req[h].op.order]
    /\ Committed(h, Publish(h)) /\ UNCHANGED <<peers, dns>>

(* The DNS handler answers as soon as the row is saved: nothing is published. *)
UpdateDns(h) ==
    /\ Doing(h, "updateDns")
    /\ dns' = req[h].op.upstream
    /\ req' = [g \in Procs |->
                 IF g = h THEN [req[h] EXCEPT !.stage = "reply", !.outcome = "unpublished",
                                              !.dirty = TRUE]
                 ELSE [req[g] EXCEPT !.clean = FALSE]]
    /\ excused' = TRUE
    /\ UNCHANGED <<peers, rules, file, running, api, requests, crashes>>

(* The row is gone, or the statement fails (also a foreign key, or the client *)
(* hung up and its context is cancelled): an error answer, nothing published. *)
CommitFails(h) ==
    /\ req[h].stage = "commit"
    /\ Finish(h, "failed")
    /\ UNCHANGED <<db, file, running, api, requests, crashes>>

(* ApplyPreset: list the rules, delete them one by one, insert the preset's   *)
(* one by one.  There is no transaction; a statement that fails is logged and *)
(* skipped.                                                                   *)
ListRules(h) ==
    /\ Doing(h, "applyPreset")
    /\ Privately(h, [req[h] EXCEPT !.stage = "clear",
                                   !.todo = {r \in Rules : rules.rows[r] \in Live},
                                   !.left = req[h].op.size])
    /\ UNCHANGED <<db, file, running, api, requests, crashes>>

ClearRule(h) ==
    /\ req[h].stage = "clear"
    /\ \E r \in req[h].todo :
        LET next == [req[h] EXCEPT !.todo = @ \ {r}] IN
        \/ /\ rules.rows[r] \in Live
           /\ rules' = [rules EXCEPT !.rows[r] = "deleted"]
           /\ Committed(h, next) /\ UNCHANGED <<peers, dns>>
        \/ Privately(h, next) /\ UNCHANGED <<db, file, running, api, requests, crashes>>

Cleared(h) ==
    /\ req[h].stage = "clear" /\ req[h].todo = {}
    /\ Privately(h, [req[h] EXCEPT !.stage = "fill"])
    /\ UNCHANGED <<db, file, running, api, requests, crashes>>

(* A changed FillRule: the loop over the preset's rules does not stop.       *)
FillRuleUnbounded(h) ==
    /\ req[h].stage = "fill"
    /\ LET next == [req[h] EXCEPT !.left = @ - 1] IN
        \/ /\ InsertRule
           /\ Committed(h, next) /\ UNCHANGED <<peers, dns>>
        \/ Privately(h, next) /\ UNCHANGED <<db, file, running, api, requests, crashes>>

FillRule(h) ==
    /\ req[h].stage = "fill" /\ req[h].left > 0
    /\ LET next == [req[h] EXCEPT !.left = @ - 1] IN
        \/ /\ InsertRule
           /\ Committed(h, next) /\ UNCHANGED <<peers, dns>>
        \/ Privately(h, next) /\ UNCHANGED <<db, file, running, api, requests, crashes>>

Filled(h) ==
    /\ req[h].stage = "fill" /\ req[h].left = 0
    /\ Privately(h, Publish(h))
    /\ UNCHANGED <<db, file, running, api, requests, crashes>>

-----------------------------------------------------------------------------
(* GenerateConfig, WriteConfig and Reload, by a handler or by main().      *)
ReadRules(g) ==
    /\ req[g].stage = "rules"
    /\ Privately(g, [req[g] EXCEPT !.stage = "dns", !.snap.rules = rules, !.clean = TRUE])
    /\ UNCHANGED <<db, file, running, api, requests, crashes>>

(* An error here is not fatal: the default servers are used instead.       *)
ReadDns(g) ==
    /\ req[g].stage = "dns"
    /\ \/ Privately(g, [req[g] EXCEPT !.stage = "peers", !.snap.dns = dns])
       \/ /\ req' = [req EXCEPT ![g].stage = "peers", ![g].snap.dns = DefaultUpstream,
                                ![g].clean = FALSE]
          /\ excused' = TRUE
    /\ UNCHANGED <<db, file, running, api, requests, crashes>>

ReadPeers(g) ==
    /\ req[g].stage = "peers"
    /\ Privately(g, [req[g] EXCEPT !.stage = "truncate", !.snap.peers = peers])
    /\ UNCHANGED <<db, file, running, api, requests, crashes>>

(* A read fails or the file cannot be opened: nothing is written.          *)
GiveUp(g) ==
    /\ req[g].stage \in {"rules", "peers", "truncate"}
    /\ Finish(g, "unpublished")
    /\ UNCHANGED <<db, file, running, api, requests, crashes>>

(* A changed Truncate: the file is opened without O_TRUNC.                 *)
TruncateNot(g) ==
    /\ req[g].stage = "truncate"
    /\ Publicly(g, [req[g] EXCEPT !.stage = "write"])
    /\ UNCHANGED <<db, file, running, api, requests, crashes>>

(* os.WriteFile opens with O_TRUNC ...                                     *)
Truncate(g) ==
    /\ req[g].stage = "truncate"
    /\ file' = Empty
    /\ Publicly(g, [req[g] EXCEPT !.stage = "write"])
    /\ UNCHANGED <<db, running, api, requests, crashes>>

(* ... and writes from offset 0.  If another goroutine has filled the file *)
(* since, what it wrote beyond the end of this data stays.                 *)
Write(g) ==
    /\ req[g].stage = "write"
    /\ LET new == Generate(req[g].snap) IN
       file' \in {new} \cup (IF file \in {Empty, new} THEN {} ELSE {Corrupt})
    /\ Publicly(g, [req[g] EXCEPT !.stage = "clash", !.snap = NoSnap])
    /\ UNCHANGED <<db, running, api, requests, crashes>>

(* The write fails half-way (the disk is full).                            *)
WriteFails(g) ==
    /\ req[g].stage = "write"
    /\ file' = Corrupt
    /\ req' = [h \in Procs |->
                 IF h = g THEN [req[g] EXCEPT !.stage = "reply", !.outcome = "unpublished",
                                              !.snap = NoSnap, !.clean = FALSE]
                 ELSE [req[h] EXCEPT !.clean = FALSE]]
    /\ excused' = TRUE
    /\ UNCHANGED <<db, running, api, requests, crashes>>

(* sing-box has loaded the file for g.  If nothing disturbed this publish  *)
(* nor any other in progress, all that was stale before is forgiven.       *)
Reloaded(g) ==
    /\ req' = [req EXCEPT ![g].stage = "reply", ![g].outcome = "published"]
    /\ excused' = (excused /\ \E h \in Procs : InWindow(h) /\ ~req[h].clean)

ClashReload(g) ==
    /\ req[g].stage = "clash" /\ running # NoConfig /\ Loadable
    /\ running' = file
    /\ Reloaded(g)
    /\ UNCHANGED <<db, file, api, requests, crashes>>

(* No answer in 10 s (sing-box may have reloaded all the same), a refused   *)
(* connection or an error status.                                           *)
ClashFails(g) ==
    /\ req[g].stage = "clash"
    /\ running' \in {running} \cup (IF running # NoConfig /\ Loadable THEN {file} ELSE {})
    /\ Privately(g, [req[g] EXCEPT !.stage = "docker"])
    /\ UNCHANGED <<db, file, api, requests, crashes>>

(* docker restart succeeds whatever sing-box then makes of the file: in     *)
(* front of one it refuses it exits, and the request is none the wiser.    *)
DockerRestart(g) ==
    /\ req[g].stage = "docker"
    /\ running' = IF Loadable THEN file ELSE NoConfig
    /\ Reloaded(g)
    /\ UNCHANGED <<db, file, api, requests, crashes>>

DockerFails(g) ==
    /\ req[g].stage = "docker"
    /\ req' = [req EXCEPT ![g].stage = "reply", ![g].outcome = "unpublished"]
    /\ excused' = TRUE
    /\ UNCHANGED <<db, file, running, api, requests, crashes>>

(* The answer: only Sync tells the client that it could not publish.       *)
Reply(h) ==
    /\ req[h].stage = "reply"
    /\ Privately(h, Idle)
    /\ UNCHANGED <<db, file, running, api, requests, crashes>>

-----------------------------------------------------------------------------
(* The API process.                                                        *)

(* InitDB runs every migration again: the INSERT OR IGNOREs bring deleted  *)
(* seed rows back.  Then main() publishes before it listens.               *)
Reseed(rows, seeds) == [x \in DOMAIN rows |->
    IF x \in seeds /\ rows[x] \notin Live THEN "active" ELSE rows[x]]

Boot ==
    /\ api = "down"
    /\ peers' = Reseed(peers, SeedPeers)
    /\ rules' = [rules EXCEPT !.rows = Reseed(@, SeedRules)]
    /\ req' = [req EXCEPT ![Main] = [Fresh([kind |-> "startup"], "rules") EXCEPT !.dirty = TRUE]]
    /\ api' = "starting" /\ excused' = FALSE
    /\ UNCHANGED <<dns, file, running, requests, crashes>>

(* A failed startup publish is only a warning.                             *)
Serve ==
    /\ req[Main].stage = "reply"
    /\ api' = "serving"
    /\ Privately(Main, Idle)
    /\ UNCHANGED <<db, file, running, requests, crashes>>

(* The process dies, or is stopped: main() returns while handlers are still *)
(* running.                                                                 *)
Crash ==
    /\ api # "down" /\ crashes < MaxCrashes
    /\ crashes' = crashes + 1
    /\ req' = [g \in Procs |-> Idle]
    /\ api' = "down"
    /\ UNCHANGED <<db, file, running, excused, requests>>

(* sing-box: a crash, and the restart policy of its container, which has it *)
(* crash over and over while the file is one it refuses.                   *)
SingBoxCrash == running # NoConfig /\ running' = NoConfig
                /\ UNCHANGED <<db, req, file, api, excused, requests, crashes>>
SingBoxStart == running = NoConfig /\ Loadable /\ running' = file
                /\ UNCHANGED <<db, req, file, api, excused, requests, crashes>>

-----------------------------------------------------------------------------
Mutate(h) ==
    \/ CreatePeer(h) \/ DeletePeer(h) \/ TogglePeer(h)
    \/ CreateRule(h) \/ UpdateRule(h) \/ DeleteRule(h) \/ ReorderRules(h)
    \/ UpdateDns(h) \/ CommitFails(h)
    \/ ListRules(h) \/ ClearRule(h) \/ Cleared(h) \/ FillRule(h) \/ Filled(h)

PublishStep(g) ==
    \/ ReadRules(g) \/ ReadDns(g) \/ ReadPeers(g) \/ GiveUp(g)
    \/ Truncate(g) \/ Write(g) \/ WriteFails(g)
    \/ ClashReload(g) \/ ClashFails(g) \/ DockerRestart(g) \/ DockerFails(g)

Next ==
    \/ \E h \in Handlers : Accept(h) \/ Mutate(h) \/ Reply(h)
    \/ \E g \in Procs : PublishStep(g)
    \/ Boot \/ Serve \/ Crash \/ SingBoxCrash \/ SingBoxStart

(* Goroutines are scheduled, the API and sing-box containers are restarted; *)
(* nobody is obliged to send a request.                                     *)
Fairness ==
    /\ \A h \in Handlers : WF_vars(Mutate(h)) /\ WF_vars(Reply(h))
    /\ \A g \in Procs : WF_vars(PublishStep(g))
    /\ WF_vars(Boot) /\ WF_vars(Serve) /\ WF_vars(SingBoxStart)

Spec == Init /\ [][Next]_vars /\ Fairness
-----------------------------------------------------------------------------
(* Types of all variables (the state main.go and the handlers build).      *)
TypeOK ==
    /\ peers \in [Peers -> Status]
    /\ rules \in [rows : [Rules -> Status], order : Orders]
    /\ dns \in Upstreams
    /\ req \in [Procs -> Request]
    /\ file \in Config \cup {Empty, Corrupt}
    /\ running \in (Config \ Refused) \cup {NoConfig}
    /\ api \in {"down", "starting", "serving"}
    /\ excused \in BOOLEAN
    /\ requests \in Nat /\ crashes \in Nat

(* The file is what the database says, and sing-box runs with it or is down: *)
(* until docker starts it with that file, or for as long as the file is one *)
(* it refuses (Stuck).                                                      *)
InSync == /\ file = Generate(Database)
          /\ running \in {NoConfig, Generate(Database)}

(* A publish that reported success and was not disturbed - nobody committed *)
(* or touched the file between its first read and its answer - has made     *)
(* sing-box agree with all three tables, whatever was stale before: also    *)
(* DNS settings nobody published, a corrupt file, or rows a restart         *)
(* brought back.  It is why Sync, and a restart of the API, heal.           *)
CleanPublishIsLive ==
    \A g \in Procs :
        req[g].stage = "reply" /\ req[g].outcome = "published" /\ req[g].clean => InSync

(* The configuration a handler is about to write already shows its own      *)
(* deletion, however its reads interleave with other handlers: a deleted    *)
(* peer or rule is never put back by the request that deleted it.           *)
OwnChangeInSnapshot ==
    \A h \in Handlers :
        /\ req[h].stage \in {"truncate", "write"} /\ req[h].op.kind = "deletePeer"
             => req[h].op.peer \notin Generate(req[h].snap).users
        /\ req[h].stage \in Publishing \ {"clash", "docker"} /\ req[h].op.kind = "deleteRule"
             => req[h].op.rule \notin Generate(req[h].snap).route

Quiescent == api = "serving" /\ \A g \in Procs : req[g].stage \in {"idle", "reply"}

(* When no request is in progress, sing-box disagrees with the database     *)
(* only if one of these happened since the last clean publish: a change     *)
(* that was committed and not published (a DNS update, a failed or          *)
(* cancelled publish, an error half-way through a preset), a commit or a    *)
(* write of one handler in the middle of another's publish, or a DNS read   *)
(* replaced by its default.  Nothing else - no order of requests one after  *)
(* the other, no restart, no sing-box crash, no fallback to docker - does.  *)
DriftHasCause == Quiescent /\ ~excused => InSync

(* sing-box is down in front of a configuration it refuses: the one the      *)
(* database asks for.                                                       *)
Stuck == running = NoConfig /\ file \in Refused /\ InSync

(* Unless one of those things happens, every committed change is eventually *)
(* what sing-box runs with, through API deaths and sing-box crashes - or    *)
(* sing-box is down because it refuses what the change makes of the         *)
(* configuration, which docker restart reports as a success.  Nothing else  *)
(* keeps a published change from sing-box for good.                         *)
ChangeReachesSingBox ==
    ~excused ~> (excused \/ running = Generate(Database) \/ Stuck)
=============================================================================

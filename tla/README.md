# SmartTraffic: TLA+ specifications

SmartTraffic manages a VPN relay. A Go API with a React panel keeps clients,
routing rules and DNS settings in SQLite, generates the configuration of a
`sing-box` process from them, and polls `sing-box` for traffic statistics. This
directory holds the TLA+ model of that program, the TLC configurations that
check it on small instances, and theorems about it that TLAPS checks for all
instances. Paths below are relative to `src/`; `services/`, `handlers/`,
`repository/` and `middleware/` are under `backend/internal/`.

Run, for example, `tlc -config MCConfigSync.cfg MCConfigSync.tla` to check a model
and `tlapm ConfigSyncProofs.tla` to check proofs.

## 1. The system and its parts

| Part | State | Operations | Talks to |
|---|---|---|---|
| Configuration pipeline (`services/singbox.go`, the handlers of peers, routes, presets, DNS) | tables `wg_peers`, `routing_rules`, `dns_settings`; the configuration file; what `sing-box` has loaded | create, delete, toggle a client; create, update, delete, reorder rules; apply a preset; update DNS; sync; startup publish | SQLite, the file system, the Clash API, `docker` |
| Repositories and migrations (`repository/`, `migrations/`) | all tables; one connection (`SetMaxOpenConns(1)`), so statements are atomic and serialised | one statement per method; `Reorder` is the only transaction; `InitDB` re-executes every migration at every start | SQLite |
| Routing rules (`services/routing.go`, `services/preset.go`) | the columns of every rule, its priority among them | default priority `Count()+1`; read-modify-write update; reorder; delete-all-and-insert of presets | repositories |
| Statistics collector (`services/singbox_stats.go`) | baseline per connection, who is online, realtime counters, open sessions, which client an address belongs to | a poll every 10 s: fetch, deltas, credit, log, presence, sessions | Clash API, repositories, alerts |
| Contents of the configurations (`services/singbox.go` for the server, `services/wireguard.go` for clients) | none: functions of environment, tables and client | generate | `sing-box` on the server and on the device |
| Tunnel collector (`services/wgstats.go`) | last counters per WireGuard peer, tunnel up/down | a poll of `wg show` | `wg`, traffic log, alerts |
| Alerts and retention (`services/traffic.go`) | 100 alerts in memory, table `alerts` | add, list, delete, clear, daily clean-up | repositories |
| Realtime provider and simulator (`services/composite_provider.go`, `services/traffic_simulator.go`) | which provider answers | one look 15 s after start, then simulated traffic written to the same tables | collector, repositories |
| Rate limiter (`middleware/ratelimit.go`) | tokens and last visit per remote address | a login attempt; a clean-up every minute | clock |
| Authentication (`services/auth.go`, `middleware/auth.go`) | refresh tokens | login, refresh (rotation), logout, logout everywhere | repositories, clock |
| Panel client (`frontend/src/api/client.ts`) | tokens in local storage, `isRefreshing`, a queue of failed requests | request, 401 handling, refresh | API |
| Deployment (`deploy/`, `scripts/`) | lock file, backups, previous commit, containers | deploy, health check, rollback, patching the configuration | docker, git |

Handlers run concurrently, each on a goroutine of its own, and share nothing but
the database, the configuration file and `sing-box`; there is no lock around a
publish. `main()` publishes once before it listens and starts the collectors,
the cron and the one-shot switch to the simulator as goroutines. Docker restarts
both containers when they die.

### What is hard here

* **Publishing is not atomic.** Commit, three reads, truncation, write and
  reload are seven or more steps; two handlers interleave at any of them
  (`handlers/peers.go:57`, `services/singbox.go:99`, `:307`).
* **Failures are swallowed.** Only *Sync* tells the client that the
  configuration was not published; a DNS read error silently becomes a default;
  DNS updates are never published (`handlers/dns.go:43`).
* **The process can die anywhere**, also between the truncation and the write,
  and on SIGTERM it does not wait for its handlers (`cmd/api/main.go:210`).
* **Every start rewrites the tables**: deleted seed rows come back
  (`repository/sqlite.go:60`).
* **Read-modify-write without transactions**: priorities, toggles, presets,
  refresh tokens, deletion of a client against the collector's inserts.
* **Counters**: per-connection baselines, lost updates after failures,
  recounting after a restart, the rate limiter's truncated refill.

What makes each part correct: the pipeline must converge (what the database
says is what `sing-box` runs with); rules must keep a total order; the collector
must credit every byte once and to the right client, and sessions must agree
with presence; alerts in memory and table must not contradict each other; a
refresh token must be usable once; a login client that backs off must be
served; a rollback must leave the previous version with its database.

`PROJECT.json` lists the hazards one by one, each at its line.

## 2. Modules and plan

Each part has a module of its own; modules that compose others are in the last
column.

| Part | Module | Theorems in | Composed in |
|---|---|---|---|
| Configuration pipeline | `ConfigSync` | `ConfigSyncProofs` | |
| Routing rules | `RuleTable` | `RuleTableProofs` | |
| Server's and clients' configurations | `ServerConfig`, `ClientConfig` | `DataPathProofs` | `DataPath` |
| Statistics collector | `SingBoxStats` | `SingBoxStatsProofs` | |
| Tunnel collector, alerts, realtime provider | `TunnelStats`, `Alerts`, `Realtime` | `MonitoringProofs` | `Monitoring` |
| Rate limiter | `RateLimiter` | `RateLimiterProofs` | |
| Authentication; what it promises | `AuthSession`; `Sessions` | `AuthSessionProofs` | `PanelClient` |
| Panel client | `PanelClient` (extends `AuthSession`) | `PanelClientProofs` | |

`MC<module>` with its `.cfg` files instantiates a module for TLC.

Every safety invariant and every action property of the runs is also a theorem; each
section says from which assumptions and by which inductive invariant, and section 11 what
stays with TLC.

Much of this code has no mechanism that would prevent what can go wrong: nothing
serialises two publishes, two updates of a rule or two refreshes. A property cannot
promise there what the code does not. Seven of them therefore name the race or the
failure itself as an exception, recorded in a history variable or a precondition:
`DriftHasCause` (`excused`), `OneTokenPerSession` (`forked`), `AllSessionsEnded`
(refreshes under way), `PrioritiesDense` (`loose`), `LastWordCounts` (`torn`),
`DeletedStayDeleted` (an insertion under way) and `PagesAgree` (a deleted client in
the map). They do not catch the hazard they name, which the code has; what they show,
and the theorems prove, is that the list of causes is complete, and, where the exception
can be lifted again, what repairs the damage.

What would come next: an abstract ledger for SingBoxStats, to which every
reported byte is posted once; a proof that RuleTable's tables refine the opaque
order of ConfigSync.

## 3. ConfigSync

### State and actions

`peers`, `rules`, `dns` are the three tables (`migrations/001_init.sql`); a row
is `new` (its UUID not drawn yet), `active`, `inactive` or `deleted`; priorities
are one opaque order, DNS settings one opaque value. `file` is the configuration
file: a configuration, `Empty` after a truncation, or `Corrupt` when two writes
left a mixture or a write failed half-way. `running` is what `sing-box` has
loaded, and `Refused` a set of configurations it does not start with, although the
generator writes them: a rule that needs a foreign server, settings without 1.1.1.1, an
`ip` rule that is no address (DataPath says which, `LoadsWhen`). `req[g]` is what goroutine `g` is doing: a stage, the request, the
snapshot it has read so far. `api` is the process: down, starting (publishing
before it listens) or serving.

Every method of the code that changes state is an action, and each SQL statement
or system call of a publish is a step of its own:

| Code | Actions |
|---|---|
| handlers and services of peers, routes, DNS | `Accept`, `CreatePeer`, `DeletePeer`, `TogglePeer`, `CreateRule`, `UpdateRule`, `DeleteRule`, `ReorderRules`, `UpdateDns`, `CommitFails` |
| `PresetService.ApplyPreset` | `ListRules`, `ClearRule`*, `Cleared`, `FillRule`*, `Filled` |
| `GenerateConfig` | `ReadRules`, `ReadDns` (or its defaults), `ReadPeers` |
| `WriteConfig` | `GiveUp`, `Truncate`, `Write`, `WriteFails` |
| `Reload` | `ClashReload`, `ClashFails`, `DockerRestart`, `DockerFails` |
| answer | `Reply` |
| `InitDB`, `main` | `Boot` (migrations, then the startup publish), `Serve`, `Crash` |
| the `singbox` container | `SingBoxCrash`, `SingBoxStart` |

A cancelled request context (the client hung up) is `CommitFails`, or `GiveUp`
after the commit. The Clash API is taken at its word, as the code takes it: a
2xx answer means the file has been loaded, and a call that timed out may have
loaded it. `DockerRestart`, too, is a success whatever the file holds: in front of
one that `sing-box` refuses it goes down and stays down (`services/singbox.go:325`),
until the file is written anew.

Three history variables state the properties. `req[g].clean` holds while nobody
else has committed or touched the file since `g`'s first read and no read fell
back to a default; `excused` becomes true when something happens that may leave
`sing-box` stale and false again when an undisturbed publish succeeds; they are
never read by the code's guards.

### Abstractions

The history of a client (its logs and sessions) is not part of this module: its
deletion is one step that may fail. Priorities are opaque: any update, insertion
or reorder may lead to any order. Two identical contents cannot corrupt each
other; any two different ones may.

### Runs

| Run | Instance | Shows |
|---|---|---|
| `config_sync` | 2 handlers and main, 1 client, 1 rule, 1 order, 2 DNS settings of which `sing-box` refuses one, a preset, 2 mutating requests and any number of syncs, 1 death of the process | `TypeOK`, `CleanPublishIsLive`, `OwnChangeInSnapshot`, `DriftHasCause`, `ChangeReachesSingBox` |

Two handlers and the startup publish are enough for every pairwise
interleaving of publishes, and two requests for every pair of mutations; a
second process death only repeats the first, because everything but the
database, the file and `sing-box` is lost in it. `MaxRequests` and `MaxCrashes`
are the only bounds; syncs, publish failures, `sing-box` crashes and
fallbacks are unbounded. One client and one rule differ enough: they are published
by the same handlers, and with one of each there are already configurations that
differ in either. No symmetry is used, since one of the properties is temporal.
The instance is the largest that liveness can be checked on in a few minutes; the
four invariants are proved for every instance, seed rules, orders and settings
included.

* `CleanPublishIsLive`: whatever was stale before, a publish that answered
  success and was not disturbed has made the file agree with all three tables, and
  left `sing-box` with nothing else. This is what makes *Sync*, and a restart of the API, a cure.
* `OwnChangeInSnapshot`: the configuration a deleting handler is about to write
  does not contain what it deleted, however other handlers interleave.
* `DriftHasCause`: when no request is in progress, `sing-box` disagrees with the
  database only if, since the last clean publish, a change was committed without
  being published, a commit or a write fell into another's publish, or a DNS
  read was defaulted. Nothing else causes drift: no sequence of requests one
  after the other, no restart, no `sing-box` crash, no fallback to docker.
* `ChangeReachesSingBox`: unless one of those happens, a committed change is
  eventually what `sing-box` runs with - or `sing-box` is down in front of just the
  configuration the database asks for, which it refuses (`Stuck`). Nothing repairs that
  but another change by the administrator, who was told that this one was published.

`InSync`, which the second and the fourth are about, means that the file is what the
database says and `sing-box` does not run with anything else. It may be down: because it
has crashed and docker has not yet started it, or because it is `Stuck`. That a published
change is in force is thus what `ChangeReachesSingBox` adds, not `CleanPublishIsLive`.

A toggle whose publish fails is answered 200 (`handlers/peers.go:220`), though the
panel has a message for a failure that left `sing-box` behind
(`frontend/src/hooks/usePeers.ts:61`); `REFACTORING.md` lists the swallowed errors
of routes and presets as known. Such a request finishes `unpublished`, one of the
causes `DriftHasCause` allows.

### Fairness

Weak fairness of every handler's own steps, of its publish and its answer
(goroutines are scheduled, and every call in them has a timeout or fails), of
`Boot` and `Serve` (the `api` container restarts `unless-stopped`) and of
`SingBoxStart` (so does `singbox`). No fairness on `Accept`, on crashes or on
any particular outcome of a step that may fail.

### What is proved

`ConfigSyncProofs.tla`, for any sets of handlers, clients, rules, orders and
settings and without bounds on requests or deaths, from `ConstantsAssumption`
and `ContentsAssumption` (main is not a handler, seed rows are rows, the special
contents of the file are no configurations, the refused ones are some):

* `TypeCorrect`: `Spec => []TypeOK`.
* `CleanPublishCorrect`: `Spec => []CleanPublishIsLive`. The property says
  nothing about a publish on its way, so it is not inductive. `CleanInv` adds
  what a clean goroutine knows at each stage: its snapshot equals the tables it
  has read so far, the file is empty between its truncation and its write and
  equals `Generate(Database)` afterwards (`Undisturbed`), and nobody is at
  work while the process is down (`NobodyWhenDown`).
* `DriftCorrect`: `Spec => []DriftHasCause`. `DriftInv` says that an unexcused
  disagreement is always in somebody's hands (`Pending`): a clean goroutine that
  has not finished publishing, or a dirty one that has not begun.
* `OwnChangeCorrect`: `Spec => []OwnChangeInSnapshot`. `OwnInv` says that what a
  deleting handler has committed stays deleted for the rest of its request, and
  is absent from the part of its snapshot it has read; identifiers are never
  reused while the process lives.

The three inductive invariants were checked by TLC on small instances before they
were proved.

### Only model-checked

`ChangeReachesSingBox`: liveness under fairness is outside the prover's reach.

## 4. SingBoxStats

### State and actions

`conn` is what `sing-box` would report (connections with their byte counters);
`row`, `total`, `logged` and `sessions` are what the collector and the handlers
write to `wg_peers`, `traffic_logs` and `peer_sessions`; `base`, `online`,
`flow`, `sess` and `owner` are the collector's memory (`connState`,
`onlinePeers`, `peerRealtime`, `peerSessions`, `sourceIPToPeerID`); `poll` is the
run of `collect()` in progress, `del` a running `DeletePeer`.

| Code | Actions |
|---|---|
| `fetchConnections`, `computeDeltas` | `Fetch` |
| `handleAggregateVLESS` | `Identify`*, `Identified`, then per client `ChargeShared`, `LogConn`*, `Logged`; `LogUnclaimed` |
| the loop over users in `collect` | per client `Lookup`, `ChargeUser`, `LogConn`*, `Logged` (`updatePeerRealtime`) |
| the end of `collect` | `UsersDone`, `StartSession`*, `Started`, `EndSession`* (with `clearPeerRealtime`), `Finish` (with `cleanupStaleConnections`) |
| `DeletePeer`, `TogglePeer` | `DeletePeer`, `DeleteLogs`, `DeleteSessions`, `DeleteRow`, `DeleteFails`, `TogglePeer` |
| a death and restart of the API | `Crash` |
| `sing-box` (external) | `Opens`, `Transfers`, `Closes` |

Every SQL statement is a step of its own and may fail; the order of map
iterations is left open, as in Go. A statement fails silently, as in the code,
where its row is gone (`UpdateTraffic`), and is refused by a foreign key where the
table has one (`traffic_logs`, `peer_sessions`, the deletion of `wg_peers`).

### Abstractions

One counter stands for upload and download. `last_seen`, alerts, connection
counts and rates are left out; so are the other writers of the traffic log (the
tunnel collector and the simulator), the creation of clients (all exist at the
beginning) and the 60-day clean-up of old logs. Connection identifiers are never
reused, so the clamp of negative deltas in `Fetch` never bites.
`total` of a deleted row keeps its last value, as history.

`Vless` are the connections that came in over VLESS (`isVLESSInbound`). Of a connection
without a user on any other inbound `Fetch` keeps the baseline and nothing else
(`services/singbox_stats.go:552-559`). The configuration the API generates has no such
inbound, but `deploy/server-ru/scripts/apply-tier2.sh:85` adds one, `hy2-in`, with one
password for all: what is transferred over it is in no client's total, in no row of the
log, and makes nobody online.

### Runs

| Run | Instance | Shows |
|---|---|---|
| `stats` | 2 clients with a connection each, and one connection without a user, over VLESS or over another inbound, all at one address; a byte each; one client is toggled and deleted; no failures | `TypeOK`, `AccountedOnce`, `AccountsAgree`, `OpenSessionsAreHeld` |
| `stats_faults` | 1 client, a connection of its own and an anonymous one; 1 failing statement and 1 death of the API, one of the two | `NeverOvercharged`, `OpenSessionsBounded`, `PresenceEnds`, `SessionsEnd` |
| `stats_listing` | the same without failing statements | a counterexample to `LogsCanBeListed` |

Three connections at one address are the smallest instance in which an anonymous
connection can be charged to either of two clients or to nobody, and in which
the address changes hands. One byte per connection is enough for a byte to be
counted in the poll it appears in, counted again by mistake in a later one, or
missed: what matters is how many polls list the connection, and that is not
bounded. The bounds are `MaxBytes`, `MaxOpen` (two connections are open at once; an
address changes hands when one closes and another opens, or when both are in one poll),
`MaxUserless` (how many of the connections without a user open: of `c2` and `c4` one
does), `MaxFaults`, `MaxCrashes`,
`MaxTroubles` (on both together) and `Managed` (the clients the administrator touches); one deletion runs at a time.

* `AccountedOnce`: between polls, the totals and the unattributed log add up to
  what `sing-box` last reported of every connection with a user and of every VLESS
  connection without one (`Counted`). Bytes of other connections are in no account;
  were one of these taken for VLESS, the sum would be too large (`FetchAll`).
* `AccountsAgree`: between polls, the total, the log and the sessions of a client
  with its current counter are three ways to say the same number, unless a
  deletion of the client has begun.
* `OpenSessionsAreHeld`: an open session row is the one the collector remembers
  for its client, and the client is online. Both this and the two properties
  before are about undisturbed histories: a failed statement or a death of the
  process breaks each of them, as the code then has nothing to repair them with.
  Nor do they say that a client whose deletion a log row has made impossible (the
  collector inserts one between `DeleteLogs` and `DeleteRow`) keeps its history: it does
  not, and stays.
* `NeverOvercharged`: whatever happens, a client is charged at most what its own
  connections and the anonymous VLESS ones at its addresses transferred, once per life
  of the process. An anonymous connection may be charged to the wrong one of two
  clients that share an address; the model allows it because the code does.
* `OpenSessionsBounded`: each failure and each death leaves at most one more
  session of a client open.
* `PresenceEnds`, `SessionsEnd`: a client whose connections are closed, or whose
  row is deleted, goes off line for good, and its session ends.
* `LogsCanBeListed` is what the optional `peer_id` of the model and of the panel
  says (`models/traffic.go:7`, `frontend/src/types/index.ts:122`); a row without
  one cannot be scanned (`repository/traffic.go:97`).

A session that a death of the API left open is never closed afterwards
(`OpenSessionsBounded` counts it), so the panel shows it as active for good
(`frontend/src/pages/Monitoring.tsx:293`).

### Fairness

Weak fairness of the poll's next step: the ticker fires, every call has a
timeout or returns, and the Clash API answers sooner or later (while it does not, a poll
changes nothing here; what the pages then say is part of Realtime). Nothing obliges connections, handlers or failures.

### What is proved

`SingBoxStatsProofs.tla`, for any clients, addresses, connections and bounds, from
`StatsAssumption` and `FiniteAssumption` (there are finitely many clients and
connections; without it the sums of the properties mean nothing).

*Sessions.* `SessionsCorrect`, `Spec => []OpenSessionsAreHeld`. The property does not say
who may get a session next, so it is not inductive. `SessionInv` adds that whoever has a
session is `Tracked`: online, or come online earlier in this poll, or not yet
taken off line in it; and that the clients still to be given a session are not
among those online. A client about to be given a session therefore has none, and
nobody's open session is overwritten.

`BoundedCorrect`, `Spec => []OpenSessionsBounded`, does not rest on the absence of
failures. `StrayInv` speaks of the open sessions of a client that the collector does
not hold: they are finite in number and at most as many as there were failures and
deaths. The two places where one more comes to be are the death of the process, which
loses `sess`, and an `UPDATE` of a session that fails after `sess` has dropped it
(`StrayCrash`, `StrayEnd`); a new session takes a number nobody has.

*Sums.* `Sum` is the fold of the community modules over the connections, the clients or
the numbers of sessions. That the fold is a sum (`SumType`, `SumRemove`, `SumUpdate`,
`SumMonotone` and their like) needs induction over finite sets, whose library theorems
take an operator the provers cannot instantiate; `MinimalSubset` and `SubsetInduction`
argue by a smallest counterexample instead (`WFMin`), for a set of subsets in place of an
operator. With the sums come

* `TypeCorrect` (`TypeOK`): no amount leaves the natural numbers.
* `AccountCorrect` (`AccountedOnce`), which is silent during a poll. `Balanced` says what
  holds then: totals, the unattributed log and the increments nobody has been charged
  with yet (`Unpaid`, by the stage of the poll) are together what `sing-box` reported.
  Every step of `collect` either pays a part of `Unpaid` or drops only what carries no
  bytes (`Pays`). `BaseInv` adds that the baselines are what was listed last, `PollInv`
  what a poll keeps of its fetch.
* `OverchargeCorrect` (`NeverOvercharged`), whatever fails. `CostInv` bounds the total of
  a client and what is `Due` from it by all that its connections transferred, once for
  each earlier life of the process, and what this life has listed of them. A
  fetch moves bytes from *not listed* to *due*; a death forgets the baselines, and all may
  be charged once more. That a connection is charged only to clients that were seen at its
  address is `PollInv`.
* `AgreeCorrect` (`AccountsAgree`). `AgreeInv` follows a charge through the poll: what
  the total already has and the log has not is still in the queue, what the counter has
  not is the charge in progress, and whoever is `Tracked` has an open session to put
  the counter in. `HoldInv` says whose a remembered session is, `EraseInv` that a deleted row
  is one whose deletion has begun.

TLC finds these invariants to hold on the instances of `stats` and `stats_faults`,
in four million states of the first.

### Only model-checked

`PresenceEnds` and `SessionsEnd`: liveness is outside the prover's reach.

## 5. AuthSession

### State and actions

`rows` is the table `refresh_tokens`, `issued` counts the pairs drawn so far, and
`call[c]` is one HTTP request in progress (operation, the access half of the pair
in its header, the refresh half of the pair in its body, how far its handler has
come) or its answer. A pair is one record, with its number, the login its session
descends from and its birthday, because its two tokens are drawn together.

| Code | Actions |
|---|---|
| `AuthService.Login` and its handler | `Login`, `LoginRefused` (a wrong password, or 429), `LoginFails` |
| `AuthService.RefreshToken` | `FindToken`, `FindTokenFails`; `DropToken`, `DropTokenFails`; `StoreToken`, `StoreTokenFails` |
| `AuthMiddleware` | `Authenticate`, which also answers `get`, any protected request that leaves the tokens alone |
| `Logout`, `LogoutAll` | `Logout`, `LogoutFails`, `LogoutAll`, `LogoutAllFails` |
| network, death of the process, clock | `AnswerLost`, `Crash`, `Tick` |
| any clients (external) | `ClientSends` |

`Unexpired` is the comparison `expires_at > datetime('now')` as SQLite makes it,
of two texts: the days decide, and on one day the `T` of RFC 3339 is greater than
the blank. `ClientSends` presents a pair that is stored or was just obtained, or
nothing: what a client presents is decided before the handler looks, so a stored
pair may be gone by then.

Abstractions: there is one administrator (the API creates no users, and a
logout-everywhere of one touches no other's rows); the clock of the process is
in UTC, as in the container; refusing malformed bodies changes nothing and is a
`LoginRefused` or not modelled. The bounds are `MaxIssued`, `MaxTime` and
`MaxFaults`. A day is two ticks, so that a token of one tick expires inside the
day it was born in or at the beginning of the next.

### Runs

| Run | Instance | Shows |
|---|---|---|
| `auth` | 2 requests at a time, 2 pairs before the last exchanges begin, 3 ticks, 1 failure or death | `AuthTypeOK`, `OneTokenPerSession`, `AllSessionsEnded`, `RefreshWindow`, `KeepsPromise` |

Two requests are enough for two refreshes to overlap and for a logout to fall into
a refresh; with the pairs, they give a login, its exchange and a second exchange by
either of two concurrent requests, or two sessions of which one ends both. Three
ticks are the day a token expires in and the next.

* `OneTokenPerSession`: a session is worth one refresh token. The code looks a
  row up and deletes it in two statements and ignores a failing deletion, so
  the exceptions are exactly those, recorded in `forked`.
* `AllSessionsEnded`: a logout everywhere ends every session of its time for good,
  but those with a refresh between its lookup and its `INSERT`: that refresh stores
  a row the deletion could not see. `ended` records which sessions it ended. The
  panel says 'Все сессии завершены' (all sessions are ended,
  `frontend/src/pages/Settings.tsx:15`) in either case.
* `RefreshWindow`: a refresh token is honoured for its time, and never for a
  whole day longer. The seven days of the documentation
  (`.opencode/skills/developer.md:147`) are therefore up to eight.
* `KeepsPromise`: the service implements `Sessions`, the abstract specification of
  what it is for: tokens are drawn, exchanged for another of the same session, and
  end. `drawn` is mapped to `issued`, and `held` to the tokens that are in the table
  or in the hands of a refresh that has found them and not yet stored its new
  one. A token that is good for nothing any more never becomes good again, and a
  session without a token is over, through failing statements, lost answers,
  deaths and the refreshes that a logout everywhere does not see. Expiry is not
  part of the mapping: a row that has expired is still there, and is deleted by
  nobody.

### What is proved

`AuthSessionProofs.tla`, for any sets and bounds, from `AuthAssumption`:
`AuthTypeCorrect` (`AuthTypeOK`), `OneTokenCorrect` (`OneTokenPerSession`),
`SessionsEndCorrect` (`AllSessionsEnded`), `PromiseKept` (`KeepsPromise`) and
`WindowCorrect` (`RefreshWindow`). The second is not inductive: it says nothing of
refreshes in progress. The inductive invariant adds that numbers and sessions are drawn
before they are used, so that a new login shares its session with nobody, and that of the stored tokens and
the refreshes that have deleted theirs there is one at most for every session
that is not `forked`.

For the third, `Over` adds that an ended session has no refresh on its way, and
that only sessions that have begun are ended, so a new login is none of them.

`PromiseKept` is the refinement: every step of the service is a step of `Sessions`
or changes neither `drawn` nor `held` (`PromiseStep`, one case per action). Three
kinds of action matter: a grant draws the next number (`GrantStep`), a refresh that
has found its row holds the token from then on until it stores another, so that
its lookup, its deletion and its failure lose tokens at most (`EndStep`), and
what is held was drawn before (`HeldSeen`), from the type invariant.

`WindowCorrect` needs the types only, and the arithmetic of days (`Days`): that the day
of one time is not before that of another puts it less than a day before it.

## 6. PanelClient

### State and actions

The module EXTENDS AuthSession: the panel replaces `ClientSends`, and every other
action of the server stays. `storage` is the pair in local storage, shared by
the tabs; `page[t]` is what tab `t` shows (the application, its login page, or
`/login` outside the application, with nothing loaded); `refreshing[t]` is
`isRefreshing`; `req[c]` is a request of the script: pending, waiting in
`failedQueue`, leading a refresh, or of a page that is gone.

| Code | Actions |
|---|---|
| request interceptor (`api/client.ts:9`) | `Send`, a part of the actions that send |
| response interceptor (`api/client.ts:34`) | `Enqueue`, `StartRefresh`, `LeaveForLogin`, `Refreshed`, `RefreshFailed`, `Reject` |
| hooks (`hooks/useAuth.ts`), `AppLayout`, `Login`, `Settings` | `Begin`, `Succeed`, `Reject`, `LogoutLocally` |
| routes (`App.tsx`) | `Redirect` |
| the user opens or reloads a tab | `Open` |
| an answer to a page that was unloaded | `Discard` |
| the API (AuthSession) | `ServerStep`, `Tick`, `Crash` |

An action is what the script does on one answer: JavaScript runs to completion,
and the continuations of an answer's promises run before the next one.
Leaving for `/login` unloads the page in the same step; in a browser some
milliseconds of script may follow, which could only begin requests nobody waits
for. The queue is a set, because its members are resumed or refused together.
React Query's own behaviour (one retry of a query that failed) is a further
`Begin`.

### Runs

| Run | Instance | Shows |
|---|---|---|
| `panel` | 1 tab with 2 requests at a time, 1 login, 1 tick (every access token may expire), no failures | `PanelTypeOK`, `RefreshIsLed`, `SessionKept`, `RequestsSettle` |
| `panel_tabs` | 2 tabs with 1 request each, 1 failure or death | `HeldTokenNotSpent` |
| `panel_logout` | 1 tab, 1 request | a counterexample to `LogoutEndsSession` |

Two requests in a tab are a leader and a member of the queue, or two leaders if
`isRefreshing` did not do its work; two tabs with a request each are two leaders
that share a token. `MaxLogins` bounds the pairs, with `MaxTime`, since an access
token can be refused only after a tick.

* `RefreshIsLed`: a tab has at most one refresh in progress, `isRefreshing` is set
  exactly while it has, and whoever waits in the queue has it to wait for. The
  early return without a refresh token (`api/client.ts:54-60`) leaves the flag
  set; it is harmless only because the page goes away.
* `SessionKept`: with one tab, no failures and a refresh token that does not expire,
  nothing but a logout makes the panel
  forget a token that is still good. The exceptions are a reload, or a login,
  in the middle of a refresh.
* `HeldTokenNotSpent`: with tabs, failures and deaths, local storage does not
  keep a token that a refresh has used up, unless a tab is refreshing or was
  reloaded while it did.
* `RequestsSettle`: every request of a page is answered, or the page goes away.
* `LogoutEndsSession` is what `REFACTORING.md:203` says of `logout()`. The body of the
  request is made before an expired access token makes the interceptor exchange
  the refresh token in it (`hooks/useAuth.ts:24`), so the repeated request deletes a
  row that is gone and leaves the new one.

A refused login, too, is a 401 without a refresh token: since the login page is
`/admin/login` and not `/login`, `LeaveForLogin` unloads it
(`api/client.ts:56`, `App.tsx:46`).

Fairness (`panel` only): weak fairness of every request's handler and of
every answer's handling - goroutines run, and the script's event loop does.
A user is never obliged to do anything, and the clock need not advance.

### What is proved

`PanelClientProofs.tla`, for any tabs, requests, failures and logins, from
`PanelAssumption` and `AuthAssumption`: `PanelTypeCorrect` (`PanelTypeOK`),
`RefreshLedCorrect` (`RefreshIsLed`), `HeldTokenCorrect` (`HeldTokenNotSpent`), and
`PanelOneToken`: whatever the tabs send, `OneTokenPerSession` of the service holds.
The module EXTENDS AuthSessionProofs, whose inductive invariant is the first part of
`PanelInv`; every action of the panel keeps it because a `Send` is a request like any
other. The rest is the browser's part:

* `Fresh`: a pair in an answer is one that the browser has not seen, so that storing it
  never brings back a spent one.
* `Watched`: a refresh that may still use up the stored token has a tab that leads it,
  or is forsaken. When the service then deletes the row, there is somebody who will
  replace the token once the answer arrives, as `HeldTokenNotSpent` demands.
* `AllDrawn`: what the browser holds, sends or has spent was drawn by the service.

With the same invariant, the panel and the service together implement `Sessions`
(`PanelKeepsPromise`), and a logout everywhere ends the sessions of every tab
(`PanelSessionsEnd`): what a page does is to take answers and to send requests (`SendsOnly`),
which changes neither what is held nor what a refresh has found, whatever token of the past
it sends. AuthSession's own clients present tokens that are stored or just drawn, so
these are no instances of its theorems.

`SessionKeptCorrect` is `Calm /\ PanelSpec => SessionKept`. `Calm` describes the kind of
instance the property is about, for any number of requests: one tab, `MaxFaults = 0`, and a
clock that stops before a refresh token expires. Two invariants lead to it: `Linked`, that
the service does what the request in the slot asked, with a pair in every answer that
should have one; and `Kept`, that a tab which refreshes, undisturbed, presents the stored
token, which is not spent before its own refresh spends it, and that a denial proves the
token worthless. With two tabs `Kept` is false: the second leader presents what the first
has spent. TLC checked both on the instance of `panel` first.

`RequestsSettle` is model-checked only: it is liveness.

## 7. RateLimiter

`known`, `tokens` and `last` are `rl.visitors`; the mutex makes a request one
step, `Admit` or `TurnAway`, and the clean-up another, `Cleanup`. There is no timer
that refills: `Refill` computes the bucket from the whole intervals since the last
request, and drops the remainder. `since` and `admitted` are history: `Watch(a)`
may begin to count the requests of an address at any moment, so a property of
the count is one of every window.

The run `rate_limiter` has two addresses, a bucket of two, a token for two ticks
and a clean-up after four ticks of silence, for seven ticks: enough for a bucket
to be emptied, refilled, forgotten and used again within one window.

* `AdmissionBound`: in any window an address gets at most a burst and one rate
  per whole interval, although the clean-up hands out full buckets.
* `PatientIsServed`: a client that waited for an interval is served, whatever
  happened before.

An address is what Go reports as the remote address, host and port.

`RateLimiterProofs.tla` proves `TypeCorrect` and `AdmissionCorrect` for any
addresses, rate, interval, burst and unbounded time, from `LimiterAssumption`; its
last conjunct, that a silent address could have filled its bucket before it is
forgotten (5 seconds against 10 minutes), is what makes the clean-up harmless. The
inductive invariant `AllCovered` balances what was admitted and what is in the
bucket against what the time between the beginning of the window and the last
visit has earned; for a forgotten address, against its silence. The arithmetic
(`EarnedTogether`, `SilenceFills`) is in lemmas about the truncated division.
`PatienceCorrect` proves `PatientIsServed` from the types: a whole interval adds `Rate` to
the bucket (`WaitingFills`), and nothing takes it out before the request.

## 8. RuleTable

### State and actions

`rules` is the table `routing_rules`, a function from the numbers of its rows;
`call[h]` is what a handler remembers between two statements. What ConfigSync
leaves opaque, the order of rules, is here the column `priority`, which no
constraint keeps unique.

| Code | Actions |
|---|---|
| `CreateRule` | `CountRules`, `InsertCounted` (no priority given); `InsertAt` |
| `UpdateRule` | `ReadRule`, then `WriteRule`, or `WriteNothing` if the row is gone |
| `DeleteRule`, `ReorderRules` | `DeleteRule`, `Reorder` (the only transaction) |
| `ApplyPreset` | `ListRules`; `ClearRule`* or `KeepRule` (the `DELETE` fails); `PlaceRule`* or `SkipRule` (the `INSERT` fails) |
| the client hangs up in the middle | `Abandon` |
| a restart: handlers lost, missing seed rows inserted again | `Restart` |

A request may name any integer as a priority, zero in a creation excepted, which stands
for none (`services/routing.go:33`); `Priorities` are those the requests of an instance
name.

The columns are three: the body (name, type, pattern and action), the priority
and whether the rule is active. A request whose first statement fails or finds
nothing is no step. An `Abandon` stands for every failing statement after it:
the context of the request is cancelled, and each of them fails (in
`ApplyPreset` one by one, each logged).

`said`, `torn` and `loose` are history: the last value anybody asked for in a
column, the columns an update wrote back over somebody else's value and nobody has
asked for since, and whether something happened since the last complete reorder or undisturbed preset
that may leave a gap or a tie.

### Run

`rules`: 2 handlers, 2 seed rows, a preset of 2 rules, reorders of all the rules, of
some, of one that is not there and of one twice; updates of the body or of the other
two columns; priorities -1 and 2, 3 requests, 5 rows, 1 failing statement, 1 restart.
Three requests are a preset, or an update, and two others that fall between its
statements. The system may stop: nobody has to send a request.

* `PrioritiesDense`: the priorities are 1 to n, each once, unless one of the causes
  in `loose` has occurred: a request with a priority of its own, a deletion other than
  of the last rule, a create overtaken between its `COUNT` and its `INSERT`, an
  update that writes an old priority back, an incomplete reorder, a disturbed
  preset. Otherwise two rules with one priority would be in an order SQLite
  chooses. A complete reorder or an undisturbed preset repairs everything.
* `LastWordCounts`: a column holds what was last asked for it, unless a concurrent
  update that asked for something else wrote it back (`torn`); the next update or
  reorder that names the column puts it right. A delete and a
  restart do not bring older values of a surviving row back.
* `PresetReplacesAll`: a preset applied without a failing statement leaves none of
  the rules it found, whatever others do to them meanwhile; if nobody does anything, the
  table is the preset in its order.

### What is proved

`RuleTableProofs.tla` proves all four properties of the run, for any handlers, presets,
orders and bounds, from `RuleAssumption` (presets and orders are not empty, and there is
a body a rule can have). `TypeCorrect` and `LastWordCorrect` follow from `TableInv`,
which adds that row numbers are never used again, and `Sound(h)`: what a preset has
listed and not yet deleted is in its list of things to do, and one that nobody disturbs
has made as much of the table as `Progress` says. This is also what `PresetCorrect`
needs at the last statement. `DenseCorrect` is inductive relative to `TableInv`
(`DenseInv`); its arithmetic is that of the cardinality of a table with one row more, one
row less, or the rows of a permutation.

## 9. ServerConfig, ClientConfig, DataPath

### The two functions

`ServerConfig` is `GenerateConfig` (`services/singbox.go:98`) and `ClientConfig` is
`buildClientConfigMap` (`services/wireguard.go:157`), definition by definition, reduced
to tags, references and what rules match; ports, keys, TLS, sniffing and logging are left
out, and those that come from the environment are taken to be valid. A destination stands
for the domain, address and port a connection asks for.

What `sing-box` makes of them is external. `Loads` and `ClientLoads` say what it starts
with: tags are defined once, references have their tags, and it can use every pattern,
port and upstream. Which patterns and upstreams those are is up to two constants: `Takes`,
by type of rule (an address or prefix for `ip`; almost anything for a domain), and
`Serves`, by the way a DNS server is reached (a host name only by way of an outbound that
looks it up). The API checks none of these values (`models/route.go:37`, `services/dns.go:43`);
a port it reads as a number and writes if it is positive, and `sing-box` takes 16 bits.
`Verdict` and `ClientRoute` are the first rule that matches. `ClientResolves` says who is
asked for an address. In tunnel mode the device's question is hijacked and goes by the DNS
rules (`Answering`). A local proxy gets no question but the name itself: it looks the name
up only to connect to it directly, and then by `route.default_domain_resolver`
(`services/wireguard.go:296`).

`DataPath` composes them. Its state is all they are made from: environment
(changed by a restart), rules, DNS settings and a client. Every reachable state is one
the program can be in, and the properties are about the functions in it.

### Run

`paths`: one destination of each kind (a Russian zone, a directly routed domain, one from
the list of blocked services, another, a private address, the server itself), up to two
rules out of each type that is treated differently (a port that is no number or too
large, a prefix and what is none, a geoip rule and a regular expression among them),
five environments (no address, either transport with and without its credentials),
upstream lists that are empty, have a blank part, a host name, or an address twice, and
three kinds of device. Two rules are enough for one to shadow another.

* `LoadsWhen`: exactly when the server's configuration can be loaded. All of these are
  needed: without a foreign server no written rule has the action `proxy`; `sing-box`
  takes the pattern or port of each; 1.1.1.1 is among the foreign upstreams, since the
  resolver the generator names is `dns-foreign-1.1.1.1` whatever the settings are
  (`services/singbox.go:162`); no address is listed twice, since tags are made of them;
  and every upstream can be reached the way it is to be. The generator's own check
  (`validateConfig`) sees only the first. `hasForeignLeg`, which decides on the DNS
  detour, and `buildForeignOutbound`, which decides on the outbound, must agree.
* `FirstRuleDecides`: through both configurations, the first active rule an
  administrator can count on decides, then whether there is a foreign server; what
  the client's lists keep out of the tunnel no rule of the panel reaches, and a
  client that is switched off gets nothing.
* `ResolvedWhereRouted`: in tunnel mode the client asks for a name the way it will
  connect to it. The exception are applications routed directly by name on Android. In
  proxy mode the only names it asks for are those it connects to directly, and it asks
  for them through the server: the two DNS rules of that mode (`buildProxyDNSConfig`),
  which send Russian names to a Russian server, decide nothing for these requests.

The rules `FirstRuleDecides` does not count on are geoip rules, which the generator
drops with a warning, and regular expressions, which it writes as a domain of that
spelling (`services/singbox.go:289`): the two built-in presets with the pattern `.*`,
"all traffic directly" and "all traffic through the proxy"
(`migrations/002_seed.sql:11`), thus have no effect but to remove all other rules.

A Hysteria2 connection is made with a password all clients share
(`services/wireguard.go:362`), and the server's configuration generated by the API has
no inbound for it: where `Outcome` speaks of a client that is switched off, it is about
VLESS.

### What is proved

`DataPathProofs.tla` proves the three properties (`LoadsCorrect`, `FirstRuleCorrect`,
`ResolvedCorrect`) for any destinations, patterns, addresses, lists of rules and of
upstreams, environments and devices, from `ServerAssumption` and `PathAssumption`. The
invariant is that of the types (`Typed`); the work is in the functions. `FirstRuleCorrect`
goes through the lists of rules of client and server: the first rule that matches in a list
put together from parts is the first of the first part that has one. `LoadsCorrect`
shows in both directions that references, tags, patterns and upstreams are sound exactly
under the conditions of `LoadsWhen`, for any `Takes` and `Serves`; what it takes on trust
is that `sing-box` demands no more of a configuration than `Loads` does.
`ResolvedCorrect` takes the modes apart: `Resolves` for the tunnel, the one resolver for
the proxy.

For these proofs a filtered list is a function on the places that are kept (`First` takes
the least of them), and not a `SelectSeq`, whose definition is recursive. What `sing-box` and
the device make of a list, the first entry that matches and which tags are defined, does
not depend on how its places are numbered.

## 10. Monitoring: Alerts, TunnelStats, Realtime

### State and actions

Three parts in one process, composed in `Monitoring`, which adds what they share: a
process that dies and starts again as a whole (`Restart`), and the budget of events.

| Code | Actions |
|---|---|
| `TrafficService.AddAlert` | `Raise` (memory, under the mutex), `InsertAlert` (the table), as parts of the actions that raise alerts |
| `DeleteAlert`, `ClearAllAlerts` | `DeleteAlert`, `ClearAllAlerts` (the table), `Forget` (memory) |
| `startCleanupCron` | `HalfDay`, which ticks at the end of a day |
| `WGStatsCollector.collect` | `CollectDown`, `FinishDown`; `CollectUp`, `FinishUp`; `Collect` |
| the tunnel (external) | `Carry`, `LoseLink`, `MakeLink` |
| `SingBoxStatsCollector.collect` up to its flag | `ApiDown`, `ApiUp`, `FinishAlert` |
| the rest of it | `Serve` |
| `main`, 15 s after the start | `Look`, `FinishStart` |
| `TrafficSimulator.simulate` | `Simulate` |
| `TogglePeer`, `DeletePeer` | `Toggle`, `Delete` |
| `sing-box`, clients, the clock (external) | `FlipApi`, `Connect`, `Forgotten` |

`collect` of the statistics collector is refined in SingBoxStats; here it is about the
flag `apiReachable`, which it sets outside the critical sections in which others read
it (a data race: `Look` may read the old value, `published`), and about the map it
serves. Peer alerts (a client came, a client left) are left out: they are raised by the
same goroutine in the same way. The simulator's invented traffic is left out: it goes to the
log and the totals of real clients, and the program never returns to the collector.

Time passes in half days, and a statement does not take that long. `events` counts
everything the API does not do by itself: requests, restarts, failing statements,
time, and the environment's steps; the collectors' own runs are unbounded.

### Run

`monitoring`: 2 clients, a memory of 2 alerts, alerts kept for one half day and logs for
two; the tunnel alone with 6 events, the clients alone with 3, both with 1. The parts
share the alerts only, so that what can go wrong between them needs few events; the
tunnel needs six for a counter to be seen, lost, and seen again around a restart. With
three columns as well as four: a line of `wg show <interface> transfer` has three
(`services/wgstats.go:162` wants four, as the tests feed it), and then no byte is logged.
Deadlock is not checked: with its events used up, the system may be at rest.

* `DeletedStayDeleted`: what was deleted does not come back, from the table or from
  memory. An alert whose insertion a deletion overtakes does, and is left out.
* `AlertsExpire`: an alert outlives its retention by less than a day, plus a day for
  each clean-up that failed and each restart. An API that is restarted daily never
  deletes one: the cron counts from its start, and its clean-up 30 s after the start
  does not include alerts (`cmd/api/main.go:30`).
* `TunnelAccounted`: no byte of the tunnel is logged twice, except those a
  restart makes the collector see again; and without lost interfaces and rows none
  is left out.
* `NewestTunnelAlert`: the newest tunnel alert says what the server pages say.
* `PagesAgree`: the number of clients online on one page is that of the clients shown
  online on another, as long as the map in use holds no deleted client. The collector's
  map holds one only until it next ends a run, which it does not while the Clash API is
  down; the simulator's for the rest of the process's life.
* `SimulatorHasCause`: the switch to the simulator has a cause: the collector has not
  ended a run, or the API has failed since.

### What is proved

`MonitoringProofs.tla`, for any clients, capacities, retentions, traffic and budget, from
`AlertsAssumption`, `ColumnsAssumption` and `BudgetAssumption`:

* `ExpiryCorrect` (`AlertsExpire`), with `Prompt`: an alert is inserted in the half day it
  was raised in.
* `TunnelCorrect` (`TunnelAccounted`), with `Pending`, which accounts for what `wg` has said
  while the alert is inserted and the interface may be made anew, and `Monotone`: as long as
  all goes well the counter only grows.
* `NewestCorrect` (`NewestTunnelAlert`), with `Sorted` (tunnel alerts
  come from the tunnel's collector only), `InOrder` (one that is not inserted yet is newer
  than those in the table) and `OnItsWay` (its kind is what the flag will say, or says).
* `PagesCorrect` (`PagesAgree`), with `KnownInv`: whoever is in a map was in the table, and
  left it by a deletion.
* `LookCorrect` (`SimulatorHasCause`), with `FlagInv`: what the flag is worth outside the
  critical sections, to whoever reads it.

* `DeletedCorrect` (`DeletedStayDeleted`), with `DeletedInv`: a deleted alert is not in the
  table and not about to be inserted, and while it is in memory a request is about to
  take it out. This rests on `MemoryOK` (the list in memory is no longer than its
  capacity, newest first, and holds alerts that were made) and on `RowsOK` (ids in the
  table are not used twice).
* `MonitoringTypesCorrect` (`MonitoringTypeOK`), from the invariants above and `LinkTyped`.

`Forget` filters the list in memory by `Kept`, the elements at some places, which lemma
`KeptSelected` shows to be a sublist: as long as there are places, in their order.

### What the pages then say

The panel warns when the Clash API is unreachable (`frontend/src/pages/Monitoring.tsx:343`),
but once the simulator answers, it always says that it is reachable
(`services/traffic_simulator.go:39`).

## 11. Only model-checked, and not modelled

Four properties are model-checked only: `ChangeReachesSingBox`, `PresenceEnds`,
`SessionsEnd` and `RequestsSettle`. They are liveness under weak fairness, for which the
installed provers have neither rules nor `ENABLED`. The two properties that are violated
(`LogsCanBeListed`, `LogoutEndsSession`) have counterexamples and no theorems. Operators declared
`RECURSIVE` and filters of sequences (`SelectSeq`) are nowhere in the modules theorems are
about, since nothing could be proved of what they return; folds are, by the argument of
section 4.

Not modelled:

* Rendering of the panel, the landing page, nginx and iptables, QR codes, CORS and the CI
  workflows keep no state of their own or are configuration of other programs.
* Of configuration loading only the settings that DataPath's functions read are there;
  numbers and defaults are parsed once.
* Of the server status pages only what they say of the tunnel.
* Reading methods of the repositories (aggregates, listings, statistics) are there where
  a property is about what they show: `ListLogs`, `OnlinePeers`, `PeersOnline`, `GetAlerts`.
* The deployment and rollback scripts are run one at a time behind a lock file, on other
  machines. They share the configuration file and the database with the program, and
  what must hold of these after a rollback is stated nowhere.

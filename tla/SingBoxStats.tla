----------------------------- MODULE SingBoxStats -----------------------------
(***************************************************************************)
(* How the traffic of VLESS clients is accounted for.                      *)
(*                                                                         *)
(* Every 10 s one goroutine of the API lists the connections of sing-box   *)
(* (GET /connections of the Clash API), turns the byte counters into       *)
(* deltas, and charges each delta to a peer, a statement at a time: the    *)
(* total of the peer's row, a row of traffic_logs per connection, and a    *)
(* session row for the time the peer is online.  A connection sing-box     *)
(* reports without a user is charged to the peer last seen at the same     *)
(* address, or to nobody, if it came in over VLESS; over another inbound   *)
(* (the shared password of Hysteria2) it is not accounted for at all.  The *)
(* baseline of the deltas, who is online and the open sessions live in     *)
(* memory only.                                                            *)
(*                                                                         *)
(* Meanwhile connections open, transfer and close, HTTP handlers toggle    *)
(* peers and delete them (three statements, no transaction), statements    *)
(* fail and the process dies.                                              *)
(*                                                                         *)
(* One byte counter stands for upload and download.  Alerts, last_seen,    *)
(* connection counts, rates, and the 60-day cleanup of old logs are left   *)
(* out.                                                                    *)
(***************************************************************************)
EXTENDS Naturals, FiniteSets, Functions

CONSTANTS
    Peers,       \* VLESS clients
    Managed,     \* bound: the clients the administrator toggles and deletes
    Nobody,      \* no peer: an empty user, an unknown address, a NULL peer_id
    Sources,     \* client addresses
    Conns,       \* connections sing-box reports: fresh ids, never reused
    User,        \* User[c]: metadata.user of the connection, or Nobody
    Vless,       \* the connections that come in over VLESS (isVLESSInbound)
    Source,      \* Source[c]: metadata.sourceIP
    MaxBytes,    \* bound on the bytes of a connection
    MaxOpen,     \* bound on the connections open at once
    MaxUserless, \* bound on the connections without a user that open
    MaxFaults,   \* bound on failed statements
    MaxCrashes,  \* bound on deaths of the API process
    MaxTroubles  \* bound on the two together

ASSUME StatsAssumption ==
    /\ Managed \subseteq Peers /\ Nobody \notin Peers
    /\ User \in [Conns -> Peers \cup {Nobody}] /\ Source \in [Conns -> Sources]
    /\ Vless \subseteq Conns
    /\ MaxBytes \in Nat /\ MaxOpen \in Nat /\ MaxUserless \in Nat
    /\ MaxFaults \in Nat /\ MaxCrashes \in Nat /\ MaxTroubles \in Nat

(* A run sees a finite number of clients and of connections.               *)
ASSUME FiniteAssumption == IsFiniteSet(Peers) /\ IsFiniteSet(Conns)

VARIABLES
    conn,      \* the connections of sing-box and their byte counters
    row,       \* wg_peers: "active", "inactive" or "gone"
    total,     \* wg_peers.total_rx + total_tx (of a gone row: what it was)
    logged,    \* traffic_logs: bytes in the rows of a peer, or of Nobody
    sessions,  \* peer_sessions
    issued,    \* last id of peer_sessions (AUTOINCREMENT)
    base,      \* connState: counters at the last poll (0: no entry)
    online,    \* onlinePeers
    flow,      \* peerRealtime[p].SessionRx + SessionTx (0: no entry)
    sess,      \* peerSessions[p].sessionID (0: no entry)
    owner,     \* sourceIPToPeerID
    poll,      \* the run of collect() in progress
    del,       \* the run of DeletePeer in progress
    erased,    \* history: peers whose rows a DeletePeer began to delete
    listed,    \* history: what sing-box last reported of each connection
    faults, crashes

tables  == <<row, total, logged, sessions, issued>>
memory  == <<base, online, flow, sess, owner>>
history == <<erased, listed, faults, crashes>>
vars    == <<conn, tables, memory, poll, del, history>>

-----------------------------------------------------------------------------
Somebody == Peers \cup {Nobody}
Sum(f, S) == SumFunctionOnSet(f, S)

ConnState == [stage : {"new", "open", "closed"}, bytes : 0 .. MaxBytes]
Session   == [peer : Peers, id : Nat, open : BOOLEAN, bytes : Nat]
Poll == [stage : {"idle", "match", "shared", "users", "charge", "log", "start", "end"},
         seen : SUBSET Conns, delta : [Conns -> Nat], claim : [Conns -> Somebody],
         queue : SUBSET Conns, todo : SUBSET Peers, now : SUBSET Peers,
         cur : Somebody, mine : SUBSET Conns, next : {"shared", "users"}]
Deletion == [stage : {"none", "logs", "sessions", "row"}, peer : Somebody]

NoPoll == [stage |-> "idle", seen |-> {}, delta |-> [c \in Conns |-> 0],
           claim |-> [c \in Conns |-> Nobody], queue |-> {}, todo |-> {}, now |-> {},
           cur |-> Nobody, mine |-> {}, next |-> "shared"]
NoDeletion == [stage |-> "none", peer |-> Nobody]

Init ==
    /\ conn = [c \in Conns |-> [stage |-> "new", bytes |-> 0]]
    /\ row = [p \in Peers |-> "active"] /\ total = [p \in Peers |-> 0]
    /\ logged = [x \in Somebody |-> 0] /\ sessions = {} /\ issued = 0
    /\ base = [c \in Conns |-> 0] /\ online = {} /\ flow = [p \in Peers |-> 0]
    /\ sess = [p \in Peers |-> 0] /\ owner = [s \in Sources |-> Nobody]
    /\ poll = NoPoll /\ del = NoDeletion
    /\ erased = {} /\ listed = [c \in Conns |-> 0] /\ faults = 0 /\ crashes = 0

(* A statement fails (disk full, or the context is cancelled at shutdown). *)
Fault ==
    /\ faults < MaxFaults /\ faults + crashes < MaxTroubles
    /\ faults' = faults + 1 /\ UNCHANGED <<erased, listed, crashes>>
NoFault == UNCHANGED history
-----------------------------------------------------------------------------
(* sing-box.  Its configuration may lag behind the database, so any user    *)
(* may connect.                                                             *)
Userless == {c \in Conns : User[c] = Nobody}

(* The bounds on connections: not of the code.                              *)
MayOpen(c) ==
    /\ Cardinality({d \in Conns : conn[d].stage = "open"}) < MaxOpen
    /\ c \in Userless => Cardinality({d \in Userless : conn[d].stage # "new"}) < MaxUserless

Opens(c) ==
    /\ conn[c].stage = "new" /\ MayOpen(c)
    /\ conn' = [conn EXCEPT ![c].stage = "open"]
    /\ UNCHANGED <<tables, memory, poll, del, history>>

Transfers(c) ==
    /\ conn[c].stage = "open" /\ conn[c].bytes < MaxBytes
    /\ conn' = [conn EXCEPT ![c].bytes = @ + 1]
    /\ UNCHANGED <<tables, memory, poll, del, history>>

Closes(c) ==
    /\ conn[c].stage = "open"
    /\ conn' = [conn EXCEPT ![c].stage = "closed"]
    /\ UNCHANGED <<tables, memory, poll, del, history>>

-----------------------------------------------------------------------------
(* The poll.                                                                *)
Open == {c \in Conns : conn[c].stage = "open"}

(* A connection without a user counts only if it came in over VLESS.        *)
Counted == {c \in Conns : User[c] # Nobody \/ c \in Vless}

(* computeDeltas.  The connections with a user are seen to later; those     *)
(* without one are looked up by address, under the mutex.  Of a connection  *)
(* that does not count only the baseline is kept.                           *)
FetchWith(counted, change) ==
    /\ poll.stage = "idle"
    /\ LET delta == [c \in Conns |-> IF c \in Open \cap counted THEN change[c] ELSE 0]
           claim == [c \in Conns |-> IF User[c] = Nobody /\ delta[c] # 0
                                     THEN owner[Source[c]] ELSE Nobody] IN
       poll' = [NoPoll EXCEPT !.stage = "match", !.seen = Open,
                              !.delta = delta, !.claim = claim,
                              !.queue = {c \in Conns : claim[c] # Nobody}]
    /\ base'   = [c \in Conns |-> IF c \in Open THEN conn[c].bytes ELSE base[c]]
    /\ listed' = [c \in Conns |-> IF c \in Open THEN conn[c].bytes ELSE listed[c]]
    /\ UNCHANGED <<conn, tables, online, flow, sess, owner, del, erased, faults, crashes>>

(* A changed Fetch: the difference is taken the wrong way round.            *)
FetchReversed == FetchWith(Counted, [c \in Conns |-> base[c] - conn[c].bytes])

Grown == [c \in Conns |-> IF conn[c].bytes > base[c] THEN conn[c].bytes - base[c] ELSE 0]

(* A changed Fetch: every connection without a user is taken for VLESS.     *)
FetchAll == FetchWith(Conns, Grown)

(* A failed fetch ends the poll: nothing changes.                           *)
Fetch == FetchWith(Counted, Grown)

(* handleAggregateVLESS: an address counts only while its peer is active.   *)
Identify(c) ==
    /\ poll.stage = "match" /\ c \in poll.queue
    /\ \/ /\ row[poll.claim[c]] = "active"
          /\ poll' = [poll EXCEPT !.queue = @ \ {c}]
          /\ NoFault /\ UNCHANGED owner
       \/ /\ (row[poll.claim[c]] # "active" /\ NoFault) \/ Fault
          /\ poll' = [poll EXCEPT !.queue = @ \ {c}, !.claim[c] = Nobody]
          /\ owner' = [owner EXCEPT ![Source[c]] = Nobody]
    /\ UNCHANGED <<conn, tables, base, online, flow, sess, del>>

Identified ==
    /\ poll.stage = "match" /\ poll.queue = {}
    /\ poll' = [poll EXCEPT !.stage = "shared",
                            !.todo = {poll.claim[c] : c \in Conns} \ {Nobody}]
    /\ UNCHANGED <<conn, tables, memory, del, history>>

(* UpdateTraffic adds to the row, if there is one.                          *)
AddToTotal(p, mine) ==
    total' = IF row[p] = "gone" THEN total
             ELSE [total EXCEPT ![p] = @ + Sum(poll.delta, mine)]

(* What is charged to p is written to the log, a connection at a time.      *)
ToLog(p, mine, next, todo) ==
    [poll EXCEPT !.stage = "log", !.cur = p, !.mine = mine, !.next = next, !.todo = todo,
                 !.queue = {c \in mine : poll.delta[c] > 0}, !.now = @ \cup {p}]

(* Failing to charge an address-matched connection does not stop its log.   *)
ChargeShared(p) ==
    /\ poll.stage = "shared" /\ p \in poll.todo
    /\ LET mine == {c \in Conns : poll.claim[c] = p} IN
        /\ \/ AddToTotal(p, mine) /\ NoFault
           \/ Fault /\ UNCHANGED total
        /\ poll' = ToLog(p, mine, "shared", poll.todo \ {p})
    /\ UNCHANGED <<conn, row, logged, sessions, issued, memory, del>>

(* The rest is logged with peer_id NULL.                                    *)
LogUnclaimed ==
    /\ poll.stage = "shared" /\ poll.todo = {}
    /\ LET rest == Sum(poll.delta, {c \in poll.seen : User[c] = Nobody /\ poll.claim[c] = Nobody}) IN
        \/ logged' = [logged EXCEPT ![Nobody] = @ + rest] /\ NoFault
        \/ rest > 0 /\ Fault /\ UNCHANGED logged
    /\ poll' = [poll EXCEPT !.stage = "users",
                            !.todo = {User[c] : c \in poll.seen} \ {Nobody}]
    /\ UNCHANGED <<conn, row, total, sessions, issued, memory, del>>

(* GetByPublicKey: the bytes of an unknown user are dropped.                *)
Lookup(p) ==
    /\ poll.stage = "users" /\ p \in poll.todo
    /\ \/ /\ row[p] # "gone" /\ NoFault
          /\ poll' = [poll EXCEPT !.stage = "charge", !.cur = p, !.todo = @ \ {p},
                                  !.now = @ \cup {p}]
       \/ /\ (row[p] = "gone" /\ NoFault) \/ Fault
          /\ poll' = [poll EXCEPT !.todo = @ \ {p}]
    /\ UNCHANGED <<conn, tables, memory, del>>

ChargeUser ==
    /\ poll.stage = "charge"
    /\ LET p    == poll.cur
           mine == {c \in poll.seen : User[c] = p}
           used == {Source[c] : c \in {d \in mine : poll.delta[d] > 0}} IN
        \/ /\ AddToTotal(p, mine) /\ NoFault
           /\ owner' = [s \in Sources |-> IF s \in used THEN p ELSE owner[s]]
           /\ poll' = ToLog(p, mine, "users", poll.todo)
        \/ /\ used # {} /\ Fault
           /\ poll' = [poll EXCEPT !.stage = "users"]
           /\ UNCHANGED <<total, owner>>
    /\ UNCHANGED <<conn, row, logged, sessions, issued, base, online, flow, sess, del>>

(* The foreign key rejects a log of a row that is gone.                     *)
LogConn(c) ==
    /\ poll.stage = "log" /\ c \in poll.queue
    /\ \/ row[poll.cur] # "gone" /\ NoFault
          /\ logged' = [logged EXCEPT ![poll.cur] = @ + poll.delta[c]]
       \/ row[poll.cur] = "gone" /\ NoFault /\ UNCHANGED logged
       \/ Fault /\ UNCHANGED logged
    /\ poll' = [poll EXCEPT !.queue = @ \ {c}]
    /\ UNCHANGED <<conn, row, total, sessions, issued, memory, del>>

(* updatePeerRealtime.                                                      *)
Logged ==
    /\ poll.stage = "log" /\ poll.queue = {}
    /\ flow' = [flow EXCEPT ![poll.cur] = @ + Sum(poll.delta, poll.mine)]
    /\ poll' = [poll EXCEPT !.stage = poll.next, !.cur = Nobody, !.mine = {}]
    /\ UNCHANGED <<conn, tables, base, online, sess, owner, del, history>>

(* A changed UsersDone: it starts a session for everyone who is online.     *)
UsersDoneForAll ==
    /\ poll.stage = "users" /\ poll.todo = {}
    /\ poll' = [poll EXCEPT !.stage = "start", !.todo = poll.now]
    /\ UNCHANGED <<conn, tables, memory, del, history>>

UsersDone ==
    /\ poll.stage = "users" /\ poll.todo = {}
    /\ poll' = [poll EXCEPT !.stage = "start", !.todo = poll.now \ online]
    /\ UNCHANGED <<conn, tables, memory, del, history>>

(* CreateSession: also rejected by the foreign key.                         *)
StartSession(p) ==
    /\ poll.stage = "start" /\ p \in poll.todo
    /\ \/ /\ row[p] # "gone" /\ NoFault
          /\ issued' = issued + 1 /\ sess' = [sess EXCEPT ![p] = issued']
          /\ sessions' = sessions \cup {[peer |-> p, id |-> issued', open |-> TRUE, bytes |-> 0]}
       \/ /\ (row[p] = "gone" /\ NoFault) \/ Fault
          /\ UNCHANGED <<issued, sess, sessions>>
    /\ poll' = [poll EXCEPT !.todo = @ \ {p}]
    /\ UNCHANGED <<conn, row, total, logged, base, online, flow, owner, del>>

Started ==
    /\ poll.stage = "start" /\ poll.todo = {}
    /\ poll' = [poll EXCEPT !.stage = "end", !.todo = online \ poll.now]
    /\ UNCHANGED <<conn, tables, memory, del, history>>

Closed(id, bytes) ==
    {IF s.id = id THEN [s EXCEPT !.open = FALSE, !.bytes = bytes] ELSE s : s \in sessions}

(* endSession and clearPeerRealtime.                                        *)
EndSessionWith(p, closing, rest) ==
    /\ poll.stage = "end" /\ p \in poll.todo
    /\ \/ sessions' = closing /\ NoFault
       \/ sess[p] # 0 /\ Fault /\ UNCHANGED sessions
    /\ sess' = [sess EXCEPT ![p] = 0] /\ flow' = [flow EXCEPT ![p] = rest]
    /\ poll' = [poll EXCEPT !.todo = @ \ {p}]
    /\ UNCHANGED <<conn, row, total, logged, issued, base, online, owner, del>>

(* Changed EndSessions: the counters of the session are not cleared; the row *)
(* is not updated.                                                           *)
EndSessionUncleared(p) == EndSessionWith(p, Closed(sess[p], flow[p]), flow[p])
EndSessionUnclosed(p)  == EndSessionWith(p, sessions, 0)

EndSession(p) == EndSessionWith(p, Closed(sess[p], flow[p]), 0)

(* cleanupStaleConnections forgets the connections that were not listed.    *)
FinishForgetting(S, now) ==
    /\ poll.stage = "end" /\ poll.todo = {}
    /\ online' = now
    /\ base' = [c \in Conns |-> IF c \in S THEN 0 ELSE base[c]]
    /\ poll' = NoPoll
    /\ UNCHANGED <<conn, tables, flow, sess, owner, del, history>>

(* A changed Finish: all connections are forgotten.                         *)
FinishForgettingAll == FinishForgetting(Conns, poll.now)

(* A changed Finish: onlinePeers is only added to.                          *)
FinishAddingOnline == FinishForgetting(Conns \ poll.seen, online \cup poll.now)

Finish == FinishForgetting(Conns \ poll.seen, poll.now)

-----------------------------------------------------------------------------
(* The handlers.                                                            *)
TogglePeer(p) ==
    /\ row[p] # "gone"
    /\ row' = [row EXCEPT ![p] = IF @ = "active" THEN "inactive" ELSE "active"]
    /\ UNCHANGED <<conn, total, logged, sessions, issued, memory, poll, del, history>>

(* DeletePeer: the peer is read, then its logs, its sessions and its row are *)
(* deleted.  One deletion at a time.                                         *)
DeletePeer(p) ==
    /\ del.stage = "none" /\ row[p] # "gone"
    /\ del' = [stage |-> "logs", peer |-> p]
    /\ UNCHANGED <<conn, tables, memory, poll, history>>

DeleteLogs ==
    /\ del.stage = "logs"
    /\ logged' = [logged EXCEPT ![del.peer] = 0]
    /\ del' = [del EXCEPT !.stage = "sessions"]
    /\ erased' = erased \cup {del.peer}
    /\ UNCHANGED <<conn, row, total, sessions, issued, memory, poll, listed, faults, crashes>>

DeleteSessions ==
    /\ del.stage = "sessions"
    /\ sessions' = {s \in sessions : s.peer # del.peer}
    /\ del' = [del EXCEPT !.stage = "row"]
    /\ UNCHANGED <<conn, row, total, logged, issued, memory, poll, history>>

(* The foreign keys protect what the collector wrote in the meantime: the   *)
(* peer survives without its history.                                       *)
Referenced(p) == logged[p] > 0 \/ \E s \in sessions : s.peer = p

DeleteRow ==
    /\ del.stage = "row"
    /\ row' = IF Referenced(del.peer) THEN row ELSE [row EXCEPT ![del.peer] = "gone"]
    /\ del' = NoDeletion
    /\ UNCHANGED <<conn, total, logged, sessions, issued, memory, poll, history>>

DeleteFails ==
    /\ del.stage # "none" /\ Fault
    /\ del' = NoDeletion
    /\ UNCHANGED <<conn, tables, memory, poll>>

(* The API process dies and is restarted: everything in memory is lost,     *)
(* the database and the connections of sing-box are not.                    *)
Crash ==
    /\ crashes < MaxCrashes /\ faults + crashes < MaxTroubles /\ crashes' = crashes + 1
    /\ base' = [c \in Conns |-> 0] /\ online' = {} /\ flow' = [p \in Peers |-> 0]
    /\ sess' = [p \in Peers |-> 0] /\ owner' = [s \in Sources |-> Nobody]
    /\ poll' = NoPoll /\ del' = NoDeletion
    /\ UNCHANGED <<conn, tables, erased, listed, faults>>

-----------------------------------------------------------------------------
PollStep ==
    \/ Fetch \/ Identified \/ LogUnclaimed \/ ChargeUser \/ Logged
    \/ UsersDone \/ Started \/ Finish
    \/ \E c \in Conns : Identify(c) \/ LogConn(c)
    \/ \E p \in Peers : ChargeShared(p) \/ Lookup(p) \/ StartSession(p) \/ EndSession(p)

Next ==
    \/ PollStep
    \/ \E c \in Conns : Opens(c) \/ Transfers(c) \/ Closes(c)
    \/ \E p \in Managed : TogglePeer(p) \/ DeletePeer(p)
    \/ DeleteLogs \/ DeleteSessions \/ DeleteRow \/ DeleteFails
    \/ Crash

(* The ticker keeps firing and sing-box keeps answering, sooner or later.   *)
Spec == Init /\ [][Next]_vars /\ WF_vars(PollStep)

-----------------------------------------------------------------------------
(* GET /monitoring/logs without a filter (and a page that reaches back far    *)
(* enough): a NULL peer_id does not scan into a string, the request fails.    *)
ListLogs == IF logged[Nobody] > 0 THEN "error" ELSE "ok"

(* Types of all variables (the fields of SingBoxStatsCollector, the rows).   *)
TypeOK ==
    /\ conn \in [Conns -> ConnState]
    /\ row \in [Peers -> {"active", "inactive", "gone"}]
    /\ total \in [Peers -> Nat] /\ logged \in [Somebody -> Nat]
    /\ sessions \subseteq Session /\ issued \in Nat
    /\ base \in [Conns -> Nat] /\ online \subseteq Peers
    /\ flow \in [Peers -> Nat] /\ sess \in [Peers -> Nat] /\ owner \in [Sources -> Somebody]
    /\ poll \in Poll /\ del \in Deletion
    /\ erased \subseteq Peers /\ listed \in [Conns -> Nat]
    /\ faults \in Nat /\ crashes \in Nat

Undisturbed == faults = 0 /\ crashes = 0
BetweenPolls == poll.stage = "idle"

(* Between two polls the database accounts for exactly the bytes sing-box    *)
(* last reported of every connection with a user and of every VLESS one:     *)
(* none is lost or counted twice, however anonymous connections are          *)
(* attributed, peers toggled and polls repeated, unless a statement failed,  *)
(* the process died or a peer was deleted.  The bytes of connections without *)
(* a user on other inbounds are in none of the accounts.                     *)
AccountedOnce ==
    BetweenPolls /\ Undisturbed /\ (\A p \in Peers : row[p] # "gone")
        => Sum(total, Peers) + logged[Nobody] = Sum(listed, Counted)

(* The connections that may be charged to p: its own and the anonymous VLESS *)
(* ones of addresses it uses.                                                *)
MayCost(p) ==
    {c \in Conns : \/ User[c] = p
                   \/ /\ User[c] = Nobody /\ c \in Vless
                      /\ \E d \in Conns : User[d] = p /\ Source[d] = Source[c]}

(* Whatever fails and whoever is deleted, no peer is charged more than was   *)
(* transferred on its connections - once per life of the API process, as a   *)
(* restart forgets what was charged before.                                  *)
NeverOvercharged ==
    \A p \in Peers :
        total[p] <= (crashes + 1) * Sum([c \in Conns |-> conn[c].bytes], MayCost(p))

(* Between two polls the three accounts of a peer agree: its total, its log, *)
(* and its sessions with the counter of the current one.                     *)
AccountsAgree ==
    BetweenPolls /\ Undisturbed => \A p \in Peers \ erased :
        LET mine  == {s \in sessions : s.peer = p}
            bytes == [i \in 1 .. issued |->
                        IF \E s \in mine : s.id = i
                        THEN (CHOOSE s \in mine : s.id = i).bytes ELSE 0] IN
        total[p] = logged[p] /\ total[p] = Sum(bytes, 1 .. issued) + flow[p]

(* An open session row is the one the collector holds for a peer that is     *)
(* online or being taken off line: no peer has two, none is forgotten, also  *)
(* when deletions, toggles and failed charges interleave with a poll.        *)
OpenSessionsAreHeld ==
    Undisturbed => \A s \in sessions : s.open =>
        /\ sess[s.peer] = s.id
        /\ BetweenPolls => s.peer \in online

(* However statements fail and the process dies, each failure and each death  *)
(* leaves at most one more session of a peer open.                           *)
OpenSessionsBounded ==
    \A p \in Peers :
        Cardinality({s \in sessions : s.peer = p /\ s.open}) <= 1 + crashes + faults

(* Everything sing-box may charge to p is over, or p was deleted.            *)
Left(p) == row[p] = "gone" \/ \A c \in MayCost(p) : conn[c].stage = "closed"

(* A client that left is reported online no longer, for good.                *)
PresenceEnds == \A p \in Peers : Left(p) ~> [](p \notin online)

HasOpenSession(p) == \E s \in sessions : s.peer = p /\ s.open

(* A client that left has no open session eventually.                        *)
SessionsEnd == \A p \in Peers : Left(p) ~> (~Undisturbed \/ ~HasOpenSession(p))

(* The model of a log leaves its peer optional, so logs are listed also when  *)
(* some belong to nobody.  They are not.                                     *)
LogsCanBeListed == ListLogs = "ok"
=============================================================================

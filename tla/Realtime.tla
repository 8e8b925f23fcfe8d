------------------------------ MODULE Realtime ------------------------------
(***************************************************************************)
(* Which clients are online, and who says so.                              *)
(*                                                                         *)
(* The pages ask a provider for its map of clients.  It hands the question *)
(* to the collector of SingBoxStats until, 15 s after the start, somebody  *)
(* looks whether that has reached the Clash API; if not, it is the traffic *)
(* simulator that answers for the rest of the process's life, while the    *)
(* collector goes on.  A client the map does not hold may still be online  *)
(* by wg_peers.last_seen, but only if the map is empty.                    *)
(*                                                                         *)
(* A run of the collector is taken here as one step once it has changed    *)
(* apiReachable: SingBoxStats shows its statements.  It writes that flag   *)
(* without the mutex under which it is read, a data race: a reader gets    *)
(* the value or the one of the collector's last critical section.  The     *)
(* part of Monitoring about clients.                                       *)
(***************************************************************************)
EXTENDS Alerts, FiniteSets

CONSTANT Clients

VARIABLES
    api,          \* the Clash API answers
    connected,    \* the clients with connections to sing-box
    row,          \* wg_peers: "on", "off" or "gone"
    recent,       \* the rows with a last_seen of the last 2 minutes
    apiReachable,
    published,    \* its value at the collector's last critical section
    collect,      \* where a run of collect is
    listed,       \* the clients the Clash API has listed to that run
    realtime,     \* the collector's peerRealtime
    looked,       \* the look 15 s after the start is over
    fallback,     \* CompositeRealtimeProvider.active is the simulator
    simulated,    \* the simulator's peerRealtime
    sure,         \* history: a run ended well and the API answers ever since
    dropped       \* history: clients deleted since a run ended well

realtimeVars == <<api, connected, row, recent, apiReachable, published, collect, listed,
                  realtime, looked, fallback, simulated, sure, dropped>>

process  == <<apiReachable, published, collect, listed, realtime>>
provider == <<looked, fallback, simulated>>
world    == <<api, connected, row>>

InitRealtime ==
    /\ api \in BOOLEAN /\ connected = {} /\ row = [c \in Clients |-> "on"]
    /\ recent = {} /\ apiReachable = FALSE /\ published = FALSE
    /\ collect = "idle" /\ listed = {} /\ realtime = {}
    /\ looked = FALSE /\ fallback = FALSE /\ simulated = {}
    /\ sure = FALSE /\ dropped = {}

Existing == {c \in Clients : row[c] # "gone"}
On       == {c \in Clients : row[c] = "on"}

-----------------------------------------------------------------------------
(* The environment: sing-box, its clients, the clock and the administrator.   *)
FlipApi ==
    /\ Event
    /\ api' = ~api /\ sure' = FALSE
    /\ UNCHANGED <<connected, row, recent, process, provider, dropped>>

Connect(c) ==
    /\ Event
    /\ connected' = (connected \cup {c}) \ (connected \cap {c})
    /\ UNCHANGED <<api, row, recent, process, provider, sure, dropped>>

Forgotten(c) ==
    /\ Event /\ c \in recent
    /\ recent' = recent \ {c}
    /\ UNCHANGED <<world, process, provider, sure, dropped>>

Toggle(c) ==
    /\ Event /\ c \in Existing
    /\ row' = [row EXCEPT ![c] = IF @ = "on" THEN "off" ELSE "on"]
    /\ UNCHANGED <<api, connected, recent, process, provider, sure, dropped>>

Delete(c) ==
    /\ Event /\ c \in Existing
    /\ row' = [row EXCEPT ![c] = "gone"] /\ recent' = recent \ {c}
    /\ dropped' = dropped \cup {c}
    /\ UNCHANGED <<api, connected, process, provider, sure>>

-----------------------------------------------------------------------------
(* A run of collect.  With no answer it leaves the map as it is.               *)
ApiDown ==
    /\ collect = "idle" /\ ~api /\ apiReachable
    /\ collect' = "down"
    /\ Raise("api", "api down")
    /\ UNCHANGED <<world, recent, apiReachable, published, listed, realtime, provider,
                   sure, dropped, events>>

ApiUp ==
    /\ collect = "idle" /\ api /\ ~apiReachable
    /\ collect' = "up" /\ listed' = connected
    /\ Raise("api", "api up")
    /\ UNCHANGED <<world, recent, apiReachable, published, realtime, provider,
                   sure, dropped, events>>

(* A changed FinishAlert: the flag is not set when the API is back.            *)
FinishAlertUnset(ok) ==
    /\ IF ok THEN UNCHANGED events ELSE Event
    /\ InsertAlert("api", ok)
    /\ apiReachable' = FALSE
    /\ collect' = IF collect = "up" THEN "serve" ELSE "idle"
    /\ UNCHANGED <<world, recent, published, listed, realtime, provider, sure, dropped>>

(* The flag is set after the alert was inserted, without the mutex.            *)
FinishAlert(ok) ==
    /\ IF ok THEN UNCHANGED events ELSE Event
    /\ InsertAlert("api", ok)
    /\ apiReachable' = (collect = "up")
    /\ collect' = IF collect = "up" THEN "serve" ELSE "idle"
    /\ UNCHANGED <<world, recent, published, listed, realtime, provider, sure, dropped>>

(* The rest of a run that got an answer: who is found in the table, enabled or *)
(* not, is in the map.                                                         *)
Serves(clients) ==
    /\ published' = apiReachable
    /\ realtime' = clients \cap Existing /\ recent' = recent \cup (clients \cap Existing)
    /\ collect' = "idle" /\ listed' = {}
    /\ sure' = api /\ dropped' = {}
    /\ UNCHANGED <<world, apiReachable, provider>>
    /\ UNCHANGED alertVars /\ UNCHANGED events

Serve ==
    \/ collect = "serve" /\ Serves(listed)
    \/ collect = "idle" /\ api /\ apiReachable /\ Serves(connected)

-----------------------------------------------------------------------------
(* The look, and the start of the simulator.                                   *)
Look ==
    /\ ~looked /\ looked' = TRUE
    /\ \E reachable \in {apiReachable, published} :
          /\ fallback' = ~reachable
          /\ IF reachable THEN UNCHANGED alertVars ELSE Raise("simulator", "simulator")
    /\ UNCHANGED <<world, recent, process, simulated, sure, dropped, events>>

FinishStart(ok) ==
    /\ IF ok THEN UNCHANGED events ELSE Event
    /\ InsertAlert("simulator", ok)
    /\ UNCHANGED realtimeVars

(* Every enabled client is online with a probability of 0.9, any other is      *)
(* taken out of the map, but only those still in the table are looked at.      *)
Simulate ==
    /\ fallback /\ adding["simulator"] = None
    /\ \E clients \in SUBSET On :
          /\ simulated' = (simulated \ Existing) \cup clients
          /\ recent' = recent \cup clients
    /\ UNCHANGED <<world, process, looked, fallback, sure, dropped, events>>
    /\ UNCHANGED alertVars

RestartRealtime ==
    /\ apiReachable' = FALSE /\ published' = FALSE /\ collect' = "idle"
    /\ listed' = {} /\ realtime' = {}
    /\ looked' = FALSE /\ fallback' = FALSE /\ simulated' = {}
    /\ sure' = FALSE /\ dropped' = {}
    /\ UNCHANGED <<world, recent>>

-----------------------------------------------------------------------------
(* What the pages say.                                                         *)
GetRealtimeStats == IF fallback THEN simulated ELSE realtime

(* OnlinePeers of Stats.                                                       *)
OnlinePeers ==
    IF GetRealtimeStats # {} THEN Cardinality(GetRealtimeStats) ELSE Cardinality(recent)

(* A changed PeersOnline: last_seen counts even where the map has data.        *)
PeersOnlineEver == {c \in Existing : c \in GetRealtimeStats \/ c \in recent}

(* The clients PeersStats shows as online.                                     *)
PeersOnline ==
    {c \in Existing : c \in GetRealtimeStats \/ (GetRealtimeStats = {} /\ c \in recent)}

(* The variables have their types.                                             *)
RealtimeTypeOK ==
    /\ api \in BOOLEAN /\ connected \subseteq Clients
    /\ row \in [Clients -> {"on", "off", "gone"}] /\ recent \subseteq Existing
    /\ apiReachable \in BOOLEAN /\ published \in BOOLEAN
    /\ collect \in {"idle", "down", "up", "serve"} /\ listed \subseteq Clients
    /\ realtime \subseteq Clients /\ simulated \subseteq Clients
    /\ looked \in BOOLEAN /\ fallback \in BOOLEAN
    /\ sure \in BOOLEAN /\ dropped \subseteq Clients

(* The pages agree on how many clients are online, whoever answers, as long as *)
(* the map holds no deleted client; and the collector's does not, unless the   *)
(* client was deleted since it last ended a run.                               *)
PagesAgree ==
    LET stale == IF fallback THEN simulated \ Existing ELSE realtime \cap dropped
    IN  stale = {} => OnlinePeers = Cardinality(PeersOnline)

(* The look turns to the simulator only if the collector had not ended a run,  *)
(* or the API has not answered ever since: neither the race nor the order of   *)
(* insertion and flag can send the panel to invented traffic while the real    *)
(* one is there.                                                               *)
SimulatorHasCause == [][~fallback /\ fallback' => ~sure]_<<fallback, sure>>
=============================================================================

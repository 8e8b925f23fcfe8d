----------------------------- MODULE TunnelStats -----------------------------
(***************************************************************************)
(* The collector of the tunnel between the two servers.  Every 10 s it     *)
(* runs `wg show <interface> transfer`: an error means the tunnel is down, *)
(* any output that it is up.  It raises an alert when that has changed,    *)
(* holding its mutex when the tunnel is up but not when it is down, and    *)
(* logs by how much the counter of the peer has grown.  What the counter   *)
(* was, and whether the tunnel is up, is lost at a restart of the API; the *)
(* counter is lost when the interface is made anew.                        *)
(*                                                                         *)
(* One counter stands for rx and tx, and one peer for all of them.  The    *)
(* part of Monitoring about the tunnel.                                    *)
(***************************************************************************)
EXTENDS Alerts

CONSTANT Columns  \* how many fields a line of wg's output may have

ASSUME ColumnsAssumption == Columns \subseteq Nat

VARIABLES
    columns,  \* fields in a line of the installed wg's output
    link,     \* the interface exists
    counter,  \* its counter
    wgActive,
    prev,     \* the counter last seen (0: none)
    logged,   \* bytes in the rows of traffic_logs without a peer
    output,   \* what an answered run of wg said, while the alert is inserted
    carried,  \* history: bytes the tunnel has carried
    again,    \* history: bytes seen before a restart and seen again after it
    smooth,   \* history: the interface was never made anew, no row was lost
    told      \* history: the last alert this process has inserted

tunnelVars == <<columns, link, counter, wgActive, prev, logged, output,
                carried, again, smooth, told>>

Nothing == -1

InitTunnel ==
    /\ columns \in Columns /\ link = TRUE /\ counter = 0
    /\ wgActive = FALSE /\ prev = 0 /\ logged = 0 /\ output = Nothing
    /\ carried = 0 /\ again = 0 /\ smooth = TRUE /\ told = None

-----------------------------------------------------------------------------
(* The environment: bytes, and an interface that goes away and comes back.    *)
Carry ==
    /\ Event /\ link
    /\ counter' = counter + 1 /\ carried' = carried + 1
    /\ UNCHANGED <<columns, link, wgActive, prev, logged, output, again, smooth, told>>

LoseLink ==
    /\ Event /\ link
    /\ link' = FALSE /\ counter' = 0 /\ smooth' = (smooth /\ counter = 0)
    /\ UNCHANGED <<columns, wgActive, prev, logged, output, carried, again, told>>

MakeLink ==
    /\ Event /\ ~link
    /\ link' = TRUE
    /\ UNCHANGED <<columns, counter, wgActive, prev, logged, output, carried, again, smooth, told>>

-----------------------------------------------------------------------------
(* A changed Grown: the loss of the counter is not noticed.                   *)
GrownEver(current) == IF current < prev THEN prev - current ELSE current - prev

(* The loop over the lines of the output, which leaves out those with fewer   *)
(* than four fields.  The counter is remembered even if no row was inserted.  *)
ParseTransfer == columns >= 4

Grown(current) == IF current < prev THEN current ELSE current - prev

Account(current, ok) ==
    IF ParseTransfer
    THEN /\ prev' = current
         /\ logged' = IF ok THEN logged + Grown(current) ELSE logged
         /\ smooth' = (smooth /\ (ok \/ Grown(current) = 0))
    ELSE UNCHANGED <<prev, logged, smooth>>

(* Idle is the collector between two runs of collect.                          *)
Idle == output = Nothing /\ adding["tunnel"] = None

(* A changed CollectDown: the flag is read and not reset.                      *)
CollectDownFlagged ==
    /\ Idle /\ ~link /\ wgActive
    /\ UNCHANGED wgActive
    /\ Raise("tunnel", "tunnel down") /\ UNCHANGED events
    /\ UNCHANGED <<columns, link, counter, prev, logged, output, carried, again, smooth, told>>

CollectDown ==
    /\ Idle /\ ~link /\ wgActive
    /\ wgActive' = FALSE
    /\ Raise("tunnel", "tunnel down") /\ UNCHANGED events
    /\ UNCHANGED <<columns, link, counter, prev, logged, output, carried, again, smooth, told>>

(* The tunnel was down: up to the insertion of the alert, holding the mutex.   *)
CollectUp ==
    /\ Idle /\ link /\ ~wgActive
    /\ output' = counter
    /\ Raise("tunnel", "tunnel up") /\ UNCHANGED events
    /\ UNCHANGED <<columns, link, counter, wgActive, prev, logged, carried, again, smooth, told>>

(* The tunnel was up.                                                          *)
Collect(ok) ==
    /\ Idle /\ link /\ wgActive /\ counter # prev
    /\ IF ok THEN UNCHANGED events ELSE Event
    /\ Account(counter, ok)
    /\ UNCHANGED <<columns, link, counter, wgActive, output, carried, again, told>>
    /\ UNCHANGED alertVars

(* The insertion of an alert and, after that of "up", the rest of collect.     *)
FinishDown(ok) ==
    /\ output = Nothing
    /\ IF ok THEN UNCHANGED events ELSE Event
    /\ InsertAlert("tunnel", ok) /\ told' = IF ok THEN adding["tunnel"] ELSE None
    /\ UNCHANGED <<columns, link, counter, wgActive, prev, logged, output, carried, again, smooth>>

FinishUp(ok, okLog) ==
    /\ output # Nothing
    /\ IF ok /\ okLog THEN UNCHANGED events ELSE Event
    /\ InsertAlert("tunnel", ok) /\ told' = IF ok THEN adding["tunnel"] ELSE None
    /\ wgActive' = TRUE
    /\ Account(output, okLog) /\ output' = Nothing
    /\ UNCHANGED <<columns, link, counter, carried, again>>

RestartTunnel ==
    /\ wgActive' = FALSE /\ prev' = 0 /\ output' = Nothing /\ told' = None
    /\ again' = again + prev
    /\ UNCHANGED <<columns, link, counter, logged, carried, smooth>>

-----------------------------------------------------------------------------
(* What the server pages say of the tunnel.                                    *)
ForeignOnline == wgActive

(* The variables have their types.                                             *)
TunnelTypeOK ==
    /\ columns \in Columns /\ link \in BOOLEAN /\ counter \in Nat /\ wgActive \in BOOLEAN
    /\ prev \in Nat /\ logged \in Nat /\ output \in Nat \cup {Nothing}
    /\ carried \in Nat /\ again \in Nat /\ smooth \in BOOLEAN
    /\ told \in Alert \cup {None}

(* The bytes the next run of collect will see.                                 *)
Unseen == counter - (IF counter < prev THEN 0 ELSE prev)

(* No byte of the tunnel is logged twice, except those a restart made the      *)
(* collector see again; and none is left out if the interface was never made   *)
(* anew and no row lost, except those not yet seen.                            *)
TunnelAccounted ==
    /\ logged + Unseen <= carried + again
    /\ smooth => logged + Unseen = carried + again

(* The server pages and the list of alerts do not contradict each other: of    *)
(* the tunnel alerts in the table the last this process has inserted is the    *)
(* newest, and it says what the pages say, unless the next alert is already    *)
(* on its way.                                                                 *)
NewestTunnelAlert ==
    told # None =>
        /\ \A row \in table : row.kind \in {"tunnel up", "tunnel down"} => row.n <= told.n
        /\ Idle => ForeignOnline = (told.kind = "tunnel up")
=============================================================================

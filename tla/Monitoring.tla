----------------------------- MODULE Monitoring -----------------------------
(***************************************************************************)
(* Monitoring: alerts (Alerts), the tunnel (TunnelStats) and who is online *)
(* (Realtime) in one process, which dies and starts again as a whole.      *)
(***************************************************************************)
EXTENDS TunnelStats, Realtime

CONSTANT Budget  \* bound: Budget[scope] events if the parts in scope move

ASSUME BudgetAssumption == \A scope \in DOMAIN Budget : Budget[scope] \in Nat

VARIABLE scope  \* "tunnel", "clients" or both: the parts that move

vars == <<alertVars, tunnelVars, realtimeVars, events, scope>>

Init ==
    /\ InitAlerts /\ InitTunnel /\ InitRealtime
    /\ scope \in DOMAIN Budget /\ events = Budget[scope]

(* What a step of one part leaves alone.                                      *)
OfAlerts   == UNCHANGED <<tunnelVars, realtimeVars, scope>>
OfTunnel   == "tunnel" \in scope /\ UNCHANGED <<realtimeVars, scope>>
OfLink     == OfTunnel /\ UNCHANGED alertVars
OfRealtime == "clients" \in scope /\ UNCHANGED <<tunnelVars, scope>>
OfClients  == OfRealtime /\ UNCHANGED alertVars

Restart == RestartAlerts /\ RestartTunnel /\ RestartRealtime /\ UNCHANGED scope

Next ==
    \/ DeleteAlert /\ OfAlerts
    \/ ClearAllAlerts /\ OfAlerts
    \/ Forget /\ OfAlerts
    \/ HalfDay /\ OfAlerts
    \/ Carry /\ OfLink
    \/ LoseLink /\ OfLink
    \/ MakeLink /\ OfLink
    \/ CollectDown /\ OfTunnel
    \/ CollectUp /\ OfTunnel
    \/ \E ok \in BOOLEAN : Collect(ok) /\ OfTunnel
    \/ \E ok \in BOOLEAN : FinishDown(ok) /\ OfTunnel
    \/ \E ok, okLog \in BOOLEAN : FinishUp(ok, okLog) /\ OfTunnel
    \/ FlipApi /\ OfClients
    \/ \E c \in Clients : Connect(c) /\ OfClients
    \/ \E c \in Clients : Forgotten(c) /\ OfClients
    \/ \E c \in Clients : Toggle(c) /\ OfClients
    \/ \E c \in Clients : Delete(c) /\ OfClients
    \/ ApiDown /\ OfRealtime
    \/ ApiUp /\ OfRealtime
    \/ \E ok \in BOOLEAN : FinishAlert(ok) /\ OfRealtime
    \/ Serve /\ OfRealtime
    \/ Look /\ OfRealtime
    \/ \E ok \in BOOLEAN : FinishStart(ok) /\ OfRealtime
    \/ Simulate /\ OfRealtime
    \/ Restart

Spec == Init /\ [][Next]_vars

(* The variables of the three parts have their types.                         *)
MonitoringTypeOK == AlertsTypeOK /\ TunnelTypeOK /\ RealtimeTypeOK
=============================================================================

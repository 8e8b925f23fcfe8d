------------------------------- MODULE Alerts -------------------------------
(***************************************************************************)
(* Alerts: a list in the memory of the API, which keeps the newest few,    *)
(* and a table.                                                            *)
(*                                                                         *)
(* A goroutine that raises an alert puts it into memory under a mutex and  *)
(* then inserts a row.  A deletion goes the other way, the table first and *)
(* then the memory, so that the two may cross.  The page shows the table,  *)
(* and the memory only while the table cannot be read.  A cron that runs   *)
(* every 24 h of the life of the process deletes old rows, but only if it  *)
(* could delete old traffic logs before.                                   *)
(*                                                                         *)
(* Time passes in half days, so that a restart can cut a day of the cron   *)
(* short.  The module is the part of Monitoring that the collectors share: *)
(* its actions say nothing about the other parts' variables.               *)
(***************************************************************************)
EXTENDS Integers, Sequences, SequencesExt

CONSTANTS
    MemoryCap,     \* maxInMemoryAlerts
    RetainAlerts,  \* retention of alerts and of traffic logs, in half days
    RetainLogs

ASSUME AlertsAssumption ==
    /\ MemoryCap \in Nat \ {0} /\ RetainAlerts \in Nat
    /\ RetainLogs \in Nat

VARIABLES
    memory,   \* TrafficService.alerts
    table,    \* alerts
    adding,   \* per goroutine, the alert that is in memory and not yet inserted
    clearing, \* the request that has deleted from the table, not yet from memory
    phase,    \* half days since the cron's last tick
    made,     \* how many alerts were raised
    now,      \* half days since the beginning
    missed,   \* history: ticks without, and restarts since, the last clean-up
    deleted,  \* history: the alerts an administrator has deleted
    events    \* bound: how much else may happen, see Event

alertVars == <<memory, table, adding, clearing, phase, made, now, missed, deleted>>

(* The goroutines that raise alerts: two collectors and the simulator.        *)
Writers == {"tunnel", "api", "simulator"}
Kinds   == {"tunnel up", "tunnel down", "api up", "api down", "simulator"}
Alert   == [n : Nat \ {0}, kind : Kinds, at : Nat]
None    == [n |-> 0, kind |-> "none", at |-> 0]

NoRequest == [what |-> "none", id |-> 0]

(* An id holds the second the alert was raised in, except the simulator's.    *)
Id(alert) == IF alert.kind = "simulator" THEN 0 ELSE alert.n

InitAlerts ==
    /\ memory = <<>> /\ table = {} /\ adding = [w \in Writers |-> None]
    /\ clearing = NoRequest /\ phase = 0 /\ made = 0
    /\ now = 0 /\ missed = 0 /\ deleted = {}

(* What the API does not do by itself: requests, restarts, failed statements, *)
(* time, and all that happens to the tunnel, to sing-box and to clients.      *)
Event == events > 0 /\ events' = events - 1

-----------------------------------------------------------------------------
(* A changed Capped: nothing is dropped.                                      *)
CappedNever(list) == list

(* AddAlert up to the end of the critical section.                            *)
Capped(list) == SubSeq(list, 1, IF Len(list) > MemoryCap THEN MemoryCap ELSE Len(list))

Raise(w, kind) ==
    LET alert == [n |-> made + 1, kind |-> kind, at |-> now] IN
    /\ adding[w] = None
    /\ adding' = [adding EXCEPT ![w] = alert]
    /\ memory' = Capped(<<alert>> \o memory)
    /\ made' = made + 1
    /\ UNCHANGED <<table, clearing, phase, now, missed, deleted>>

(* The rest of it: INSERT OR IGNORE, whose failure is logged and forgotten.   *)
InsertAlert(w, ok) ==
    /\ adding[w] # None
    /\ adding' = [adding EXCEPT ![w] = None]
    /\ table' = IF ok /\ \A row \in table : Id(row) # Id(adding[w])
                THEN table \cup {adding[w]} ELSE table
    /\ UNCHANGED <<memory, clearing, phase, made, now, missed, deleted>>

-----------------------------------------------------------------------------
(* The administrator.                                                         *)
GetAlerts(readable) == IF readable THEN table ELSE ToSet(memory)

(* DeleteAlert or ClearAllAlerts: the statement.  If it fails the request is   *)
(* over and nothing has changed.  An alert whose insertion is to come is not   *)
(* in the table yet, and will be there after the deletion.                     *)
Meant(alert, request) == request.what = "all" \/ Id(alert) = request.id

DeleteRows(request) ==
    /\ Event /\ clearing = NoRequest
    /\ clearing' = request
    /\ table' = {row \in table : ~Meant(row, request)}
    /\ deleted' = deleted \cup {a \in table \cup ToSet(memory) :
                                   Meant(a, request) /\ \A w \in Writers : adding[w] # a}
    /\ UNCHANGED <<memory, adding, phase, made, now, missed>>

DeleteAlert     == \E a \in GetAlerts(TRUE) \cup GetAlerts(FALSE) :
                      DeleteRows([what |-> "one", id |-> Id(a)])
ClearAllAlerts  == DeleteRows([what |-> "all", id |-> 0])

(* A changed Forget: only the table is cleared.                                *)
ForgetNothing ==
    /\ clearing # NoRequest
    /\ clearing' = NoRequest
    /\ UNCHANGED <<memory, table, adding, phase, made, now, missed, deleted, events>>

(* The elements of a list at some of its places, in their order.               *)
Kept(list, places) ==
    LET rank(i) == Cardinality({j \in places : j <= i})
    IN  [k \in 1 .. Cardinality(places) |-> list[CHOOSE i \in places : rank(i) = k]]

(* The list in memory, under the mutex.                                        *)
Forget ==
    /\ clearing # NoRequest
    /\ clearing' = NoRequest
    /\ memory' = Kept(memory, {i \in DOMAIN memory : ~Meant(memory[i], clearing)})
    /\ UNCHANGED <<table, adding, phase, made, now, missed, deleted, events>>

-----------------------------------------------------------------------------
(* The cron.  What it deletes once the logs were cleaned up; the clean-up 30 s *)
(* after the start deletes logs only.                                          *)
Expired(retain) == {row \in table : now' - row.at > retain}

(* A changed CleanupOldAlerts: alerts are kept for as long as logs.            *)
CleanupAlertsAsLogs == table' = table \ Expired(RetainLogs)

CleanupOldAlerts == table' = table \ Expired(RetainAlerts)

(* Half a day passes, but no statement takes that long; at the end of a day,   *)
(* with a tick.  An error of either clean-up is logged and the next tick       *)
(* waited for.                                                                 *)
HalfDay ==
    /\ Event /\ \A w \in Writers : adding[w] = None
    /\ now' = now + 1 /\ phase' = 1 - phase
    /\ \/ phase = 0 /\ UNCHANGED <<table, missed>>
       \/ phase = 1 /\ CleanupOldAlerts /\ missed' = 0
       \/ phase = 1 /\ UNCHANGED table /\ missed' = missed + 1
    /\ UNCHANGED <<memory, adding, clearing, made, deleted>>

(* The process dies and starts again: the table stays, the cron counts anew.   *)
RestartAlerts ==
    /\ Event
    /\ memory' = <<>> /\ adding' = [w \in Writers |-> None] /\ clearing' = NoRequest
    /\ phase' = 0 /\ missed' = missed + 1
    /\ UNCHANGED <<table, made, now, deleted>>

-----------------------------------------------------------------------------
(* The variables have their types, ids in the table differ, and the memory     *)
(* holds no more than it should, newest first.                                 *)
AlertsTypeOK ==
    /\ table \subseteq Alert /\ ToSet(memory) \subseteq Alert
    /\ adding \in [Writers -> Alert \cup {None}]
    /\ clearing \in [what : {"none", "one", "all"}, id : Nat]
    /\ phase \in {0, 1} /\ made \in Nat /\ now \in Nat /\ missed \in Nat
    /\ deleted \subseteq Alert /\ events \in Nat
    /\ \A a, b \in table : Id(a) = Id(b) => a = b
    /\ Len(memory) <= MemoryCap
    /\ \A i, j \in DOMAIN memory : i < j => memory[i].n > memory[j].n

(* An alert that was deleted is not shown again: not by the table, and once    *)
(* the request is over not by the memory either, while the table cannot be     *)
(* read.  Only an alert whose insertion the deletion overtook comes back,      *)
(* which is why deleted leaves it out.                                         *)
DeletedStayDeleted ==
    /\ GetAlerts(TRUE) \cap deleted = {}
    /\ clearing = NoRequest => GetAlerts(FALSE) \cap deleted = {}

(* An alert outlives its retention by less than a day, and by a day more for   *)
(* every clean-up that failed and every restart since the last that succeeded: *)
(* an API that is restarted once a day never deletes an alert.                 *)
AlertsExpire ==
    \A a \in table : now - a.at <= RetainAlerts + 2 * missed + phase
=============================================================================

-------------------------- MODULE MonitoringProofs --------------------------
(***************************************************************************)
(* Proofs about Monitoring, for any number of clients, any retention and   *)
(* any number of events.                                                   *)
(***************************************************************************)
EXTENDS Monitoring, FiniteSetTheorems, TLAPS

(* -------------------------- what alerts go through ---------------------- *)

(* The types of what most proofs are about: MemoryOK adds the list in      *)
(* memory.                                                                 *)
Typed ==
    /\ made \in Nat /\ now \in Nat /\ missed \in Nat /\ phase \in {0, 1}
    /\ table \subseteq Alert /\ adding \in [Writers -> Alert \cup {None}]

TunnelKind(kind) == kind \in {"tunnel up", "tunnel down"}

(* What an administrator can ask to be deleted.                            *)
Asked(request) ==
    \/ request = [what |-> "all", id |-> 0]
    \/ \E a \in table \cup ToSet(memory) : request = [what |-> "one", id |-> Id(a)]

(* Whatever part of the process moves, this is all it can do to alerts.    *)
LEMMA AlertSteps ==
  ASSUME Next
  PROVE  \/ \E w \in Writers, kind \in Kinds :
               Raise(w, kind) /\ (TunnelKind(kind) => w = "tunnel")
         \/ \E w \in Writers, ok \in BOOLEAN : InsertAlert(w, ok)
         \/ \E request : Asked(request) /\ DeleteRows(request)
         \/ Forget \/ HalfDay \/ RestartAlerts
         \/ UNCHANGED alertVars
<1> DEFINE Goal == \/ \E w \in Writers, kind \in Kinds :
                         Raise(w, kind) /\ (TunnelKind(kind) => w = "tunnel")
                   \/ \E w \in Writers, ok \in BOOLEAN : InsertAlert(w, ok)
                   \/ \E request : Asked(request) /\ DeleteRows(request)
                   \/ Forget \/ HalfDay \/ RestartAlerts
                   \/ UNCHANGED alertVars
<1>1. ASSUME DeleteAlert \/ ClearAllAlerts PROVE Goal
  BY <1>1 DEF DeleteAlert, ClearAllAlerts, GetAlerts, Asked
<1>2. ASSUME CollectDown \/ CollectUp PROVE Goal
  BY <1>2 DEF CollectDown, CollectUp, Writers, Kinds, TunnelKind
<1>3. ASSUME NEW ok \in BOOLEAN, NEW okLog \in BOOLEAN,
             Collect(ok) \/ FinishDown(ok) \/ FinishUp(ok, okLog)
      PROVE  Goal
  BY <1>3 DEF Collect, FinishDown, FinishUp, Writers
<1>4. ASSUME ApiDown \/ ApiUp PROVE Goal
  BY <1>4 DEF ApiDown, ApiUp, Writers, Kinds, TunnelKind
<1>5. ASSUME NEW ok \in BOOLEAN, FinishAlert(ok) \/ FinishStart(ok) PROVE Goal
  BY <1>5 DEF FinishAlert, FinishStart, Writers
<1>6. ASSUME Look PROVE Goal
  BY <1>6 DEF Look, Writers, Kinds, TunnelKind
<1>7. ASSUME Serve \/ Simulate PROVE Goal
  BY <1>7 DEF Serve, Serves, Simulate
<1>8. ASSUME OfLink \/ OfClients PROVE Goal
  BY <1>8 DEF OfLink, OfClients
<1>9. ASSUME Restart PROVE Goal
  BY <1>9 DEF Restart
<1> HIDE DEF Goal
<1>10. Forget \/ HalfDay \/ RestartAlerts => Goal
  BY DEF Goal
<1>11. QED
  <2>1. Goal
    BY <1>1, <1>2, <1>3, <1>4, <1>5, <1>6, <1>7, <1>8, <1>9, <1>10 DEF Next
  <2>2. QED
    BY <2>1 DEF Goal

(* Types are kept.                                                         *)
LEMMA RaisedType ==
  ASSUME Typed, NEW w \in Writers, NEW kind \in Kinds, Raise(w, kind)
  PROVE  /\ Typed'
         /\ adding'[w] = [n |-> made + 1, kind |-> kind, at |-> now]
         /\ adding'[w] \in Alert
         /\ \A v \in Writers : v # w => adding'[v] = adding[v]
<1> DEFINE alert == [n |-> made + 1, kind |-> kind, at |-> now]
<1>1. alert \in Alert
  BY DEF Alert, Typed
<1>2. adding' = [adding EXCEPT ![w] = alert]
  BY DEF Raise
<1> HIDE DEF alert
<1>3. adding' \in [Writers -> Alert \cup {None}] /\ adding'[w] = alert
  BY <1>1, <1>2 DEF Typed
<1>4. UNCHANGED <<table, phase, now, missed>> /\ made' = made + 1
  BY DEF Raise
<1>5. QED
  BY <1>1, <1>2, <1>3, <1>4 DEF Typed, alert

LEMMA InsertedType ==
  ASSUME Typed, NEW w \in Writers, NEW ok, InsertAlert(w, ok)
  PROVE  /\ Typed'
         /\ adding[w] \in Alert /\ adding'[w] = None
         /\ \A v \in Writers : v # w => adding'[v] = adding[v]
         /\ table' \subseteq table \cup {adding[w]}
         /\ ok = FALSE => table' = table
  BY DEF Typed, InsertAlert

LEMMA TypedInit == Init => Typed
  BY DEF Init, InitAlerts, Typed, Alert

LEMMA TypedStep ==
  ASSUME Typed, [Next]_vars
  PROVE  Typed'
<1>1. ASSUME NEW w \in Writers, NEW kind \in Kinds, Raise(w, kind) PROVE Typed'
  BY <1>1, RaisedType
<1>2. ASSUME NEW w \in Writers, NEW ok \in BOOLEAN, InsertAlert(w, ok) PROVE Typed'
  BY <1>2, InsertedType
<1>3. ASSUME NEW request, DeleteRows(request) PROVE Typed'
  BY <1>3 DEF DeleteRows, Typed
<1>4. CASE Forget
  BY <1>4 DEF Forget, Typed
<1>5. CASE HalfDay
  BY <1>5 DEF HalfDay, CleanupOldAlerts, Typed
<1>6. CASE RestartAlerts
  BY <1>6 DEF RestartAlerts, Typed
<1>7. CASE UNCHANGED alertVars
  BY <1>7 DEF alertVars, Typed
<1>8. UNCHANGED vars => UNCHANGED alertVars
  BY DEF vars
<1>9. QED
  BY <1>1, <1>2, <1>3, <1>4, <1>5, <1>6, <1>7, <1>8, AlertSteps

(* ------------------------------ retention ------------------------------- *)

(* An alert is inserted in the half day it was raised in.                  *)
Prompt == \A w \in Writers : adding[w] # None => adding[w].at = now

ExpiryInv == Typed /\ Prompt /\ AlertsExpire

LEMMA ExpiryStep ==
  ASSUME ExpiryInv, [Next]_vars
  PROVE  ExpiryInv'
<1>1. Typed'
  BY TypedStep DEF ExpiryInv
<1>2. Typed /\ Prompt /\ AlertsExpire /\ RetainAlerts \in Nat
  BY AlertsAssumption DEF ExpiryInv
<1>3. ASSUME NEW w \in Writers, NEW kind \in Kinds, Raise(w, kind)
      PROVE  Prompt' /\ AlertsExpire'
  <2>1. UNCHANGED <<table, phase, now, missed>>
    BY <1>3 DEF Raise
  <2>2. adding'[w].at = now'
    <3>1. adding'[w] = [n |-> made + 1, kind |-> kind, at |-> now]
      BY <1>2, <1>3, RaisedType
    <3>2. QED
      BY <2>1, <3>1
  <2>3. QED
    BY <1>2, <1>3, <2>1, <2>2, RaisedType DEF Prompt, AlertsExpire
<1>4. ASSUME NEW w \in Writers, NEW ok \in BOOLEAN, InsertAlert(w, ok)
      PROVE  Prompt' /\ AlertsExpire'
  <2>1. UNCHANGED <<phase, now, missed>>
    BY <1>4 DEF InsertAlert
  <2>2. adding[w].at = now
    BY <1>2, <1>4 DEF Prompt, InsertAlert
  <2>3. Prompt'
    BY <1>2, <1>4, <2>1, InsertedType DEF Prompt
  <2>4. adding[w].at = now => now - adding[w].at <= RetainAlerts + 2 * missed + phase
    BY <1>2 DEF Typed
  <2>5. QED
    BY <1>2, <1>4, <2>1, <2>2, <2>3, <2>4, InsertedType DEF AlertsExpire
<1>5. ASSUME NEW request, DeleteRows(request) PROVE Prompt' /\ AlertsExpire'
  BY <1>2, <1>5 DEF DeleteRows, Prompt, AlertsExpire
<1>6. ASSUME Forget PROVE Prompt' /\ AlertsExpire'
  BY <1>2, <1>6 DEF Forget, Prompt, AlertsExpire
<1>7. ASSUME HalfDay PROVE Prompt' /\ AlertsExpire'
  <2>1. Prompt' /\ now' = now + 1
    BY <1>7 DEF HalfDay, Prompt
  <2>2. ASSUME NEW a \in table'
        PROVE  now' - a.at <= RetainAlerts + 2 * missed' + phase'
    <3>1. a.at \in Nat
      BY <1>1 DEF Typed, Alert
    <3>2. CASE phase = 0 /\ UNCHANGED <<table, missed>> /\ phase' = 1 - phase
      BY <1>2, <2>1, <3>1, <3>2 DEF Typed, AlertsExpire
    <3>3. CASE CleanupOldAlerts /\ missed' = 0 /\ phase = 1 /\ phase' = 1 - phase
      BY <1>2, <2>1, <3>1, <3>3 DEF Typed, CleanupOldAlerts, Expired
    <3>4. CASE phase = 1 /\ UNCHANGED table /\ missed' = missed + 1 /\ phase' = 1 - phase
      BY <1>2, <2>1, <3>1, <3>4 DEF Typed, AlertsExpire
    <3>5. QED
      BY <1>7, <3>2, <3>3, <3>4 DEF HalfDay
  <2>3. QED
    BY <2>1, <2>2 DEF AlertsExpire
<1>8. ASSUME RestartAlerts PROVE Prompt' /\ AlertsExpire'
  <2>1. Prompt' /\ UNCHANGED <<table, now>> /\ phase' = 0 /\ missed' = missed + 1
    BY <1>8 DEF RestartAlerts, Prompt
  <2>2. ASSUME NEW a \in table
        PROVE  now - a.at <= RetainAlerts + 2 * (missed + 1) + 0
    BY <1>2, <2>1 DEF Typed, Alert, AlertsExpire
  <2>3. QED
    BY <2>1, <2>2 DEF AlertsExpire
<1>9. ASSUME UNCHANGED alertVars PROVE Prompt' /\ AlertsExpire'
  BY <1>2, <1>9 DEF alertVars, Prompt, AlertsExpire
<1>10. UNCHANGED vars => UNCHANGED alertVars
  BY DEF vars
<1>11. QED
  BY <1>1, <1>3, <1>4, <1>5, <1>6, <1>7, <1>8, <1>9, <1>10, AlertSteps DEF ExpiryInv

(* An alert outlives its retention by less than a day, and by a day more   *)
(* for every clean-up that failed and every restart since the last that    *)
(* succeeded (CleanupOldAlerts in the cron of main.go), for any retention. *)
THEOREM ExpiryCorrect == Spec => []AlertsExpire
<1>1. Init => ExpiryInv
  <2>1. Init => Prompt /\ AlertsExpire
    BY DEF Init, InitAlerts, Prompt, AlertsExpire
  <2>2. QED
    BY <2>1, TypedInit DEF ExpiryInv
<1>2. ExpiryInv /\ [Next]_vars => ExpiryInv'
  BY ExpiryStep
<1>3. ExpiryInv => AlertsExpire
  BY DEF ExpiryInv
<1>4. QED
  BY <1>1, <1>2, <1>3, PTL DEF Spec
(* ------------------------------- the tunnel ----------------------------- *)

(* What a step of the process does to the tunnel's part.                   *)
LEMMA TunnelSteps ==
  ASSUME [Next]_vars
  PROVE  \/ Carry \/ LoseLink \/ MakeLink \/ CollectDown \/ CollectUp
         \/ \E ok \in BOOLEAN : Collect(ok)
         \/ \E ok \in BOOLEAN : FinishDown(ok)
         \/ \E ok, okLog \in BOOLEAN : FinishUp(ok, okLog)
         \/ RestartTunnel /\ RestartAlerts
         \/ UNCHANGED tunnelVars
BY DEF Next, vars, OfAlerts, OfRealtime, OfClients, Restart

(* The types of the counters.                                              *)
Counters ==
    /\ counter \in Nat /\ prev \in Nat /\ logged \in Nat /\ carried \in Nat /\ again \in Nat
    /\ output \in Nat \cup {Nothing} /\ columns \in Nat /\ smooth \in BOOLEAN

(* What was carried is logged, is yet to be seen, or was seen before a     *)
(* restart.  With the collector's mutex held, what wg has said but is not  *)
(* accounted for yet must fit in too, whatever happens to the interface    *)
(* meanwhile.                                                              *)
Pending ==
    output # Nothing =>
        logged + Grown(output) + (IF counter < output THEN counter ELSE counter - output)
            <= carried + again

(* As long as all goes well, the counter only grows.                       *)
Monotone ==
    smooth => /\ prev <= counter
              /\ output # Nothing => prev <= output /\ output <= counter

TunnelInv == Counters /\ Pending /\ Monotone /\ TunnelAccounted

LEMMA TunnelInit == Init => TunnelInv
BY ColumnsAssumption DEF Init, InitTunnel, TunnelInv, Counters, Pending, Monotone,
   TunnelAccounted, Unseen, Nothing

(* The end of a run that saw the counter at current.                       *)
LEMMA AccountKeeps ==
  ASSUME TunnelInv, NEW current \in Nat, NEW ok \in BOOLEAN, Account(current, ok),
         UNCHANGED <<columns, counter, carried, again>>, output' = Nothing,
         logged + Grown(current) + (IF counter < current THEN counter ELSE counter - current)
            <= carried + again,
         smooth => prev <= current /\ current <= counter
  PROVE  TunnelInv'
<1>1. CASE ~ParseTransfer
  BY <1>1 DEF Account, TunnelInv, Counters, Pending, Monotone, TunnelAccounted, Unseen
<1>2. CASE ParseTransfer
  <2>1. Counters /\ Grown(current) \in Nat
    BY DEF TunnelInv, Counters, Grown
  <2>2. /\ prev' = current
        /\ logged' = IF ok THEN logged + Grown(current) ELSE logged
        /\ smooth' = (smooth /\ (ok \/ Grown(current) = 0))
    BY <1>2 DEF Account
  <2>3. Counters'
    BY <2>1, <2>2 DEF Counters
  <2>4. Pending' /\ Monotone'
    BY <2>2 DEF Pending, Monotone
  <2>5. (logged + Unseen <= carried + again)'
    BY <2>1, <2>2 DEF Counters, Unseen
  <2>6. ASSUME smooth' PROVE (logged + Unseen = carried + again)'
    <3>1. smooth /\ (ok \/ Grown(current) = 0)
      BY <2>1, <2>2, <2>6 DEF Counters
    <3>2. prev <= current /\ current <= counter /\ prev <= counter
      BY <2>1, <3>1 DEF TunnelInv, Monotone
    <3>3. logged + (counter - prev) = carried + again
      BY <2>1, <3>1, <3>2 DEF TunnelInv, TunnelAccounted, Counters, Unseen
    <3>4. Grown(current) = current - prev /\ logged' = logged + Grown(current)
      BY <2>1, <2>2, <3>1, <3>2 DEF Grown, Counters
    <3>5. QED
      BY <2>1, <2>2, <3>2, <3>3, <3>4 DEF Counters, Unseen
  <2>7. QED
    BY <2>3, <2>4, <2>5, <2>6 DEF TunnelInv, TunnelAccounted
<1>3. QED
  BY <1>1, <1>2

LEMMA TunnelStep ==
  ASSUME TunnelInv, [Next]_vars
  PROVE  TunnelInv'
<1> USE DEF TunnelInv, Counters, Pending, Monotone, TunnelAccounted, Unseen, Grown, Nothing
<1>1. CASE Carry
  BY <1>1 DEF Carry
<1>2. CASE LoseLink
  <2>1. /\ counter' = 0 /\ smooth' = (smooth /\ counter = 0)
        /\ UNCHANGED <<columns, prev, logged, output, carried, again>>
    BY <1>2 DEF LoseLink
  <2>2. Counters' /\ Pending'
    BY <2>1
  <2>3. ASSUME smooth' PROVE smooth /\ counter' = counter
    BY <2>1, <2>3
  <2>4. Monotone'
    BY <2>1, <2>3
  <2>5. (logged + Unseen <= carried + again)'
    BY <2>1
  <2>6. (smooth => logged + Unseen = carried + again)'
    BY <2>1, <2>3
  <2>7. QED
    BY <2>2, <2>4, <2>5, <2>6
<1>3. CASE MakeLink
  BY <1>3 DEF MakeLink
<1>4. CASE CollectDown
  BY <1>4 DEF CollectDown
<1>5. CASE CollectUp
  <2>1. /\ output = Nothing /\ output' = counter
        /\ UNCHANGED <<columns, counter, prev, logged, carried, again, smooth>>
    BY <1>5 DEF CollectUp, Idle
  <2>2. Counters' /\ Monotone' /\ TunnelAccounted'
    BY <2>1
  <2>3. Pending'
    BY <2>1
  <2>4. QED
    BY <2>2, <2>3
<1>6. ASSUME NEW ok \in BOOLEAN, Collect(ok) PROVE TunnelInv'
  <2>1. /\ Account(counter, ok) /\ output = Nothing
        /\ UNCHANGED <<columns, counter, carried, again>> /\ output' = Nothing
    BY <1>6 DEF Collect, Idle
  <2>2. counter \in Nat
        /\ logged + Grown(counter) + (IF counter < counter THEN counter ELSE counter - counter)
             <= carried + again
    OBVIOUS
  <2>3. smooth => prev <= counter /\ counter <= counter
    OBVIOUS
  <2>4. TunnelInv
    OBVIOUS
  <2> HIDE DEF TunnelInv, Counters, Pending, Monotone, TunnelAccounted, Unseen, Grown, Nothing
  <2>5. QED
    BY <2>1, <2>2, <2>3, <2>4, AccountKeeps
<1>7. ASSUME NEW ok \in BOOLEAN, FinishDown(ok) PROVE TunnelInv'
  BY <1>7 DEF FinishDown
<1>8. ASSUME NEW ok \in BOOLEAN, NEW okLog \in BOOLEAN, FinishUp(ok, okLog)
      PROVE  TunnelInv'
  <2>1. /\ Account(output, okLog) /\ output # Nothing
        /\ UNCHANGED <<columns, counter, carried, again>> /\ output' = Nothing
    BY <1>8 DEF FinishUp
  <2>2. output \in Nat
        /\ logged + Grown(output) + (IF counter < output THEN counter ELSE counter - output)
             <= carried + again
    BY <2>1
  <2>3. smooth => prev <= output /\ output <= counter
    BY <2>1
  <2>4. TunnelInv
    OBVIOUS
  <2> HIDE DEF TunnelInv, Counters, Pending, Monotone, TunnelAccounted, Unseen, Grown, Nothing
  <2>5. QED
    BY <2>1, <2>2, <2>3, <2>4, AccountKeeps
<1>9. CASE RestartTunnel
  BY <1>9 DEF RestartTunnel
<1>10. CASE UNCHANGED tunnelVars
  BY <1>10 DEF tunnelVars
<1>11. QED
  BY <1>1, <1>2, <1>3, <1>4, <1>5, <1>6, <1>7, <1>8, <1>9, <1>10, TunnelSteps

(* No byte of the tunnel is logged twice but those a restart made the      *)
(* collector see again, and none is left out while the interface lives and *)
(* every row is inserted (collect in wgstats.go), however long it runs.    *)
THEOREM TunnelCorrect == Spec => []TunnelAccounted
<1>1. TunnelInv /\ [Next]_vars => TunnelInv'
  BY TunnelStep
<1>2. TunnelInv => TunnelAccounted
  BY DEF TunnelInv
<1>3. QED
  BY <1>1, <1>2, TunnelInit, PTL DEF Spec
(* ------------------------ the newest tunnel alert ----------------------- *)

(* The others raise no tunnel alerts.                                      *)
Sorted ==
    \A w \in Writers : adding[w] # None /\ TunnelKind(adding[w].kind) => w = "tunnel"

(* Alerts are numbered as they are raised, so that a tunnel alert on its   *)
(* way is newer than those in the table.                                   *)
InOrder ==
    /\ \A a \in table : a.n <= made
    /\ \A w \in Writers : adding[w].n <= made
    /\ adding["tunnel"] # None =>
          \A a \in table : TunnelKind(a.kind) => a.n < adding["tunnel"].n

(* It says what the flag will be once it is inserted.                      *)
OnItsWay ==
    /\ output # Nothing => adding["tunnel"] # None /\ adding["tunnel"].kind = "tunnel up"
    /\ output = Nothing /\ adding["tunnel"] # None =>
          adding["tunnel"].kind = "tunnel down" /\ ~wgActive
    /\ wgActive \in BOOLEAN

NewestInv == Typed /\ TunnelInv /\ Sorted /\ InOrder /\ OnItsWay /\ NewestTunnelAlert

(* The part of the invariant about alerts alone.                           *)
LEMMA InOrderStep ==
  ASSUME Typed, Sorted, InOrder, [Next]_vars
  PROVE  Sorted' /\ InOrder'
<1>1. ASSUME NEW w \in Writers, NEW kind \in Kinds, Raise(w, kind),
             TunnelKind(kind) => w = "tunnel"
      PROVE  Sorted' /\ InOrder'
  <2>1. /\ adding'[w].n = made + 1 /\ adding'[w].kind = kind
        /\ \A v \in Writers : v # w => adding'[v] = adding[v]
    <3>1. /\ adding'[w] = [n |-> made + 1, kind |-> kind, at |-> now]
          /\ \A v \in Writers : v # w => adding'[v] = adding[v]
      BY <1>1, RaisedType
    <3>2. QED
      BY <3>1
  <2>2. made' = made + 1 /\ table' = table /\ made \in Nat
    BY <1>1 DEF Raise, Typed
  <2>3. \A a \in table : a.n \in Nat /\ a.n < made + 1
    BY <2>2 DEF InOrder, Typed, Alert
  <2>4. \A v \in Writers : adding[v].n \in Nat /\ adding[v].n <= made + 1
    BY <2>2 DEF InOrder, Typed, Alert, None
  <2>5. QED
    BY <1>1, <2>1, <2>2, <2>3, <2>4 DEF Sorted, InOrder, Writers
<1>2. ASSUME NEW w \in Writers, NEW ok \in BOOLEAN, InsertAlert(w, ok)
      PROVE  Sorted' /\ InOrder'
  <2>1. /\ adding[w] \in Alert /\ adding'[w] = None
        /\ \A v \in Writers : v # w => adding'[v] = adding[v]
        /\ table' \subseteq table \cup {adding[w]}
    BY <1>2, InsertedType
  <2>2. made' = made /\ made \in Nat /\ None.n = 0 /\ adding[w] # None
    BY <1>2 DEF InsertAlert, Typed, None
  <2>3. adding'["tunnel"] # None => w # "tunnel" /\ ~TunnelKind(adding[w].kind)
    BY <2>1, <2>2 DEF Sorted
  <2>4. QED
    BY <2>1, <2>2, <2>3 DEF Sorted, InOrder, Writers
<1>3. ASSUME UNCHANGED <<adding, made>>, table' \subseteq table PROVE Sorted' /\ InOrder'
  BY <1>3 DEF Sorted, InOrder
<1>4. ASSUME NEW request, DeleteRows(request) PROVE Sorted' /\ InOrder'
  BY <1>3, <1>4 DEF DeleteRows
<1>5. CASE Forget \/ HalfDay \/ UNCHANGED alertVars
  BY <1>3, <1>5 DEF Forget, HalfDay, CleanupOldAlerts, alertVars
<1>6. CASE RestartAlerts
  BY <1>6 DEF RestartAlerts, Sorted, InOrder, Typed, None, Writers
<1>7. UNCHANGED vars => UNCHANGED alertVars
  BY DEF vars
<1>8. QED
  BY <1>1, <1>2, <1>4, <1>5, <1>6, <1>7, AlertSteps

(* A step in which the tunnel's collector has no part.                     *)
Aside ==
    /\ UNCHANGED <<told, wgActive, output>> /\ adding'["tunnel"] = adding["tunnel"]
    /\ \A a \in table' : TunnelKind(a.kind) => a \in table

LEMMA OthersAside ==
  ASSUME Typed, Sorted, [Next]_vars
  PROVE  \/ CollectDown \/ CollectUp
         \/ \E ok \in BOOLEAN : FinishDown(ok)
         \/ \E ok, okLog \in BOOLEAN : FinishUp(ok, okLog)
         \/ Restart
         \/ Aside
<1>1. ASSUME UNCHANGED tunnelVars, NEW w \in Writers \ {"tunnel"}, NEW kind \in Kinds,
             Raise(w, kind)
      PROVE  Aside
  BY <1>1, RaisedType DEF Aside, tunnelVars, Writers, Raise
<1>2. ASSUME UNCHANGED tunnelVars, NEW w \in Writers \ {"tunnel"}, NEW ok \in BOOLEAN,
             InsertAlert(w, ok)
      PROVE  Aside
  <2>1. /\ adding'["tunnel"] = adding["tunnel"]
        /\ table' \subseteq table \cup {adding[w]} /\ adding[w] # None
    BY <1>2, InsertedType DEF Writers, InsertAlert
  <2>2. ~TunnelKind(adding[w].kind)
    BY <2>1 DEF Sorted
  <2>3. QED
    BY <1>2, <2>1, <2>2 DEF Aside, tunnelVars
<1>3. ASSUME UNCHANGED <<told, wgActive, output, adding>>, table' \subseteq table PROVE Aside
  BY <1>3 DEF Aside
<1>4. DeleteAlert /\ OfAlerts => Aside
  BY <1>3 DEF DeleteAlert, DeleteRows, OfAlerts, tunnelVars
<1>5. ClearAllAlerts /\ OfAlerts => Aside
  BY <1>3 DEF ClearAllAlerts, DeleteRows, OfAlerts, tunnelVars
<1>6. (Forget \/ HalfDay) /\ OfAlerts => Aside
  BY <1>3 DEF Forget, HalfDay, CleanupOldAlerts, OfAlerts, tunnelVars
<1>7. (Carry \/ LoseLink \/ MakeLink) /\ OfLink => Aside
  BY <1>3 DEF Carry, LoseLink, MakeLink, OfLink, alertVars
<1>8. \A ok \in BOOLEAN : Collect(ok) => Aside
  BY <1>3 DEF Collect, alertVars
<1>9. OfClients => Aside
  BY <1>3 DEF OfClients, OfRealtime, alertVars, tunnelVars
<1>10. (ApiDown \/ ApiUp \/ Look) /\ OfRealtime => Aside
  BY <1>1, <1>3 DEF ApiDown, ApiUp, Look, OfRealtime, Writers, Kinds, alertVars, tunnelVars
<1>11. \A ok \in BOOLEAN : (FinishAlert(ok) \/ FinishStart(ok)) /\ OfRealtime => Aside
  BY <1>2 DEF FinishAlert, FinishStart, OfRealtime, Writers
<1>12. (Serve \/ Simulate) /\ OfRealtime => Aside
  BY <1>3 DEF Serve, Serves, Simulate, OfRealtime, alertVars, tunnelVars
<1>13. UNCHANGED vars => Aside
  BY <1>3 DEF vars, alertVars, tunnelVars
<1>14. QED
  BY <1>4, <1>5, <1>6, <1>7, <1>8, <1>9, <1>10, <1>11, <1>12, <1>13 DEF Next

LEMMA NewestStep ==
  ASSUME NewestInv, [Next]_vars
  PROVE  NewestInv'
<1>1. Typed /\ TunnelInv /\ Sorted /\ InOrder /\ OnItsWay /\ NewestTunnelAlert
  BY DEF NewestInv
<1>2. Typed' /\ TunnelInv' /\ Sorted' /\ InOrder'
  BY <1>1, TypedStep, TunnelStep, InOrderStep
<1>3. None \notin Alert /\ "tunnel" \in Writers /\ adding["tunnel"] \in Alert \cup {None}
  BY <1>1 DEF None, Alert, Writers, Typed
<1>4. CASE Aside
  <2>1. OnItsWay'
    BY <1>1, <1>4 DEF Aside, OnItsWay
  <2>2. NewestTunnelAlert'
    BY <1>1, <1>4 DEF Aside, NewestTunnelAlert, Idle, ForeignOnline, TunnelKind
  <2>3. QED
    BY <1>2, <2>1, <2>2 DEF NewestInv
<1>5. ASSUME NEW kind \in Kinds, Raise("tunnel", kind), told' = told,
             output' = Nothing => kind = "tunnel down" /\ ~wgActive',
             output' # Nothing => kind = "tunnel up", wgActive' \in BOOLEAN
      PROVE  NewestInv'
  <2>1. adding'["tunnel"] \in Alert /\ adding'["tunnel"].kind = kind
    <3>1. /\ adding'["tunnel"] = [n |-> made + 1, kind |-> kind, at |-> now]
          /\ adding'["tunnel"] \in Alert
      BY <1>1, <1>3, <1>5, RaisedType
    <3>2. QED
      BY <3>1
  <2>2. OnItsWay'
    BY <1>3, <1>5, <2>1 DEF OnItsWay
  <2>3. NewestTunnelAlert'
    BY <1>1, <1>3, <1>5, <2>1 DEF NewestTunnelAlert, Idle, Raise
  <2>4. QED
    BY <1>2, <2>2, <2>3 DEF NewestInv
<1>6. CASE CollectDown
  BY <1>5, <1>6 DEF CollectDown, Idle, Kinds
<1>7. CASE CollectUp
  <2>1. counter \in Nat
    BY DEF NewestInv, TunnelInv, Counters
  <2>2. output' # Nothing
    <3>1. output' = counter
      BY <1>7 DEF CollectUp
    <3>2. QED
      BY <2>1, <3>1 DEF Nothing
  <2>3. Raise("tunnel", "tunnel up") /\ wgActive' \in BOOLEAN /\ told' = told
    BY <1>1, <1>7 DEF CollectUp, OnItsWay
  <2>4. QED
    BY <1>5, <2>2, <2>3 DEF Kinds
<1>8. ASSUME NEW ok \in BOOLEAN, InsertAlert("tunnel", ok), output' = Nothing,
             told' = IF ok THEN adding["tunnel"] ELSE None,
             wgActive' = (adding["tunnel"].kind = "tunnel up")
      PROVE  NewestInv'
  <2>1. /\ adding["tunnel"] \in Alert /\ adding["tunnel"] # None
        /\ adding'["tunnel"] = None /\ table' \subseteq table \cup {adding["tunnel"]}
    BY <1>1, <1>3, <1>8, InsertedType DEF InsertAlert
  <2>2. OnItsWay'
    BY <1>8, <2>1 DEF OnItsWay
  <2>3. \A a \in table' : TunnelKind(a.kind) => a.n <= adding["tunnel"].n
    <3>1. \A a \in table : a.n \in Nat
      BY <1>1 DEF Typed, Alert
    <3>2. adding["tunnel"].n \in Nat
      BY <2>1 DEF Alert
    <3>3. QED
      BY <1>1, <2>1, <3>1, <3>2 DEF InOrder
  <2>4. NewestTunnelAlert'
    BY <1>8, <2>3 DEF NewestTunnelAlert, ForeignOnline, TunnelKind
  <2>5. QED
    BY <1>2, <2>2, <2>4 DEF NewestInv
<1>9. ASSUME NEW ok \in BOOLEAN, FinishDown(ok) PROVE NewestInv'
  <2>1. adding["tunnel"] # None /\ output = Nothing /\ InsertAlert("tunnel", ok)
    BY <1>9 DEF FinishDown, InsertAlert
  <2>2. wgActive = FALSE /\ adding["tunnel"].kind = "tunnel down"
    BY <1>1, <2>1 DEF OnItsWay
  <2>3. wgActive' = (adding["tunnel"].kind = "tunnel up")
    BY <1>9, <2>2 DEF FinishDown
  <2>4. QED
    BY <1>8, <1>9, <2>1, <2>3 DEF FinishDown
<1>10. ASSUME NEW ok \in BOOLEAN, NEW okLog \in BOOLEAN, FinishUp(ok, okLog)
       PROVE  NewestInv'
  <2>1. wgActive' = (adding["tunnel"].kind = "tunnel up")
    BY <1>1, <1>10 DEF FinishUp, OnItsWay
  <2>2. QED
    BY <1>8, <1>10, <2>1 DEF FinishUp
<1>11. CASE Restart
  <2>1. /\ adding'["tunnel"] = None /\ told' = None /\ output' = Nothing
        /\ wgActive' = FALSE
    BY <1>3, <1>11 DEF Restart, RestartAlerts, RestartTunnel
  <2>2. OnItsWay' /\ NewestTunnelAlert'
    BY <2>1 DEF OnItsWay, NewestTunnelAlert
  <2>3. QED
    BY <1>2, <2>2 DEF NewestInv
<1>12. QED
  BY <1>1, <1>4, <1>6, <1>7, <1>9, <1>10, <1>11, OthersAside

(* The last tunnel alert a process has inserted is the newest in the table *)
(* and says what the server pages say (collect in wgstats.go, whose flag   *)
(* and alert change in different orders), whoever else raises alerts.      *)
THEOREM NewestCorrect == Spec => []NewestTunnelAlert
<1>1. Init => NewestInv
  <2> SUFFICES ASSUME Init PROVE NewestInv
    OBVIOUS
  <2>1. /\ table = {} /\ made = 0 /\ output = Nothing /\ wgActive = FALSE /\ told = None
        /\ \A w \in Writers : adding[w] = None
    BY DEF Init, InitAlerts, InitTunnel
  <2>2. None.n = 0 /\ "tunnel" \in Writers
    BY DEF None, Writers
  <2>3. Sorted /\ OnItsWay /\ NewestTunnelAlert
    BY <2>1, <2>2 DEF Sorted, OnItsWay, NewestTunnelAlert
  <2>4. InOrder
    BY <2>1, <2>2 DEF InOrder
  <2>5. QED
    BY <2>3, <2>4, TypedInit, TunnelInit DEF NewestInv
<1>2. NewestInv /\ [Next]_vars => NewestInv'
  BY NewestStep
<1>3. NewestInv => NewestTunnelAlert
  BY DEF NewestInv
<1>4. QED
  BY <1>1, <1>2, <1>3, PTL DEF Spec

(* --------------------------- who is online ------------------------------ *)

(* Everybody in a map was in the table, and leaves it by a deletion only.  *)
KnownInv ==
    /\ row \in [Clients -> {"on", "off", "gone"}]
    /\ recent \subseteq Existing /\ realtime \subseteq Existing \cup dropped

(* What a step of the process does to the clients' part.                   *)
LEMMA ClientSteps ==
  ASSUME [Next]_vars
  PROVE  \/ FlipApi /\ UNCHANGED adding
         \/ /\ \E c \in Clients : Connect(c) \/ Forgotten(c) \/ Toggle(c) \/ Delete(c)
            /\ UNCHANGED adding
         \/ ApiDown \/ ApiUp
         \/ \E ok \in BOOLEAN : FinishAlert(ok)
         \/ Serve \/ Look \/ Simulate
         \/ RestartRealtime /\ RestartAlerts
         \/ /\ UNCHANGED realtimeVars
            /\ Typed => (adding'["api"] # None => adding["api"] # None)
BY DEF Typed, Next, vars, OfAlerts, OfTunnel, OfClients, OfLink, Restart, FinishStart,
   InsertAlert, alertVars,
   DeleteAlert, ClearAllAlerts, DeleteRows, Forget, HalfDay, CollectDown, CollectUp, Collect,
   FinishDown, FinishUp, Raise, Writers

LEMMA KnownStep ==
  ASSUME KnownInv, [Next]_vars
  PROVE  KnownInv'
<1> USE DEF KnownInv, Existing
<1>1. CASE FlipApi
  BY <1>1 DEF FlipApi, process
<1>2. ASSUME NEW c \in Clients, Connect(c) \/ Forgotten(c) \/ Toggle(c) \/ Delete(c)
      PROVE  KnownInv'
  BY <1>2 DEF Connect, Forgotten, Toggle, Delete, world, process
<1>3. CASE ApiDown \/ ApiUp \/ Look
  BY <1>3 DEF ApiDown, ApiUp, Look, world, process
<1>4. ASSUME NEW ok \in BOOLEAN, FinishAlert(ok) PROVE KnownInv'
  BY <1>4 DEF FinishAlert, world
<1>5. CASE Serve
  BY <1>5 DEF Serve, Serves, world
<1>6. CASE Simulate
  BY <1>6 DEF Simulate, On, world, process
<1>7. CASE RestartRealtime
  BY <1>7 DEF RestartRealtime, world
<1>8. CASE UNCHANGED realtimeVars
  BY <1>8 DEF realtimeVars, process
<1>9. QED
  BY <1>1, <1>2, <1>3, <1>4, <1>5, <1>6, <1>7, <1>8, ClientSteps

(* The dashboard counts the clients that the list shows as online (Stats   *)
(* and PeersStats, each with a fallback of its own), for any clients,      *)
(* whoever answers, as long as no map holds a client deleted since.        *)
THEOREM PagesCorrect == Spec => []PagesAgree
<1>1. Init => KnownInv
  BY DEF Init, InitRealtime, KnownInv, Existing
<1>2. KnownInv /\ [Next]_vars => KnownInv'
  BY KnownStep
<1>3. KnownInv => PagesAgree
  <2> SUFFICES ASSUME KnownInv,
                      fallback => simulated \subseteq Existing,
                      ~fallback => realtime \cap dropped = {}
               PROVE  OnlinePeers = Cardinality(PeersOnline)
    BY DEF PagesAgree
  <2>1. GetRealtimeStats \subseteq Existing /\ recent \subseteq Existing
    BY DEF KnownInv, GetRealtimeStats
  <2>2. PeersOnline = IF GetRealtimeStats # {} THEN GetRealtimeStats ELSE recent
    BY <2>1 DEF PeersOnline
  <2>3. QED
    BY <2>2 DEF OnlinePeers
<1>4. QED
  BY <1>1, <1>2, <1>3, PTL DEF Spec

(* What the collector's flag is worth: an alert of it is being inserted    *)
(* only where collect says so; and once a run has ended well and while the *)
(* API answers, whoever reads it finds it set, by the memory or by the     *)
(* critical section.                                                       *)
FlagInv ==
    /\ Typed
    /\ api \in BOOLEAN /\ apiReachable \in BOOLEAN /\ sure \in BOOLEAN
    /\ adding["api"] # None => collect \in {"up", "down"}
    /\ collect = "serve" => apiReachable = TRUE
    /\ sure => api /\ apiReachable = TRUE /\ published = TRUE /\ collect # "down"

LEMMA FlagStep ==
  ASSUME FlagInv, [Next]_vars
  PROVE  FlagInv'
<1>1. Typed /\ Typed' /\ "api" \in Writers
  BY TypedStep DEF FlagInv, Writers
<1>2. CASE /\ FlipApi \/ \E c \in Clients : Connect(c) \/ Forgotten(c) \/ Toggle(c) \/ Delete(c)
           /\ UNCHANGED adding
  <2>1. UNCHANGED <<apiReachable, published, collect>>
    BY <1>2 DEF FlipApi, Connect, Forgotten, Toggle, Delete, process
  <2>2. UNCHANGED <<api, sure>> \/ (api' = ~api /\ sure' = FALSE)
    BY <1>2 DEF FlipApi, Connect, Forgotten, Toggle, Delete, world
  <2>3. api' \in BOOLEAN /\ sure' \in BOOLEAN /\ (sure' => sure /\ api' = api)
    <3>1. api \in BOOLEAN /\ sure \in BOOLEAN
      BY DEF FlagInv
    <3>2. CASE UNCHANGED <<api, sure>>
      BY <3>1, <3>2
    <3>3. CASE api' = ~api /\ sure' = FALSE
      BY <3>1, <3>3
    <3>4. QED
      BY <2>2, <3>2, <3>3
  <2>4. QED
    BY <1>1, <1>2, <2>1, <2>3 DEF FlagInv
<1>3. CASE ApiDown \/ ApiUp
  <2>1. UNCHANGED <<api, apiReachable, published, sure>>
    BY <1>3 DEF ApiDown, ApiUp, world
  <2>2. ~sure /\ collect' \in {"up", "down"}
    BY <1>3 DEF ApiDown, ApiUp, FlagInv
  <2>3. QED
    BY <1>1, <2>1, <2>2 DEF FlagInv
<1>4. ASSUME NEW ok \in BOOLEAN, FinishAlert(ok) PROVE FlagInv'
  <2>1. adding'["api"] = None /\ adding["api"] # None
    BY <1>1, <1>4, InsertedType DEF FinishAlert, InsertAlert
  <2>2. QED
    BY <1>1, <1>4, <2>1 DEF FinishAlert, FlagInv, world
<1>5. CASE Serve
  BY <1>1, <1>5 DEF Serve, Serves, FlagInv, world, alertVars
<1>6. CASE Look \/ Simulate
  BY <1>1, <1>6 DEF Look, Simulate, Raise, Writers, Typed, FlagInv, world, process, alertVars
<1>7. CASE RestartRealtime /\ RestartAlerts
  BY <1>1, <1>7 DEF RestartRealtime, RestartAlerts, FlagInv, world
<1>8. ASSUME UNCHANGED realtimeVars, adding'["api"] # None => adding["api"] # None
      PROVE  FlagInv'
  BY <1>1, <1>8 DEF realtimeVars, world, process, FlagInv
<1>9. QED
  BY <1>1, <1>2, <1>3, <1>4, <1>5, <1>6, <1>7, <1>8, ClientSteps

(* The look 15 s after the start turns the panel to the simulator only if  *)
(* the collector had not ended a run, or the API has not answered ever     *)
(* since (main.go:107): reading apiReachable without a lock adds no cause. *)
THEOREM LookCorrect == Spec => SimulatorHasCause
<1>1. Init => FlagInv
  <2>1. Init => Typed
    BY TypedInit
  <2>2. Init => /\ api \in BOOLEAN /\ apiReachable = FALSE /\ sure = FALSE
                /\ adding["api"] = None /\ collect = "idle"
    BY DEF Init, InitRealtime, InitAlerts, Writers
  <2>3. QED
    BY <2>1, <2>2 DEF FlagInv
<1>2. FlagInv /\ [Next]_vars => FlagInv'
  BY FlagStep
<1>3. FlagInv /\ [Next]_vars => [~fallback /\ fallback' => ~sure]_<<fallback, sure>>
  <2> SUFFICES ASSUME FlagInv, [Next]_vars, fallback' # fallback, sure
               PROVE  ~fallback'
    OBVIOUS
  <2>1. CASE Look
    <3>1. apiReachable = TRUE /\ published = TRUE
      BY DEF FlagInv
    <3>2. PICK reachable \in {apiReachable, published} : fallback' = ~reachable
      BY <2>1 DEF Look
    <3>3. QED
      BY <3>1, <3>2
  <2>2. CASE RestartRealtime
    BY <2>2 DEF RestartRealtime
  <2>3. fallback' # fallback => Look \/ RestartRealtime
    BY ClientSteps DEF FlipApi, Connect, Forgotten, Toggle, Delete, ApiDown, ApiUp,
       FinishAlert, Serve, Serves, Simulate, realtimeVars, provider
  <2>4. QED
    BY <2>1, <2>2, <2>3
<1>4. QED
  BY <1>1, <1>2, <1>3, PTL DEF Spec, SimulatorHasCause

(* -------------------- the list in memory, and deletions ----------------- *)

(* What a list of some of the elements of another one is.                  *)
Selected(r, S, list, places) ==
    /\ r \in Seq(S) /\ Len(r) = Cardinality(places) /\ Len(r) <= Len(list)
    /\ \A k \in 1 .. Len(r) : \E i \in places : r[k] = list[i]
    /\ \A k, l \in 1 .. Len(r) :
          k < l => \E i, j \in places : i < j /\ r[k] = list[i] /\ r[l] = list[j]

LEMMA KeptSelected ==
  ASSUME NEW S, NEW list \in Seq(S), NEW places \in SUBSET DOMAIN list
  PROVE  Selected(Kept(list, places), S, list, places)
<1> DEFINE n       == Cardinality(places)
           upTo(i) == {j \in places : j <= i}
           rank    == [i \in places |-> Cardinality(upTo(i))]
           at(k)   == CHOOSE i \in places : Cardinality({j \in places : j <= i}) = k
<1>1. /\ IsFiniteSet(places) /\ n \in Nat /\ n <= Len(list)
      /\ places \subseteq Nat
  <2>1. IsFiniteSet(1 .. Len(list)) /\ Cardinality(1 .. Len(list)) = Len(list)
    <3>1. Len(list) \in Nat
      OBVIOUS
    <3>2. \A m \in Nat : IsFiniteSet(1 .. m) /\ Cardinality(1 .. m) = m
      BY FS_Interval
    <3>3. QED
      BY <3>1, <3>2
  <2>2. places \subseteq 1 .. Len(list)
    OBVIOUS
  <2>3. QED
    BY <2>1, <2>2, FS_Subset, FS_CardinalityType
<1>2. ASSUME NEW i \in places
      PROVE  IsFiniteSet(upTo(i)) /\ rank[i] \in 1 .. n
  <2>1. upTo(i) \subseteq places /\ i \in upTo(i)
    BY <1>1
  <2>2. IsFiniteSet(upTo(i)) /\ Cardinality(upTo(i)) <= n
    BY <1>1, <2>1, FS_Subset
  <2>3. Cardinality(upTo(i)) \in Nat /\ Cardinality(upTo(i)) # 0
    BY <2>1, <2>2, FS_CardinalityType, FS_EmptySet
  <2>4. rank[i] = Cardinality(upTo(i))
    OBVIOUS
  <2> HIDE DEF upTo, rank, n
  <2>5. QED
    BY <1>1, <2>2, <2>3, <2>4
<1>3. ASSUME NEW i \in places, NEW j \in places, i < j
      PROVE  rank[i] < rank[j]
  <2>1. upTo(i) \in SUBSET upTo(j) /\ j \in upTo(j) /\ j \notin upTo(i)
    BY <1>1, <1>3
  <2>2. rank[i] = Cardinality(upTo(i)) /\ rank[j] = Cardinality(upTo(j))
    OBVIOUS
  <2>3. IsFiniteSet(upTo(j)) /\ rank[i] \in 1 .. n /\ rank[j] \in 1 .. n
    BY <1>2, Zenon
  <2> HIDE DEF upTo, rank, n
  <2>4. /\ Cardinality(upTo(i)) <= Cardinality(upTo(j))
        /\ Cardinality(upTo(j)) # Cardinality(upTo(i))
    BY <2>1, <2>3, FS_Subset
  <2>5. rank[i] \in Nat /\ rank[j] \in Nat
    BY <1>1, <2>3
  <2>6. QED
    BY <2>2, <2>4, <2>5
<1> HIDE DEF n
<1>4. \A k \in 1 .. n : \E i \in places : rank[i] = k
  <2>1. rank \in [places -> 1 .. n]
    <3> HIDE DEF upTo
    <3>1. QED
      BY <1>2
  <2> HIDE DEF rank
  <2>2. rank \in Injection(places, 1 .. n)
    <3>1. ASSUME NEW i \in places, NEW j \in places, rank[i] = rank[j] PROVE i = j
      <4>1. ~(i < j) /\ ~(j < i)
        <5>1. rank[i] \in 1 .. n
          BY <1>2
        <5>2. ~(rank[i] < rank[j]) /\ ~(rank[j] < rank[i])
          BY <1>1, <3>1, <5>1
        <5>3. QED
          BY <1>3, <5>2
      <4>2. i \in Nat /\ j \in Nat
        BY <1>1
      <4>3. QED
        BY <4>1, <4>2
    <3>2. QED
      BY <2>1, <3>1 DEF Injection, IsInjective
  <2>3. IsFiniteSet(1 .. n) /\ Cardinality(1 .. n) = n
    BY <1>1, FS_Interval
  <2>4. rank \in Surjection(places, 1 .. n)
    BY <2>2, <2>3, FS_Injection DEF n
  <2>5. QED
    BY <2>4 DEF Surjection
<1>5. ASSUME NEW k \in 1 .. n PROVE at(k) \in places /\ rank[at(k)] = k
  <2>1. \E i \in places : Cardinality({j \in places : j <= i}) = k
    BY <1>4
  <2>2. at(k) \in places /\ Cardinality({j \in places : j <= at(k)}) = k
    BY <2>1
  <2> HIDE DEF at
  <2>3. QED
    BY <2>2
<1>6. ASSUME NEW k \in 1 .. n, NEW l \in 1 .. n, k < l PROVE at(k) < at(l)
  <2>1. /\ at(k) \in places /\ rank[at(k)] = k
        /\ at(l) \in places /\ rank[at(l)] = l
    BY <1>5
  <2> HIDE DEF at, rank
  <2>2. at(k) \in Nat /\ at(l) \in Nat
    BY <1>1, <2>1
  <2>3. ~(at(l) < at(k)) /\ at(k) # at(l)
    BY <1>3, <1>6, <2>1
  <2>4. QED
    BY <2>2, <2>3
<1>7. Kept(list, places) = [k \in 1 .. n |-> list[at(k)]]
  BY DEF Kept, n
<1> HIDE DEF at, rank, upTo
<1> DEFINE r == [k \in 1 .. n |-> list[at(k)]]
<1>8. \A k \in 1 .. n : list[at(k)] \in S
  BY <1>5
<1>9. r \in Seq(S) /\ Len(r) = n /\ \A k \in 1 .. n : r[k] = list[at(k)]
  BY <1>1, <1>8
<1> HIDE DEF r
<1>10. Selected(r, S, list, places)
  BY <1>1, <1>5, <1>6, <1>9 DEF Selected, n
<1>11. QED
  BY <1>7, <1>10 DEF r

(* The list in memory: newest first, and no more than the API keeps.       *)
MemoryOK ==
    /\ memory \in Seq(Alert) /\ Len(memory) <= MemoryCap
    /\ \A i, j \in 1 .. Len(memory) : i < j => memory[i].n > memory[j].n
    /\ \A i \in 1 .. Len(memory) : memory[i].n <= made

(* A list that has some of its elements first, and is cut to a length.     *)
LEMMA Prepended ==
  ASSUME NEW S, NEW a \in S, NEW list \in Seq(S), NEW cap \in Nat \ {0},
         NEW r, r = SubSeq(<<a>> \o list, 1, IF Len(<<a>> \o list) > cap THEN cap
                                             ELSE Len(<<a>> \o list))
  PROVE  /\ r \in Seq(S) /\ Len(r) <= cap /\ Len(r) <= Len(list) + 1
         /\ \A i \in 1 .. Len(r) : r[i] = IF i = 1 THEN a ELSE list[i - 1]
<1> DEFINE t == <<a>> \o list
           n == IF Len(t) > cap THEN cap ELSE Len(t)
<1>1. t \in Seq(S) /\ Len(t) = Len(list) + 1 /\ Len(list) \in Nat
  OBVIOUS
<1>2. \A i \in 1 .. Len(t) : t[i] = IF i = 1 THEN a ELSE list[i - 1]
  OBVIOUS
<1>3. n \in Nat /\ n <= Len(t) /\ n <= cap
  BY <1>1
<1> HIDE DEF t, n
<1>4. SubSeq(t, 1, n) \in Seq(S) /\ Len(SubSeq(t, 1, n)) = n
  BY <1>1, <1>3
<1>5. \A i \in 1 .. n : SubSeq(t, 1, n)[i] = t[i]
  BY <1>1, <1>3
<1>6. r = SubSeq(t, 1, n)
  BY DEF t, n
<1>7. QED
  BY <1>1, <1>2, <1>3, <1>4, <1>5, <1>6

LEMMA RaisedMemory ==
  ASSUME Typed, MemoryOK, NEW w \in Writers, NEW kind \in Kinds, Raise(w, kind)
  PROVE  /\ MemoryOK'
         /\ \A a \in ToSet(memory') : a.n = made + 1 \/ a \in ToSet(memory)
<1> DEFINE alert == [n |-> made + 1, kind |-> kind, at |-> now]
<1>1. alert \in Alert /\ alert.n = made + 1 /\ made \in Nat
  BY DEF Alert, Typed
<1>2. memory' = Capped(<<alert>> \o memory) /\ made' = made + 1
  BY DEF Raise
<1> HIDE DEF alert
<1>3. /\ memory' \in Seq(Alert) /\ Len(memory') <= MemoryCap /\ Len(memory') <= Len(memory) + 1
      /\ \A i \in 1 .. Len(memory') : memory'[i] = IF i = 1 THEN alert ELSE memory[i - 1]
  BY <1>1, <1>2, Prepended, AlertsAssumption DEF Capped, MemoryOK
<1>4. Len(memory) \in Nat /\ Len(memory') \in Nat
  BY <1>3 DEF MemoryOK
<1>5. \A i \in 1 .. Len(memory) : memory[i].n \in Nat /\ memory[i].n <= made
  <2>1. \A i \in 1 .. Len(memory) : memory[i] \in Alert
    BY DEF MemoryOK
  <2>2. QED
    BY <2>1 DEF MemoryOK, Alert
<1>6. ASSUME NEW i \in 2 .. Len(memory')
      PROVE  i - 1 \in 1 .. Len(memory) /\ memory'[i] = memory[i - 1]
  BY <1>3, <1>4
<1>7. ASSUME NEW i \in 1 .. Len(memory'), NEW j \in 1 .. Len(memory'), i < j
      PROVE  memory'[i].n > memory'[j].n
  <2>1. j \in 2 .. Len(memory') /\ j - 1 \in 1 .. Len(memory) /\ memory'[j] = memory[j - 1]
    BY <1>4, <1>6, <1>7
  <2>2. CASE i = 1
    BY <1>1, <1>3, <1>5, <2>1, <2>2
  <2>3. CASE i # 1
    <3>1. i - 1 \in 1 .. Len(memory) /\ memory'[i] = memory[i - 1] /\ i - 1 < j - 1
      BY <1>4, <1>6, <1>7, <2>3
    <3>2. QED
      BY <2>1, <3>1 DEF MemoryOK
  <2>4. QED
    BY <2>2, <2>3
<1>8. ASSUME NEW i \in 1 .. Len(memory')
      PROVE  /\ memory'[i].n <= made'
             /\ memory'[i].n = made + 1 \/ memory'[i] \in ToSet(memory)
  <2>1. CASE i = 1
    BY <1>1, <1>2, <1>3, <2>1
  <2>2. CASE i # 1
    <3>1. i - 1 \in 1 .. Len(memory) /\ memory'[i] = memory[i - 1]
      BY <1>4, <1>6, <2>2
    <3>2. memory[i - 1] \in ToSet(memory)
      BY <3>1 DEF ToSet, MemoryOK
    <3>3. QED
      BY <1>1, <1>2, <1>5, <3>1, <3>2
  <2>3. QED
    BY <2>1, <2>2
<1>9. MemoryOK'
  BY <1>3, <1>7, <1>8 DEF MemoryOK
<1>10. QED
  BY <1>3, <1>8, <1>9 DEF ToSet

LEMMA ForgottenMemory ==
  ASSUME Typed, MemoryOK, Forget
  PROVE  /\ MemoryOK'
         /\ \A a \in ToSet(memory') : a \in ToSet(memory) /\ ~Meant(a, clearing)
<1> DEFINE places == {i \in DOMAIN memory : ~Meant(memory[i], clearing)}
<1>1. memory' = Kept(memory, places) /\ made' = made
  BY DEF Forget
<1>2. Selected(memory', Alert, memory, places)
  <2>1. memory \in Seq(Alert) /\ places \in SUBSET DOMAIN memory
    BY DEF MemoryOK
  <2> HIDE DEF places
  <2>2. QED
    BY <1>1, <2>1, KeptSelected
<1>3. places \subseteq 1 .. Len(memory)
  BY DEF MemoryOK
<1>4. Len(memory') <= MemoryCap
  <2>1. Len(memory) \in Nat /\ Len(memory') \in Nat /\ Len(memory') <= Len(memory)
    BY <1>2 DEF MemoryOK, Selected
  <2>2. QED
    BY <2>1, AlertsAssumption DEF MemoryOK
<1>5. ASSUME NEW k \in 1 .. Len(memory')
      PROVE  /\ memory'[k].n <= made'
             /\ memory'[k] \in ToSet(memory) /\ ~Meant(memory'[k], clearing)
  <2>1. PICK i \in places : memory'[k] = memory[i]
    BY <1>2 DEF Selected
  <2>2. QED
    BY <1>1, <1>3, <2>1 DEF MemoryOK, ToSet
<1>6. ASSUME NEW k \in 1 .. Len(memory'), NEW l \in 1 .. Len(memory'), k < l
      PROVE  memory'[k].n > memory'[l].n
  <2>1. PICK i \in places, j \in places : i < j /\ memory'[k] = memory[i] /\ memory'[l] = memory[j]
    BY <1>2, <1>6 DEF Selected
  <2>2. QED
    BY <1>3, <2>1 DEF MemoryOK
<1> HIDE DEF places
<1>7. MemoryOK'
  BY <1>2, <1>4, <1>5, <1>6 DEF MemoryOK, Selected
<1>8. QED
  BY <1>5, <1>7 DEF ToSet, MemoryOK

(* The types of the rest, and the ids in the table.                        *)
RowsOK ==
    /\ clearing \in [what : {"none", "one", "all"}, id : Nat]
    /\ deleted \subseteq Alert /\ events \in Nat
    /\ \A a, b \in table : Id(a) = Id(b) => a = b

AlertsInv == Typed /\ Sorted /\ InOrder /\ MemoryOK /\ RowsOK

LEMMA EventsStep ==
  ASSUME events \in Nat, [Next]_vars
  PROVE  events' \in Nat
<1>1. Event => events' \in Nat
  BY DEF Event
<1>2. ASSUME events' = events PROVE events' \in Nat
  BY <1>2
<1>3. DeleteAlert \/ ClearAllAlerts \/ HalfDay \/ Carry \/ LoseLink \/ MakeLink \/ Restart
         => events' \in Nat
  BY <1>1 DEF DeleteAlert, ClearAllAlerts, DeleteRows, HalfDay, Carry, LoseLink, MakeLink,
     Restart, RestartAlerts
<1>4. Forget \/ CollectDown \/ CollectUp => events' \in Nat
  BY <1>2 DEF Forget, CollectDown, CollectUp
<1>5. \A ok, okLog \in BOOLEAN :
         Collect(ok) \/ FinishDown(ok) \/ FinishUp(ok, okLog) \/ FinishAlert(ok) \/ FinishStart(ok)
            => events' \in Nat
  BY <1>1, <1>2 DEF Collect, FinishDown, FinishUp, FinishAlert, FinishStart
<1>6. FlipApi \/ (\E c \in Clients : Connect(c) \/ Forgotten(c) \/ Toggle(c) \/ Delete(c))
         => events' \in Nat
  BY <1>1 DEF FlipApi, Connect, Forgotten, Toggle, Delete
<1>7. ApiDown \/ ApiUp \/ Serve \/ Look \/ Simulate => events' \in Nat
  BY <1>2 DEF ApiDown, ApiUp, Serve, Serves, Look, Simulate
<1>8. UNCHANGED vars => events' \in Nat
  BY <1>2 DEF vars
<1>9. QED
  BY <1>3, <1>4, <1>5, <1>6, <1>7, <1>8 DEF Next

LEMMA AlertsStep ==
  ASSUME AlertsInv, [Next]_vars
  PROVE  AlertsInv'
<1>1. Typed /\ Sorted /\ InOrder /\ MemoryOK /\ RowsOK
  BY DEF AlertsInv
<1>2. Typed' /\ Sorted' /\ InOrder' /\ events' \in Nat
  BY <1>1, TypedStep, InOrderStep, EventsStep DEF RowsOK
<1>3. ASSUME NEW w \in Writers, NEW kind \in Kinds, Raise(w, kind) PROVE MemoryOK' /\ RowsOK'
  <2>1. MemoryOK'
    BY <1>1, <1>3, RaisedMemory
  <2>2. QED
    BY <1>1, <1>2, <1>3, <2>1 DEF Raise, RowsOK
<1>4. ASSUME NEW w \in Writers, NEW ok \in BOOLEAN, InsertAlert(w, ok) PROVE MemoryOK' /\ RowsOK'
  BY <1>1, <1>2, <1>4 DEF InsertAlert, MemoryOK, RowsOK
<1>5. ASSUME NEW request, Asked(request), DeleteRows(request) PROVE MemoryOK' /\ RowsOK'
  <2>1. \A a \in table \cup ToSet(memory) : a \in Alert /\ Id(a) \in Nat
    <3>1. \A a \in Alert : Id(a) \in Nat
      BY DEF Alert, Id
    <3>2. table \subseteq Alert /\ ToSet(memory) \subseteq Alert
      BY <1>1 DEF Typed, MemoryOK, ToSet
    <3>3. QED
      BY <3>1, <3>2
  <2>2. request \in [what : {"none", "one", "all"}, id : Nat]
    BY <1>5, <2>1 DEF Asked
  <2>3. clearing' = request /\ UNCHANGED <<memory, made>>
    BY <1>5 DEF DeleteRows
  <2>4. table' \subseteq table /\ deleted' \subseteq deleted \cup table \cup ToSet(memory)
    BY <1>5 DEF DeleteRows
  <2>5. deleted' \subseteq Alert
    BY <1>1, <2>1, <2>4 DEF RowsOK
  <2>6. QED
    BY <1>1, <1>2, <2>2, <2>3, <2>4, <2>5 DEF MemoryOK, RowsOK
<1>6. ASSUME Forget PROVE MemoryOK' /\ RowsOK'
  <2>1. MemoryOK'
    BY <1>1, <1>6, ForgottenMemory
  <2>2. clearing' = NoRequest /\ UNCHANGED <<table, deleted>>
    BY <1>6 DEF Forget
  <2>3. QED
    BY <1>1, <1>2, <2>1, <2>2 DEF RowsOK, NoRequest
<1>7. ASSUME HalfDay PROVE MemoryOK' /\ RowsOK'
  BY <1>1, <1>2, <1>7 DEF HalfDay, CleanupOldAlerts, MemoryOK, RowsOK
<1>8. ASSUME RestartAlerts PROVE MemoryOK' /\ RowsOK'
  <2>1. /\ memory' = <<>> /\ clearing' = NoRequest
        /\ UNCHANGED <<table, made, deleted>>
    BY <1>8 DEF RestartAlerts
  <2>2. MemoryOK'
    BY <2>1, AlertsAssumption DEF MemoryOK
  <2>3. QED
    BY <1>1, <1>2, <2>1, <2>2 DEF RowsOK, NoRequest
<1>9. ASSUME UNCHANGED alertVars PROVE MemoryOK' /\ RowsOK'
  BY <1>1, <1>2, <1>9 DEF alertVars, MemoryOK, RowsOK
<1>10. UNCHANGED vars => UNCHANGED alertVars
  BY DEF vars
<1>11. MemoryOK' /\ RowsOK'
  BY <1>3, <1>4, <1>5, <1>6, <1>7, <1>8, <1>9, <1>10, AlertSteps
<1>12. QED
  BY <1>2, <1>11 DEF AlertsInv

LEMMA AlertsInit == Init => AlertsInv
<1> SUFFICES ASSUME Init PROVE AlertsInv
  OBVIOUS
<1>1. /\ memory = <<>> /\ table = {} /\ made = 0 /\ clearing = NoRequest /\ deleted = {}
      /\ \A w \in Writers : adding[w] = None
  BY DEF Init, InitAlerts
<1>2. MemoryOK
  BY <1>1, AlertsAssumption DEF MemoryOK
<1>3. events \in Nat
  BY BudgetAssumption DEF Init
<1>4. RowsOK
  BY <1>1, <1>3 DEF RowsOK, NoRequest
<1>5. None.n = 0 /\ "tunnel" \in Writers
  BY DEF None, Writers
<1>6. Sorted /\ InOrder
  BY <1>1, <1>5 DEF Sorted, InOrder
<1>7. QED
  BY <1>2, <1>4, <1>6, TypedInit DEF AlertsInv

(* An alert that was deleted is on no list any more: where it still is, a  *)
(* request is about to take it out, and it is not about to be inserted.    *)
DeletedInv ==
    /\ \A a \in deleted : a.n <= made
    /\ table \cap deleted = {}
    /\ \A a \in ToSet(memory) \cap deleted : clearing # NoRequest /\ Meant(a, clearing)
    /\ \A w \in Writers : adding[w] \notin deleted

LEMMA DeletedStep ==
  ASSUME AlertsInv, DeletedInv, [Next]_vars
  PROVE  DeletedInv'
<1>1. Typed /\ InOrder /\ MemoryOK /\ RowsOK
  BY DEF AlertsInv
<1>2. None \notin Alert /\ deleted \subseteq Alert /\ \A a \in deleted : a.n \in Nat
  BY <1>1 DEF None, Alert, RowsOK
<1>3. ASSUME NEW w \in Writers, NEW kind \in Kinds, Raise(w, kind) PROVE DeletedInv'
  <2>1. /\ adding'[w] = [n |-> made + 1, kind |-> kind, at |-> now]
        /\ \A v \in Writers : v # w => adding'[v] = adding[v]
    BY <1>1, <1>3, RaisedType
  <2>2. adding'[w].n = made + 1 /\ made \in Nat
    BY <1>1, <2>1 DEF Typed
  <2>3. \A a \in ToSet(memory') : a.n = made + 1 \/ a \in ToSet(memory)
    BY <1>1, <1>3, RaisedMemory
  <2>4. made' = made + 1 /\ UNCHANGED <<table, clearing, deleted>>
    BY <1>3 DEF Raise
  <2>5. \A a \in deleted : a.n # made + 1 /\ a.n <= made + 1
    BY <1>2, <2>2 DEF DeletedInv
  <2>6. QED
    BY <2>1, <2>2, <2>3, <2>4, <2>5 DEF DeletedInv, Meant
<1>4. ASSUME NEW w \in Writers, NEW ok \in BOOLEAN, InsertAlert(w, ok) PROVE DeletedInv'
  <2>1. /\ adding'[w] = None /\ \A v \in Writers : v # w => adding'[v] = adding[v]
        /\ table' \subseteq table \cup {adding[w]}
    BY <1>1, <1>4, InsertedType
  <2>2. UNCHANGED <<memory, clearing, made, deleted>>
    BY <1>4 DEF InsertAlert
  <2>3. QED
    BY <1>2, <2>1, <2>2 DEF DeletedInv, Meant
<1>5. ASSUME NEW request, Asked(request), DeleteRows(request) PROVE DeletedInv'
  <2>1. /\ clearing = NoRequest /\ clearing' = request
        /\ table' = {a \in table : ~Meant(a, request)}
        /\ deleted' = deleted \cup {a \in table \cup ToSet(memory) :
                          Meant(a, request) /\ \A w \in Writers : adding[w] # a}
        /\ UNCHANGED <<memory, adding, made>>
    BY <1>5 DEF DeleteRows
  <2>2. request # NoRequest
    BY <1>5 DEF Asked, NoRequest
  <2>3. \A a \in table \cup ToSet(memory) : a.n <= made
    BY <1>1 DEF InOrder, MemoryOK, ToSet
  <2>4. ToSet(memory) \cap deleted = {}
    BY <2>1 DEF DeletedInv
  <2>5. \A a \in ToSet(memory) \cap deleted' : Meant(a, request)
    BY <2>1, <2>4
  <2>6. table' \cap deleted' = {}
    BY <2>1 DEF DeletedInv
  <2>7. \A a \in deleted' : a.n <= made
    BY <2>1, <2>3 DEF DeletedInv
  <2>8. \A w \in Writers : adding[w] \notin deleted'
    BY <2>1 DEF DeletedInv
  <2>9. QED
    BY <2>1, <2>2, <2>5, <2>6, <2>7, <2>8 DEF DeletedInv, Meant
<1>6. CASE Forget
  <2>1. \A a \in ToSet(memory') : a \in ToSet(memory) /\ ~Meant(a, clearing)
    BY <1>1, <1>6, ForgottenMemory
  <2>2. UNCHANGED <<table, adding, made, deleted>>
    BY <1>6 DEF Forget
  <2>3. QED
    BY <2>1, <2>2 DEF DeletedInv
<1>7. CASE HalfDay
  BY <1>7 DEF HalfDay, CleanupOldAlerts, DeletedInv, Meant
<1>8. CASE RestartAlerts
  <2>1. /\ memory' = <<>> /\ UNCHANGED <<table, made, deleted>>
        /\ \A w \in Writers : adding'[w] = None
    BY <1>8 DEF RestartAlerts
  <2>2. ToSet(memory') = {}
    BY <2>1 DEF ToSet
  <2>3. QED
    BY <1>2, <2>1, <2>2 DEF DeletedInv
<1>9. CASE UNCHANGED alertVars
  BY <1>9 DEF alertVars, DeletedInv, Meant
<1>10. UNCHANGED vars => UNCHANGED alertVars
  BY DEF vars
<1>11. QED
  BY <1>3, <1>4, <1>5, <1>6, <1>7, <1>8, <1>9, <1>10, AlertSteps

(* A deleted alert is not shown again, by the table or, once the request   *)
(* is over, by the memory (DeleteAlert, ClearAllAlerts, AddAlert and       *)
(* GetAlerts in traffic.go), however deletions and insertions cross.       *)
THEOREM DeletedCorrect == Spec => []DeletedStayDeleted
<1>1. Init => AlertsInv /\ DeletedInv
  <2>1. Init => deleted = {}
    BY DEF Init, InitAlerts
  <2>2. QED
    BY <2>1, AlertsInit DEF DeletedInv
<1>2. AlertsInv /\ DeletedInv /\ [Next]_vars => (AlertsInv /\ DeletedInv)'
  BY AlertsStep, DeletedStep
<1>3. DeletedInv => DeletedStayDeleted
  BY DEF DeletedInv, DeletedStayDeleted, GetAlerts
<1>4. QED
  BY <1>1, <1>2, <1>3, PTL DEF Spec

(* -------------------------------- the types ----------------------------- *)

(* What the type invariant says of the tunnel, beyond its counters.        *)
LinkTyped ==
    /\ columns \in Columns /\ link \in BOOLEAN /\ wgActive \in BOOLEAN
    /\ told \in Alert \cup {None}

LEMMA LinkStep ==
  ASSUME Typed, LinkTyped, [Next]_vars
  PROVE  LinkTyped'
<1> USE DEF LinkTyped
<1>1. adding["tunnel"] \in Alert \cup {None}
  BY DEF Typed, Writers
<1>2. CASE Carry \/ LoseLink \/ MakeLink
  BY <1>2 DEF Carry, LoseLink, MakeLink
<1>3. CASE CollectDown \/ CollectUp
  BY <1>3 DEF CollectDown, CollectUp
<1>4. ASSUME NEW ok \in BOOLEAN, Collect(ok) PROVE LinkTyped'
  BY <1>4 DEF Collect
<1>5. ASSUME NEW ok \in BOOLEAN, NEW okLog \in BOOLEAN, FinishDown(ok) \/ FinishUp(ok, okLog)
      PROVE  LinkTyped'
  BY <1>1, <1>5 DEF FinishDown, FinishUp
<1>6. CASE RestartTunnel
  BY <1>6 DEF RestartTunnel
<1>7. CASE UNCHANGED tunnelVars
  BY <1>7 DEF tunnelVars
<1>8. QED
  BY <1>2, <1>3, <1>4, <1>5, <1>6, <1>7, TunnelSteps

LEMMA RealtimeStep ==
  ASSUME RealtimeTypeOK, [Next]_vars
  PROVE  RealtimeTypeOK'
<1> USE DEF RealtimeTypeOK, Existing
<1>1. CASE FlipApi
  BY <1>1 DEF FlipApi, process, provider
<1>2. ASSUME NEW c \in Clients, Connect(c) \/ Forgotten(c) \/ Toggle(c) \/ Delete(c)
      PROVE  RealtimeTypeOK'
  BY <1>2 DEF Connect, Forgotten, Toggle, Delete, world, process, provider
<1>3. CASE ApiDown \/ ApiUp
  BY <1>3 DEF ApiDown, ApiUp, world, provider
<1>4. ASSUME NEW ok \in BOOLEAN, FinishAlert(ok) PROVE RealtimeTypeOK'
  BY <1>4 DEF FinishAlert, world, provider
<1>5. CASE Serve
  BY <1>5 DEF Serve, Serves, world, provider
<1>6. CASE Look
  BY <1>6 DEF Look, world, process
<1>7. CASE Simulate
  BY <1>7 DEF Simulate, On, world, process
<1>8. CASE RestartRealtime
  BY <1>8 DEF RestartRealtime, world
<1>9. CASE UNCHANGED realtimeVars
  BY <1>9 DEF realtimeVars
<1>10. QED
  BY <1>1, <1>2, <1>3, <1>4, <1>5, <1>6, <1>7, <1>8, <1>9, ClientSteps

(* The variables have their types, ids in the table differ, and the list   *)
(* in memory is in order and within its cap (AddAlert in traffic.go).      *)
THEOREM MonitoringTypesCorrect == Spec => []MonitoringTypeOK
<1> DEFINE IInv == AlertsInv /\ TunnelInv /\ LinkTyped /\ RealtimeTypeOK
<1>1. Init => IInv
  <2>1. Init => LinkTyped
    BY DEF Init, InitTunnel, LinkTyped
  <2>2. Init => RealtimeTypeOK
    BY DEF Init, InitRealtime, RealtimeTypeOK, Existing
  <2>3. QED
    BY <2>1, <2>2, AlertsInit, TunnelInit
<1>2. IInv /\ [Next]_vars => IInv'
  BY AlertsStep, TunnelStep, LinkStep, RealtimeStep DEF AlertsInv
<1>3. IInv => MonitoringTypeOK
  <2>1. AlertsInv => AlertsTypeOK
    BY DEF AlertsInv, Typed, MemoryOK, RowsOK, AlertsTypeOK, ToSet
  <2>2. TunnelInv /\ LinkTyped => TunnelTypeOK
    BY DEF TunnelInv, Counters, LinkTyped, TunnelTypeOK
  <2>3. QED
    BY <2>1, <2>2 DEF MonitoringTypeOK
<1>4. QED
  BY <1>1, <1>2, <1>3, PTL DEF Spec
=============================================================================

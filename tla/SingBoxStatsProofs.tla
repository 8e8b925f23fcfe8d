-------------------------- MODULE SingBoxStatsProofs --------------------------
(***************************************************************************)
(* Proofs about SingBoxStats, for any clients, addresses and connections   *)
(* and any bounds: first the sessions, where sums of bytes play no part,   *)
(* then what holds of sums, and with it the accounts.                      *)
(***************************************************************************)
EXTENDS SingBoxStats, FiniteSetTheorems, TLAPS

(* TypeOK without the sums.                                                *)
IsSession(s) == /\ DOMAIN s = {"peer", "id", "open", "bytes"}
                /\ s.peer \in Peers /\ s.id \in Nat \ {0} /\ s.open \in BOOLEAN

TypeInv ==
    /\ conn \in [Conns -> ConnState]
    /\ row \in [Peers -> {"active", "inactive", "gone"}]
    /\ issued \in Nat /\ \A s \in sessions : IsSession(s)
    /\ base \in [Conns -> Nat] /\ online \subseteq Peers
    /\ sess \in [Peers -> Nat] /\ owner \in [Sources -> Somebody]
    /\ poll \in Poll /\ del \in Deletion
    /\ faults \in Nat /\ crashes \in Nat

(* Whose bytes are being charged.                                          *)
Charging == poll.stage \in {"charge", "log"} => poll.cur \in Peers

LEMMA NoPollType == NoPoll \in Poll
  BY DEF NoPoll, Poll, Somebody

LEMMA InitType == Init => TypeInv
  BY NoPollType, StatsAssumption
     DEF Init, TypeInv, ConnState, NoDeletion, Deletion, Somebody

(* The faults of a step.                                                   *)
LEMMA FaultType == ASSUME TypeInv, Fault \/ NoFault
                   PROVE  faults' \in Nat /\ crashes' \in Nat
  BY DEF TypeInv, Fault, NoFault, history

LEMMA FetchType == ASSUME TypeInv, Fetch PROVE TypeInv'
  <1> DEFINE delta == [c \in Conns |-> IF c \in Open \cap Counted THEN Grown[c] ELSE 0]
             claim == [c \in Conns |-> IF User[c] = Nobody /\ delta[c] # 0
                                       THEN owner[Source[c]] ELSE Nobody]
             queue == {c \in Conns : claim[c] # Nobody}
  <1>1. \A c \in Conns : conn[c].bytes \in Nat /\ base[c] \in Nat
    BY StatsAssumption DEF TypeInv, ConnState
  <1>2. \A c \in Conns : Grown[c] \in Nat
    BY <1>1 DEF Grown
  <1>3. delta \in [Conns -> Nat]
    BY <1>2
  <1>4. claim \in [Conns -> Somebody]
    BY StatsAssumption DEF TypeInv, Somebody
  <1>5. Open \subseteq Conns /\ queue \subseteq Conns
    BY DEF Open
  <1>6. poll' = [NoPoll EXCEPT !.stage = "match", !.seen = Open, !.delta = delta,
                               !.claim = claim, !.queue = queue]
    BY DEF Fetch, FetchWith
  <1> HIDE DEF delta, claim, queue
  <1>7. poll' \in Poll
    BY <1>3, <1>4, <1>5, <1>6, NoPollType DEF Poll
  <1>8. base' \in [Conns -> Nat]
    BY <1>1 DEF Fetch, FetchWith
  <1>9. QED
    BY <1>7, <1>8 DEF TypeInv, Fetch, FetchWith, tables

LEMMA MatchType ==
    ASSUME TypeInv, Identified \/ \E c \in Conns : Identify(c)
    PROVE  TypeInv'
  <1>1. CASE Identified
    <2>1. {poll.claim[c] : c \in Conns} \ {Nobody} \subseteq Peers
      BY DEF TypeInv, Poll, Somebody
    <2>2. poll' \in Poll
      BY <1>1, <2>1 DEF Identified, TypeInv, Poll
    <2>3. QED BY <1>1, <2>2 DEF Identified, TypeInv, tables, memory, history
  <1>2. ASSUME NEW c \in Conns, Identify(c) PROVE TypeInv'
    <2>1. poll' \in Poll
      <3>1. [poll.claim EXCEPT ![c] = Nobody] \in [Conns -> Somebody]
        BY DEF TypeInv, Poll, Somebody
      <3>2. CASE poll' = [poll EXCEPT !.queue = @ \ {c}, !.claim[c] = Nobody]
        BY <3>1, <3>2 DEF TypeInv, Poll
      <3>3. CASE poll' = [poll EXCEPT !.queue = @ \ {c}]
        BY <3>3 DEF TypeInv, Poll
      <3>4. QED BY <1>2, <3>2, <3>3 DEF Identify
    <2>2. owner' \in [Sources -> Somebody]
      BY <1>2 DEF Identify, TypeInv, Somebody
    <2>3. Fault \/ NoFault
      BY <1>2 DEF Identify
    <2>4. QED BY <1>2, <2>1, <2>2, <2>3, FaultType DEF Identify, TypeInv, tables
  <1>3. QED BY <1>1, <1>2

LEMMA ToLogType ==
    ASSUME TypeInv, NEW p \in Peers, NEW mine \in SUBSET Conns,
           NEW next \in {"shared", "users"}, NEW todo \in SUBSET Peers
    PROVE  ToLog(p, mine, next, todo) \in Poll
  BY DEF ToLog, TypeInv, Poll, Somebody

LEMMA ChargeType ==
    ASSUME TypeInv, Charging,
           \/ \E p \in Peers : ChargeShared(p) \/ Lookup(p)
           \/ LogUnclaimed \/ ChargeUser
           \/ Logged \/ \E c \in Conns : LogConn(c)
    PROVE  TypeInv'
  <1> USE DEF tables, memory
  <1>0. poll \in Poll /\ (ChargeUser => poll.cur \in Peers)
    BY DEF TypeInv, Charging, ChargeUser
  <1>1. ASSUME NEW p \in Peers, ChargeShared(p) PROVE TypeInv'
    <2>1. poll' \in Poll
      <3>1. {c \in Conns : poll.claim[c] = p} \in SUBSET Conns
        OBVIOUS
      <3>2. poll.todo \ {p} \in SUBSET Peers
        BY <1>0 DEF Poll
      <3>3. poll' = ToLog(p, {c \in Conns : poll.claim[c] = p}, "shared", poll.todo \ {p})
        BY <1>1 DEF ChargeShared
      <3>4. QED BY <3>1, <3>2, <3>3, ToLogType
    <2>2. QED BY <1>1, <2>1, FaultType DEF ChargeShared, TypeInv
  <1>2. ASSUME NEW p \in Peers, Lookup(p) PROVE TypeInv'
    <2>1. poll' \in Poll
      <3>1. CASE poll' = [poll EXCEPT !.stage = "charge", !.cur = p, !.todo = @ \ {p},
                                      !.now = @ \cup {p}]
        BY <1>0, <3>1 DEF Poll, Somebody
      <3>2. CASE poll' = [poll EXCEPT !.todo = @ \ {p}]
        BY <1>0, <3>2 DEF Poll
      <3>3. QED BY <1>2, <3>1, <3>2 DEF Lookup
    <2>2. QED BY <1>2, <2>1, FaultType DEF Lookup, TypeInv
  <1>3. CASE LogUnclaimed
    <2>1. {User[c] : c \in poll.seen} \ {Nobody} \subseteq Peers
      BY <1>0, StatsAssumption DEF Poll
    <2>2. poll' \in Poll
      BY <1>0, <1>3, <2>1 DEF LogUnclaimed, Poll
    <2>3. Fault \/ NoFault
      BY <1>3 DEF LogUnclaimed
    <2>4. QED BY <1>3, <2>2, <2>3, FaultType DEF LogUnclaimed, TypeInv
  <1>4. CASE ChargeUser
    <2>1. poll' \in Poll
      <3>1. {c \in poll.seen : User[c] = poll.cur} \in SUBSET Conns
        BY <1>0 DEF Poll
      <3>2. CASE poll' = ToLog(poll.cur, {c \in poll.seen : User[c] = poll.cur}, "users", poll.todo)
        BY <1>0, <1>4, <3>1, <3>2, ToLogType DEF Poll
      <3>3. CASE poll' = [poll EXCEPT !.stage = "users"]
        BY <1>0, <3>3 DEF Poll
      <3>4. QED BY <1>4, <3>2, <3>3 DEF ChargeUser
    <2>2. owner' \in [Sources -> Somebody]
      <3>1. PICK used : \/ owner' = [s \in Sources |-> IF s \in used THEN poll.cur ELSE owner[s]]
                        \/ owner' = owner
        BY <1>4 DEF ChargeUser
      <3>2. QED BY <1>0, <1>4, <3>1 DEF TypeInv, Somebody
    <2>3. Fault \/ NoFault
      BY <1>4 DEF ChargeUser
    <2>4. QED BY <1>4, <2>1, <2>2, <2>3, FaultType DEF ChargeUser, TypeInv
  <1>5. CASE Logged
    <2>1. poll' \in Poll
      BY <1>0, <1>5 DEF Logged, Poll, Somebody
    <2>2. QED BY <1>5, <2>1 DEF Logged, TypeInv, history
  <1>6. ASSUME NEW c \in Conns, LogConn(c) PROVE TypeInv'
    <2>1. poll' \in Poll
      BY <1>0, <1>6 DEF LogConn, Poll
    <2>2. QED BY <1>6, <2>1, FaultType DEF LogConn, TypeInv
  <1>7. QED BY <1>1, <1>2, <1>3, <1>4, <1>5, <1>6

LEMMA SessionType ==
    ASSUME TypeInv,
           \/ UsersDone \/ Started \/ Finish
           \/ \E p \in Peers : StartSession(p) \/ EndSession(p)
    PROVE  TypeInv'
  <1> USE DEF tables, memory
  <1>0. poll \in Poll
    BY DEF TypeInv
  <1>1. CASE UsersDone \/ Started
    <2>1. poll' \in Poll
      <3>1. CASE UsersDone
        BY <1>0, <3>1 DEF UsersDone, Poll
      <3>2. CASE Started
        BY <1>0, <3>2 DEF Started, Poll, TypeInv
      <3>3. QED BY <1>1, <3>1, <3>2
    <2>2. QED BY <1>1, <2>1 DEF UsersDone, Started, TypeInv, history
  <1>2. CASE Finish
    <2>1. base' \in [Conns -> Nat]
      BY <1>2 DEF Finish, FinishForgetting, TypeInv
    <2>2. online' \subseteq Peers
      BY <1>0, <1>2 DEF Finish, FinishForgetting, Poll
    <2>3. QED
      BY <1>2, <2>1, <2>2, NoPollType DEF Finish, FinishForgetting, TypeInv, history
  <1>3. ASSUME NEW p \in Peers, StartSession(p) PROVE TypeInv'
    <2>1. poll' \in Poll
      BY <1>0, <1>3 DEF StartSession, Poll
    <2>2. issued' \in Nat /\ sess' \in [Peers -> Nat]
      BY <1>3 DEF StartSession, TypeInv
    <2>3. \A s \in sessions' : IsSession(s)
      <3>1. IsSession([peer |-> p, id |-> issued + 1, open |-> TRUE, bytes |-> 0])
        BY DEF IsSession, TypeInv
      <3>2. QED BY <1>3, <3>1 DEF StartSession, TypeInv
    <2>4. Fault \/ NoFault
      BY <1>3 DEF StartSession
    <2>5. QED BY <1>3, <2>1, <2>2, <2>3, <2>4, FaultType DEF StartSession, TypeInv
  <1>4. ASSUME NEW p \in Peers, EndSession(p) PROVE TypeInv'
    <2>1. poll' \in Poll
      BY <1>0, <1>4 DEF EndSession, EndSessionWith, Poll
    <2>2. sess' \in [Peers -> Nat]
      BY <1>4 DEF EndSession, EndSessionWith, TypeInv
    <2>3. \A s \in sessions' : IsSession(s)
      <3>1. ASSUME NEW s \in sessions, NEW b
            PROVE  IsSession([s EXCEPT !.open = FALSE, !.bytes = b])
        <4>1. IsSession(s)
          BY DEF TypeInv
        <4>2. QED BY <4>1 DEF IsSession
      <3>2. CASE sessions' = Closed(sess[p], flow[p])
        <4>1. ASSUME NEW s \in sessions' PROVE IsSession(s)
          <5>1. PICK t \in sessions :
                  s = IF t.id = sess[p] THEN [t EXCEPT !.open = FALSE, !.bytes = flow[p]] ELSE t
            BY <3>2, <4>1 DEF Closed
          <5>2. QED BY <3>1, <5>1 DEF TypeInv
        <4>2. QED BY <4>1
      <3>3. CASE sessions' = sessions
        BY <3>3 DEF TypeInv
      <3>4. QED BY <1>4, <3>2, <3>3 DEF EndSession, EndSessionWith
    <2>4. Fault \/ NoFault
      BY <1>4 DEF EndSession, EndSessionWith
    <2>5. QED
      BY <1>4, <2>1, <2>2, <2>3, <2>4, FaultType DEF EndSession, EndSessionWith, TypeInv
  <1>5. QED BY <1>1, <1>2, <1>3, <1>4

LEMMA OutsideType ==
    ASSUME TypeInv,
           \/ \E c \in Conns : Opens(c) \/ Transfers(c) \/ Closes(c)
           \/ \E p \in Peers : TogglePeer(p) \/ DeletePeer(p)
           \/ DeleteLogs \/ DeleteSessions \/ DeleteRow \/ DeleteFails
           \/ Crash \/ UNCHANGED vars
    PROVE  TypeInv'
  <1> USE DEF tables, memory, history
  <1>1. ASSUME NEW c \in Conns, Opens(c) \/ Transfers(c) \/ Closes(c) PROVE TypeInv'
    <2>1. conn' \in [Conns -> ConnState]
      <3>1. conn \in [Conns -> ConnState] /\ MaxBytes \in Nat
        BY StatsAssumption DEF TypeInv
      <3>2. CASE Opens(c)
        BY <3>1, <3>2 DEF Opens, ConnState
      <3>3. CASE Transfers(c)
        BY <3>1, <3>3 DEF Transfers, ConnState
      <3>4. CASE Closes(c)
        BY <3>1, <3>4 DEF Closes, ConnState
      <3>5. QED BY <1>1, <3>2, <3>3, <3>4
    <2>2. QED BY <1>1, <2>1 DEF Opens, Transfers, Closes, TypeInv
  <1>2. ASSUME NEW p \in Peers, TogglePeer(p) \/ DeletePeer(p) PROVE TypeInv'
    BY <1>2 DEF TogglePeer, DeletePeer, TypeInv, Deletion, Somebody
  <1>3. CASE DeleteLogs \/ DeleteSessions \/ DeleteRow
    <2>1. del' \in Deletion
      BY <1>3 DEF DeleteLogs, DeleteSessions, DeleteRow, TypeInv, Deletion, NoDeletion, Somebody
    <2>2. row' \in [Peers -> {"active", "inactive", "gone"}]
      BY <1>3 DEF DeleteLogs, DeleteSessions, DeleteRow, TypeInv
    <2>3. QED BY <1>3, <2>1, <2>2 DEF DeleteLogs, DeleteSessions, DeleteRow, TypeInv
  <1>4. CASE DeleteFails
    BY <1>4, FaultType DEF DeleteFails, TypeInv, Deletion, NoDeletion, Somebody
  <1>5. CASE Crash
    BY <1>5, NoPollType DEF Crash, TypeInv, Deletion, NoDeletion, Somebody
  <1>6. CASE UNCHANGED vars
    BY <1>6 DEF vars, TypeInv
  <1>7. QED BY <1>1, <1>2, <1>3, <1>4, <1>5, <1>6

LEMMA TypeStep == ASSUME TypeInv, Charging, [Next]_vars PROVE TypeInv'
  BY FetchType, MatchType, ChargeType, SessionType, OutsideType, StatsAssumption
     DEF Next, PollStep

LEMMA FetchStage == ASSUME Fetch PROVE poll'.stage = "match"
  <1>1. PICK S, d, c, q : poll' = [NoPoll EXCEPT !.stage = "match", !.seen = S, !.delta = d,
                                                 !.claim = c, !.queue = q]
    BY Zenon DEF Fetch, FetchWith
  <1>2. QED BY <1>1 DEF NoPoll

LEMMA ChargingStep == ASSUME TypeInv, Charging, [Next]_vars PROVE Charging'
  <1> USE DEF Charging
  <1>0. poll \in Poll
    BY DEF TypeInv
  <1>1. CASE UNCHANGED poll
    BY <1>1
  <1>2. CASE poll'.stage \notin {"charge", "log"}
    BY <1>2
  <1>3. ASSUME NEW p \in Peers, ChargeShared(p) PROVE Charging'
    BY <1>0, <1>3 DEF ChargeShared, ToLog, Poll
  <1>4. ASSUME NEW p \in Peers, Lookup(p) PROVE Charging'
    BY <1>0, <1>4 DEF Lookup, Poll
  <1>5. CASE ChargeUser
    BY <1>0, <1>5 DEF ChargeUser, ToLog, Poll
  <1>6. ASSUME NEW c \in Conns, LogConn(c) PROVE Charging'
    BY <1>0, <1>6 DEF LogConn, Poll
  <1>f. Fetch => poll'.stage \notin {"charge", "log"}
    BY FetchStage
  <1>7. ASSUME Identified \/ LogUnclaimed \/ Logged \/ UsersDone \/ Started
                 \/ Finish \/ Crash
        PROVE  poll'.stage \notin {"charge", "log"}
    <2>1. CASE Identified
      BY <1>0, <2>1 DEF Identified, Poll
    <2>2. CASE LogUnclaimed
      BY <1>0, <2>2 DEF LogUnclaimed, Poll
    <2>3. CASE Logged
      BY <1>0, <2>3 DEF Logged, Poll
    <2>4. CASE UsersDone \/ Started
      BY <1>0, <2>4 DEF UsersDone, Started, Poll
    <2>5. CASE Finish \/ Crash
      BY <2>5 DEF Finish, FinishForgetting, Crash, NoPoll
    <2>6. QED BY <1>7, <2>1, <2>2, <2>3, <2>4, <2>5
  <1>8. ASSUME NEW c \in Conns, Identify(c) PROVE poll'.stage \notin {"charge", "log"}
    BY <1>0, <1>8 DEF Identify, Poll
  <1>9. ASSUME NEW p \in Peers, StartSession(p) \/ EndSession(p)
        PROVE  poll'.stage \notin {"charge", "log"}
    BY <1>0, <1>9 DEF StartSession, EndSession, EndSessionWith, Poll
  <1>10. ASSUME NEW p \in Peers, TogglePeer(p) \/ DeletePeer(p) PROVE UNCHANGED poll
    BY <1>10 DEF TogglePeer, DeletePeer
  <1>11. ASSUME NEW c \in Conns, Opens(c) \/ Transfers(c) \/ Closes(c) PROVE UNCHANGED poll
    BY <1>11 DEF Opens, Transfers, Closes
  <1>12. ASSUME DeleteLogs \/ DeleteSessions \/ DeleteRow \/ DeleteFails \/ UNCHANGED vars
         PROVE  UNCHANGED poll
    BY <1>12 DEF DeleteLogs, DeleteSessions, DeleteRow, DeleteFails, vars
  <1>13. CASE PollStep
    BY <1>2, <1>f, <1>3, <1>4, <1>5, <1>6, <1>7, <1>8, <1>9, <1>13 DEF PollStep
  <1>14. CASE ~PollStep
    BY <1>1, <1>2, <1>7, <1>10, <1>11, <1>12, <1>14, StatsAssumption DEF Next
  <1>15. QED BY <1>13, <1>14

-----------------------------------------------------------------------------
(* Who may have a session at each stage of a poll.                          *)
Tracked ==
    IF poll.stage = "start" THEN online \cup (poll.now \ poll.todo)
    ELSE IF poll.stage = "end" THEN poll.now \cup poll.todo
    ELSE online

(* The inductive invariant.  A peer that is about to be given a session has *)
(* none, because whoever has one is tracked.                                *)
SessionInv ==
    /\ \A s \in sessions : s.open => sess[s.peer] = s.id
    /\ \A p \in Peers : sess[p] # 0 => p \in Tracked
    /\ poll.stage = "start" => poll.todo \subseteq poll.now \ online

Inv == TypeInv /\ Charging /\ (Undisturbed => SessionInv)

(* What leaves the sessions and the poll's view of who is online alone.     *)
LEMMA Unmoved ==
    ASSUME TypeInv, SessionInv, sessions' \subseteq sessions,
           UNCHANGED <<sess, online>>,
           poll'.stage \notin {"start", "end"}, poll.stage \notin {"start", "end"}
    PROVE  SessionInv'
  BY DEF SessionInv, Tracked, TypeInv

LEMMA SessionSteps ==
    ASSUME TypeInv, SessionInv, faults' = 0,
           \/ UsersDone \/ Started \/ Finish
           \/ \E p \in Peers : StartSession(p) \/ EndSession(p)
    PROVE  SessionInv'
  <1>0. /\ poll \in Poll /\ sess \in [Peers -> Nat] /\ faults \in Nat
        /\ \A s \in sessions : IsSession(s)
    BY DEF TypeInv
  <1>f. ~Fault
    BY <1>0 DEF Fault
  <1>1. CASE UsersDone
    BY <1>0, <1>1 DEF UsersDone, SessionInv, Tracked, Poll, memory, tables
  <1>2. CASE Started
    BY <1>0, <1>2 DEF Started, SessionInv, Tracked, Poll, memory, tables
  <1>3. CASE Finish
    BY <1>0, <1>3 DEF Finish, FinishForgetting, SessionInv, Tracked, Poll, NoPoll, tables
  <1>4. ASSUME NEW p \in Peers, StartSession(p) PROVE SessionInv'
    <2>1. /\ poll.stage = "start" /\ p \in poll.todo /\ online' = online
          /\ poll' = [poll EXCEPT !.todo = @ \ {p}]
      BY <1>4 DEF StartSession
    <2>2. sess[p] = 0 /\ \A s \in sessions : s.open => s.peer # p
      BY <1>0, <2>1 DEF SessionInv, Tracked, IsSession
    <2>3. Tracked' = Tracked \cup {p} /\ poll'.todo \subseteq poll'.now \ online'
      BY <1>0, <2>1 DEF Tracked, SessionInv, Poll
    <2>4. CASE UNCHANGED <<sess, sessions>>
      BY <1>0, <2>1, <2>3, <2>4 DEF SessionInv, Poll
    <2>5. CASE /\ sess' = [sess EXCEPT ![p] = issued + 1]
               /\ sessions' = sessions \cup
                    {[peer |-> p, id |-> issued + 1, open |-> TRUE, bytes |-> 0]}
      <3>1. \A s \in sessions' : s.open => sess'[s.peer] = s.id
        BY <1>0, <2>2, <2>5 DEF SessionInv, IsSession
      <3>2. \A q \in Peers : sess'[q] # 0 => q \in Tracked'
        BY <1>0, <2>3, <2>5 DEF SessionInv
      <3>3. QED BY <2>3, <3>1, <3>2 DEF SessionInv
    <2>6. QED BY <1>4, <1>f, <2>4, <2>5 DEF StartSession
  <1>5. ASSUME NEW p \in Peers, EndSession(p) PROVE SessionInv'
    <2>1. /\ poll.stage = "end" /\ online' = online
          /\ poll' = [poll EXCEPT !.todo = @ \ {p}]
          /\ sess' = [sess EXCEPT ![p] = 0]
          /\ sessions' = Closed(sess[p], flow[p])
      BY <1>5, <1>f DEF EndSession, EndSessionWith
    <2>2. ASSUME NEW s \in sessions', s.open PROVE sess'[s.peer] = s.id
      <3>1. PICK t \in sessions :
              s = IF t.id = sess[p] THEN [t EXCEPT !.open = FALSE, !.bytes = flow[p]] ELSE t
        BY <2>1 DEF Closed
      <3>2. t.id # sess[p] /\ s = t
        BY <1>0, <2>2, <3>1 DEF IsSession
      <3>3. QED BY <1>0, <2>1, <2>2, <3>2 DEF SessionInv, IsSession
    <2>3. \A q \in Peers : sess'[q] # 0 => q \in Tracked'
      BY <1>0, <2>1 DEF SessionInv, Tracked, Poll
    <2>4. QED BY <1>0, <2>1, <2>2, <2>3 DEF SessionInv, Poll
  <1>6. QED BY <1>1, <1>2, <1>3, <1>4, <1>5

LEMMA SessionStep ==
    ASSUME TypeInv, SessionInv, [Next]_vars, faults' = 0, crashes' = 0
    PROVE  SessionInv'
  <1>0. poll \in Poll /\ crashes \in Nat /\ faults \in Nat
    BY DEF TypeInv
  <1>1. ASSUME UNCHANGED <<sess, online, poll>>, sessions' \subseteq sessions
        PROVE  SessionInv'
    BY <1>1 DEF SessionInv, Tracked, TypeInv
  <1>f. ASSUME Fetch PROVE SessionInv'
    <2>1. UNCHANGED <<sess, online, sessions>> /\ poll.stage = "idle"
      BY <1>f DEF Fetch, FetchWith, tables
    <2>2. QED BY <1>f, <2>1, Unmoved, FetchStage
  <1>2. ASSUME Identified \/ LogUnclaimed \/ ChargeUser \/ Logged PROVE SessionInv'
    <2>1. /\ UNCHANGED <<sess, online, sessions>>
          /\ poll.stage \notin {"start", "end"} /\ poll'.stage \notin {"start", "end"}
      BY <1>0, <1>2 DEF Identified, LogUnclaimed,
                        ChargeUser, ToLog, Logged, NoPoll, Poll, tables, memory
    <2>2. QED BY <2>1, Unmoved
  <1>3. ASSUME NEW c \in Conns, Identify(c) \/ LogConn(c) PROVE SessionInv'
    <2>1. /\ UNCHANGED <<sess, online, sessions>>
          /\ poll.stage \notin {"start", "end"} /\ poll'.stage \notin {"start", "end"}
      BY <1>0, <1>3 DEF Identify, LogConn, Poll, tables, memory
    <2>2. QED BY <2>1, Unmoved
  <1>4. ASSUME NEW p \in Peers, ChargeShared(p) \/ Lookup(p) PROVE SessionInv'
    <2>1. /\ UNCHANGED <<sess, online, sessions>>
          /\ poll.stage \notin {"start", "end"} /\ poll'.stage \notin {"start", "end"}
      BY <1>0, <1>4 DEF ChargeShared, Lookup, ToLog, Poll, tables, memory
    <2>2. QED BY <2>1, Unmoved
  <1>5. CASE PollStep
    BY <1>f, <1>2, <1>3, <1>4, <1>5, SessionSteps DEF PollStep
  <1>6. ASSUME NEW c \in Conns, Opens(c) \/ Transfers(c) \/ Closes(c) PROVE SessionInv'
    BY <1>1, <1>6 DEF Opens, Transfers, Closes, tables, memory
  <1>7. ASSUME NEW p \in Peers, TogglePeer(p) \/ DeletePeer(p) PROVE SessionInv'
    BY <1>1, <1>7 DEF TogglePeer, DeletePeer, tables, memory
  <1>8. ASSUME DeleteLogs \/ DeleteSessions \/ DeleteRow \/ DeleteFails \/ UNCHANGED vars
        PROVE  SessionInv'
    BY <1>1, <1>8
       DEF DeleteLogs, DeleteSessions, DeleteRow, DeleteFails, vars, tables, memory
  <1>9. ~Crash
    BY <1>0 DEF Crash
  <1>10. CASE ~PollStep
    BY <1>6, <1>7, <1>8, <1>9, <1>10, StatsAssumption DEF Next
  <1>11. QED BY <1>5, <1>10

(* Failures and deaths are only counted up.                                 *)
LEMMA DisturbanceStays == ASSUME TypeInv, [Next]_vars, Undisturbed' PROVE Undisturbed
  <1>1. faults \in Nat /\ crashes \in Nat
    BY DEF TypeInv
  <1>2. faults' \in {faults, faults + 1} /\ crashes' \in {crashes, crashes + 1}
    BY DEF Next, PollStep, Fetch, FetchWith, Identify, Identified, ChargeShared, LogUnclaimed,
           Lookup, ChargeUser, LogConn, Logged, UsersDone, StartSession,
           Started, EndSession, EndSessionWith, Finish, FinishForgetting, TogglePeer,
           DeletePeer, DeleteLogs, DeleteSessions, DeleteRow, DeleteFails, Crash, Opens,
           Transfers, Closes, Fault, NoFault, history, vars
  <1>3. QED BY <1>1, <1>2 DEF Undisturbed

LEMMA InvStep == ASSUME Inv, [Next]_vars PROVE Inv'
  <1>1. TypeInv' /\ Charging'
    BY TypeStep, ChargingStep DEF Inv
  <1>2. Undisturbed' => SessionInv'
    BY SessionStep, DisturbanceStays DEF Inv, Undisturbed
  <1>3. QED BY <1>1, <1>2 DEF Inv

(* Every open session row is the one the collector holds for its peer, and  *)
(* between polls the peer is online, whatever deletions, toggles and         *)
(* traffic interleave with collect(), as long as no statement fails and the *)
(* process lives.                                                            *)
THEOREM SessionsCorrect == Spec => []OpenSessionsAreHeld
  <1>1. Init => Inv
    <2>1. ASSUME Init PROVE Charging /\ SessionInv
      BY <2>1 DEF Init, NoPoll, Charging, SessionInv
    <2>2. QED BY <2>1, InitType DEF Inv
  <1>2. Inv => OpenSessionsAreHeld
    BY DEF Inv, SessionInv, OpenSessionsAreHeld, Tracked, TypeInv, IsSession, BetweenPolls
  <1>3. QED
    BY <1>1, <1>2, InvStep, PTL DEF Spec

-----------------------------------------------------------------------------
(* With failures and deaths: sessions that are open and held by nobody.     *)
Stray(p) == {s \in sessions : s.peer = p /\ s.open /\ s.id # sess[p]}

(* Each failure and each death adds at most one stray session to a peer.    *)
StrayInv ==
    /\ IsFiniteSet(sessions)
    /\ \A s \in sessions : s.id <= issued
    /\ \A s, t \in sessions : s.id = t.id => s = t
    /\ \A p \in Peers : sess[p] # 0 => p \in Tracked
    /\ poll.stage = "start" => poll.todo \subseteq poll.now \ online
    /\ \A p \in Peers : Cardinality(Stray(p)) <= crashes + faults

LEMMA OneMore ==
    ASSUME NEW S, IsFiniteSet(S), NEW x, NEW T, T \subseteq S \cup {x}
    PROVE  IsFiniteSet(T) /\ Cardinality(T) <= Cardinality(S) + 1
  <1>1. IsFiniteSet(S \cup {x}) /\ Cardinality(S \cup {x}) <= Cardinality(S) + 1
    <2>1. Cardinality(S) \in Nat
      BY FS_CardinalityType
    <2>2. /\ IsFiniteSet(S \cup {x})
          /\ Cardinality(S \cup {x}) = IF x \in S THEN Cardinality(S) ELSE Cardinality(S) + 1
      BY FS_AddElement
    <2>3. QED BY <2>1, <2>2
  <1>2. IsFiniteSet(T) /\ Cardinality(T) <= Cardinality(S \cup {x})
    BY <1>1, FS_Subset
  <1>3. Cardinality(S) \in Nat /\ Cardinality(T) \in Nat /\ Cardinality(S \cup {x}) \in Nat
    BY <1>1, <1>2, FS_CardinalityType
  <1>4. QED BY <1>1, <1>2, <1>3

LEMMA StrayFinite ==
    ASSUME StrayInv, NEW p \in Peers
    PROVE  IsFiniteSet(Stray(p)) /\ Cardinality(Stray(p)) \in Nat
  BY FS_Subset, FS_CardinalityType DEF StrayInv, Stray

(* Nobody has more strays than before.                                      *)
LEMMA NoStray ==
    ASSUME TypeInv, TypeInv', StrayInv, IsFiniteSet(sessions'),
           \A s \in sessions' : s.id <= issued',
           \A s, t \in sessions' : s.id = t.id => s = t,
           \A p \in Peers : sess'[p] # 0 => p \in Tracked',
           poll'.stage = "start" => poll'.todo \subseteq poll'.now \ online',
           crashes <= crashes', faults <= faults',
           \A p \in Peers : Stray(p)' \subseteq Stray(p)
    PROVE  StrayInv'
  <1>1. ASSUME NEW p \in Peers PROVE Cardinality(Stray(p)') <= crashes' + faults'
    <2>1. Cardinality(Stray(p)') <= Cardinality(Stray(p))
      BY <1>1, StrayFinite, FS_Subset
    <2>2. IsFiniteSet(Stray(p)') /\ Cardinality(Stray(p)') \in Nat
      BY <1>1, StrayFinite, FS_Subset, FS_CardinalityType
    <2>3. Cardinality(Stray(p)) <= crashes + faults /\ Cardinality(Stray(p)) \in Nat
      BY StrayFinite DEF StrayInv
    <2>4. QED BY <2>1, <2>2, <2>3 DEF TypeInv
  <1>2. QED BY <1>1 DEF StrayInv

(* What leaves the sessions and the poll's view of who is online alone.     *)
LEMMA StrayUnmoved ==
    ASSUME TypeInv, TypeInv', StrayInv, sessions' \subseteq sessions,
           UNCHANGED <<sess, online, issued>>, crashes <= crashes', faults <= faults',
           \/ poll' = poll
           \/ poll'.stage \notin {"start", "end"} /\ poll.stage \notin {"start", "end"}
    PROVE  StrayInv'
  <1>1. IsFiniteSet(sessions')
    BY FS_Subset DEF StrayInv
  <1>2. \A p \in Peers : sess'[p] # 0 => p \in Tracked'
    BY DEF StrayInv, Tracked
  <1>3. poll'.stage = "start" => poll'.todo \subseteq poll'.now \ online'
    BY DEF StrayInv
  <1>4. \A p \in Peers : Stray(p)' \subseteq Stray(p)
    BY DEF Stray
  <1>5. QED BY <1>1, <1>2, <1>3, <1>4, NoStray DEF StrayInv

(* A stage of a poll that keeps the sessions and tracks the same peers.     *)
LEMMA StrayStages ==
    ASSUME TypeInv, TypeInv', StrayInv, UsersDone \/ Started \/ Finish
    PROVE  StrayInv'
  <1>0. poll \in Poll /\ faults \in Nat /\ crashes \in Nat
    BY DEF TypeInv
  <1>1. UNCHANGED <<sess, sessions, issued, faults, crashes>>
    BY DEF UsersDone, Started, Finish, FinishForgetting, tables, memory, history
  <1>2. /\ \A p \in Peers : sess'[p] # 0 => p \in Tracked'
        /\ poll'.stage = "start" => poll'.todo \subseteq poll'.now \ online'
    <2>1. CASE UsersDone
      BY <1>0, <1>1, <2>1 DEF UsersDone, StrayInv, Tracked, Poll, memory
    <2>2. CASE Started
      BY <1>0, <1>1, <2>2 DEF Started, StrayInv, Tracked, Poll, memory
    <2>3. CASE Finish
      BY <1>0, <1>1, <2>3 DEF Finish, FinishForgetting, StrayInv, Tracked, Poll, NoPoll
    <2>4. QED BY <2>1, <2>2, <2>3
  <1>3. \A p \in Peers : Stray(p)' \subseteq Stray(p)
    BY <1>1 DEF Stray
  <1>4. QED BY <1>0, <1>1, <1>2, <1>3, NoStray DEF StrayInv

(* A session that begins is held: its peer held none.                       *)
LEMMA StrayStart ==
    ASSUME TypeInv, TypeInv', StrayInv, NEW p \in Peers, StartSession(p)
    PROVE  StrayInv'
  <1>0. /\ poll \in Poll /\ sess \in [Peers -> Nat] /\ faults \in Nat /\ crashes \in Nat
        /\ issued \in Nat /\ \A s \in sessions : IsSession(s)
    BY DEF TypeInv
  <1>1. /\ poll.stage = "start" /\ p \in poll.todo /\ online' = online
        /\ poll' = [poll EXCEPT !.todo = @ \ {p}]
    BY DEF StartSession
  <1>2. faults <= faults' /\ crashes <= crashes'
    BY <1>0 DEF StartSession, Fault, NoFault, history
  <1>3. sess[p] = 0
    BY <1>0, <1>1 DEF StrayInv, Tracked
  <1>4. Tracked' = Tracked \cup {p} /\ poll'.todo \subseteq poll'.now \ online'
    BY <1>0, <1>1 DEF Tracked, StrayInv, Poll
  <1>5. CASE UNCHANGED <<issued, sess, sessions>>
    <2>1. \A q \in Peers : Stray(q)' \subseteq Stray(q)
      BY <1>5 DEF Stray
    <2>2. \A q \in Peers : sess'[q] # 0 => q \in Tracked'
      BY <1>4, <1>5 DEF StrayInv
    <2>3. QED BY <1>2, <1>4, <1>5, <2>1, <2>2, NoStray DEF StrayInv
  <1>6. CASE /\ issued' = issued + 1 /\ sess' = [sess EXCEPT ![p] = issued + 1]
             /\ sessions' = sessions \cup
                  {[peer |-> p, id |-> issued + 1, open |-> TRUE, bytes |-> 0]}
    <2> DEFINE new == [peer |-> p, id |-> issued + 1, open |-> TRUE, bytes |-> 0]
    <2>1. /\ new.id = issued + 1 /\ new.peer = p /\ sess'[p] = issued + 1
          /\ \A q \in Peers \ {p} : sess'[q] = sess[q]
      BY <1>0, <1>6
    <2>2. sessions' = sessions \cup {new}
      BY <1>6
    <2> HIDE DEF new
    <2>3. IsFiniteSet(sessions')
      BY <2>2, FS_AddElement DEF StrayInv
    <2>4. \A s \in sessions : s.id <= issued /\ s.id \in Nat \ {0}
      BY <1>0 DEF StrayInv, IsSession
    <2>5. /\ \A s \in sessions' : s.id <= issued'
          /\ \A s, t \in sessions' : s.id = t.id => s = t
      BY <1>0, <1>6, <2>1, <2>2, <2>4 DEF StrayInv
    <2>6. \A q \in Peers : Stray(q)' \subseteq Stray(q)
      BY <1>0, <1>3, <2>1, <2>2, <2>4 DEF Stray
    <2>7. \A q \in Peers : sess'[q] # 0 => q \in Tracked'
      BY <1>4, <2>1 DEF StrayInv
    <2>8. QED BY <1>2, <1>4, <2>3, <2>5, <2>6, <2>7, NoStray
  <1>7. QED BY <1>5, <1>6 DEF StartSession

(* A session whose end fails, or whose holder dies, is one stray more.      *)
LEMMA Astray ==
    ASSUME TypeInv, TypeInv', StrayInv, UNCHANGED <<sessions, issued>>,
           \A p \in Peers : sess'[p] \in {0, sess[p]},
           \A p \in Peers : sess'[p] # 0 => p \in Tracked',
           poll'.stage = "start" => poll'.todo \subseteq poll'.now \ online',
           crashes' + faults' = crashes + faults + 1
    PROVE  StrayInv'
  <1>1. ASSUME NEW p \in Peers PROVE Cardinality(Stray(p)') <= crashes' + faults'
    <2>1. PICK x : Stray(p)' \subseteq Stray(p) \cup {x}
      <3>1. CASE \E s \in sessions : s.id = sess[p]
        <4>1. PICK x \in sessions : x.id = sess[p]
          BY <3>1
        <4>2. \A s \in sessions : s.id = sess[p] => s = x
          BY <4>1 DEF StrayInv
        <4>3. QED BY <4>2 DEF Stray
      <3>2. CASE ~\E s \in sessions : s.id = sess[p]
        BY <3>2 DEF Stray
      <3>3. QED BY <3>1, <3>2
    <2>2. IsFiniteSet(Stray(p)') /\ Cardinality(Stray(p)') <= Cardinality(Stray(p)) + 1
      BY <2>1, StrayFinite, OneMore
    <2>3. Cardinality(Stray(p)') \in Nat
      BY <2>2, FS_CardinalityType
    <2>4. Cardinality(Stray(p)) <= crashes + faults /\ Cardinality(Stray(p)) \in Nat
      BY StrayFinite DEF StrayInv
    <2>5. QED BY <2>2, <2>3, <2>4 DEF TypeInv
  <1>2. QED BY <1>1 DEF StrayInv

LEMMA StrayEnd ==
    ASSUME TypeInv, TypeInv', StrayInv, NEW p \in Peers, EndSession(p)
    PROVE  StrayInv'
  <1>0. /\ poll \in Poll /\ sess \in [Peers -> Nat] /\ faults \in Nat /\ crashes \in Nat
        /\ \A s \in sessions : IsSession(s)
    BY DEF TypeInv
  <1>1. /\ poll.stage = "end" /\ p \in poll.todo /\ UNCHANGED <<online, issued>>
        /\ poll' = [poll EXCEPT !.todo = @ \ {p}] /\ sess' = [sess EXCEPT ![p] = 0]
        /\ \/ sessions' = Closed(sess[p], flow[p]) /\ NoFault
           \/ Fault /\ UNCHANGED sessions
    BY DEF EndSession, EndSessionWith
  <1>2. /\ \A q \in Peers : sess'[q] # 0 => q \in Tracked'
        /\ poll'.stage = "start" => poll'.todo \subseteq poll'.now \ online'
        /\ \A q \in Peers : sess'[q] \in {0, sess[q]}
    BY <1>0, <1>1 DEF StrayInv, Tracked, Poll
  <1>3. CASE Fault /\ UNCHANGED sessions
    <2>1. crashes' + faults' = crashes + faults + 1
      BY <1>0, <1>3 DEF Fault
    <2>2. QED BY <1>1, <1>2, <1>3, <2>1, Astray
  <1>4. CASE sessions' = Closed(sess[p], flow[p]) /\ NoFault
    <2> DEFINE close(s) == IF s.id = sess[p] THEN
                       [s EXCEPT !.open = FALSE, !.bytes = flow[p]] ELSE s
    <2>1. sessions' = {close(s) : s \in sessions}
      BY <1>4 DEF Closed
    <2>2. ASSUME NEW s \in sessions
          PROVE  /\ close(s).id = s.id /\ close(s).peer = s.peer
                 /\ close(s).open => close(s) = s /\ s.id # sess[p]
      BY <1>0 DEF IsSession
    <2> HIDE DEF close
    <2>3. IsFiniteSet(sessions')
      <3> DEFINE f == [s \in sessions |-> close(s)]
      <3>1. f \in Surjection(sessions, sessions')
        BY <2>1 DEF Surjection
      <3> HIDE DEF f
      <3>2. QED BY <3>1, FS_Surjection DEF StrayInv
    <2>4. /\ \A s \in sessions' : s.id <= issued'
          /\ \A s, t \in sessions' : s.id = t.id => s = t
      BY <1>1, <2>1, <2>2 DEF StrayInv
    <2>5. \A q \in Peers : Stray(q)' \subseteq Stray(q)
      BY <1>0, <1>1, <2>1, <2>2 DEF Stray
    <2>6. crashes <= crashes' /\ faults <= faults'
      BY <1>0, <1>4 DEF NoFault, history
    <2>7. QED BY <1>2, <2>3, <2>4, <2>5, <2>6, NoStray
  <1>5. QED BY <1>1, <1>3, <1>4

LEMMA StrayCrash ==
    ASSUME TypeInv, TypeInv', StrayInv, Crash
    PROVE  StrayInv'
  <1>1. /\ \A p \in Peers : sess'[p] = 0
        /\ UNCHANGED <<sessions, issued>> /\ poll'.stage = "idle"
        /\ crashes' + faults' = crashes + faults + 1
    BY DEF Crash, NoPoll, tables, TypeInv
  <1>2. QED BY <1>1, Astray

LEMMA FaultsGrow ==
    ASSUME TypeInv, Fault \/ NoFault
    PROVE  crashes <= crashes' /\ faults <= faults'
  BY DEF TypeInv, Fault, NoFault, history

LEMMA StrayStep == ASSUME Inv, StrayInv, [Next]_vars PROVE StrayInv'
  <1>0. TypeInv /\ TypeInv' /\ poll \in Poll /\ crashes \in Nat /\ faults \in Nat
    BY InvStep DEF Inv, TypeInv
  <1>1. CASE Fetch
    <2>1. UNCHANGED <<sess, online, sessions, issued, faults, crashes>> /\ poll.stage = "idle"
      BY <1>1 DEF Fetch, FetchWith, tables
    <2>2. QED BY <1>0, <1>1, <2>1, StrayUnmoved, FetchStage
  <1>2. CASE Identified \/ LogUnclaimed \/ ChargeUser \/ Logged
    <2>1. /\ UNCHANGED <<sess, online, sessions, issued>>
          /\ poll.stage \notin {"start", "end"} /\ poll'.stage \notin {"start", "end"}
      BY <1>0, <1>2 DEF Identified, LogUnclaimed,
                        ChargeUser, ToLog, Logged, NoPoll, Poll, tables, memory
    <2>2. Fault \/ NoFault
      BY <1>2 DEF Identified, LogUnclaimed, ChargeUser, Logged, NoFault
    <2>3. QED BY <1>0, <2>1, <2>2, StrayUnmoved, FaultsGrow
  <1>3. ASSUME NEW c \in Conns, Identify(c) \/ LogConn(c) PROVE StrayInv'
    <2>1. /\ UNCHANGED <<sess, online, sessions, issued>>
          /\ poll.stage \notin {"start", "end"} /\ poll'.stage \notin {"start", "end"}
      BY <1>0, <1>3 DEF Identify, LogConn, Poll, tables, memory
    <2>2. Fault \/ NoFault
      BY <1>3 DEF Identify, LogConn
    <2>3. QED BY <1>0, <2>1, <2>2, StrayUnmoved, FaultsGrow
  <1>4. ASSUME NEW p \in Peers, ChargeShared(p) \/ Lookup(p) PROVE StrayInv'
    <2>1. /\ UNCHANGED <<sess, online, sessions, issued>>
          /\ poll.stage \notin {"start", "end"} /\ poll'.stage \notin {"start", "end"}
      BY <1>0, <1>4 DEF ChargeShared, Lookup, ToLog, Poll, tables, memory
    <2>2. Fault \/ NoFault
      BY <1>4 DEF ChargeShared, Lookup
    <2>3. QED BY <1>0, <2>1, <2>2, StrayUnmoved, FaultsGrow
  <1>5. CASE PollStep
    BY <1>0, <1>1, <1>2, <1>3, <1>4, <1>5, StrayStages, StrayStart, StrayEnd DEF PollStep
  <1>6. CASE UNCHANGED <<sess, online, issued, poll, faults, crashes>> /\
          sessions' \subseteq sessions
    BY <1>0, <1>6, StrayUnmoved
  <1>7. ASSUME NEW c \in Conns, Opens(c) \/ Transfers(c) \/ Closes(c) PROVE StrayInv'
    BY <1>6, <1>7 DEF Opens, Transfers, Closes, tables, memory, history
  <1>8. ASSUME NEW p \in Peers, TogglePeer(p) \/ DeletePeer(p) PROVE StrayInv'
    BY <1>6, <1>8 DEF TogglePeer, DeletePeer, tables, memory, history
  <1>9. ASSUME DeleteLogs \/ DeleteSessions \/ DeleteRow \/ UNCHANGED vars PROVE StrayInv'
    BY <1>6, <1>9
       DEF DeleteLogs, DeleteSessions, DeleteRow, vars, tables, memory, history
  <1>10. CASE DeleteFails
    <2>1. UNCHANGED <<sess, online, issued, poll, sessions>> /\ Fault
      BY <1>10 DEF DeleteFails, tables, memory
    <2>2. QED BY <1>0, <2>1, StrayUnmoved, FaultsGrow
  <1>11. CASE ~PollStep
    BY <1>0, <1>7, <1>8, <1>9, <1>10, <1>11, StrayCrash, StatsAssumption DEF Next
  <1>12. QED BY <1>5, <1>11

LEMMA StrayInit == Init => StrayInv
  <1>1. ASSUME Init PROVE StrayInv
    <2>1. IsFiniteSet({}) /\ Cardinality({}) = 0
      BY FS_EmptySet
    <2>2. sessions = {} /\ \A p \in Peers : Stray(p) = {}
      BY <1>1 DEF Init, Stray
    <2>3. poll.stage = "idle" /\ crashes + faults = 0 /\ \A p \in Peers : sess[p] = 0
      BY <1>1 DEF Init, NoPoll
    <2>4. QED BY <2>1, <2>2, <2>3 DEF StrayInv
  <1>2. QED BY <1>1

(* However statements fail and the process dies, each failure and each death *)
(* leaves at most one more session of a peer open, for any clients and any   *)
(* number of failures.                                                       *)
THEOREM BoundedCorrect == Spec => []OpenSessionsBounded
  <1>1. Init => Inv /\ StrayInv
    <2>1. ASSUME Init PROVE Charging /\ SessionInv
      BY <2>1 DEF Init, NoPoll, Charging, SessionInv
    <2>2. QED BY <2>1, InitType, StrayInit DEF Inv
  <1>2. Inv /\ StrayInv => OpenSessionsBounded
    <2> SUFFICES ASSUME Inv, StrayInv, NEW p \in Peers
                 PROVE  Cardinality({s \in sessions : s.peer = p /\ s.open}) <= 1 + crashes + faults
      BY DEF OpenSessionsBounded
    <2> DEFINE all == {s \in sessions : s.peer = p /\ s.open}
    <2>1. PICK x : all \subseteq Stray(p) \cup {x}
      <3>1. CASE \E s \in sessions : s.id = sess[p]
        <4>1. PICK x \in sessions : x.id = sess[p]
          BY <3>1
        <4>2. \A s \in sessions : s.id = sess[p] => s = x
          BY <4>1 DEF StrayInv
        <4>3. QED BY <4>2 DEF Stray
      <3>2. CASE ~\E s \in sessions : s.id = sess[p]
        BY <3>2 DEF Stray
      <3>3. QED BY <3>1, <3>2
    <2>2. IsFiniteSet(all) /\ Cardinality(all) <= Cardinality(Stray(p)) + 1
      BY <2>1, StrayFinite, OneMore
    <2>3. Cardinality(all) \in Nat
      BY <2>2, FS_CardinalityType
    <2>4. Cardinality(Stray(p)) <= crashes + faults /\ Cardinality(Stray(p)) \in Nat
      BY StrayFinite DEF StrayInv
    <2>5. QED BY <2>2, <2>3, <2>4 DEF Inv, TypeInv
  <1>3. Inv /\ StrayInv /\ [Next]_vars => Inv' /\ StrayInv'
    BY InvStep, StrayStep
  <1>4. QED
    BY <1>1, <1>2, <1>3, PTL DEF Spec
-----------------------------------------------------------------------------
(* Sums.  A sum over a finite set is a recursive function of its subsets:    *)
(* what it computes is shown by induction over them, that is by taking a      *)
(* smallest counterexample.                                                  *)

(* A family of subsets of a finite set has one that is minimal.             *)
LEMMA MinimalSubset ==
    ASSUME NEW S, IsFiniteSet(S), NEW F, F \subseteq SUBSET S, F # {}
    PROVE  \E T \in F : \A U \in F : U \subseteq T => U = T
  <1> DEFINE R == StrictSubsetOrdering(S)
  <1>1. IsWellFoundedOn(R, SUBSET S)
    BY FS_StrictSubsetOrderingWellFounded, FS_FiniteSubsetsOfFinite
  <1> HIDE DEF R
  <1>2. PICK T \in F : \A U \in F : ~(<<U, T>> \in R)
    BY <1>1, WFMin
  <1>3. ASSUME NEW U \in F, U \subseteq T, U # T PROVE FALSE
    <2>1. <<U, T>> \in R
      BY <1>3 DEF R, StrictSubsetOrdering
    <2>2. QED BY <1>2, <2>1
  <1>4. QED BY <1>3

(* Induction over the subsets of a finite set.                              *)
LEMMA SubsetInduction ==
    ASSUME NEW S, IsFiniteSet(S), NEW G, {} \in G,
           \A T \in SUBSET S : \A y \in T : (\A x \in T : T \ {x} \in G) => T \in G
    PROVE  SUBSET S \subseteq G
  <1> DEFINE F == {T \in SUBSET S : T \notin G}
  <1>1. SUFFICES ASSUME F # {} PROVE FALSE
    OBVIOUS
  <1>2. PICK T \in F : \A U \in F : U \subseteq T => U = T
    <2>1. F \subseteq SUBSET S
      OBVIOUS
    <2> HIDE DEF F
    <2>2. QED BY <1>1, <2>1, MinimalSubset
  <1>3. PICK y \in T : TRUE
    BY <1>2
  <1>4. \A x \in T : T \ {x} \in G
    BY <1>2
  <1>5. QED BY <1>2, <1>3, <1>4

LEMMA NatSetInduction ==
    ASSUME NEW G, 0 \in G, \A n \in G : n + 1 \in G
    PROVE  Nat \subseteq G
  <1> DEFINE R == {pair \in Nat \X Nat : pair[1] < pair[2]}
             F == {n \in Nat : n \notin G}
  <1>1. IsWellFoundedOn(R, Nat)
    BY NatLessThanWellFounded, Zenon DEF OpToRel
  <1>2. SUFFICES ASSUME F # {} PROVE FALSE
    OBVIOUS
  <1>3. PICK n \in F : \A m \in F : ~(<<m, n>> \in R)
    <2>1. F \subseteq Nat
      OBVIOUS
    <2> HIDE DEF F, R
    <2>2. QED BY <1>1, <1>2, <2>1, WFMin
  <1>4. n \in Nat /\ n # 0
    BY <1>3
  <1>5. n - 1 \in Nat /\ <<n - 1, n>> \in R
    BY <1>4
  <1>6. n - 1 \in G
    BY <1>3, <1>5
  <1>7. QED BY <1>3, <1>4, <1>6

(* The element a fold takes first, and the function it computes.            *)
Pick(s) == CHOOSE x \in s : TRUE
Folds(g, f, S) ==
    g = [s \in SUBSET S |-> IF s = {} THEN 0 ELSE f[Pick(s)] + g[s \ {Pick(s)}]]

LEMMA PickIn == ASSUME NEW s, s # {} PROVE Pick(s) \in s
  BY DEF Pick

LEMMA FoldExists ==
    ASSUME NEW S, IsFiniteSet(S), NEW f PROVE \E g : Folds(g, f, S)
  <1> DEFINE Step(g, s) == IF s = {} THEN 0 ELSE f[Pick(s)] + g[s \ {Pick(s)}]
             Upto(n, g) == \A s \in SUBSET S : Cardinality(s) <= n => g[s] = Step(g, s)
             Good == {n \in Nat : \E g : Upto(n, g)}
  <1>c. \A s \in SUBSET S : IsFiniteSet(s) /\ Cardinality(s) \in Nat
    BY FS_Subset, FS_CardinalityType
  <1>1. 0 \in Good
    <2> DEFINE g0 == [s \in SUBSET S |-> 0]
    <2>1. \A s \in SUBSET S : Cardinality(s) <= 0 => s = {}
      BY <1>c, FS_EmptySet
    <2>2. Upto(0, g0)
      BY <2>1
    <2>3. QED BY <2>2
  <1>2. ASSUME NEW n \in Good PROVE n + 1 \in Good
    <2>1. PICK g : Upto(n, g)
      BY <1>2
    <2> DEFINE h == [s \in SUBSET S |-> IF Cardinality(s) <= n THEN g[s] ELSE Step(g, s)]
    <2>2. ASSUME NEW s \in SUBSET S, Cardinality(s) <= n + 1 PROVE h[s] = Step(h, s)
      <3>1. CASE s = {}
        <4>1. Cardinality(s) <= n
          BY <3>1, FS_EmptySet
        <4>2. h[s] = g[s] /\ g[s] = Step(g, s)
          BY <2>1, <4>1
        <4>3. QED BY <3>1, <4>2
      <3>2. CASE s # {}
        <4>1. Pick(s) \in s /\ s \ {Pick(s)} \in SUBSET S
          BY <3>2, PickIn
        <4>2. Cardinality(s \ {Pick(s)}) = Cardinality(s) - 1
          BY <1>c, <4>1, FS_RemoveElement
        <4>3. Cardinality(s \ {Pick(s)}) <= n
          BY <1>c, <2>2, <4>2
        <4>4. h[s \ {Pick(s)}] = g[s \ {Pick(s)}]
          BY <4>1, <4>3
        <4>5. h[s] = Step(g, s)
          BY <2>1
        <4>6. QED BY <3>2, <4>4, <4>5
      <3>3. QED BY <3>1, <3>2
    <2> HIDE DEF h
    <2>3. Upto(n + 1, h)
      BY <2>2
    <2> HIDE DEF Upto
    <2>4. \E k : Upto(n + 1, k)
      BY <2>3
    <2>5. QED BY <2>4
  <1>3. Nat \subseteq Good
    BY <1>1, <1>2, NatSetInduction
  <1>4. PICK g : Upto(Cardinality(S), g)
    BY <1>3, <1>c
  <1> DEFINE h == [s \in SUBSET S |-> g[s]]
  <1>5. \A s \in SUBSET S : h[s] = Step(h, s)
    <2> SUFFICES ASSUME NEW s \in SUBSET S PROVE h[s] = Step(h, s)
      OBVIOUS
    <2>1. Cardinality(s) <= Cardinality(S)
      BY FS_Subset
    <2>2. g[s] = Step(g, s)
      BY <1>4, <2>1
    <2>3. h[s] = g[s] /\ h[s \ {Pick(s)}] = g[s \ {Pick(s)}]
      OBVIOUS
    <2>4. QED BY <2>2, <2>3
  <1>6. h = [s \in SUBSET S |-> Step(h, s)]
    BY <1>5
  <1>7. QED BY <1>6 DEF Folds

Fold(f, S) == CHOOSE g : Folds(g, f, S)

LEMMA SumIsFold == ASSUME NEW S, NEW f PROVE Sum(f, S) = Fold(f, S)[S]
  BY Zenon DEF Sum, SumFunctionOnSet, FoldFunctionOnSet, MapThenFoldSet, Fold, Folds, Pick

(* What the fold computes for a subset does not depend on the whole set.    *)
LEMMA FoldAgrees ==
    ASSUME NEW S, IsFiniteSet(S), NEW T \in SUBSET S, NEW f
    PROVE  Fold(f, S)[T] = Sum(f, T)
  <1>1. IsFiniteSet(T)
    BY FS_Subset
  <1> DEFINE g == Fold(f, S)
             h == Fold(f, T)
             G == {U \in SUBSET T : g[U] = h[U]}
  <1>2. Folds(g, f, S) /\ Folds(h, f, T)
    BY <1>1, FoldExists DEF Fold
  <1>3. Sum(f, T) = h[T]
    BY SumIsFold
  <1> HIDE DEF g, h
  <1>4. {} \in G
    BY <1>2 DEF Folds
  <1>5. ASSUME NEW U \in SUBSET T, NEW y \in U, \A x \in U : U \ {x} \in G PROVE U \in G
    <2>1. Pick(U) \in U
      BY PickIn
    <2>2. g[U \ {Pick(U)}] = h[U \ {Pick(U)}]
      BY <1>5, <2>1
    <2>3. g[U] = f[Pick(U)] + g[U \ {Pick(U)}] /\ h[U] = f[Pick(U)] + h[U \ {Pick(U)}]
      BY <1>2 DEF Folds
    <2>4. QED BY <2>2, <2>3
  <1>6. SUBSET T \subseteq G
    <2> HIDE DEF G
    <2>1. QED BY <1>1, <1>4, <1>5, SubsetInduction
  <1>7. QED BY <1>3, <1>6 DEF g

LEMMA SumEmpty == ASSUME NEW f PROVE Sum(f, {}) = 0
  <1>1. IsFiniteSet({})
    BY FS_EmptySet
  <1>2. Folds(Fold(f, {}), f, {})
    BY <1>1, FoldExists DEF Fold
  <1>3. QED BY <1>2, SumIsFold DEF Folds

LEMMA SumPick ==
    ASSUME NEW S, IsFiniteSet(S), S # {}, NEW f
    PROVE  Sum(f, S) = f[Pick(S)] + Sum(f, S \ {Pick(S)})
  <1>1. Folds(Fold(f, S), f, S)
    BY FoldExists DEF Fold
  <1>2. Fold(f, S)[S] = f[Pick(S)] + Fold(f, S)[S \ {Pick(S)}]
    BY <1>1 DEF Folds
  <1>3. Fold(f, S)[S \ {Pick(S)}] = Sum(f, S \ {Pick(S)})
    BY FoldAgrees
  <1>4. QED BY <1>2, <1>3, SumIsFold

LEMMA SumType ==
    ASSUME NEW S, IsFiniteSet(S), NEW f, \A x \in S : f[x] \in Nat
    PROVE  Sum(f, S) \in Nat
  <1> DEFINE G == {T \in SUBSET S : Sum(f, T) \in Nat}
  <1>1. {} \in G
    BY SumEmpty
  <1>2. ASSUME NEW T \in SUBSET S, NEW y \in T, \A x \in T : T \ {x} \in G PROVE T \in G
    <2>1. IsFiniteSet(T) /\ Pick(T) \in T
      BY FS_Subset, PickIn
    <2>2. Sum(f, T) = f[Pick(T)] + Sum(f, T \ {Pick(T)})
      BY <2>1, SumPick
    <2>3. f[Pick(T)] \in Nat /\ Sum(f, T \ {Pick(T)}) \in Nat
      BY <1>2, <2>1
    <2>4. QED BY <2>2, <2>3
  <1>3. SUBSET S \subseteq G
    <2> HIDE DEF G
    <2>1. QED BY <1>1, <1>2, SubsetInduction
  <1>4. QED BY <1>3

(* Any element may be taken out first.                                      *)
LEMMA SumRemove ==
    ASSUME NEW S, IsFiniteSet(S), NEW f, \A x \in S : f[x] \in Nat, NEW x \in S
    PROVE  Sum(f, S) = f[x] + Sum(f, S \ {x})
  <1> DEFINE G == {T \in SUBSET S : \A y \in T : Sum(f, T) = f[y] + Sum(f, T \ {y})}
  <1>1. {} \in G
    OBVIOUS
  <1>2. ASSUME NEW T \in SUBSET S, NEW z \in T, \A y \in T : T \ {y} \in G PROVE T \in G
    <2> DEFINE p == Pick(T)
    <2>1. IsFiniteSet(T) /\ p \in T
      BY FS_Subset, PickIn
    <2>2. Sum(f, T) = f[p] + Sum(f, T \ {p})
      BY <2>1, SumPick
    <2> HIDE DEF p
    <2>3. ASSUME NEW y \in T, y # p PROVE Sum(f, T) = f[y] + Sum(f, T \ {y})
      <3>1. Sum(f, T \ {p}) = f[y] + Sum(f, (T \ {p}) \ {y})
        BY <1>2, <2>1, <2>3
      <3>2. Sum(f, T \ {y}) = f[p] + Sum(f, (T \ {y}) \ {p})
        BY <1>2, <2>1, <2>3
      <3>3. Sum(f, (T \ {p}) \ {y}) = Sum(f, (T \ {y}) \ {p})
        <4>1. (T \ {p}) \ {y} = (T \ {y}) \ {p}
          OBVIOUS
        <4>2. QED BY <4>1
      <3>4. IsFiniteSet((T \ {y}) \ {p})
        BY FS_Subset
      <3>5. Sum(f, (T \ {y}) \ {p}) \in Nat
        BY <3>4, SumType
      <3>6. f[p] \in Nat /\ f[y] \in Nat
        BY <2>1
      <3>7. QED BY <2>2, <3>1, <3>2, <3>3, <3>5, <3>6
    <2>4. QED BY <2>2, <2>3
  <1>3. SUBSET S \subseteq G
    <2> HIDE DEF G
    <2>1. QED BY <1>1, <1>2, SubsetInduction
  <1>4. QED BY <1>3

(* A function of sets that grows with each element as the sum does is the   *)
(* sum.                                                                     *)
Grows(F, f, S) ==
    F[{}] = 0 /\ \A T \in SUBSET S : \A x \in T : F[T] = f[x] + F[T \ {x}]

LEMMA SumUnique ==
    ASSUME NEW S, IsFiniteSet(S), NEW f, \A x \in S : f[x] \in Nat,
           NEW F, Grows(F, f, S)
    PROVE  \A T \in SUBSET S : Sum(f, T) = F[T]
  <1> USE DEF Grows
  <1> DEFINE G == {T \in SUBSET S : Sum(f, T) = F[T]}
  <1>1. {} \in G
    BY SumEmpty
  <1>2. ASSUME NEW T \in SUBSET S, NEW y \in T, \A x \in T : T \ {x} \in G PROVE T \in G
    <2>1. IsFiniteSet(T)
      BY FS_Subset
    <2>2. Sum(f, T) = f[y] + Sum(f, T \ {y}) /\ F[T] = f[y] + F[T \ {y}]
      BY <2>1, SumRemove
    <2>3. QED BY <1>2, <2>2
  <1>3. SUBSET S \subseteq G
    <2> HIDE DEF G
    <2>1. QED BY <1>1, <1>2, SubsetInduction
  <1>4. QED BY <1>3

LEMMA SumSame ==
    ASSUME NEW S, IsFiniteSet(S), NEW f, NEW g, \A x \in S : f[x] \in Nat /\ g[x] = f[x]
    PROVE  Sum(g, S) = Sum(f, S)
  <1> DEFINE F == [T \in SUBSET S |-> Sum(g, T)]
  <1>1. F[{}] = 0
    BY SumEmpty
  <1>2. ASSUME NEW T \in SUBSET S, NEW x \in T PROVE F[T] = f[x] + F[T \ {x}]
    <2>1. IsFiniteSet(T) /\ \A y \in T : g[y] \in Nat
      BY FS_Subset
    <2>2. Sum(g, T) = g[x] + Sum(g, T \ {x})
      BY <2>1, SumRemove
    <2>3. QED BY <2>2
  <1>3. F[S] = Sum(g, S)
    OBVIOUS
  <1> HIDE DEF F
  <1>4. Sum(f, S) = F[S]
    <2>1. Grows(F, f, S)
      BY <1>1, <1>2 DEF Grows
    <2>2. QED BY <2>1, SumUnique
  <1>5. QED BY <1>3, <1>4

LEMMA SumPlus ==
    ASSUME NEW S, IsFiniteSet(S), NEW f, NEW g, NEW h,
           \A x \in S : f[x] \in Nat /\ g[x] \in Nat /\ h[x] = f[x] + g[x]
    PROVE  Sum(h, S) = Sum(f, S) + Sum(g, S)
  <1> DEFINE F == [T \in SUBSET S |-> Sum(f, T) + Sum(g, T)]
  <1>1. F[{}] = 0
    BY SumEmpty
  <1>2. ASSUME NEW T \in SUBSET S, NEW x \in T PROVE F[T] = h[x] + F[T \ {x}]
    <2>1. IsFiniteSet(T) /\ IsFiniteSet(T \ {x})
      BY FS_Subset
    <2>2. Sum(f, T) = f[x] + Sum(f, T \ {x}) /\ Sum(g, T) = g[x] + Sum(g, T \ {x})
      BY <2>1, SumRemove
    <2>3. Sum(f, T \ {x}) \in Nat /\ Sum(g, T \ {x}) \in Nat
      BY <2>1, SumType
    <2>4. F[T] = Sum(f, T) + Sum(g, T) /\ F[T \ {x}] = Sum(f, T \ {x}) + Sum(g, T \ {x})
      OBVIOUS
    <2>5. f[x] \in Nat /\ g[x] \in Nat /\ h[x] = f[x] + g[x]
      OBVIOUS
    <2> HIDE DEF F
    <2>6. QED BY <2>2, <2>3, <2>4, <2>5
  <1>3. F[S] = Sum(f, S) + Sum(g, S)
    OBVIOUS
  <1> HIDE DEF F
  <1>4. \A x \in S : h[x] \in Nat
    OBVIOUS
  <1>5. \A T \in SUBSET S : Sum(h, T) = F[T]
    <2>1. Grows(F, h, S)
      BY <1>1, <1>2 DEF Grows
    <2>2. QED BY <1>4, <2>1, SumUnique
  <1>6. QED BY <1>3, <1>5

LEMMA SumZero ==
    ASSUME NEW S, IsFiniteSet(S), NEW f, \A x \in S : f[x] = 0
    PROVE  Sum(f, S) = 0
  <1> DEFINE F == [T \in SUBSET S |-> 0]
  <1>1. F[{}] = 0 /\ F[S] = 0 /\ \A T \in SUBSET S : \A x \in T : F[T] = f[x] + F[T \ {x}]
    OBVIOUS
  <1> HIDE DEF F
  <1>2. \A T \in SUBSET S : Sum(f, T) = F[T]
    BY <1>1, SumUnique DEF Grows
  <1>3. QED BY <1>1, <1>2

LEMMA SumSplit ==
    ASSUME NEW S, IsFiniteSet(S), NEW f, \A x \in S : f[x] \in Nat,
           NEW A \in SUBSET S
    PROVE  Sum(f, S) = Sum(f, A) + Sum(f, S \ A)
  <1> DEFINE F == [T \in SUBSET S |-> Sum(f, T \cap A) + Sum(f, T \ A)]
  <1>1. F[{}] = 0
    <2>1. {} \cap A = {} /\ {} \ A = {}
      OBVIOUS
    <2>2. QED BY <2>1, SumEmpty
  <1>2. ASSUME NEW T \in SUBSET S, NEW x \in T PROVE F[T] = f[x] + F[T \ {x}]
    <2>1. /\ IsFiniteSet(T \cap A) /\ IsFiniteSet(T \ A)
          /\ IsFiniteSet((T \ {x}) \cap A) /\ IsFiniteSet((T \ {x}) \ A)
      BY FS_Subset
    <2>2. /\ Sum(f, T \cap A) \in Nat /\ Sum(f, T \ A) \in Nat
          /\ Sum(f, (T \ {x}) \cap A) \in Nat /\ Sum(f, (T \ {x}) \ A) \in Nat
      BY <2>1, SumType
    <2>3. /\ F[T] = Sum(f, T \cap A) + Sum(f, T \ A)
          /\ F[T \ {x}] = Sum(f, (T \ {x}) \cap A) + Sum(f, (T \ {x}) \ A)
      OBVIOUS
    <2> HIDE DEF F
    <2>4. CASE x \in A
      <3>1. Sum(f, T \cap A) = f[x] + Sum(f, (T \cap A) \ {x})
        BY <2>1, <2>4, SumRemove
      <3>2. (T \cap A) \ {x} = (T \ {x}) \cap A /\ (T \ {x}) \ A = T \ A
        BY <2>4
      <3>3. Sum(f, (T \cap A) \ {x}) = Sum(f, (T \ {x}) \cap A) /\ Sum(f, (T \ {x}) \ A)
            = Sum(f, T \ A)
        BY <3>2
      <3>4. f[x] \in Nat
        OBVIOUS
      <3>5. QED BY <2>2, <2>3, <3>1, <3>3, <3>4
    <2>5. CASE x \notin A
      <3>1. Sum(f, T \ A) = f[x] + Sum(f, (T \ A) \ {x})
        BY <2>1, <2>5, SumRemove
      <3>2. (T \ A) \ {x} = (T \ {x}) \ A /\ (T \ {x}) \cap A = T \cap A
        BY <2>5
      <3>3. Sum(f, (T \ A) \ {x}) = Sum(f, (T \ {x}) \ A) /\ Sum(f, (T \ {x}) \cap A)
            = Sum(f, T \cap A)
        BY <3>2
      <3>4. f[x] \in Nat
        OBVIOUS
      <3>5. QED BY <2>2, <2>3, <3>1, <3>3, <3>4
    <2>6. QED BY <2>4, <2>5
  <1>3. F[S] = Sum(f, A) + Sum(f, S \ A)
    <2>1. S \cap A = A
      OBVIOUS
    <2>2. QED BY <2>1
  <1> HIDE DEF F
  <1>4. \A T \in SUBSET S : Sum(f, T) = F[T]
    <2>1. Grows(F, f, S)
      BY <1>1, <1>2 DEF Grows
    <2>2. QED BY <2>1, SumUnique
  <1>5. QED BY <1>3, <1>4

(* The elements outside T add nothing.                                      *)
LEMMA SumSupport ==
    ASSUME NEW S, IsFiniteSet(S), NEW f, \A x \in S : f[x] \in Nat,
           NEW T \in SUBSET S, \A x \in S \ T : f[x] = 0
    PROVE  Sum(f, T) = Sum(f, S)
  <1>1. Sum(f, S \ T) = 0
    <2>1. IsFiniteSet(S \ T)
      BY FS_Subset
    <2>2. QED BY <2>1, SumZero
  <1>2. IsFiniteSet(T)
    BY FS_Subset
  <1>3. Sum(f, T) \in Nat
    BY <1>2, SumType
  <1>4. QED BY <1>1, <1>3, SumSplit

LEMMA SumSubset ==
    ASSUME NEW S, IsFiniteSet(S), NEW f, \A x \in S : f[x] \in Nat, NEW T \in SUBSET S
    PROVE  Sum(f, T) <= Sum(f, S)
  <1>1. IsFiniteSet(T) /\ IsFiniteSet(S \ T)
    BY FS_Subset
  <1>2. Sum(f, T) \in Nat /\ Sum(f, S \ T) \in Nat
    BY <1>1, SumType
  <1>3. QED BY <1>2, SumSplit

LEMMA SumMonotone ==
    ASSUME NEW S, IsFiniteSet(S), NEW f, NEW g,
           \A x \in S : f[x] \in Nat /\ g[x] \in Nat /\ f[x] <= g[x]
    PROVE  Sum(f, S) <= Sum(g, S)
  <1> DEFINE d == [x \in S |-> g[x] - f[x]]
  <1>1. \A x \in S : f[x] \in Nat /\ d[x] \in Nat /\ g[x] = f[x] + d[x]
    OBVIOUS
  <1> HIDE DEF d
  <1>2. Sum(g, S) = Sum(f, S) + Sum(d, S)
    BY <1>1, SumPlus
  <1>3. Sum(f, S) \in Nat /\ Sum(d, S) \in Nat
    BY <1>1, SumType
  <1>4. QED BY <1>2, <1>3

(* One value changes.                                                       *)
LEMMA SumUpdate ==
    ASSUME NEW S, IsFiniteSet(S), NEW f, NEW g, NEW x \in S, g[x] \in Nat,
           \A y \in S : f[y] \in Nat, \A y \in S \ {x} : g[y] = f[y]
    PROVE  Sum(g, S) + f[x] = Sum(f, S) + g[x]
  <1>1. IsFiniteSet(S \ {x})
    BY FS_Subset
  <1>2. Sum(g, S \ {x}) = Sum(f, S \ {x})
    BY <1>1, SumSame
  <1>3. Sum(f, S) = f[x] + Sum(f, S \ {x}) /\ Sum(g, S) = g[x] + Sum(g, S \ {x})
    BY SumRemove
  <1>4. Sum(f, S \ {x}) \in Nat /\ f[x] \in Nat
    BY <1>1, SumType
  <1>5. QED BY <1>2, <1>3, <1>4

-----------------------------------------------------------------------------
(* Amounts of bytes.                                                        *)
AmountInv ==
    /\ total \in [Peers -> Nat] /\ logged \in [Somebody -> Nat]
    /\ flow \in [Peers -> Nat] /\ listed \in [Conns -> Nat]
    /\ sessions \subseteq Session /\ erased \subseteq Peers

(* A deletion is of a peer.                                                 *)
Deleting == del.stage # "none" => del.peer \in Peers

LEMMA DeltaSum ==
    ASSUME TypeInv, NEW S \in SUBSET Conns
    PROVE  /\ IsFiniteSet(S) /\ Sum(poll.delta, S) \in Nat
           /\ \A c \in Conns : poll.delta[c] \in Nat
  <1>1. IsFiniteSet(S)
    BY FiniteAssumption, FS_Subset
  <1>2. \A c \in Conns : poll.delta[c] \in Nat
    BY DEF TypeInv, Poll
  <1>3. QED BY <1>1, <1>2, SumType

LEMMA MineType ==
    ASSUME TypeInv
    PROVE  /\ poll.seen \subseteq Conns /\ poll.mine \subseteq Conns /\ poll.queue \subseteq Conns
           /\ poll.todo \subseteq Peers
  BY DEF TypeInv, Poll

LEMMA TotalType ==
    ASSUME TypeInv, AmountInv, NEW p \in Peers, NEW S \in SUBSET Conns,
           AddToTotal(p, S) \/ UNCHANGED total
    PROVE  total' \in [Peers -> Nat]
  BY DeltaSum DEF AddToTotal, AmountInv

(* What a session row becomes.                                              *)
LEMMA SessionRows ==
    ASSUME TypeInv, AmountInv, NEW p \in Peers, StartSession(p) \/ EndSession(p)
    PROVE  sessions' \subseteq Session
  <1>1. /\ issued \in Nat /\ \A q \in Peers : flow[q] \in Nat
        /\ \A s \in sessions : s \in Session
    BY DEF TypeInv, AmountInv
  <1>2. CASE StartSession(p)
    <2>1. [peer |-> p, id |-> issued + 1, open |-> TRUE, bytes |-> 0] \in Session
      BY <1>1 DEF Session
    <2>2. sessions' \subseteq
            sessions \cup {[peer |-> p, id |-> issued + 1, open |-> TRUE, bytes |-> 0]}
      BY <1>2 DEF StartSession
    <2>3. QED BY <1>1, <2>1, <2>2
  <1>3. CASE EndSession(p)
    <2>1. ASSUME NEW s \in Session PROVE [s EXCEPT !.open = FALSE, !.bytes = flow[p]] \in Session
      BY <1>1 DEF Session
    <2>2. Closed(sess[p], flow[p]) \subseteq Session
      BY <1>1, <2>1 DEF Closed
    <2>3. QED BY <1>1, <1>3, <2>2 DEF EndSession, EndSessionWith
  <1>4. QED BY <1>2, <1>3

LEMMA AmountStep == ASSUME Inv, AmountInv, Deleting, [Next]_vars PROVE AmountInv' /\ Deleting'
  <1> USE DEF tables, memory, history
  <1>0. TypeInv /\ poll \in Poll /\ (poll.stage \in {"charge", "log"} => poll.cur \in Peers)
    BY DEF Inv, TypeInv, Charging
  <1>f. ASSUME Fault \/ NoFault PROVE UNCHANGED <<erased, listed>>
    BY <1>f DEF Fault, NoFault
  <1>1. CASE Fetch
    <2>1. \A c \in Conns : conn[c].bytes \in Nat
      BY <1>0, StatsAssumption DEF TypeInv, ConnState
    <2>2. listed' \in [Conns -> Nat]
      BY <1>1, <2>1 DEF Fetch, FetchWith, AmountInv
    <2>3. QED BY <1>1, <2>2 DEF Fetch, FetchWith, AmountInv, Deleting
  <1>2. CASE Identified \/ UsersDone \/ Started \/ Finish
    BY <1>2 DEF Identified, UsersDone, Started, Finish, FinishForgetting, AmountInv, Deleting
  <1>3. ASSUME NEW p \in Peers, Lookup(p) PROVE AmountInv' /\ Deleting'
    BY <1>3, <1>f DEF Lookup, AmountInv, Deleting
  <1>4. ASSUME NEW c \in Conns, Identify(c) PROVE AmountInv' /\ Deleting'
    BY <1>4, <1>f DEF Identify, AmountInv, Deleting
  <1>5. ASSUME NEW p \in Peers, ChargeShared(p) PROVE AmountInv' /\ Deleting'
    <2>1. total' \in [Peers -> Nat]
      BY <1>0, <1>5, TotalType DEF ChargeShared
    <2>2. QED BY <1>5, <1>f, <2>1 DEF ChargeShared, AmountInv, Deleting
  <1>6. CASE LogUnclaimed
    <2>1. PICK S \in SUBSET Conns : logged' \in
            {logged, [logged EXCEPT ![Nobody] = @ + Sum(poll.delta, S)]}
      BY <1>0, <1>6, MineType DEF LogUnclaimed
    <2>2. logged' \in [Somebody -> Nat]
      BY <1>0, <2>1, DeltaSum DEF AmountInv, Somebody
    <2>3. Fault \/ NoFault
      BY <1>6 DEF LogUnclaimed
    <2>4. QED BY <1>6, <1>f, <2>2, <2>3 DEF LogUnclaimed, AmountInv, Deleting
  <1>7. CASE ChargeUser
    <2>1. poll.cur \in Peers /\ {c \in poll.seen : User[c] = poll.cur} \subseteq Conns
      BY <1>0, <1>7, MineType DEF ChargeUser
    <2>2. AddToTotal(poll.cur, {c \in poll.seen : User[c] = poll.cur}) \/ UNCHANGED total
      BY <1>7 DEF ChargeUser
    <2>3. total' \in [Peers -> Nat]
      BY <1>0, <2>1, <2>2, TotalType
    <2>4. Fault \/ NoFault
      BY <1>7 DEF ChargeUser
    <2>5. QED BY <1>7, <1>f, <2>3, <2>4 DEF ChargeUser, AmountInv, Deleting
  <1>8. ASSUME NEW c \in Conns, LogConn(c) PROVE AmountInv' /\ Deleting'
    <2>1. logged' \in {logged, [logged EXCEPT ![poll.cur] = @ + poll.delta[c]]}
      BY <1>8 DEF LogConn
    <2>2. poll.delta[c] \in Nat /\ poll.cur \in Somebody
      BY <1>0 DEF Poll
    <2>3. logged' \in [Somebody -> Nat]
      BY <2>1, <2>2 DEF AmountInv
    <2>4. Fault \/ NoFault
      BY <1>8 DEF LogConn
    <2>5. QED BY <1>8, <1>f, <2>3, <2>4 DEF LogConn, AmountInv, Deleting
  <1>9. CASE Logged
    <2>1. Sum(poll.delta, poll.mine) \in Nat
      BY <1>0, MineType, DeltaSum
    <2>2. flow' \in [Peers -> Nat]
      BY <1>0, <1>9, <2>1 DEF Logged, AmountInv
    <2>3. QED BY <1>9, <2>2 DEF Logged, AmountInv, Deleting
  <1>10. ASSUME NEW p \in Peers, StartSession(p) \/ EndSession(p) PROVE AmountInv' /\ Deleting'
    <2>1. sessions' \subseteq Session
      BY <1>0, <1>10, SessionRows
    <2>2. flow' \in [Peers -> Nat]
      BY <1>10 DEF StartSession, EndSession, EndSessionWith, AmountInv
    <2>3. Fault \/ NoFault
      BY <1>10 DEF StartSession, EndSession, EndSessionWith
    <2>4. QED
      BY <1>10, <1>f, <2>1, <2>2, <2>3
         DEF StartSession, EndSession, EndSessionWith, AmountInv, Deleting
  <1>11. ASSUME NEW c \in Conns, Opens(c) \/ Transfers(c) \/ Closes(c) PROVE AmountInv' /\ Deleting'
    BY <1>11 DEF Opens, Transfers, Closes, AmountInv, Deleting
  <1>12. ASSUME NEW p \in Peers, TogglePeer(p) \/ DeletePeer(p) PROVE AmountInv' /\ Deleting'
    BY <1>12 DEF TogglePeer, DeletePeer, AmountInv, Deleting
  <1>13. CASE DeleteLogs
    BY <1>0, <1>13 DEF DeleteLogs, AmountInv, Deleting, TypeInv, Deletion
  <1>14. CASE DeleteSessions
    BY <1>0, <1>14 DEF DeleteSessions, AmountInv, Deleting, TypeInv, Deletion
  <1>15. CASE DeleteRow \/ UNCHANGED vars
    BY <1>15 DEF DeleteRow, vars, AmountInv, Deleting, NoDeletion
  <1>16. CASE DeleteFails
    BY <1>16, <1>f DEF DeleteFails, AmountInv, Deleting, NoDeletion
  <1>17. CASE Crash
    BY <1>17 DEF Crash, AmountInv, Deleting, NoDeletion
  <1>18. CASE PollStep
    BY <1>1, <1>2, <1>3, <1>4, <1>5, <1>6, <1>7, <1>8, <1>9, <1>10, <1>18 DEF PollStep
  <1>19. CASE ~PollStep
    BY <1>11, <1>12, <1>13, <1>14, <1>15, <1>16, <1>17, <1>19, StatsAssumption DEF Next
  <1>20. QED BY <1>18, <1>19

(* The rows, the counters and the logs keep their types: no amount leaves   *)
(* the natural numbers, for any clients, connections and bounds.            *)
THEOREM TypeCorrect == Spec => []TypeOK
  <1>1. Init => Inv /\ AmountInv /\ Deleting
    <2>1. ASSUME Init PROVE Charging /\ SessionInv /\ AmountInv /\ Deleting
      BY <2>1 DEF Init, NoPoll, NoDeletion, Charging, SessionInv, AmountInv, Deleting
    <2>2. QED BY <2>1, InitType DEF Inv
  <1>2. Inv /\ AmountInv /\ Deleting /\ [Next]_vars => Inv' /\ AmountInv' /\ Deleting'
    BY InvStep, AmountStep
  <1>3. Inv /\ AmountInv => TypeOK
    BY DEF Inv, TypeInv, AmountInv, TypeOK
  <1>4. QED
    BY <1>1, <1>2, <1>3, PTL DEF Spec

-----------------------------------------------------------------------------
(* Attribution.  An address belongs to a peer that was seen there, so does a *)
(* connection without a user that is claimed.                                *)
Uses(p, s) == \E d \in Conns : User[d] = p /\ Source[d] = s

PollInv ==
    /\ \A s \in Sources : owner[s] # Nobody => Uses(owner[s], s)
    /\ \A c \in Conns : poll.claim[c] # Nobody =>
           User[c] = Nobody /\ c \in Vless /\ Uses(poll.claim[c], Source[c])
    /\ \A c \in Conns \ poll.seen : poll.delta[c] = 0
    /\ poll.stage = "log" => poll.queue \subseteq poll.mine
    /\ poll.stage = "charge" => poll.cur \notin poll.todo
    /\ poll.stage = "end" => poll.todo \cap poll.now = {}

(* What a fetch computes.                                                   *)
Change == [c \in Conns |-> IF c \in Open \cap Counted /\ conn[c].bytes > base[c]
                           THEN conn[c].bytes - base[c] ELSE 0]
Owners == [c \in Conns |-> IF User[c] = Nobody /\ Change[c] # 0 THEN owner[Source[c]] ELSE Nobody]

LEMMA FetchPoll ==
    ASSUME Fetch
    PROVE  /\ poll.stage = "idle" /\ poll'.stage = "match" /\ poll'.seen = Open
           /\ poll'.delta = Change /\ poll'.claim = Owners
  <1> DEFINE delta == [c \in Conns |-> IF c \in Open \cap Counted THEN Grown[c] ELSE 0]
             claim == [c \in Conns |-> IF User[c] = Nobody /\ delta[c] # 0
                                       THEN owner[Source[c]] ELSE Nobody]
             queue == {c \in Conns : claim[c] # Nobody}
  <1>1. /\ poll.stage = "idle"
        /\ poll' = [NoPoll EXCEPT !.stage = "match", !.seen = Open, !.delta = delta,
                                  !.claim = claim, !.queue = queue]
    BY DEF Fetch, FetchWith
  <1>2. delta = Change
    BY DEF Change, Grown
  <1> HIDE DEF delta, queue
  <1>3. claim = Owners
    BY <1>2 DEF Owners
  <1> HIDE DEF claim
  <1>4. QED BY <1>1, <1>2, <1>3 DEF NoPoll

LEMMA PollInvStep == ASSUME TypeInv, Charging, PollInv, [Next]_vars PROVE PollInv'
  <1> USE DEF PollInv
  <1>0. poll \in Poll /\ Source \in [Conns -> Sources]
    BY StatsAssumption DEF TypeInv
  <1>1. CASE UNCHANGED <<poll, owner>>
    BY <1>1
  <1>2. CASE Fetch
    <2>1. /\ UNCHANGED owner /\ poll'.stage = "match" /\ poll'.seen = Open
          /\ poll'.delta = Change /\ poll'.claim = Owners
      BY <1>2, FetchPoll DEF Fetch, FetchWith
    <2>2. \A c \in Conns \ Open : Change[c] = 0
      BY DEF Change
    <2>3. \A c \in Conns : Owners[c] # Nobody =>
                User[c] = Nobody /\ c \in Vless /\ Owners[c] = owner[Source[c]]
      BY DEF Owners, Change, Counted
    <2>4. QED BY <1>0, <2>1, <2>2, <2>3
  <1>3. CASE Identified \/ UsersDone \/ Started \/ Logged \/ LogUnclaimed
    <2>1. CASE Identified
      BY <1>0, <2>1 DEF Identified, Poll, memory
    <2>2. CASE UsersDone \/ Started
      BY <1>0, <2>2 DEF UsersDone, Started, Poll, memory
    <2>3. CASE Logged
      BY <1>0, <2>3 DEF Logged, Poll
    <2>4. CASE LogUnclaimed
      BY <1>0, <2>4 DEF LogUnclaimed, Poll, memory
    <2>5. QED BY <1>3, <2>1, <2>2, <2>3, <2>4
  <1>4. ASSUME NEW c \in Conns, Identify(c) PROVE PollInv'
    <2>1. CASE poll' = [poll EXCEPT !.queue = @ \ {c}] /\ UNCHANGED owner
      BY <1>0, <1>4, <2>1 DEF Identify, Poll
    <2>2. CASE /\ poll' = [poll EXCEPT !.queue = @ \ {c}, !.claim[c] = Nobody]
               /\ owner' = [owner EXCEPT ![Source[c]] = Nobody]
      <3>1. \A d \in Conns : poll'.claim[d] \in {Nobody, poll.claim[d]}
        BY <1>0, <2>2 DEF Poll
      <3>2. \A s \in Sources : owner'[s] \in {Nobody, owner[s]}
        BY <2>2 DEF TypeInv
      <3>3. poll'.stage = "match" /\ poll'.delta = poll.delta /\ poll'.seen = poll.seen
        BY <1>0, <1>4, <2>2 DEF Identify, Poll
      <3>4. QED BY <3>1, <3>2, <3>3
    <2>3. QED BY <1>4, <2>1, <2>2 DEF Identify
  <1>5. ASSUME NEW p \in Peers, ChargeShared(p) PROVE PollInv'
    BY <1>0, <1>5 DEF ChargeShared, ToLog, Poll, memory
  <1>6. ASSUME NEW p \in Peers, Lookup(p) PROVE PollInv'
    <2>1. UNCHANGED owner
      BY <1>6 DEF Lookup, memory
    <2>2. CASE poll' = [poll EXCEPT !.stage = "charge", !.cur = p, !.todo = @ \ {p},
                                    !.now = @ \cup {p}]
      BY <1>0, <2>1, <2>2 DEF Poll
    <2>3. CASE poll' = [poll EXCEPT !.todo = @ \ {p}] /\ poll.stage = "users"
      BY <1>0, <2>1, <2>3 DEF Poll
    <2>4. QED BY <1>6, <2>2, <2>3 DEF Lookup
  <1>7. CASE ChargeUser
    <2>1. CASE poll' = [poll EXCEPT !.stage = "users"] /\ UNCHANGED owner
      BY <1>0, <2>1 DEF Poll
    <2> DEFINE mine == {c \in poll.seen : User[c] = poll.cur}
               used == {Source[c] : c \in {d \in mine : poll.delta[d] > 0}}
    <2>2. CASE /\ owner' = [s \in Sources |-> IF s \in used THEN poll.cur ELSE owner[s]]
               /\ poll' = ToLog(poll.cur, mine, "users", poll.todo)
      <3>1. \A s \in used : Uses(poll.cur, s)
        BY <1>0 DEF Uses, Poll
      <3> HIDE DEF used, mine
      <3>2. /\ poll'.stage = "log" /\ poll'.claim = poll.claim /\ poll'.seen = poll.seen
            /\ poll'.delta = poll.delta /\ poll'.queue \subseteq poll'.mine
        BY <1>0, <2>2 DEF ToLog, Poll
      <3>3. QED BY <2>2, <3>1, <3>2
    <2>3. QED BY <1>7, <2>1, <2>2 DEF ChargeUser
  <1>8. ASSUME NEW c \in Conns, LogConn(c) PROVE PollInv'
    BY <1>0, <1>8 DEF LogConn, Poll, memory
  <1>9. ASSUME NEW p \in Peers, StartSession(p) \/ EndSession(p) PROVE PollInv'
    BY <1>0, <1>9 DEF StartSession, EndSession, EndSessionWith, Poll
  <1>10. CASE Finish \/ Crash
    BY <1>10 DEF Finish, FinishForgetting, Crash, NoPoll
  <1>11. ASSUME NEW p \in Peers, TogglePeer(p) \/ DeletePeer(p) PROVE UNCHANGED <<poll, owner>>
    BY <1>11 DEF TogglePeer, DeletePeer, memory
  <1>12. ASSUME NEW c \in Conns, Opens(c) \/ Transfers(c) \/ Closes(c)
         PROVE  UNCHANGED <<poll, owner>>
    BY <1>12 DEF Opens, Transfers, Closes, memory
  <1>13. ASSUME DeleteLogs \/ DeleteSessions \/ DeleteRow \/ DeleteFails \/ UNCHANGED vars
         PROVE  UNCHANGED <<poll, owner>>
    BY <1>13 DEF DeleteLogs, DeleteSessions, DeleteRow, DeleteFails, vars, memory
  <1>14. CASE PollStep
    BY <1>2, <1>3, <1>4, <1>5, <1>6, <1>7, <1>8, <1>9, <1>10, <1>14 DEF PollStep
  <1>15. CASE ~PollStep
    BY <1>1, <1>10, <1>11, <1>12, <1>13, <1>15, StatsAssumption DEF Next
  <1>16. QED BY <1>14, <1>15

(* The baselines.  A connection that is not listed and not closed is new to *)
(* the poll; while the process lives, what was listed is the baseline.      *)
BaseInv ==
    \A c \in Conns :
        /\ base[c] <= conn[c].bytes
        /\ conn[c].stage = "new" => base[c] = 0 /\ listed[c] = 0
        /\ conn[c].stage # "closed" /\ c \notin poll.seen /\ poll.stage # "idle" => base[c] = 0
        /\ conn[c].stage # "closed" /\ crashes = 0 => listed[c] = base[c]

(* Within a poll the connections it has seen and what it listed are fixed.  *)
LEMMA WithinPoll ==
    ASSUME TypeInv, PollStep, ~Fetch, ~Finish
    PROVE  /\ UNCHANGED <<conn, base, listed, erased, crashes>> /\ poll.stage # "idle"
           /\ poll'.seen = poll.seen /\ poll'.delta = poll.delta
  <1>0. poll \in Poll
    BY DEF TypeInv
  <1>1. ASSUME Fault \/ NoFault PROVE UNCHANGED <<erased, listed, crashes>>
    BY <1>1 DEF Fault, NoFault, history
  <1>2. CASE Identified \/ UsersDone \/ Started \/ Logged
    BY <1>0, <1>2 DEF Identified, UsersDone, Started, Logged, Poll, memory, history
  <1>3. CASE LogUnclaimed
    BY <1>0, <1>1, <1>3 DEF LogUnclaimed, Poll, memory
  <1>4. CASE ChargeUser
    BY <1>0, <1>1, <1>4 DEF ChargeUser, ToLog, Poll
  <1>5. ASSUME NEW c \in Conns, Identify(c) \/ LogConn(c)
        PROVE  /\ UNCHANGED <<conn, base, listed, erased, crashes>> /\ poll.stage # "idle"
               /\ poll'.seen = poll.seen /\ poll'.delta = poll.delta
    BY <1>0, <1>1, <1>5 DEF Identify, LogConn, Poll, memory
  <1>6. ASSUME NEW p \in Peers, ChargeShared(p) \/ Lookup(p)
        PROVE  /\ UNCHANGED <<conn, base, listed, erased, crashes>> /\ poll.stage # "idle"
               /\ poll'.seen = poll.seen /\ poll'.delta = poll.delta
    BY <1>0, <1>1, <1>6 DEF ChargeShared, Lookup, ToLog, Poll, memory
  <1>7. ASSUME NEW p \in Peers, StartSession(p) \/ EndSession(p)
        PROVE  /\ UNCHANGED <<conn, base, listed, erased, crashes>> /\ poll.stage # "idle"
               /\ poll'.seen = poll.seen /\ poll'.delta = poll.delta
    BY <1>0, <1>1, <1>7 DEF StartSession, EndSession, EndSessionWith, Poll
  <1>8. QED BY <1>2, <1>3, <1>4, <1>5, <1>6, <1>7 DEF PollStep

(* What the administrator and a death leave alone.                          *)
Administration ==
    \/ \E p \in Peers : TogglePeer(p) \/ DeletePeer(p)
    \/ DeleteLogs \/ DeleteSessions \/ DeleteRow \/ DeleteFails \/ UNCHANGED vars

LEMMA Administrative ==
    ASSUME Administration
    PROVE  UNCHANGED <<conn, total, issued, memory, poll, listed, crashes>>
  BY DEF Administration, TogglePeer, DeletePeer, DeleteLogs, DeleteSessions, DeleteRow,
         DeleteFails, Fault, vars, tables, memory, history

Traffic == \E c \in Conns : Opens(c) \/ Transfers(c) \/ Closes(c)

LEMMA Steps ==
    ASSUME [Next]_vars
    PROVE  Fetch \/ Finish \/ (PollStep /\ ~Fetch /\ ~Finish) \/ Traffic \/ Administration \/ Crash
  BY StatsAssumption DEF Next, Traffic, Administration

LEMMA BaseStep == ASSUME TypeInv, BaseInv, [Next]_vars PROVE BaseInv'
  <1> USE DEF BaseInv
  <1>0. /\ poll \in Poll /\ crashes \in Nat
        /\ \A c \in Conns : conn[c] \in ConnState /\ conn[c].bytes \in Nat /\ base[c] \in Nat
    BY StatsAssumption DEF TypeInv, ConnState
  <1>1. CASE Fetch
    <2>1. /\ UNCHANGED <<conn, crashes>> /\ poll'.seen = Open
          /\ base'   = [c \in Conns |-> IF c \in Open THEN conn[c].bytes ELSE base[c]]
          /\ listed' = [c \in Conns |-> IF c \in Open THEN conn[c].bytes ELSE listed[c]]
      BY <1>1, FetchPoll DEF Fetch, FetchWith
    <2>2. \A c \in Conns \ Open : conn[c].stage \in {"new", "closed"}
      BY <1>0 DEF Open, ConnState
    <2>3. \A c \in Open : conn[c].stage = "open" /\ c \in Conns
      BY DEF Open
    <2>4. QED BY <1>0, <2>1, <2>2, <2>3
  <1>2. CASE Finish
    <2>1. /\ UNCHANGED <<conn, crashes, listed>> /\ poll.stage = "end" /\ poll'.stage = "idle"
          /\ base' = [c \in Conns |-> IF c \in Conns \ poll.seen THEN 0 ELSE base[c]]
      BY <1>2 DEF Finish, FinishForgetting, NoPoll, history
    <2>2. QED BY <1>0, <2>1
  <1>3. CASE PollStep /\ ~Fetch /\ ~Finish
    BY <1>3, WithinPoll
  <1>4. CASE Traffic
    <2>1. PICK d \in Conns : Opens(d) \/ Transfers(d) \/ Closes(d)
      BY <1>4 DEF Traffic
    <2>2. UNCHANGED <<base, listed, poll, crashes>>
      BY <2>1 DEF Opens, Transfers, Closes, memory, history
    <2>3. \A c \in Conns : /\ conn'[c].bytes >= conn[c].bytes
                           /\ conn'[c].stage = "new" => conn[c].stage = "new"
                           /\ conn'[c].stage # "closed" => conn[c].stage # "closed"
                           /\ conn'[c].bytes \in Nat
      BY <1>0, <2>1 DEF Opens, Transfers, Closes, TypeInv, ConnState
    <2>4. QED BY <1>0, <2>2, <2>3
  <1>5. CASE Administration
    BY <1>5, Administrative DEF memory
  <1>6. CASE Crash
    <2>1. /\ UNCHANGED <<conn, listed>> /\ crashes' = crashes + 1
          /\ \A c \in Conns : base'[c] = 0
      BY <1>6 DEF Crash
    <2>2. QED BY <1>0, <2>1
  <1>7. QED BY <1>1, <1>2, <1>3, <1>4, <1>5, <1>6, Steps

-----------------------------------------------------------------------------
(* The connections of a poll whose bytes were neither charged nor logged yet. *)
Sharing == poll.stage = "shared" \/ (poll.stage = "log" /\ poll.next = "shared")
Using   == poll.stage \in {"users", "charge"} \/ (poll.stage = "log" /\ poll.next = "users")
Serving == IF poll.stage = "charge" THEN poll.todo \cup {poll.cur} ELSE poll.todo

Unpaid ==
    {c \in Conns : \/ poll.stage = "match"
                   \/ Sharing /\ poll.claim[c] \in poll.todo \cup {Nobody}
                   \/ Using /\ User[c] \in Serving}

(* A step pays for S: what else it drops carries no bytes.                  *)
Pays(S) ==
    /\ poll'.delta = poll.delta /\ Unpaid' \subseteq Unpaid
    /\ S \subseteq Unpaid /\ S \cap Unpaid' = {}
    /\ \A c \in (Unpaid \ Unpaid') \ S : poll.delta[c] = 0

LEMMA PaysSum ==
    ASSUME TypeInv, NEW S, Pays(S)
    PROVE  Sum(poll.delta, Unpaid) = Sum(poll.delta, S) + Sum(poll'.delta, Unpaid')
  <1> DEFINE before == Unpaid
             after  == Unpaid'
             delta  == poll.delta
  <1>1. /\ before \in SUBSET Conns /\ after \subseteq before /\ S \subseteq before
        /\ S \cap after = {} /\ \A c \in (before \ after) \ S : delta[c] = 0
        /\ poll'.delta = delta
    BY DEF Pays, Unpaid
  <1>2. IsFiniteSet(before) /\ IsFiniteSet(before \ S) /\ \A c \in before : delta[c] \in Nat
    BY <1>1, DeltaSum
  <1> HIDE DEF before, after, delta
  <1>3. Sum(delta, before) = Sum(delta, S) + Sum(delta, before \ S)
    BY <1>1, <1>2, SumSplit
  <1>4. after \in SUBSET (before \ S) /\ \A c \in (before \ S) \ after : delta[c] = 0
    BY <1>1
  <1>5. Sum(delta, after) = Sum(delta, before \ S)
    BY <1>2, <1>4, SumSupport
  <1>6. QED BY <1>1, <1>3, <1>5 DEF before, after, delta

LEMMA NothingUnpaid ==
    ASSUME poll.stage \in {"idle", "start", "end"} \/ (poll.stage = "users" /\ poll.todo = {})
    PROVE  Unpaid = {}
  BY DEF Unpaid, Sharing, Using, Serving

LEMMA MatchPays ==
    ASSUME TypeInv, Identified \/ \E c \in Conns : Identify(c)
    PROVE  Unpaid = Conns /\ Unpaid' = Conns /\ poll'.delta = poll.delta
  <1>0. poll \in Poll
    BY DEF TypeInv
  <1>1. CASE Identified
    <2>1. /\ poll.stage = "match" /\ poll'.stage = "shared" /\ poll'.delta = poll.delta
          /\ poll'.claim = poll.claim /\ \A c \in Conns : poll.claim[c] \in poll'.todo \cup {Nobody}
      BY <1>0, <1>1 DEF Identified, Poll
    <2>2. QED BY <2>1 DEF Unpaid, Sharing
  <1>2. ASSUME NEW c \in Conns, Identify(c)
        PROVE  Unpaid = Conns /\ Unpaid' = Conns /\ poll'.delta = poll.delta
    <2>1. poll.stage = "match" /\ poll'.stage = "match" /\ poll'.delta = poll.delta
      BY <1>0, <1>2 DEF Identify, Poll
    <2>2. QED BY <2>1 DEF Unpaid
  <1>3. QED BY <1>1, <1>2

LEMMA SharedPays ==
    ASSUME TypeInv, NEW p \in Peers, ChargeShared(p)
    PROVE  Pays({c \in Conns : poll.claim[c] = p})
  <1>1. /\ poll \in Poll /\ Nobody \notin Peers
        /\ poll.stage = "shared" /\ p \in poll.todo
        /\ poll' = ToLog(p, {c \in Conns : poll.claim[c] = p}, "shared", poll.todo \ {p})
    BY StatsAssumption DEF TypeInv, ChargeShared
  <1>2. /\ poll'.stage = "log" /\ poll'.next = "shared" /\ poll'.todo = poll.todo \ {p}
        /\ poll'.claim = poll.claim /\ poll'.delta = poll.delta
    BY <1>1 DEF ToLog, Poll
  <1>3. Unpaid = {c \in Conns : poll.claim[c] \in poll.todo \cup {Nobody}}
    BY <1>1 DEF Unpaid, Sharing, Using
  <1>4. Unpaid' = {c \in Conns : poll.claim[c] \in (poll.todo \ {p}) \cup {Nobody}}
    BY <1>2 DEF Unpaid, Sharing, Using
  <1>5. QED BY <1>1, <1>2, <1>3, <1>4 DEF Pays

LEMMA UnclaimedPays ==
    ASSUME TypeInv, PollInv, LogUnclaimed
    PROVE  Pays({c \in poll.seen : User[c] = Nobody /\ poll.claim[c] = Nobody})
  <1>1. /\ poll \in Poll /\ Nobody \notin Peers /\ poll.stage = "shared" /\ poll.todo = {}
        /\ poll' = [poll EXCEPT !.stage = "users", !.todo = {User[c] : c \in poll.seen} \ {Nobody}]
    BY StatsAssumption DEF TypeInv, LogUnclaimed
  <1>2. /\ poll'.stage = "users" /\ poll'.todo = {User[c] : c \in poll.seen} \ {Nobody}
        /\ poll'.delta = poll.delta
    BY <1>1 DEF Poll
  <1>3. Unpaid = {c \in Conns : poll.claim[c] = Nobody}
    BY <1>1 DEF Unpaid, Sharing, Using
  <1>4. Unpaid' = {c \in Conns : User[c] \in {User[d] : d \in poll.seen} \ {Nobody}}
    BY <1>2 DEF Unpaid, Sharing, Using, Serving
  <1>5. poll.seen \subseteq Conns
    BY <1>1 DEF Poll
  <1>6. QED BY <1>2, <1>3, <1>4, <1>5 DEF Pays, PollInv

LEMMA UserPays ==
    ASSUME TypeInv, PollInv, ChargeUser
    PROVE  Pays({c \in poll.seen : User[c] = poll.cur})
  <1>1. /\ poll \in Poll /\ poll.stage = "charge" /\ poll.cur \notin poll.todo
        /\ \/ poll' = ToLog(poll.cur, {c \in poll.seen : User[c] = poll.cur}, "users", poll.todo)
           \/ poll' = [poll EXCEPT !.stage = "users"]
    BY DEF TypeInv, PollInv, ChargeUser
  <1>2. /\ poll'.todo = poll.todo /\ poll'.delta = poll.delta
        /\ poll'.stage = "users" \/ (poll'.stage = "log" /\ poll'.next = "users")
    BY <1>1 DEF ToLog, Poll
  <1>3. Unpaid = {c \in Conns : User[c] \in poll.todo \cup {poll.cur}}
    BY <1>1 DEF Unpaid, Sharing, Using, Serving
  <1>4. Unpaid' = {c \in Conns : User[c] \in poll.todo}
    BY <1>2 DEF Unpaid, Sharing, Using, Serving
  <1>5. poll.seen \subseteq Conns
    BY <1>1 DEF Poll
  <1>6. QED BY <1>1, <1>2, <1>3, <1>4, <1>5 DEF Pays, PollInv

(* Looking up a user costs nothing; a user that is not found is dropped.    *)
LEMMA LookupPays ==
    ASSUME TypeInv, NEW p \in Peers, Lookup(p)
    PROVE  /\ poll'.delta = poll.delta /\ Unpaid' \subseteq Unpaid
           /\ row[p] # "gone" /\ NoFault => Unpaid' = Unpaid
  <1>1. /\ poll \in Poll /\ poll.stage = "users" /\ p \in poll.todo
    BY DEF TypeInv, Lookup
  <1>2. Unpaid = {c \in Conns : User[c] \in poll.todo}
    BY <1>1 DEF Unpaid, Sharing, Using, Serving
  <1>3. CASE /\ row[p] # "gone" /\ NoFault
             /\ poll' = [poll EXCEPT !.stage = "charge", !.cur = p, !.todo = @ \ {p},
                                     !.now = @ \cup {p}]
    <2>1. /\ poll'.stage = "charge" /\ poll'.cur = p /\ poll'.todo = poll.todo \ {p}
          /\ poll'.delta = poll.delta
      BY <1>1, <1>3 DEF Poll
    <2>2. Unpaid' = {c \in Conns : User[c] \in (poll.todo \ {p}) \cup {p}}
      BY <2>1 DEF Unpaid, Sharing, Using, Serving
    <2>3. QED BY <1>1, <1>2, <2>1, <2>2
  <1>4. CASE /\ (row[p] = "gone" /\ NoFault) \/ Fault
             /\ poll' = [poll EXCEPT !.todo = @ \ {p}]
    <2>1. poll'.stage = "users" /\ poll'.todo = poll.todo \ {p} /\ poll'.delta = poll.delta
      BY <1>1, <1>4 DEF Poll
    <2>2. Unpaid' = {c \in Conns : User[c] \in poll.todo \ {p}}
      BY <2>1 DEF Unpaid, Sharing, Using, Serving
    <2>3. ~(row[p] # "gone" /\ NoFault)
      BY <1>4 DEF Fault, NoFault, history, TypeInv
    <2>4. QED BY <1>2, <2>1, <2>2, <2>3
  <1>5. QED BY <1>3, <1>4 DEF Lookup

LEMMA LogPays ==
    ASSUME TypeInv, Logged \/ \E c \in Conns : LogConn(c)
    PROVE  poll'.delta = poll.delta /\ Unpaid' = Unpaid
  <1>0. poll \in Poll
    BY DEF TypeInv
  <1>1. /\ poll.stage = "log" /\ poll'.todo = poll.todo /\ poll'.claim = poll.claim
        /\ poll'.delta = poll.delta /\ poll.next \in {"shared", "users"}
        /\ poll'.stage = poll.next \/ (poll'.stage = "log" /\ poll'.next = poll.next)
    BY <1>0 DEF Logged, LogConn, Poll
  <1>2. QED BY <1>1 DEF Unpaid, Sharing, Using, Serving

(* The other steps of a poll, once the users are done.                      *)
LEMMA RestPays ==
    ASSUME TypeInv,
           UsersDone \/ Started \/ Finish \/ \E p \in Peers : StartSession(p) \/ EndSession(p)
    PROVE  Unpaid = {} /\ Unpaid' = {} /\ UNCHANGED <<total, logged>>
  <1>0. poll \in Poll
    BY DEF TypeInv
  <1>1. /\ poll.stage \in {"start", "end"} \/ (poll.stage = "users" /\ poll.todo = {})
        /\ poll'.stage \in {"idle", "start", "end"} /\ UNCHANGED <<total, logged>>
    <2>1. CASE UsersDone \/ Started
      BY <1>0, <2>1 DEF UsersDone, Started, Poll, tables
    <2>2. CASE Finish
      BY <2>2 DEF Finish, FinishForgetting, NoPoll, tables
    <2>3. ASSUME NEW p \in Peers, StartSession(p) \/ EndSession(p)
          PROVE  /\ poll.stage \in {"start", "end"} \/ (poll.stage = "users" /\ poll.todo = {})
                 /\ poll'.stage \in {"idle", "start", "end"} /\ UNCHANGED <<total, logged>>
      BY <1>0, <2>3 DEF StartSession, EndSession, EndSessionWith, Poll
    <2>4. QED BY <2>1, <2>2, <2>3
  <1>2. QED BY <1>1, NothingUnpaid DEF Unpaid, Sharing, Using

-----------------------------------------------------------------------------
(* What sing-box reported is charged, logged for nobody, or still to be paid. *)
NoneGone == \A p \in Peers : row[p] # "gone"

Balanced == Sum(total, Peers) + logged[Nobody] + Sum(poll.delta, Unpaid) = Sum(listed, Counted)

AccountInv == Undisturbed /\ NoneGone => Balanced

LEMMA SumTypes ==
    ASSUME TypeInv, AmountInv
    PROVE  /\ Sum(total, Peers) \in Nat /\ Sum(listed, Counted) \in Nat /\ logged[Nobody] \in Nat
           /\ Sum(poll.delta, Unpaid) \in Nat
  <1>1. Unpaid \in SUBSET Conns
    BY DEF Unpaid
  <1>2. \A p \in Peers : total[p] \in Nat
    BY DEF AmountInv
  <1>3. IsFiniteSet(Counted) /\ \A c \in Counted : listed[c] \in Nat
    BY FiniteAssumption, FS_Subset DEF AmountInv, Counted
  <1>4. QED
    BY <1>1, <1>2, <1>3, DeltaSum, SumType, FiniteAssumption DEF AmountInv, Somebody

(* Rows that are there were there before.                                   *)
LEMMA GoneStays ==
    ASSUME TypeInv, [Next]_vars, NEW p \in Peers, row'[p] # "gone"
    PROVE  row[p] # "gone"
  <1>1. CASE UNCHANGED row
    BY <1>1
  <1>2. ASSUME NEW q \in Peers, TogglePeer(q) PROVE row[p] # "gone"
    BY <1>2 DEF TogglePeer, TypeInv
  <1>3. CASE DeleteRow
    BY <1>3 DEF DeleteRow, TypeInv
  <1>4. ASSUME NEW c \in Conns, Identify(c) \/ LogConn(c) PROVE UNCHANGED row
    BY <1>4 DEF Identify, LogConn, tables
  <1>5. ASSUME NEW q \in Peers, ChargeShared(q) \/ Lookup(q) \/ StartSession(q) \/ EndSession(q)
        PROVE  UNCHANGED row
    BY <1>5 DEF ChargeShared, Lookup, StartSession, EndSession, EndSessionWith, tables
  <1>6. CASE PollStep
    BY <1>1, <1>4, <1>5, <1>6
       DEF PollStep, Fetch, FetchWith, Identified, LogUnclaimed, ChargeUser, Logged,
           UsersDone, Started, Finish, FinishForgetting, tables
  <1>7. CASE ~PollStep
    BY <1>1, <1>2, <1>3, <1>7, StatsAssumption
       DEF Next, Opens, Transfers, Closes, DeletePeer, DeleteLogs, DeleteSessions, DeleteFails,
               Crash,
           vars, tables
  <1>8. QED BY <1>6, <1>7

(* A charge moves bytes from the poll to the total of a row that is there.  *)
LEMMA Charged ==
    ASSUME TypeInv, AmountInv, NEW p \in Peers, NEW S \in SUBSET Conns,
           AddToTotal(p, S), row[p] # "gone"
    PROVE  Sum(total', Peers) = Sum(total, Peers) + Sum(poll.delta, S)
  <1>1. /\ total' = [total EXCEPT ![p] = @ + Sum(poll.delta, S)]
        /\ Sum(poll.delta, S) \in Nat /\ \A q \in Peers : total[q] \in Nat
    BY DeltaSum DEF AddToTotal, AmountInv
  <1>2. /\ total'[p] = total[p] + Sum(poll.delta, S) /\ total'[p] \in Nat
        /\ \A q \in Peers \ {p} : total'[q] = total[q]
    BY <1>1 DEF AmountInv
  <1>3. Sum(total', Peers) + total[p] = Sum(total, Peers) + total'[p]
    <2> DEFINE after == total'
    <2>1. IsFiniteSet(Peers) /\ after[p] \in Nat /\ \A q \in Peers \ {p} : after[q] = total[q]
      BY <1>2, FiniteAssumption
    <2> HIDE DEF after
    <2>2. Sum(after, Peers) + total[p] = Sum(total, Peers) + after[p]
      BY <1>1, <2>1, SumUpdate
    <2>3. QED BY <2>2 DEF after
  <1>4. Sum(total, Peers) \in Nat /\ Sum(total', Peers) \in Nat
    <2>1. \A q \in Peers : total'[q] \in Nat
      BY <1>1, <1>2
    <2>2. QED BY <1>1, <2>1, SumType, FiniteAssumption
  <1>5. QED BY <1>1, <1>2, <1>3, <1>4

LEMMA FetchAccount ==
    ASSUME TypeInv, AmountInv, BaseInv, AccountInv, Undisturbed, NoneGone, Fetch
    PROVE  Balanced'
  <1>1. UNCHANGED <<total, logged>>
    BY DEF Fetch, FetchWith, tables
  <1>2. Unpaid = {} /\ Unpaid' = Conns /\ poll'.delta = Change
    BY FetchPoll, NothingUnpaid DEF Unpaid
  <1>3. Sum(total, Peers) + logged[Nobody] = Sum(listed, Counted)
    BY <1>2, SumTypes, SumEmpty DEF AccountInv, Balanced
  <1>4. \A c \in Counted : /\ listed[c] \in Nat /\ Change[c] \in Nat
                           /\ listed'[c] = listed[c] + Change[c]
    <2>1. \A c \in Conns : conn[c].bytes \in Nat /\ base[c] \in Nat /\ listed[c] \in Nat
      BY StatsAssumption DEF TypeInv, ConnState, AmountInv
    <2>2. listed' = [c \in Conns |-> IF c \in Open THEN conn[c].bytes ELSE listed[c]]
      BY DEF Fetch, FetchWith
    <2>3. \A c \in Open : c \in Conns /\ base[c] <= conn[c].bytes /\ listed[c] = base[c]
      BY DEF Open, BaseInv, Undisturbed
    <2>4. QED BY <2>1, <2>2, <2>3 DEF Change, Counted
  <1>5. Sum(listed', Counted) = Sum(listed, Counted) + Sum(Change, Conns)
    <2>1. Counted \in SUBSET Conns /\ IsFiniteSet(Counted)
      BY FiniteAssumption, FS_Subset DEF Counted
    <2>2. Sum(listed', Counted) = Sum(listed, Counted) + Sum(Change, Counted)
      BY <1>4, <2>1, SumPlus
    <2>3. \A c \in Conns \ Counted : Change[c] = 0
      BY DEF Change
    <2>4. \A c \in Conns : Change[c] \in Nat
      BY StatsAssumption DEF TypeInv, ConnState, AmountInv, Change
    <2>5. QED BY <2>1, <2>2, <2>3, <2>4, SumSupport, FiniteAssumption
  <1>6. Sum(total', Peers) = Sum(total, Peers) /\ logged'[Nobody] = logged[Nobody]
    BY <1>1
  <1>7. Sum(poll'.delta, Unpaid') = Sum(Change, Conns)
    BY <1>2
  <1>8. Sum(total, Peers) \in Nat /\ logged[Nobody] \in Nat
    BY SumTypes
  <1>9. QED BY <1>3, <1>5, <1>6, <1>7, <1>8 DEF Balanced

(* A step that moves what the poll still has to pay to a total or to the    *)
(* log of nobody.                                                           *)
LEMMA PaysBalance ==
    ASSUME TypeInv, AmountInv, Balanced, NEW S \in SUBSET Conns, Pays(S), UNCHANGED listed,
           \/ /\ Sum(total', Peers) = Sum(total, Peers) + Sum(poll.delta, S)
              /\ UNCHANGED logged
           \/ /\ logged'[Nobody] = logged[Nobody] + Sum(poll.delta, S)
              /\ UNCHANGED total
    PROVE  Balanced'
  <1>1. Sum(poll.delta, Unpaid) = Sum(poll.delta, S) + Sum(poll'.delta, Unpaid')
    BY PaysSum
  <1>2. Unpaid' \in SUBSET Conns /\ poll'.delta = poll.delta
    BY DEF Pays, Unpaid
  <1>3. /\ Sum(poll.delta, S) \in Nat /\ Sum(total, Peers) \in Nat /\ logged[Nobody] \in Nat
        /\ Sum(poll'.delta, Unpaid') \in Nat
    BY <1>2, DeltaSum, SumTypes
  <1>4. Sum(listed', Counted) = Sum(listed, Counted)
    OBVIOUS
  <1>5. CASE /\ Sum(total', Peers) = Sum(total, Peers) + Sum(poll.delta, S)
             /\ UNCHANGED logged
    BY <1>1, <1>3, <1>4, <1>5 DEF Balanced
  <1>6. CASE /\ logged'[Nobody] = logged[Nobody] + Sum(poll.delta, S)
             /\ UNCHANGED total
    <2>1. Sum(total', Peers) = Sum(total, Peers)
      BY <1>6
    <2>2. QED BY <1>1, <1>3, <1>4, <1>6, <2>1 DEF Balanced
  <1>7. QED BY <1>5, <1>6

LEMMA AccountStep ==
    ASSUME TypeInv, Charging, AmountInv, Deleting, PollInv, BaseInv, AccountInv, [Next]_vars
    PROVE  AccountInv'
  <1> SUFFICES ASSUME Undisturbed', NoneGone' PROVE Balanced'
    BY DEF AccountInv
  <1>u. Undisturbed /\ NoneGone
    BY DisturbanceStays, GoneStays DEF NoneGone
  <1>0. Balanced
    BY <1>u DEF AccountInv
  <1>f. ~Fault /\ ~Crash
    BY <1>u DEF Fault, Crash, Undisturbed
  <1>n. Nobody \notin Peers
    BY StatsAssumption
  <1>1. CASE Fetch
    BY <1>1, <1>u, FetchAccount
  <1>2. ASSUME UNCHANGED <<total, listed>>, logged'[Nobody] = logged[Nobody],
               poll'.delta = poll.delta, Unpaid' = Unpaid
        PROVE  Balanced'
    BY <1>0, <1>2 DEF Balanced
  <1>4. CASE Identified \/ \E c \in Conns : Identify(c)
    BY <1>2, <1>4, <1>f, MatchPays DEF Identified, Identify, NoFault, tables, history
  <1>5. ASSUME NEW p \in Peers, ChargeShared(p) PROVE Balanced'
    <2> DEFINE mine == {c \in Conns : poll.claim[c] = p}
    <2>1. AddToTotal(p, mine) /\ UNCHANGED <<logged, listed>>
      BY <1>5, <1>f DEF ChargeShared, NoFault, history
    <2>2. Pays(mine) /\ row[p] # "gone" /\ mine \in SUBSET Conns
      BY <1>5, <1>u, SharedPays DEF NoneGone
    <2> HIDE DEF mine
    <2>3. Sum(total', Peers) = Sum(total, Peers) + Sum(poll.delta, mine)
      BY <2>1, <2>2, Charged
    <2>4. QED BY <1>0, <2>1, <2>2, <2>3, PaysBalance
  <1>6. CASE LogUnclaimed
    <2> DEFINE S == {c \in poll.seen : User[c] = Nobody /\ poll.claim[c] = Nobody}
    <2>1. logged' = [logged EXCEPT ![Nobody] = @ + Sum(poll.delta, S)] /\
            UNCHANGED <<total, listed>>
      BY <1>6, <1>f DEF LogUnclaimed, NoFault, history
    <2>2. Pays(S) /\ S \in SUBSET Conns
      BY <1>6, UnclaimedPays, MineType
    <2> HIDE DEF S
    <2>3. logged'[Nobody] = logged[Nobody] + Sum(poll.delta, S)
      BY <2>1 DEF AmountInv, Somebody
    <2>4. QED BY <1>0, <2>1, <2>2, <2>3, PaysBalance
  <1>7. ASSUME NEW p \in Peers, Lookup(p) PROVE Balanced'
    <2>1. row[p] # "gone" /\ NoFault
      BY <1>7, <1>u, <1>f DEF Lookup, NoneGone
    <2>2. poll'.delta = poll.delta /\ Unpaid' = Unpaid /\ UNCHANGED <<total, listed, logged>>
      BY <1>7, <2>1, LookupPays DEF Lookup, NoFault, tables, history
    <2>3. QED BY <1>2, <2>2
  <1>8. CASE ChargeUser
    <2> DEFINE mine == {c \in poll.seen : User[c] = poll.cur}
    <2>1. AddToTotal(poll.cur, mine) /\ UNCHANGED <<logged, listed>>
      BY <1>8, <1>f DEF ChargeUser, NoFault, history
    <2>2. poll.cur \in Peers /\ row[poll.cur] # "gone"
      BY <1>8, <1>u DEF Charging, ChargeUser, NoneGone
    <2>3. Pays(mine) /\ mine \in SUBSET Conns
      BY <1>8, UserPays, MineType
    <2> HIDE DEF mine
    <2>4. Sum(total', Peers) = Sum(total, Peers) + Sum(poll.delta, mine)
      BY <2>1, <2>2, <2>3, Charged
    <2>5. QED BY <1>0, <2>1, <2>3, <2>4, PaysBalance
  <1>9. ASSUME NEW c \in Conns, LogConn(c) PROVE Balanced'
    <2>1. poll.cur \in Peers /\ poll.cur # Nobody
      BY <1>9, <1>n DEF Charging, LogConn
    <2>2. logged' \in {logged, [logged EXCEPT ![poll.cur] = @ + poll.delta[c]]}
      BY <1>9 DEF LogConn
    <2>3. logged'[Nobody] = logged[Nobody]
      BY <2>1, <2>2 DEF AmountInv, Somebody
    <2>4. UNCHANGED <<total, listed>>
      BY <1>9, <1>f DEF LogConn, NoFault, history
    <2>5. QED BY <1>2, <1>9, <2>3, <2>4, LogPays
  <1>10. CASE Logged
    BY <1>2, <1>10, LogPays DEF Logged, tables, history
  <1>11. CASE UsersDone \/ Started \/ Finish \/ \E p \in Peers : StartSession(p) \/ EndSession(p)
    <2>1. Unpaid = {} /\ Unpaid' = {} /\ UNCHANGED <<total, logged>>
      BY <1>11, RestPays
    <2>2. UNCHANGED listed
      BY <1>11, <1>f DEF UsersDone, Started, Finish, FinishForgetting, StartSession, EndSession,
                         EndSessionWith, NoFault, history
    <2>3. Sum(poll.delta, Unpaid) = 0 /\ Sum(poll'.delta, Unpaid') = 0
      BY <2>1, SumEmpty
    <2>4. QED BY <1>0, <2>1, <2>2, <2>3 DEF Balanced
  <1>12. CASE Traffic
    BY <1>2, <1>12 DEF Traffic, Opens, Transfers, Closes, tables, history, Unpaid, Sharing,
            Using, Serving
  <1>13. CASE Administration
    <2>1. UNCHANGED <<total, poll, listed>>
      BY <1>13, Administrative
    <2>2. logged'[Nobody] = logged[Nobody]
      <3>1. CASE DeleteLogs
        BY <1>n, <3>1 DEF DeleteLogs, Deleting, AmountInv
      <3>2. CASE ~DeleteLogs
        BY <1>13, <3>2 DEF Administration, TogglePeer, DeletePeer, DeleteSessions, DeleteRow,
                           DeleteFails, vars, tables
      <3>3. QED BY <3>1, <3>2
    <2>3. Unpaid' = Unpaid /\ poll'.delta = poll.delta
      BY <2>1 DEF Unpaid, Sharing, Using, Serving
    <2>4. QED BY <1>2, <2>1, <2>2, <2>3
  <1>14. CASE PollStep
    BY <1>1, <1>4, <1>5, <1>6, <1>7, <1>8, <1>9, <1>10, <1>11, <1>14 DEF PollStep
  <1>15. CASE ~PollStep
    BY <1>f, <1>12, <1>13, <1>15, Steps DEF PollStep
  <1>16. QED BY <1>14, <1>15

(* The four invariants of the accounts are one.                             *)
MoneyInv == Inv /\ AmountInv /\ Deleting /\ PollInv /\ BaseInv

LEMMA MoneyInit == Init => MoneyInv
  <1>1. ASSUME Init PROVE MoneyInv
    <2>1. TypeInv
      BY <1>1, InitType
    <2>2. Charging /\ SessionInv /\ AmountInv /\ Deleting /\ PollInv
      BY <1>1 DEF Init, NoPoll, NoDeletion, Charging, SessionInv, AmountInv, Deleting, PollInv
    <2>3. BaseInv
      BY <1>1 DEF Init, BaseInv
    <2>4. QED BY <2>1, <2>2, <2>3 DEF MoneyInv, Inv
  <1>2. QED BY <1>1

LEMMA MoneyStep == ASSUME MoneyInv, [Next]_vars PROVE MoneyInv'
  BY InvStep, AmountStep, PollInvStep, BaseStep DEF MoneyInv, Inv

(* Between two polls the totals and the log of nobody add up to what         *)
(* sing-box last reported of the connections that count - those with a user  *)
(* and those over VLESS -, for any clients, addresses and connections: of    *)
(* these the code neither loses nor doubles a byte until a statement fails,  *)
(* the process dies or a peer is deleted.                                    *)
THEOREM AccountCorrect == Spec => []AccountedOnce
  <1>1. Init => MoneyInv /\ AccountInv
    <2>1. ASSUME Init PROVE AccountInv
      <3>1. /\ \A p \in Peers : total[p] = 0
            /\ \A c \in Conns : listed[c] = 0
            /\ logged[Nobody] = 0 /\ poll.stage = "idle"
        BY <2>1 DEF Init, NoPoll, Somebody
      <3>2. Sum(total, Peers) = 0 /\ Sum(listed, Counted) = 0
        <4>1. Counted \subseteq Conns /\ IsFiniteSet(Counted)
          BY FiniteAssumption, FS_Subset DEF Counted
        <4>2. QED BY <3>1, <4>1, SumZero, FiniteAssumption
      <3>3. Sum(poll.delta, Unpaid) = 0
        BY <3>1, NothingUnpaid, SumEmpty
      <3>4. QED BY <3>1, <3>2, <3>3 DEF AccountInv, Balanced
    <2>2. QED BY <2>1, MoneyInit
  <1>2. MoneyInv /\ AccountInv /\ [Next]_vars => MoneyInv' /\ AccountInv'
    BY MoneyStep, AccountStep DEF MoneyInv, Inv
  <1>3. MoneyInv /\ AccountInv => AccountedOnce
    <2>1. ASSUME MoneyInv, AccountInv, BetweenPolls PROVE Sum(poll.delta, Unpaid) = 0
      BY <2>1, NothingUnpaid, SumEmpty DEF BetweenPolls
    <2>2. QED BY <2>1, SumTypes DEF MoneyInv, Inv, AccountInv, Balanced, AccountedOnce, NoneGone
  <1>4. QED
    BY <1>1, <1>2, <1>3, PTL DEF Spec

-----------------------------------------------------------------------------
(* What a peer may be charged: all that was transferred on its connections, *)
(* once per earlier life of the process, and what this one has listed, plus  *)
(* what connections that are closed will never be listed with.              *)
Due(p) == {c \in Unpaid : poll.claim[c] = p \/ User[c] = p}
Transferred == [c \in Conns |-> conn[c].bytes]
Known == [c \in Conns |-> IF conn[c].stage = "closed" THEN conn[c].bytes ELSE base[c]]
Allowed(p) == crashes * Sum(Transferred, MayCost(p)) + Sum(Known, MayCost(p))

CostAt(p) == total[p] + Sum(poll.delta, Due(p)) <= Allowed(p)
CostInv == \A p \in Peers : CostAt(p)

LEMMA TimesMonotone ==
    ASSUME NEW k \in Nat, NEW m \in Nat, NEW n \in Nat, m <= n
    PROVE  k * m <= k * n /\ k * m \in Nat /\ (k + 1) * m = k * m + m
  <1>1. PICK d \in Nat : n = m + d
    <2>1. n - m \in Nat /\ n = m + (n - m)
      OBVIOUS
    <2>2. QED BY <2>1
  <1>2. k * m \in Nat /\ k * d \in Nat /\ k * n = k * m + k * d
    BY <1>1
  <1>3. (k + 1) * m = k * m + m
    OBVIOUS
  <1>4. QED BY <1>2, <1>3

LEMMA CostTypes ==
    ASSUME TypeInv, AmountInv, BaseInv, NEW p \in Peers
    PROVE  /\ total[p] \in Nat /\ Sum(poll.delta, Due(p)) \in Nat /\ crashes \in Nat
           /\ Sum(Transferred, MayCost(p)) \in Nat /\ Sum(Known, MayCost(p)) \in Nat
           /\ Sum(Known, MayCost(p)) <= Sum(Transferred, MayCost(p))
  <1>1. Due(p) \in SUBSET Conns /\ MayCost(p) \in SUBSET Conns
    BY DEF Due, Unpaid, MayCost
  <1>2. IsFiniteSet(MayCost(p)) /\ Sum(poll.delta, Due(p)) \in Nat
    BY <1>1, DeltaSum
  <1>3. \A c \in MayCost(p) : /\ Transferred[c] \in Nat /\ Known[c] \in Nat
                              /\ Known[c] <= Transferred[c]
    <2>1. \A c \in Conns : conn[c].bytes \in Nat /\ base[c] \in Nat /\ base[c] <= conn[c].bytes
      BY StatsAssumption DEF TypeInv, ConnState, BaseInv
    <2>2. QED BY <1>1, <2>1 DEF Transferred, Known
  <1>4. /\ Sum(Transferred, MayCost(p)) \in Nat /\ Sum(Known, MayCost(p)) \in Nat
        /\ Sum(Known, MayCost(p)) <= Sum(Transferred, MayCost(p))
    BY <1>2, <1>3, SumType, SumMonotone
  <1>5. QED BY <1>2, <1>4 DEF TypeInv, AmountInv

LEMMA AllowedType ==
    ASSUME TypeInv, AmountInv, BaseInv, NEW p \in Peers PROVE Allowed(p) \in Nat
  <1>1. crashes * Sum(Transferred, MayCost(p)) \in Nat
    BY CostTypes, TimesMonotone
  <1>2. QED BY <1>1, CostTypes DEF Allowed

(* A charge of S, all of which was due, or of nothing.                      *)
LEMMA CostKept ==
    ASSUME TypeInv, AmountInv, AmountInv', BaseInv, NEW p \in Peers, CostAt(p),
           UNCHANGED <<conn, base, crashes>>, poll'.delta = poll.delta,
           NEW S, S \subseteq Due(p), S \cap Due(p)' = {}, Due(p)' \subseteq Due(p),
           total'[p] <= total[p] + Sum(poll.delta, S)
    PROVE  CostAt(p)'
  <1> DEFINE before == Due(p)
             after  == Due(p)'
             delta  == poll.delta
  <1>1. before \in SUBSET Conns /\ after \subseteq before \ S /\ S \subseteq before
    BY DEF Due, Unpaid
  <1>2. IsFiniteSet(before) /\ IsFiniteSet(before \ S) /\ IsFiniteSet(S) /\ IsFiniteSet(after)
    BY <1>1, DeltaSum
  <1>3. \A c \in before : delta[c] \in Nat
    BY <1>1, DeltaSum
  <1>a. /\ total[p] + Sum(delta, before) <= Allowed(p) /\ total'[p] <= total[p] + Sum(delta, S)
        /\ total[p] \in Nat /\ total'[p] \in Nat /\ Allowed(p) \in Nat
    BY AllowedType DEF CostAt, AmountInv
  <1>b. Allowed(p)' = Allowed(p) /\ (CostAt(p)' <=> total'[p] + Sum(delta, after) <= Allowed(p)')
    BY DEF Allowed, Transferred, Known, CostAt, MayCost
  <1> HIDE DEF before, after, delta
  <1>4. Sum(delta, before) = Sum(delta, S) + Sum(delta, before \ S)
    BY <1>1, <1>2, <1>3, SumSplit
  <1>5. Sum(delta, after) <= Sum(delta, before \ S)
    BY <1>1, <1>2, <1>3, SumSubset
  <1>6. Sum(delta, S) \in Nat /\ Sum(delta, before \ S) \in Nat /\ Sum(delta, after) \in Nat
    BY <1>1, <1>2, <1>3, SumType
  <1>7. QED BY <1>a, <1>b, <1>4, <1>5, <1>6

LEMMA NoCharge ==
    ASSUME TypeInv, AmountInv, AmountInv', BaseInv, CostInv,
           UNCHANGED <<conn, base, crashes, total>>, poll'.delta = poll.delta,
           \A p \in Peers : Due(p)' \subseteq Due(p)
    PROVE  CostInv'
  <1>1. ASSUME NEW p \in Peers PROVE CostAt(p)'
    <2>1. CostAt(p) /\ total'[p] = total[p] /\ total[p] \in Nat /\ Sum(poll.delta, {}) = 0
      BY SumEmpty DEF CostInv, AmountInv
    <2>2. total'[p] <= total[p] + Sum(poll.delta, {})
      BY <2>1
    <2>3. QED BY <2>1, <2>2, CostKept
  <1>2. QED BY <1>1 DEF CostInv

LEMMA Charge ==
    ASSUME TypeInv, AmountInv, AmountInv', BaseInv, CostInv,
           UNCHANGED <<conn, base, crashes>>, poll'.claim = poll.claim, NEW p \in Peers,
           NEW S \in SUBSET Conns, Pays(S), \A c \in S : poll.claim[c] = p \/ User[c] = p,
           AddToTotal(p, S) \/ UNCHANGED total
    PROVE  CostInv'
  <1>1. ASSUME NEW q \in Peers PROVE Due(q)' \subseteq Due(q) /\ S \cap Due(q)' = {}
    BY DEF Due, Pays
  <1>2. S \subseteq Due(p) /\ poll'.delta = poll.delta
    BY DEF Due, Pays
  <1>3. Sum(poll.delta, S) \in Nat /\ Sum(poll.delta, {}) = 0 /\ \A q \in Peers : total[q] \in Nat
    BY DeltaSum, SumEmpty DEF AmountInv
  <1>4. total'[p] <= total[p] + Sum(poll.delta, S) /\ \A q \in Peers \ {p} : total'[q] = total[q]
    BY <1>3 DEF AddToTotal, AmountInv
  <1>5. CostAt(p)'
    BY <1>1, <1>2, <1>4, CostKept DEF CostInv
  <1>6. ASSUME NEW q \in Peers \ {p} PROVE CostAt(q)'
    <2>1. total'[q] <= total[q] + Sum(poll.delta, {})
      BY <1>3, <1>4
    <2>2. QED BY <1>1, <1>2, <2>1, CostKept DEF CostInv
  <1>7. QED BY <1>5, <1>6 DEF CostInv

LEMMA FetchCost ==
    ASSUME TypeInv, AmountInv, BaseInv, CostInv, PollInv', Fetch
    PROVE  CostInv'
  <1>1. UNCHANGED <<total, conn, crashes>> /\ poll'.delta = Change /\ Unpaid = {}
    BY FetchPoll, NothingUnpaid DEF Fetch, FetchWith, tables
  <1>2. \A c \in Counted : Known[c] \in Nat /\ Change[c] \in Nat /\ Known'[c] = Known[c] + Change[c]
    <2>1. \A c \in Conns : conn[c].bytes \in Nat /\ base[c] \in Nat /\ base[c] <= conn[c].bytes
      BY StatsAssumption DEF TypeInv, ConnState, BaseInv
    <2>2. base' = [c \in Conns |-> IF c \in Open THEN conn[c].bytes ELSE base[c]]
      BY DEF Fetch, FetchWith
    <2>3. \A c \in Open : c \in Conns /\ conn[c].stage = "open"
      BY DEF Open
    <2>4. QED BY <1>1, <2>1, <2>2, <2>3 DEF Known, Change, Counted
  <1>3. ASSUME NEW p \in Peers PROVE CostAt(p)'
    <2> DEFINE due == Due(p)'
               mine == MayCost(p)
               known == Known'
    <2>1. due \subseteq mine /\ mine \subseteq Conns /\ mine \subseteq Counted
      BY StatsAssumption DEF PollInv, Due, Unpaid, MayCost, Uses, Counted
    <2>2. IsFiniteSet(mine) /\ IsFiniteSet(due)
      BY <2>1, FiniteAssumption, FS_Subset
    <2>3. total[p] <= Allowed(p)
      <3>1. Due(p) = {}
        BY <1>1 DEF Due
      <3>2. total[p] + 0 <= Allowed(p)
        BY <3>1, SumEmpty DEF CostInv, CostAt
      <3>3. QED BY <3>2, CostTypes
    <2>4. /\ Allowed(p) = crashes * Sum(Transferred, mine) + Sum(Known, mine)
          /\ Allowed(p)' = crashes * Sum(Transferred, mine) + Sum(known, mine)
          /\ CostAt(p)' <=> total[p] + Sum(Change, due) <= Allowed(p)'
      BY <1>1 DEF Allowed, Transferred, CostAt, MayCost
    <2>5. /\ crashes * Sum(Transferred, mine) \in Nat /\ total[p] \in Nat
          /\ Sum(Known, mine) \in Nat
      BY CostTypes, TimesMonotone
    <2> HIDE DEF due, mine, known
    <2>6. \A c \in mine : Known[c] \in Nat /\ Change[c] \in Nat /\ known[c] = Known[c] + Change[c]
      BY <1>2, <2>1 DEF known
    <2>7. Sum(known, mine) = Sum(Known, mine) + Sum(Change, mine)
      BY <2>2, <2>6, SumPlus
    <2>8. Sum(Change, due) <= Sum(Change, mine)
      BY <2>1, <2>2, <2>6, SumSubset
    <2>9. Sum(Change, mine) \in Nat /\ Sum(Change, due) \in Nat
      BY <2>1, <2>2, <2>6, SumType
    <2>10. QED BY <2>3, <2>4, <2>5, <2>7, <2>8, <2>9
  <1>4. QED BY <1>3 DEF CostInv

LEMMA TrafficCost ==
    ASSUME TypeInv, AmountInv, BaseInv, BaseInv', CostInv, Traffic
    PROVE  CostInv'
  <1>1. UNCHANGED <<total, poll, base, crashes>>
    BY DEF Traffic, Opens, Transfers, Closes, tables, memory, history
  <1>2. \A c \in Conns : /\ Transferred[c] \in Nat /\ Transferred'[c] \in Nat
                         /\ Transferred[c] <= Transferred'[c]
                         /\ Known[c] \in Nat /\ Known'[c] \in Nat /\ Known[c] <= Known'[c]
    <2>1. \A c \in Conns : /\ conn[c].bytes \in Nat /\ base[c] \in Nat /\ base[c] <= conn[c].bytes
                           /\ conn[c] \in ConnState
      BY StatsAssumption DEF TypeInv, ConnState, BaseInv
    <2>2. PICK d \in Conns : Opens(d) \/ Transfers(d) \/ Closes(d)
      BY DEF Traffic
    <2>3. \A c \in Conns : /\ conn[c].bytes <= conn'[c].bytes /\ conn'[c].bytes \in Nat
                           /\ conn[c].stage = "closed" =>
                                conn'[c].stage = "closed" /\ conn'[c].bytes = conn[c].bytes
      BY <2>1, <2>2 DEF Opens, Transfers, Closes, TypeInv, ConnState
    <2>4. QED BY <1>1, <2>1, <2>3 DEF Transferred, Known
  <1>3. ASSUME NEW p \in Peers PROVE CostAt(p)'
    <2> DEFINE mine == MayCost(p)
               moved == Transferred'
               known == Known'
    <2>1. IsFiniteSet(mine) /\ mine \subseteq Conns
      <3>1. mine \subseteq Conns
        BY DEF MayCost
      <3>2. QED BY <3>1, FiniteAssumption, FS_Subset
    <2>2. /\ CostAt(p) <=> total[p] + Sum(poll.delta, Due(p)) <= Allowed(p)
          /\ CostAt(p)' <=> total[p] + Sum(poll.delta, Due(p)) <= Allowed(p)'
      BY <1>1 DEF CostAt, Due, Unpaid, Sharing, Using, Serving
    <2>3. /\ Allowed(p) = crashes * Sum(Transferred, mine) + Sum(Known, mine)
          /\ Allowed(p)' = crashes * Sum(moved, mine) + Sum(known, mine)
      BY <1>1 DEF Allowed, MayCost
    <2>4. \A c \in mine : /\ Transferred[c] \in Nat /\ moved[c] \in Nat
                          /\ Transferred[c] <= moved[c]
                          /\ Known[c] \in Nat /\ known[c] \in Nat /\ Known[c] <= known[c]
      BY <1>2, <2>1
    <2> HIDE DEF mine, moved, known
    <2>5. Sum(Transferred, mine) <= Sum(moved, mine) /\ Sum(Known, mine) <= Sum(known, mine)
      BY <2>1, <2>4, SumMonotone
    <2>6. /\ Sum(Transferred, mine) \in Nat /\ Sum(moved, mine) \in Nat
          /\ Sum(Known, mine) \in Nat /\ Sum(known, mine) \in Nat
      BY <2>1, <2>4, SumType
    <2>7. crashes \in Nat /\ total[p] \in Nat /\ Sum(poll.delta, Due(p)) \in Nat
      BY CostTypes
    <2>8. /\ crashes * Sum(Transferred, mine) <= crashes * Sum(moved, mine)
          /\ crashes * Sum(Transferred, mine) \in Nat /\ crashes * Sum(moved, mine) \in Nat
      BY <2>5, <2>6, <2>7, TimesMonotone
    <2>9. CostAt(p)
      BY DEF CostInv
    <2>10. QED BY <2>2, <2>3, <2>5, <2>6, <2>7, <2>8, <2>9
  <1>4. QED BY <1>3 DEF CostInv

(* A life more: all that was transferred may be charged again.              *)
LEMMA CrashCost ==
    ASSUME TypeInv, AmountInv, BaseInv, BaseInv', CostInv, Crash
    PROVE  CostInv'
  <1>1. UNCHANGED <<total, conn>> /\ crashes' = crashes + 1 /\ poll'.stage = "idle"
        /\ \A c \in Conns : base'[c] = 0
    BY DEF Crash, NoPoll, tables
  <1>2. ASSUME NEW p \in Peers PROVE CostAt(p)'
    <2> DEFINE all == Sum(Transferred, MayCost(p))
               known == Known'
    <2>1. Sum(known, MayCost(p)) \in Nat
      <3>1. \A c \in MayCost(p) : known[c] \in Nat
        BY <1>1, StatsAssumption DEF MayCost, Known, TypeInv, ConnState
      <3>2. IsFiniteSet(MayCost(p))
        BY FiniteAssumption, FS_Subset DEF MayCost
      <3> HIDE DEF known
      <3>3. QED BY <3>1, <3>2, SumType
    <2>2. Due(p)' = {}
      BY <1>1 DEF Due, Unpaid, Sharing, Using
    <2>3. Allowed(p)' = (crashes + 1) * all + Sum(known, MayCost(p))
      BY <1>1 DEF Allowed, Transferred, MayCost
    <2>4. CostAt(p)' <=> total[p] + Sum(poll'.delta, Due(p)') <= Allowed(p)'
      BY <1>1 DEF CostAt
    <2>5. Sum(poll'.delta, Due(p)') = 0
      BY <2>2, SumEmpty
    <2>6. total[p] + Sum(poll.delta, Due(p)) <= crashes * all + Sum(Known, MayCost(p))
      BY DEF CostInv, CostAt, Allowed
    <2>7. /\ all \in Nat /\ crashes \in Nat /\ total[p] \in Nat /\ Sum(poll.delta, Due(p)) \in Nat
          /\ Sum(Known, MayCost(p)) \in Nat /\ Sum(Known, MayCost(p)) <= all
      BY CostTypes
    <2>8. crashes * all \in Nat /\ (crashes + 1) * all = crashes * all + all
      BY <2>7, TimesMonotone
    <2> HIDE DEF all, known
    <2>9. QED BY <2>1, <2>3, <2>4, <2>5, <2>6, <2>7, <2>8
  <1>3. QED BY <1>2 DEF CostInv

LEMMA CostStep ==
    ASSUME MoneyInv, MoneyInv', CostInv, [Next]_vars PROVE CostInv'
  <1>0. /\ TypeInv /\ Charging /\ AmountInv /\ AmountInv' /\ PollInv /\ PollInv' /\ BaseInv /\
           BaseInv'
        /\ poll \in Poll
    BY DEF MoneyInv, Inv, TypeInv
  <1>n. ASSUME UNCHANGED <<conn, base, crashes, total>>, poll'.delta = poll.delta,
               \A p \in Peers : Due(p)' \subseteq Due(p)
        PROVE  CostInv'
    BY <1>0, <1>n, NoCharge
  <1>1. CASE Fetch
    BY <1>0, <1>1, FetchCost
  <1>2. CASE Finish
    <2>1. /\ UNCHANGED <<conn, total, crashes>> /\ poll.stage = "end" /\ Unpaid = {} /\ Unpaid' = {}
          /\ base' = [c \in Conns |-> IF c \in Conns \ poll.seen THEN 0 ELSE base[c]]
      BY <1>0, <1>2, RestPays DEF Finish, FinishForgetting, tables, history
    <2>2. Known' = Known
      BY <1>0, <2>1 DEF Known, BaseInv
    <2>3. \A p \in Peers : Due(p) = {} /\ Due(p)' = {} /\ Allowed(p)' = Allowed(p)
      BY <2>1, <2>2 DEF Due, Allowed, Transferred, MayCost
    <2>4. Sum(poll.delta, {}) = 0 /\ Sum(poll'.delta, {}) = 0
      BY SumEmpty
    <2>5. ASSUME NEW p \in Peers PROVE CostAt(p)'
      <3>1. CostAt(p) /\ total'[p] = total[p]
        BY <2>1 DEF CostInv
      <3>2. QED BY <2>3, <2>4, <3>1 DEF CostAt
    <2>6. QED BY <2>5 DEF CostInv
  <1>3. CASE PollStep /\ ~Fetch /\ ~Finish
    <2>0. UNCHANGED <<conn, base, crashes>> /\ poll'.delta = poll.delta
      BY <1>0, <1>3, WithinPoll
    <2>1. CASE Identified \/ \E c \in Conns : Identify(c)
      <3>1. UNCHANGED total /\ Unpaid = Conns /\ Unpaid' = Conns
        BY <1>0, <2>1, MatchPays DEF Identified, Identify, tables
      <3>2. \A c \in Conns : poll'.claim[c] \in {Nobody, poll.claim[c]}
        <4>1. CASE Identified
          BY <1>0, <4>1 DEF Identified, Poll
        <4>2. ASSUME NEW d \in Conns, Identify(d)
              PROVE  \A c \in Conns : poll'.claim[c] \in {Nobody, poll.claim[c]}
          <5>1. CASE poll' = [poll EXCEPT !.queue = @ \ {d}]
            BY <1>0, <5>1 DEF Poll
          <5>2. CASE poll' = [poll EXCEPT !.queue = @ \ {d}, !.claim[d] = Nobody]
            BY <1>0, <5>2 DEF Poll
          <5>3. QED BY <4>2, <5>1, <5>2 DEF Identify
        <4>3. QED BY <2>1, <4>1, <4>2
      <3>3. \A p \in Peers : Due(p)' \subseteq Due(p)
        BY <3>1, <3>2, StatsAssumption DEF Due
      <3>4. QED BY <1>n, <2>0, <3>1, <3>3
    <2>2. ASSUME NEW p \in Peers, ChargeShared(p) PROVE CostInv'
      <3> DEFINE mine == {c \in Conns : poll.claim[c] = p}
      <3>1. poll'.claim = poll.claim /\ (AddToTotal(p, mine) \/ UNCHANGED total)
        BY <1>0, <2>2 DEF ChargeShared, ToLog, Poll
      <3>2. Pays(mine) /\ mine \in SUBSET Conns /\ \A c \in mine : poll.claim[c] = p \/ User[c] = p
        BY <1>0, <2>2, SharedPays
      <3> HIDE DEF mine
      <3>3. QED BY <1>0, <2>0, <3>1, <3>2, Charge
    <2>3. CASE LogUnclaimed
      <3>1. UNCHANGED total /\ poll'.claim = poll.claim /\ Unpaid' \subseteq Unpaid
        BY <1>0, <2>3, UnclaimedPays DEF LogUnclaimed, Poll, Pays
      <3>2. \A p \in Peers : Due(p)' \subseteq Due(p)
        BY <3>1 DEF Due
      <3>3. QED BY <1>n, <2>0, <3>1, <3>2
    <2>4. ASSUME NEW q \in Peers, Lookup(q) PROVE CostInv'
      <3>1. UNCHANGED total /\ poll'.claim = poll.claim /\ Unpaid' \subseteq Unpaid
        <4>1. UNCHANGED total /\ Unpaid' \subseteq Unpaid
          BY <1>0, <2>4, LookupPays DEF Lookup, tables
        <4>2. CASE poll' = [poll EXCEPT !.stage = "charge", !.cur = q, !.todo = @ \ {q},
                                        !.now = @ \cup {q}]
          BY <1>0, <4>1, <4>2 DEF Poll
        <4>3. CASE poll' = [poll EXCEPT !.todo = @ \ {q}]
          BY <1>0, <4>1, <4>3 DEF Poll
        <4>4. QED BY <2>4, <4>2, <4>3 DEF Lookup
      <3>2. \A p \in Peers : Due(p)' \subseteq Due(p)
        BY <3>1 DEF Due
      <3>3. QED BY <1>n, <2>0, <3>1, <3>2
    <2>5. CASE ChargeUser
      <3> DEFINE mine == {c \in poll.seen : User[c] = poll.cur}
      <3>1. /\ poll'.claim = poll.claim /\ (AddToTotal(poll.cur, mine) \/ UNCHANGED total)
            /\ poll.cur \in Peers
        BY <1>0, <2>5 DEF ChargeUser, ToLog, Poll, Charging
      <3>2. Pays(mine) /\ mine \in SUBSET Conns
        BY <1>0, <2>5, UserPays, MineType
      <3>3. \A c \in mine : poll.claim[c] = poll.cur \/ User[c] = poll.cur
        OBVIOUS
      <3> HIDE DEF mine
      <3>4. QED BY <1>0, <2>0, <3>1, <3>2, <3>3, Charge
    <2>6. CASE Logged \/ \E c \in Conns : LogConn(c)
      <3>1. UNCHANGED total /\ poll'.claim = poll.claim /\ Unpaid' = Unpaid
        BY <1>0, <2>6, LogPays DEF Logged, LogConn, Poll, tables
      <3>2. \A p \in Peers : Due(p)' \subseteq Due(p)
        BY <3>1 DEF Due
      <3>3. QED BY <1>n, <2>0, <3>1, <3>2
    <2>7. CASE UsersDone \/ Started \/ \E p \in Peers : StartSession(p) \/ EndSession(p)
      <3>1. UNCHANGED total /\ Unpaid' = {}
        BY <1>0, <2>7, RestPays
      <3>2. \A p \in Peers : Due(p)' \subseteq Due(p)
        BY <3>1 DEF Due
      <3>3. QED BY <1>n, <2>0, <3>1, <3>2
    <2>8. QED BY <1>3, <2>1, <2>2, <2>3, <2>4, <2>5, <2>6, <2>7 DEF PollStep
  <1>4. CASE Traffic
    BY <1>0, <1>4, TrafficCost
  <1>5. CASE Administration
    <2>1. UNCHANGED <<conn, base, crashes, total, poll>>
      BY <1>5, Administrative DEF memory
    <2>2. \A p \in Peers : Due(p)' \subseteq Due(p)
      BY <2>1 DEF Due, Unpaid, Sharing, Using, Serving
    <2>3. QED BY <1>n, <2>1, <2>2
  <1>6. CASE Crash
    BY <1>0, <1>6, CrashCost
  <1>7. QED BY <1>1, <1>2, <1>3, <1>4, <1>5, <1>6, Steps

(* No peer is charged more than was transferred on its connections, once per *)
(* life of the process, whatever fails and whoever is deleted, for any       *)
(* clients and connections and any number of failures and deaths.            *)
THEOREM OverchargeCorrect == Spec => []NeverOvercharged
  <1>1. Init => MoneyInv /\ CostInv
    <2>1. ASSUME Init PROVE CostInv
      <3>1. MoneyInv
        BY <2>1, MoneyInit
      <3>2. ASSUME NEW p \in Peers PROVE CostAt(p)
        <4>1. total[p] = 0 /\ Unpaid = {}
          BY <2>1, NothingUnpaid DEF Init, NoPoll
        <4>2. Sum(poll.delta, Due(p)) = 0
          BY <4>1, SumEmpty DEF Due
        <4>3. Allowed(p) \in Nat
          BY <3>1, AllowedType DEF MoneyInv, Inv
        <4>4. QED BY <4>1, <4>2, <4>3 DEF CostAt
      <3>3. QED BY <3>2 DEF CostInv
    <2>2. QED BY <2>1, MoneyInit
  <1>2. MoneyInv /\ CostInv /\ [Next]_vars => MoneyInv' /\ CostInv'
    BY MoneyStep, CostStep
  <1>3. MoneyInv /\ CostInv => NeverOvercharged
    <2> SUFFICES ASSUME MoneyInv, CostInv, NEW p \in Peers
                 PROVE  total[p] <= (crashes + 1) * Sum(Transferred, MayCost(p))
      BY DEF NeverOvercharged, Transferred
    <2>1. total[p] + Sum(poll.delta, Due(p)) <=
            crashes * Sum(Transferred, MayCost(p)) + Sum(Known, MayCost(p))
      BY DEF CostInv, CostAt, Allowed
    <2>2. /\ total[p] \in Nat /\ Sum(poll.delta, Due(p)) \in Nat /\ crashes \in Nat
          /\ Sum(Transferred, MayCost(p)) \in Nat /\ Sum(Known, MayCost(p)) \in Nat
          /\ Sum(Known, MayCost(p)) <= Sum(Transferred, MayCost(p))
      BY CostTypes DEF MoneyInv, Inv
    <2>3. /\ crashes * Sum(Transferred, MayCost(p)) \in Nat
          /\ (crashes + 1) * Sum(Transferred, MayCost(p))
               = crashes * Sum(Transferred, MayCost(p)) + Sum(Transferred, MayCost(p))
      BY <2>2, TimesMonotone
    <2>4. QED BY <2>1, <2>2, <2>3
  <1>4. QED
    BY <1>1, <1>2, <1>3, PTL DEF Spec

-----------------------------------------------------------------------------
(* The bytes of the sessions of a peer.                                     *)
SessionsOf(p) == {s \in sessions : s.peer = p}
BytesOf(S, n) ==
    [i \in 1 .. n |-> IF \E s \in S : s.id = i THEN (CHOOSE s \in S : s.id = i).bytes ELSE 0]
SessionSum(S, n) == Sum(BytesOf(S, n), 1 .. n)

Distinct(S) == \A s, t \in S : s.id = t.id => s = t

LEMMA BytesAt ==
    ASSUME NEW S, S \subseteq Session, Distinct(S), NEW n \in Nat, NEW i \in 1 .. n
    PROVE  /\ \A s \in S : s.id = i => BytesOf(S, n)[i] = s.bytes
           /\ (~\E s \in S : s.id = i) => BytesOf(S, n)[i] = 0
           /\ BytesOf(S, n)[i] \in Nat
  <1>1. CASE \E s \in S : s.id = i
    <2>1. BytesOf(S, n)[i] = (CHOOSE s \in S : s.id = i).bytes
      BY <1>1 DEF BytesOf
    <2>2. PICK s \in S : s.id = i /\ s = CHOOSE t \in S : t.id = i
      BY <1>1
    <2>3. s.bytes \in Nat /\ \A t \in S : t.id = i => t = s
      BY <2>2 DEF Session, Distinct
    <2>4. BytesOf(S, n)[i] = s.bytes
      BY <2>1, <2>2
    <2>5. QED BY <1>1, <2>3, <2>4
  <1>2. CASE ~\E s \in S : s.id = i
    BY <1>2 DEF BytesOf
  <1>3. QED BY <1>1, <1>2

LEMMA Interval ==
    ASSUME NEW n \in Nat
    PROVE  /\ IsFiniteSet(1 .. n) /\ 1 .. n \subseteq 1 .. n + 1
           /\ (1 .. n + 1) \ (1 .. n) = {n + 1}
  <1>1. IsFiniteSet(1 .. n)
    BY FS_Interval
  <1>2. \A i : i \in 1 .. n <=> i \in Nat /\ 1 <= i /\ i <= n
    OBVIOUS
  <1>3. \A i : i \in 1 .. n + 1 <=> i \in Nat /\ 1 <= i /\ i <= n + 1
    OBVIOUS
  <1>4. QED BY <1>1, <1>2, <1>3

LEMMA SessionSumType ==
    ASSUME NEW S, S \subseteq Session, Distinct(S), NEW n \in Nat
    PROVE  SessionSum(S, n) \in Nat
  <1>1. \A i \in 1 .. n : BytesOf(S, n)[i] \in Nat
    BY BytesAt
  <1>2. QED BY <1>1, Interval, SumType DEF SessionSum

(* A session that begins has no bytes.                                      *)
LEMMA SessionBegins ==
    ASSUME NEW n \in Nat, NEW S, S \subseteq Session, Distinct(S), NEW T, T \subseteq Session,
           Distinct(T), S \subseteq T, \A s \in S : s.id <= n,
           \A s \in T \ S : s.id = n + 1 /\ s.bytes = 0
    PROVE  SessionSum(T, n + 1) = SessionSum(S, n)
  <1> DEFINE f == BytesOf(S, n)
             g == BytesOf(T, n + 1)
  <1>1. \A i \in 1 .. n : f[i] \in Nat
    BY BytesAt
  <1>2. \A i \in 1 .. n + 1 : g[i] \in Nat
    BY BytesAt
  <1>3. ASSUME NEW i \in 1 .. n PROVE g[i] = f[i]
    <2>1. i \in 1 .. n + 1 /\ i # n + 1
      OBVIOUS
    <2>2. CASE \E s \in S : s.id = i
      <3>1. PICK s \in S : s.id = i
        BY <2>2
      <3>2. f[i] = s.bytes
        BY <3>1, BytesAt
      <3>3. g[i] = s.bytes
        BY <2>1, <3>1, BytesAt
      <3>4. QED BY <3>2, <3>3
    <2>3. CASE ~\E s \in S : s.id = i
      <3>1. ~\E s \in T : s.id = i
        BY <2>1, <2>3
      <3>2. f[i] = 0
        BY <2>3, BytesAt
      <3>3. g[i] = 0
        BY <2>1, <3>1, BytesAt
      <3>4. QED BY <3>2, <3>3
    <2>4. QED BY <2>2, <2>3
  <1>4. g[n + 1] = 0
    <2>1. n + 1 \in 1 .. n + 1
      OBVIOUS
    <2>2. CASE \E s \in T : s.id = n + 1
      <3>1. PICK s \in T : s.id = n + 1
        BY <2>2
      <3>2. s \notin S
        BY <3>1
      <3>3. s.bytes = 0 /\ g[n + 1] = s.bytes
        BY <2>1, <3>1, <3>2, BytesAt
      <3>4. QED BY <3>3
    <2>3. CASE ~\E s \in T : s.id = n + 1
      BY <2>1, <2>3, BytesAt
    <2>4. QED BY <2>2, <2>3
  <1> HIDE DEF f, g
  <1>5. Sum(g, 1 .. n) = Sum(f, 1 .. n)
    BY <1>1, <1>3, Interval, SumSame
  <1>6. Sum(g, 1 .. n) = Sum(g, 1 .. n + 1)
    <2>1. IsFiniteSet(1 .. n + 1) /\ 1 .. n \in SUBSET (1 .. n + 1)
      BY Interval, FS_Interval
    <2>2. \A i \in (1 .. n + 1) \ (1 .. n) : g[i] = 0
      BY <1>4, Interval
    <2>3. QED BY <1>2, <2>1, <2>2, SumSupport
  <1>7. QED BY <1>5, <1>6 DEF f, g, SessionSum

(* A session that ends takes over what the counter of the peer showed.      *)
LEMMA SessionEnds ==
    ASSUME NEW n \in Nat, NEW S, S \subseteq Session, Distinct(S), NEW T, T \subseteq Session,
           Distinct(T), NEW x \in S, x.id \in 1 .. n, x.bytes = 0,
           NEW y \in T, y.id = x.id, T \ {y} = S \ {x}
    PROVE  SessionSum(T, n) = SessionSum(S, n) + y.bytes
  <1> DEFINE f == BytesOf(S, n)
             g == BytesOf(T, n)
  <1>1. /\ \A i \in 1 .. n : f[i] \in Nat /\ g[i] \in Nat
        /\ f[x.id] = 0 /\ g[x.id] = y.bytes
    BY BytesAt
  <1>2. ASSUME NEW i \in (1 .. n) \ {x.id} PROVE g[i] = f[i]
    <2>1. CASE \E s \in S : s.id = i
      <3>1. PICK s \in S : s.id = i
        BY <2>1
      <3>2. s \in T
        BY <1>2, <3>1
      <3>3. f[i] = s.bytes
        BY <3>1, BytesAt
      <3>4. g[i] = s.bytes
        BY <3>1, <3>2, BytesAt
      <3>5. QED BY <3>3, <3>4
    <2>2. CASE ~\E s \in S : s.id = i
      <3>1. ~\E s \in T : s.id = i
        BY <1>2, <2>2
      <3>2. f[i] = 0
        BY <2>2, BytesAt
      <3>3. g[i] = 0
        BY <3>1, BytesAt
      <3>4. QED BY <3>2, <3>3
    <2>3. QED BY <2>1, <2>2
  <1> HIDE DEF f, g
  <1>3. Sum(g, 1 .. n) + f[x.id] = Sum(f, 1 .. n) + g[x.id]
    <2> DEFINE ids == 1 .. n
               i == x.id
    <2>1. /\ IsFiniteSet(ids) /\ i \in ids /\ g[i] \in Nat /\ \A j \in ids : f[j] \in Nat
          /\ \A j \in ids \ {i} : g[j] = f[j]
      BY <1>1, <1>2, Interval
    <2> HIDE DEF ids, i
    <2>2. Sum(g, ids) + f[i] = Sum(f, ids) + g[i]
      BY <2>1, SumUpdate
    <2>3. QED BY <2>2 DEF ids, i
  <1>4. Sum(g, 1 .. n) \in Nat /\ Sum(f, 1 .. n) \in Nat
    BY <1>1, Interval, SumType
  <1>5. QED BY <1>1, <1>3, <1>4 DEF f, g, SessionSum

(* What is deleted, and whose a held session is.                            *)
EraseInv ==
    /\ \A p \in Peers : row[p] = "gone" => p \in erased
    /\ del.stage \in {"sessions", "row"} => del.peer \in erased

HoldInv ==
    /\ \A p \in Peers : sess[p] <= issued
    /\ \A s \in sessions, p \in Peers : s.id = sess[p] => s.peer = p

LEMMA EraseStep == ASSUME TypeInv, EraseInv, [Next]_vars PROVE EraseInv' /\ erased \subseteq erased'
  <1> USE DEF EraseInv
  <1>f. ASSUME Fault \/ NoFault PROVE UNCHANGED erased
    BY <1>f DEF Fault, NoFault, history
  <1>1. CASE UNCHANGED <<row, del, erased>>
    BY <1>1
  <1>2. ASSUME NEW p \in Peers, TogglePeer(p) PROVE EraseInv' /\ erased \subseteq erased'
    BY <1>2 DEF TogglePeer, TypeInv, history
  <1>3. ASSUME NEW p \in Peers, DeletePeer(p) PROVE EraseInv' /\ erased \subseteq erased'
    BY <1>3 DEF DeletePeer, tables, history
  <1>4. CASE DeleteLogs
    BY <1>4 DEF DeleteLogs, TypeInv, Deletion
  <1>5. CASE DeleteSessions
    BY <1>5 DEF DeleteSessions, TypeInv, Deletion, history
  <1>6. CASE DeleteRow
    BY <1>6 DEF DeleteRow, NoDeletion, TypeInv, history
  <1>7. CASE DeleteFails \/ Crash
    BY <1>7 DEF DeleteFails, Crash, Fault, NoDeletion, tables
  <1>8. ASSUME NEW c \in Conns, Identify(c) \/ LogConn(c) PROVE UNCHANGED <<row, del, erased>>
    BY <1>8, <1>f DEF Identify, LogConn, tables
  <1>9. ASSUME NEW p \in Peers, ChargeShared(p) \/ Lookup(p) \/ StartSession(p) \/ EndSession(p)
        PROVE  UNCHANGED <<row, del, erased>>
    BY <1>9, <1>f DEF ChargeShared, Lookup, StartSession, EndSession, EndSessionWith, tables
  <1>10. CASE LogUnclaimed \/ ChargeUser
    BY <1>1, <1>f, <1>10 DEF LogUnclaimed, ChargeUser
  <1>11. CASE PollStep
    BY <1>1, <1>8, <1>9, <1>10, <1>11
       DEF PollStep, Fetch, FetchWith, Identified, Logged, UsersDone, Started, Finish,
           FinishForgetting, tables, history
  <1>12. CASE ~PollStep
    BY <1>1, <1>2, <1>3, <1>4, <1>5, <1>6, <1>7, <1>12, StatsAssumption
       DEF Next, Opens, Transfers, Closes, vars, tables, history
  <1>13. QED BY <1>11, <1>12

LEMMA HoldStep == ASSUME TypeInv, StrayInv, HoldInv, [Next]_vars PROVE HoldInv'
  <1> USE DEF HoldInv
  <1>0. /\ sess \in [Peers -> Nat] /\ issued \in Nat
        /\ \A s \in sessions : s.id \in Nat \ {0} /\ s.id <= issued /\ s.peer \in Peers
    BY DEF TypeInv, StrayInv, IsSession
  <1>1. CASE UNCHANGED <<sess, issued>> /\ sessions' \subseteq sessions
    BY <1>1
  <1>2. ASSUME NEW p \in Peers, StartSession(p) PROVE HoldInv'
    <2>1. CASE UNCHANGED <<sess, issued, sessions>>
      BY <2>1
    <2>2. CASE /\ issued' = issued + 1 /\ sess' = [sess EXCEPT ![p] = issued + 1]
               /\ sessions' = sessions \cup
                    {[peer |-> p, id |-> issued + 1, open |-> TRUE, bytes |-> 0]}
      BY <1>0, <2>2
    <2>3. QED BY <1>2, <2>1, <2>2 DEF StartSession
  <1>3. ASSUME NEW p \in Peers, EndSession(p) PROVE HoldInv'
    <2>1. /\ sess' = [sess EXCEPT ![p] = 0] /\ issued' = issued
          /\ sessions' \in {sessions, Closed(sess[p], flow[p])}
      BY <1>3 DEF EndSession, EndSessionWith
    <2>2. ASSUME NEW s \in sessions'
          PROVE  \E t \in sessions : s.id = t.id /\ s.peer = t.peer
      <3>1. CASE sessions' = sessions
        BY <3>1
      <3>2. CASE sessions' = Closed(sess[p], flow[p])
        <4>1. PICK t \in sessions :
                s = IF t.id = sess[p] THEN [t EXCEPT !.open = FALSE, !.bytes = flow[p]] ELSE t
          BY <3>2 DEF Closed
        <4>2. IsSession(t)
          BY DEF TypeInv
        <4>3. s.id = t.id /\ s.peer = t.peer
          BY <4>1, <4>2 DEF IsSession
        <4>4. QED BY <4>3
      <3>3. QED BY <2>1, <3>1, <3>2
    <2>3. QED BY <1>0, <2>1, <2>2
  <1>4. CASE Crash
    BY <1>0, <1>4 DEF Crash, tables
  <1>5. ASSUME NEW c \in Conns, Identify(c) \/ LogConn(c)
        PROVE  UNCHANGED <<sess, issued, sessions>>
    BY <1>5 DEF Identify, LogConn, tables, memory
  <1>6. ASSUME NEW p \in Peers, ChargeShared(p) \/ Lookup(p)
        PROVE  UNCHANGED <<sess, issued, sessions>>
    BY <1>6 DEF ChargeShared, Lookup, tables, memory
  <1>7. CASE PollStep
    BY <1>1, <1>2, <1>3, <1>5, <1>6, <1>7
       DEF PollStep, Fetch, FetchWith, Identified, LogUnclaimed, ChargeUser,
           Logged, UsersDone, Started, Finish, FinishForgetting, tables, memory
  <1>8. CASE ~PollStep
    BY <1>1, <1>4, <1>8, StatsAssumption
       DEF Next, Opens, Transfers, Closes, TogglePeer, DeletePeer, DeleteLogs, DeleteSessions,
           DeleteRow, DeleteFails, vars, tables, memory
  <1>9. QED BY <1>7, <1>8

-----------------------------------------------------------------------------
(* The three accounts of a peer, with what the poll has charged and still   *)
(* has to log (the queue) or to show (mine).                                *)
Of(p, S) == IF poll.stage = "log" /\ poll.cur = p THEN S ELSE {}
Held(p) == [peer |-> p, id |-> sess[p], open |-> TRUE, bytes |-> 0]

AgreeAt(p) ==
    /\ total[p] = logged[p] + Sum(poll.delta, Of(p, poll.queue))
    /\ total[p] = SessionSum(SessionsOf(p), issued) + flow[p] + Sum(poll.delta, Of(p, poll.mine))
    /\ p \in Tracked => Held(p) \in sessions

AgreeInv == Undisturbed => \A p \in Peers \ erased : AgreeAt(p)

LEMMA AgreeTypes ==
    ASSUME TypeInv, AmountInv, StrayInv, NEW p \in Peers
    PROVE  /\ total[p] \in Nat /\ logged[p] \in Nat /\ flow[p] \in Nat
           /\ SessionsOf(p) \subseteq Session /\ Distinct(SessionsOf(p))
           /\ SessionSum(SessionsOf(p), issued) \in Nat
  <1>1. SessionsOf(p) \subseteq Session /\ Distinct(SessionsOf(p)) /\ issued \in Nat
    BY DEF SessionsOf, Distinct, StrayInv, AmountInv, TypeInv
  <1>2. SessionSum(SessionsOf(p), issued) \in Nat
    BY <1>1, SessionSumType
  <1>3. QED BY <1>1, <1>2 DEF AmountInv, Somebody

(* A step that leaves the accounts of p alone.                              *)
LEMMA AgreeKept ==
    ASSUME NEW p \in Peers, AgreeAt(p), total'[p] = total[p], logged'[p] = logged[p],
           flow'[p] = flow[p], sess'[p] = sess[p], issued' = issued,
           SessionsOf(p)' = SessionsOf(p), p \in Tracked' => p \in Tracked,
           \/ poll' = poll
           \/ ~(poll.stage = "log" /\ poll.cur = p) /\ ~(poll'.stage = "log" /\ poll'.cur = p)
    PROVE  AgreeAt(p)'
  <1>1. /\ Sum(poll'.delta, Of(p, poll.queue)') = Sum(poll.delta, Of(p, poll.queue))
        /\ Sum(poll'.delta, Of(p, poll.mine)') = Sum(poll.delta, Of(p, poll.mine))
    <2>1. CASE poll' = poll
      BY <2>1 DEF Of
    <2>2. CASE ~(poll.stage = "log" /\ poll.cur = p) /\ ~(poll'.stage = "log" /\ poll'.cur = p)
      BY <2>2, SumEmpty DEF Of
    <2>3. QED BY <2>1, <2>2
  <1>2. SessionSum(SessionsOf(p), issued)' = SessionSum(SessionsOf(p), issued)
    BY DEF SessionSum, BytesOf
  <1>3. p \in Tracked' => Held(p)' \in sessions'
    <2>1. Held(p)' = Held(p) /\ Held(p).peer = p
      BY DEF Held
    <2>2. Held(p) \in SessionsOf(p)' <=> Held(p) \in sessions'
      BY <2>1 DEF SessionsOf
    <2>3. Held(p) \in SessionsOf(p) <=> Held(p) \in sessions
      BY <2>1 DEF SessionsOf
    <2>4. QED BY <2>1, <2>2, <2>3 DEF AgreeAt
  <1>4. QED BY <1>1, <1>2, <1>3 DEF AgreeAt

(* The stages of a poll that charge nobody.                                 *)
LEMMA QuietAgree ==
    ASSUME NEW p \in Peers, AgreeAt(p), poll.stage # "log", poll'.stage # "log",
           UNCHANGED <<total, sessions, issued, flow, sess>>, logged'[p] = logged[p],
           p \in Tracked' => p \in Tracked
    PROVE  AgreeAt(p)'
  <1>1. SessionsOf(p)' = SessionsOf(p)
    BY DEF SessionsOf
  <1>2. QED BY <1>1, AgreeKept

LEMMA ChargeAgree ==
    ASSUME TypeInv, AmountInv, StrayInv, NEW p \in Peers, NEW mine \in SUBSET Conns, NEW next,
           NEW todo, poll.stage \in {"shared", "charge"}, poll' = ToLog(p, mine, next, todo),
           AddToTotal(p, mine), UNCHANGED <<logged, sessions, issued, online, flow, sess>>,
           NEW q \in Peers, row[q] # "gone", AgreeAt(q)
    PROVE  AgreeAt(q)'
  <1> DEFINE queue == {c \in mine : poll.delta[c] > 0}
  <1>0. poll \in Poll
    BY DEF TypeInv
  <1>1. /\ poll'.stage = "log" /\ poll'.cur = p /\ poll'.mine = mine /\ poll'.queue = queue
        /\ poll'.delta = poll.delta
    BY <1>0 DEF ToLog, Poll
  <1>2. Tracked' = Tracked
    BY <1>1 DEF Tracked
  <1>3. CASE q # p
    <2>1. total'[q] = total[q] /\ SessionsOf(q)' = SessionsOf(q)
      BY <1>3 DEF AddToTotal, AmountInv, SessionsOf
    <2>2. QED BY <1>1, <1>2, <1>3, <2>1, AgreeKept
  <1>4. CASE q = p
    <2>1. /\ Of(p, poll.queue) = {} /\ Of(p, poll.mine) = {}
          /\ Of(p, poll.queue)' = queue /\ Of(p, poll.mine)' = mine
      BY <1>1 DEF Of
    <2>2. IsFiniteSet(mine) /\ Sum(poll.delta, mine) \in Nat /\
            \A c \in mine : poll.delta[c] \in Nat
      BY DeltaSum
    <2>3. Sum(poll.delta, queue) = Sum(poll.delta, mine)
      <3>1. queue \in SUBSET mine /\ \A c \in mine \ queue : poll.delta[c] = 0
        BY <2>2
      <3> HIDE DEF queue
      <3>2. QED BY <2>2, <3>1, SumSupport
    <2>4. total'[p] = total[p] + Sum(poll.delta, mine)
      BY <1>4 DEF AddToTotal, AmountInv
    <2>5. /\ total[p] = logged[p]
          /\ total[p] = SessionSum(SessionsOf(p), issued) + flow[p]
          /\ logged[p] \in Nat /\ flow[p] \in Nat /\ total[p] \in Nat
          /\ SessionSum(SessionsOf(p), issued) \in Nat
      BY <1>4, <2>1, AgreeTypes, SumEmpty DEF AgreeAt
    <2>6. SessionSum(SessionsOf(p), issued)' = SessionSum(SessionsOf(p), issued)
      BY DEF SessionSum, SessionsOf, BytesOf
    <2>7. p \in Tracked' => Held(p)' \in sessions'
      BY <1>2, <1>4 DEF AgreeAt, Held
    <2>8. total'[p] = logged'[p] + Sum(poll'.delta, Of(p, poll.queue)')
      BY <1>1, <2>1, <2>2, <2>3, <2>4, <2>5
    <2>9. total'[p] = SessionSum(SessionsOf(p), issued)' + flow'[p] +
            Sum(poll'.delta, Of(p, poll.mine)')
      BY <1>1, <2>1, <2>2, <2>4, <2>5, <2>6
    <2>10. AgreeAt(p)'
      BY <2>7, <2>8, <2>9 DEF AgreeAt
    <2>11. QED BY <1>4, <2>10
  <1>5. QED BY <1>3, <1>4

LEMMA LogAgree ==
    ASSUME TypeInv, AmountInv, StrayInv, Charging, NEW c \in Conns, LogConn(c), ~Fault,
           NEW q \in Peers, row[q] # "gone", AgreeAt(q)
    PROVE  AgreeAt(q)'
  <1>0. poll \in Poll /\ poll.stage = "log" /\ c \in poll.queue /\ poll.cur \in Peers
    BY DEF TypeInv, LogConn, Charging
  <1>1. /\ UNCHANGED <<total, sessions, issued, flow, sess, online>>
        /\ row[poll.cur] # "gone" => logged' = [logged EXCEPT ![poll.cur] = @ + poll.delta[c]]
        /\ logged' \in {logged, [logged EXCEPT ![poll.cur] = @ + poll.delta[c]]}
    BY DEF LogConn, memory
  <1>2. /\ poll'.stage = "log" /\ poll'.cur = poll.cur /\ poll'.mine = poll.mine
        /\ poll'.queue = poll.queue \ {c} /\ poll'.delta = poll.delta
    BY <1>0 DEF LogConn, Poll
  <1>3. Tracked' = Tracked /\ SessionsOf(q)' = SessionsOf(q)
    BY <1>0, <1>1, <1>2 DEF Tracked, SessionsOf
  <1>4. CASE q # poll.cur
    <2>1. logged'[q] = logged[q]
      BY <1>1, <1>4 DEF AmountInv, Somebody
    <2>2. QED BY <1>1, <1>2, <1>3, <1>4, <2>1, AgreeKept
  <1>5. CASE q = poll.cur
    <2>1. /\ Of(q, poll.queue) = poll.queue /\ Of(q, poll.mine) = poll.mine
          /\ Of(q, poll.queue)' = poll.queue \ {c} /\ Of(q, poll.mine)' = poll.mine
      BY <1>0, <1>2, <1>5 DEF Of
    <2>2. logged'[q] = logged[q] + poll.delta[c]
      BY <1>1, <1>5 DEF AmountInv, Somebody
    <2>3. /\ Sum(poll.delta, poll.queue) = poll.delta[c] + Sum(poll.delta, poll.queue \ {c})
          /\ poll.delta[c] \in Nat /\ Sum(poll.delta, poll.queue \ {c}) \in Nat
      <3> DEFINE queue == poll.queue
                 rest  == poll.queue \ {c}
      <3>1. /\ IsFiniteSet(queue) /\ \A d \in queue : poll.delta[d] \in Nat
            /\ Sum(poll.delta, rest) \in Nat /\ rest = queue \ {c}
        BY MineType, DeltaSum
      <3> HIDE DEF queue, rest
      <3>2. Sum(poll.delta, queue) = poll.delta[c] + Sum(poll.delta, queue \ {c})
        BY <1>0, <3>1, SumRemove DEF queue
      <3>3. QED BY <1>0, <3>1, <3>2 DEF queue, rest
    <2>4. /\ total[q] = logged[q] + Sum(poll.delta, poll.queue)
          /\ total[q] = SessionSum(SessionsOf(q), issued) + flow[q] + Sum(poll.delta, poll.mine)
          /\ logged[q] \in Nat
      BY <2>1, AgreeTypes DEF AgreeAt
    <2>5. SessionSum(SessionsOf(q), issued)' = SessionSum(SessionsOf(q), issued)
      BY <1>1, <1>3 DEF SessionSum, BytesOf
    <2>6. q \in Tracked' => Held(q)' \in sessions'
      BY <1>1, <1>3 DEF AgreeAt, Held
    <2>7. total'[q] = logged'[q] + Sum(poll'.delta, Of(q, poll.queue)')
      <3>1. /\ total'[q] = total[q]
            /\ Sum(poll'.delta, Of(q, poll.queue)') = Sum(poll.delta, poll.queue \ {c})
        BY <1>1, <1>2, <2>1
      <3>2. QED BY <2>2, <2>3, <2>4, <3>1
    <2>8. total'[q] = SessionSum(SessionsOf(q), issued)' + flow'[q] +
            Sum(poll'.delta, Of(q, poll.mine)')
      <3>1. /\ total'[q] = total[q] /\ flow'[q] = flow[q]
            /\ Sum(poll'.delta, Of(q, poll.mine)') = Sum(poll.delta, poll.mine)
        BY <1>1, <1>2, <2>1
      <3>2. QED BY <2>4, <2>5, <3>1
    <2>9. QED BY <2>6, <2>7, <2>8 DEF AgreeAt
  <1>6. QED BY <1>4, <1>5

LEMMA LoggedAgree ==
    ASSUME TypeInv, AmountInv, StrayInv, Charging, Logged, NEW q \in Peers, AgreeAt(q)
    PROVE  AgreeAt(q)'
  <1>0. poll \in Poll /\ poll.stage = "log" /\ poll.queue = {} /\ poll.cur \in Peers
    BY DEF TypeInv, Logged, Charging
  <1>1. /\ UNCHANGED <<total, logged, sessions, issued, sess, online>>
        /\ flow' = [flow EXCEPT ![poll.cur] = @ + Sum(poll.delta, poll.mine)]
        /\ poll'.stage \in {"shared", "users"} /\ poll'.delta = poll.delta
    BY <1>0 DEF Logged, tables, Poll
  <1>2. Tracked' = Tracked /\ SessionsOf(q)' = SessionsOf(q)
    BY <1>0, <1>1 DEF Tracked, SessionsOf
  <1>3. CASE q # poll.cur
    <2>1. flow'[q] = flow[q]
      BY <1>1, <1>3 DEF AmountInv
    <2>2. QED BY <1>1, <1>2, <1>3, <2>1, AgreeKept
  <1>4. CASE q = poll.cur
    <2>1. /\ Of(q, poll.queue) = {} /\ Of(q, poll.mine) = poll.mine
          /\ Of(q, poll.queue)' = {} /\ Of(q, poll.mine)' = {}
      BY <1>0, <1>1, <1>4 DEF Of
    <2>2. flow'[q] = flow[q] + Sum(poll.delta, poll.mine)
      BY <1>1, <1>4 DEF AmountInv
    <2>3. Sum(poll.delta, {}) = 0 /\ Sum(poll.delta, poll.mine) \in Nat
      BY SumEmpty, MineType, DeltaSum
    <2>4. /\ total[q] = logged[q] + Sum(poll.delta, {})
          /\ total[q] = SessionSum(SessionsOf(q), issued) + flow[q] + Sum(poll.delta, poll.mine)
          /\ logged[q] \in Nat /\ flow[q] \in Nat /\ SessionSum(SessionsOf(q), issued) \in Nat
      BY <2>1, AgreeTypes DEF AgreeAt
    <2>5. SessionSum(SessionsOf(q), issued)' = SessionSum(SessionsOf(q), issued)
      BY <1>1, <1>2 DEF SessionSum, BytesOf
    <2>6. q \in Tracked' => Held(q)' \in sessions'
      BY <1>1, <1>2 DEF AgreeAt, Held
    <2>7. total'[q] = logged'[q] + Sum(poll'.delta, Of(q, poll.queue)')
      BY <1>1, <2>1, <2>4
    <2>8. total'[q] = SessionSum(SessionsOf(q), issued)' + flow'[q] +
            Sum(poll'.delta, Of(q, poll.mine)')
      BY <1>1, <2>1, <2>2, <2>3, <2>4, <2>5
    <2>9. QED BY <2>6, <2>7, <2>8 DEF AgreeAt
  <1>5. QED BY <1>3, <1>4

LEMMA StartAgree ==
    ASSUME TypeInv, AmountInv, AmountInv', StrayInv, StrayInv', NEW p \in Peers, StartSession(p),
            ~Fault,
           NEW q \in Peers, row[q] # "gone", AgreeAt(q)
    PROVE  AgreeAt(q)'
  <1>0. /\ poll \in Poll /\ poll.stage = "start" /\ p \in poll.todo /\ issued \in Nat
        /\ sess \in [Peers -> Nat]
    BY DEF TypeInv, StartSession
  <1>1. /\ UNCHANGED <<total, logged, flow, online>>
        /\ poll'.stage = "start" /\ poll'.todo = poll.todo \ {p} /\ poll'.now = poll.now
    BY <1>0 DEF StartSession, Poll
  <1> DEFINE new == [peer |-> p, id |-> issued + 1, open |-> TRUE, bytes |-> 0]
  <1>2. \/ UNCHANGED <<issued, sess, sessions>> /\ row[p] = "gone"
        \/ /\ issued' = issued + 1 /\ sess' = [sess EXCEPT ![p] = issued + 1]
           /\ sessions' = sessions \cup {new}
    BY DEF StartSession
  <1>3. Tracked' \subseteq Tracked \cup {p}
    BY <1>0, <1>1 DEF Tracked
  <1>4. CASE UNCHANGED <<issued, sess, sessions>> /\ row[p] = "gone"
    <2>1. q # p /\ SessionsOf(q)' = SessionsOf(q)
      BY <1>4 DEF SessionsOf
    <2>2. QED BY <1>0, <1>1, <1>3, <1>4, <2>1, AgreeKept
  <1>5. CASE /\ issued' = issued + 1 /\ sess' = [sess EXCEPT ![p] = issued + 1]
             /\ sessions' = sessions \cup {new}
    <2>1. new.id = issued + 1 /\ new.bytes = 0 /\ new.peer = p
      OBVIOUS
    <2>2. /\ SessionsOf(q) \subseteq Session /\ Distinct(SessionsOf(q))
          /\ SessionsOf(q)' \subseteq Session /\ Distinct(SessionsOf(q)')
      BY DEF SessionsOf, Distinct, StrayInv, AmountInv
    <2>3. /\ SessionsOf(q) \subseteq SessionsOf(q)' /\ \A s \in SessionsOf(q) : s.id <= issued
          /\ \A s \in SessionsOf(q)' \ SessionsOf(q) : s.id = issued + 1 /\ s.bytes = 0
      BY <1>5, <2>1 DEF SessionsOf, StrayInv
    <2>4. SessionSum(SessionsOf(q)', issued + 1) = SessionSum(SessionsOf(q), issued)
      <3> DEFINE S == SessionsOf(q)
                 T == SessionsOf(q)'
      <3> HIDE DEF S, T, new
      <3>1. /\ S \subseteq Session /\ Distinct(S) /\ T \subseteq Session /\ Distinct(T)
            /\ S \subseteq T /\ \A s \in S : s.id <= issued
            /\ \A s \in T \ S : s.id = issued + 1 /\ s.bytes = 0
        BY <2>2, <2>3 DEF S, T
      <3>2. SessionSum(T, issued + 1) = SessionSum(S, issued)
        BY <1>0, <3>1, SessionBegins
      <3>3. QED BY <3>2 DEF S, T
    <2>5. SessionSum(SessionsOf(q), issued)' = SessionSum(SessionsOf(q), issued)
      <3>1. SessionSum(SessionsOf(q), issued)' = SessionSum(SessionsOf(q)', issued')
        BY DEF SessionSum, BytesOf
      <3>2. SessionSum(SessionsOf(q)', issued') = SessionSum(SessionsOf(q)', issued + 1)
        BY <1>5
      <3>3. QED BY <2>4, <3>1, <3>2
    <2>6. /\ Of(q, poll.queue) = {} /\ Of(q, poll.mine) = {}
          /\ Of(q, poll.queue)' = {} /\ Of(q, poll.mine)' = {}
      BY <1>0, <1>1 DEF Of
    <2>7. Sum(poll'.delta, {}) = Sum(poll.delta, {})
      BY SumEmpty
    <2>8. q \in Tracked' => Held(q)' \in sessions'
      <3>1. CASE q = p
        <4>1. Held(q)' = new
          BY <1>0, <1>5, <3>1 DEF Held
        <4>2. QED BY <1>5, <4>1
      <3>2. CASE q # p
        <4>1. Held(q)' = Held(q)
          BY <1>0, <1>5, <3>2 DEF Held
        <4>2. QED BY <1>3, <1>5, <3>2, <4>1 DEF AgreeAt
      <3>3. QED BY <3>1, <3>2
    <2>9. total'[q] = logged'[q] + Sum(poll'.delta, Of(q, poll.queue)')
      BY <1>1, <2>6, <2>7 DEF AgreeAt
    <2>10. total'[q] = SessionSum(SessionsOf(q), issued)' + flow'[q] +
            Sum(poll'.delta, Of(q, poll.mine)')
      <3>1. total'[q] = total[q] /\ flow'[q] = flow[q]
        BY <1>1
      <3>2. total[q] = SessionSum(SessionsOf(q), issued) + flow[q] + Sum(poll.delta, {})
        BY <2>6 DEF AgreeAt
      <3>3. QED BY <2>5, <2>6, <2>7, <3>1, <3>2
    <2>11. QED BY <2>8, <2>9, <2>10 DEF AgreeAt
  <1>6. QED BY <1>2, <1>4, <1>5

(* What closing the session of p does to the sessions of q.                 *)
LEMMA CloseOthers ==
    ASSUME TypeInv, HoldInv, NEW p \in Peers, NEW b, sessions' = Closed(sess[p], b),
           NEW q \in Peers, q # p
    PROVE  SessionsOf(q)' = SessionsOf(q)
  <1> DEFINE close(s) == IF s.id = sess[p] THEN [s EXCEPT !.open = FALSE, !.bytes = b] ELSE s
  <1>1. sessions' = {close(s) : s \in sessions}
    BY DEF Closed
  <1>2. ASSUME NEW s \in sessions
        PROVE  close(s).peer = s.peer /\ (s.peer = q => close(s) = s)
    <2>1. IsSession(s)
      BY DEF TypeInv
    <2>2. s.id = sess[p] => s.peer = p
      BY DEF HoldInv
    <2>3. QED BY <2>1, <2>2 DEF IsSession
  <1> HIDE DEF close
  <1>3. QED BY <1>1, <1>2 DEF SessionsOf

LEMMA EndAgree ==
    ASSUME TypeInv, AmountInv, AmountInv', StrayInv, StrayInv', HoldInv, PollInv,
           NEW p \in Peers, EndSession(p), ~Fault, NEW q \in Peers, AgreeAt(q)
    PROVE  AgreeAt(q)'
  <1>0. /\ poll \in Poll /\ poll.stage = "end" /\ p \in poll.todo /\ issued \in Nat
        /\ sess \in [Peers -> Nat] /\ flow \in [Peers -> Nat]
    BY DEF TypeInv, AmountInv, EndSession, EndSessionWith
  <1>1. /\ UNCHANGED <<total, logged, online, issued>>
        /\ sess' = [sess EXCEPT ![p] = 0] /\ flow' = [flow EXCEPT ![p] = 0]
        /\ sessions' = Closed(sess[p], flow[p])
        /\ poll'.stage = "end" /\ poll'.todo = poll.todo \ {p} /\ poll'.now = poll.now
    BY <1>0 DEF EndSession, EndSessionWith, Poll
  <1>2. Tracked = poll.now \cup poll.todo /\ Tracked' = Tracked \ {p}
    BY <1>0, <1>1 DEF Tracked, PollInv
  <1>3. CASE q # p
    <2>1. SessionsOf(q)' = SessionsOf(q)
      BY <1>1, <1>3, CloseOthers
    <2>2. flow'[q] = flow[q] /\ sess'[q] = sess[q]
      BY <1>0, <1>1, <1>3
    <2>3. QED BY <1>0, <1>1, <1>2, <2>1, <2>2, AgreeKept
  <1>4. CASE q = p
    <2> DEFINE x == Held(p)
               y == [peer |-> p, id |-> sess[p], open |-> FALSE, bytes |-> flow[p]]
    <2>1. x \in sessions
      BY <1>0, <1>2, <1>4 DEF AgreeAt
    <2>2. /\ x.id = sess[p] /\ x.bytes = 0 /\ x.peer = p /\ y.id = sess[p] /\ y.bytes = flow[p]
          /\ y.peer = p
      BY DEF Held
    <2>3. sess[p] \in 1 .. issued
      <3>1. x.id \in Nat \ {0} /\ x.id <= issued
        BY <2>1 DEF TypeInv, IsSession, StrayInv
      <3>2. QED BY <1>0, <2>2, <3>1
    <2>4. \A s \in sessions : s.id = sess[p] => s = x
      BY <2>1, <2>2 DEF StrayInv
    <2>5. sessions' = (sessions \ {x}) \cup {y}
      <3> DEFINE close(s) == IF s.id = sess[p] THEN
                         [s EXCEPT !.open = FALSE, !.bytes = flow[p]] ELSE s
      <3>1. close(x) = y
        BY DEF Held
      <3>2. sessions' = {close(s) : s \in sessions}
        BY <1>1 DEF Closed
      <3>3. \A s \in sessions \ {x} : close(s) = s
        BY <2>4
      <3> HIDE DEF close, x, y
      <3>4. QED BY <2>1, <3>1, <3>2, <3>3
    <2> HIDE DEF x, y
    <2>6. y \notin sessions \ {x}
      BY <2>2, <2>4
    <2> DEFINE S == SessionsOf(p)
               T == SessionsOf(p)'
    <2>7. /\ x \in S /\ y \in T /\ T \ {y} = S \ {x}
      BY <2>1, <2>2, <2>5, <2>6 DEF SessionsOf
    <2>8. S \subseteq Session /\ Distinct(S) /\ T \subseteq Session /\ Distinct(T)
      BY DEF SessionsOf, Distinct, StrayInv, AmountInv
    <2>9. /\ SessionSum(SessionsOf(p), issued)' = SessionSum(T, issued)
          /\ SessionSum(SessionsOf(p), issued) = SessionSum(S, issued)
      BY <1>1 DEF SessionSum, BytesOf
    <2> HIDE DEF S, T
    <2>10. SessionSum(T, issued) = SessionSum(S, issued) + y.bytes
      BY <1>0, <2>2, <2>3, <2>7, <2>8, SessionEnds
    <2>11. /\ Of(p, poll.queue) = {} /\ Of(p, poll.mine) = {}
           /\ Of(p, poll.queue)' = {} /\ Of(p, poll.mine)' = {}
      BY <1>0, <1>1 DEF Of
    <2>12. Sum(poll'.delta, {}) = 0 /\ Sum(poll.delta, {}) = 0
      BY SumEmpty
    <2>13. p \notin Tracked'
      BY <1>2
    <2>14. /\ total[p] = logged[p] + 0
           /\ total[p] = SessionSum(SessionsOf(p), issued) + flow[p] + 0
           /\ SessionSum(SessionsOf(p), issued) \in Nat /\ flow[p] \in Nat /\ logged[p] \in Nat
      BY <1>4, <2>11, <2>12, AgreeTypes DEF AgreeAt
    <2>15. total'[p] = total[p] /\ logged'[p] = logged[p] /\ flow'[p] = 0
      BY <1>0, <1>1
    <2>16. total'[p] = logged'[p] + Sum(poll'.delta, Of(p, poll.queue)')
      BY <2>11, <2>12, <2>14, <2>15
    <2>17. total'[p] = SessionSum(SessionsOf(p), issued)' + flow'[p] +
            Sum(poll'.delta, Of(p, poll.mine)')
      BY <2>2, <2>9, <2>10, <2>11, <2>12, <2>14, <2>15
    <2>18. AgreeAt(p)'
      BY <2>13, <2>16, <2>17 DEF AgreeAt
    <2>19. QED BY <1>4, <2>18
  <1>5. QED BY <1>3, <1>4

(* The stages of a poll between which nobody is charged.                    *)
Quiet == Fetch \/ Identified \/ LogUnclaimed \/ UsersDone \/ Started \/ Finish
         \/ (\E c \in Conns : Identify(c)) \/ (\E p \in Peers : Lookup(p))

LEMMA QuietStep ==
    ASSUME TypeInv, AmountInv, Quiet, NEW q \in Peers, AgreeAt(q)
    PROVE  AgreeAt(q)'
  <1>0. poll \in Poll /\ Nobody \notin Peers
    BY StatsAssumption DEF TypeInv
  <1>1. CASE Fetch
    <2>1. poll.stage = "idle" /\ poll'.stage = "match"
      BY <1>1, FetchPoll
    <2>2. QED BY <1>1, <2>1, QuietAgree DEF Fetch, FetchWith, Tracked, tables
  <1>2. CASE Identified
    <2>1. poll.stage = "match" /\ poll'.stage = "shared"
      BY <1>0, <1>2 DEF Identified, Poll
    <2>2. QED BY <1>2, <2>1, QuietAgree DEF Identified, Tracked, tables, memory
  <1>3. CASE LogUnclaimed
    <2>1. poll.stage = "shared" /\ poll'.stage = "users"
      BY <1>0, <1>3 DEF LogUnclaimed, Poll
    <2>2. PICK n : logged' \in {logged, [logged EXCEPT ![Nobody] = n]}
      BY <1>3 DEF LogUnclaimed
    <2>3. logged'[q] = logged[q]
      BY <1>0, <2>2 DEF AmountInv, Somebody
    <2>4. UNCHANGED <<total, sessions, issued, online, flow, sess>>
      BY <1>3 DEF LogUnclaimed, memory
    <2>5. Tracked' = Tracked
      BY <2>1, <2>4 DEF Tracked
    <2>6. QED BY <2>1, <2>3, <2>4, <2>5, QuietAgree
  <1>4. CASE UsersDone
    <2>1. /\ poll.stage = "users" /\ poll'.stage = "start" /\ poll'.now = poll.now
          /\ poll'.todo = poll.now \ online
      BY <1>0, <1>4 DEF UsersDone, Poll
    <2>2. UNCHANGED <<total, logged, sessions, issued, online, flow, sess>>
      BY <1>4 DEF UsersDone, tables, memory
    <2>3. Tracked' = Tracked
      BY <2>1, <2>2 DEF Tracked
    <2>4. QED BY <2>1, <2>2, <2>3, QuietAgree
  <1>5. CASE Started
    <2>1. /\ poll.stage = "start" /\ poll'.stage = "end" /\ poll'.now = poll.now /\ poll.todo = {}
          /\ poll'.todo = online \ poll.now
      BY <1>0, <1>5 DEF Started, Poll
    <2>2. UNCHANGED <<total, logged, sessions, issued, online, flow, sess>>
      BY <1>5 DEF Started, tables, memory
    <2>3. Tracked' = Tracked
      BY <2>1, <2>2 DEF Tracked
    <2>4. QED BY <2>1, <2>2, <2>3, QuietAgree
  <1>6. CASE Finish
    <2>1. poll.stage = "end" /\ poll'.stage = "idle" /\ poll.todo = {} /\ online' = poll.now
      BY <1>6 DEF Finish, FinishForgetting, NoPoll
    <2>2. UNCHANGED <<total, logged, sessions, issued, flow, sess>>
      BY <1>6 DEF Finish, FinishForgetting, tables
    <2>3. Tracked' = Tracked
      BY <2>1 DEF Tracked
    <2>4. QED BY <2>1, <2>2, <2>3, QuietAgree
  <1>7. ASSUME NEW c \in Conns, Identify(c) PROVE AgreeAt(q)'
    <2>1. poll.stage = "match" /\ poll'.stage = "match"
      BY <1>0, <1>7 DEF Identify, Poll
    <2>2. QED BY <1>7, <2>1, QuietAgree DEF Identify, Tracked, tables
  <1>8. ASSUME NEW p \in Peers, Lookup(p) PROVE AgreeAt(q)'
    <2>1. poll.stage = "users" /\ poll'.stage \in {"users", "charge"}
      BY <1>0, <1>8 DEF Lookup, Poll
    <2>2. UNCHANGED <<total, logged, sessions, issued, online, flow, sess>>
      BY <1>8 DEF Lookup, tables, memory
    <2>3. Tracked' = Tracked
      BY <2>1, <2>2 DEF Tracked
    <2>4. QED BY <2>1, <2>2, <2>3, QuietAgree
  <1>9. QED BY <1>1, <1>2, <1>3, <1>4, <1>5, <1>6, <1>7, <1>8 DEF Quiet

LEMMA AdministrationAgree ==
    ASSUME TypeInv, AmountInv, EraseInv, Administration \/ Traffic, NEW q \in Peers \ erased',
           AgreeAt(q)
    PROVE  AgreeAt(q)'
  <1>1. UNCHANGED <<total, issued, flow, sess, poll, online>>
    <2>1. CASE Administration
      BY <2>1, Administrative DEF memory
    <2>2. CASE Traffic
      BY <2>2 DEF Traffic, Opens, Transfers, Closes, tables, memory
    <2>3. QED BY <2>1, <2>2
  <1>2. logged'[q] = logged[q] /\ SessionsOf(q)' = SessionsOf(q)
    <2>1. CASE DeleteLogs
      <3>1. del.peer # q /\ UNCHANGED sessions /\ logged' = [logged EXCEPT ![del.peer] = 0]
        BY <2>1 DEF DeleteLogs
      <3>2. QED BY <3>1 DEF SessionsOf, AmountInv, Somebody
    <2>2. CASE DeleteSessions
      <3>1. del.peer # q /\ UNCHANGED logged /\ sessions' = {s \in sessions : s.peer # del.peer}
        BY <2>2 DEF DeleteSessions, EraseInv, history
      <3>2. QED BY <3>1 DEF SessionsOf
    <2>3. ASSUME UNCHANGED <<logged, sessions>>
          PROVE  logged'[q] = logged[q] /\ SessionsOf(q)' = SessionsOf(q)
      BY <2>3 DEF SessionsOf
    <2>4. CASE Administration /\ ~DeleteLogs /\ ~DeleteSessions
      BY <2>3, <2>4 DEF Administration, TogglePeer, DeletePeer, DeleteRow, DeleteFails, vars, tables
    <2>5. CASE Traffic
      BY <2>3, <2>5 DEF Traffic, Opens, Transfers, Closes, tables
    <2>6. QED BY <2>1, <2>2, <2>4, <2>5
  <1>3. Tracked' = Tracked
    BY <1>1 DEF Tracked
  <1>4. QED BY <1>1, <1>2, <1>3, AgreeKept

LEMMA AgreeStep ==
    ASSUME MoneyInv, MoneyInv', StrayInv, StrayInv', EraseInv, HoldInv, AgreeInv, [Next]_vars
    PROVE  AgreeInv'
  <1>0. /\ TypeInv /\ Charging /\ AmountInv /\ AmountInv' /\ PollInv
    BY DEF MoneyInv, Inv
  <1> SUFFICES ASSUME Undisturbed', NEW q \in Peers \ erased' PROVE AgreeAt(q)'
    BY DEF AgreeInv
  <1>u. Undisturbed
    BY <1>0, DisturbanceStays
  <1>f. ~Fault /\ ~Crash
    BY <1>u DEF Fault, Crash, Undisturbed
  <1>q. q \in Peers /\ AgreeAt(q) /\ row[q] # "gone"
    BY <1>0, <1>u, EraseStep DEF AgreeInv, EraseInv
  <1>1. CASE Quiet
    BY <1>0, <1>1, <1>q, QuietStep
  <1>2. ASSUME NEW p \in Peers, ChargeShared(p) PROVE AgreeAt(q)'
    <2> DEFINE mine == {c \in Conns : poll.claim[c] = p}
    <2>1. /\ poll.stage = "shared" /\ AddToTotal(p, mine)
          /\ poll' = ToLog(p, mine, "shared", poll.todo \ {p})
          /\ UNCHANGED <<logged, sessions, issued, online, flow, sess>>
      BY <1>2, <1>f DEF ChargeShared, memory
    <2>2. mine \in SUBSET Conns
      OBVIOUS
    <2> HIDE DEF mine
    <2>3. QED BY <1>0, <1>q, <2>1, <2>2, ChargeAgree
  <1>3. CASE ChargeUser
    <2> DEFINE mine == {c \in poll.seen : User[c] = poll.cur}
    <2>1. /\ poll.stage = "charge" /\ poll.cur \in Peers /\ AddToTotal(poll.cur, mine)
          /\ poll' = ToLog(poll.cur, mine, "users", poll.todo)
          /\ UNCHANGED <<logged, sessions, issued, online, flow, sess>>
      BY <1>0, <1>3, <1>f DEF ChargeUser, Charging
    <2>2. mine \in SUBSET Conns
      BY <1>0, MineType
    <2> HIDE DEF mine
    <2>3. QED BY <1>0, <1>q, <2>1, <2>2, ChargeAgree
  <1>4. ASSUME NEW c \in Conns, LogConn(c) PROVE AgreeAt(q)'
    BY <1>0, <1>4, <1>f, <1>q, LogAgree
  <1>5. CASE Logged
    BY <1>0, <1>5, <1>q, LoggedAgree
  <1>6. ASSUME NEW p \in Peers, StartSession(p) PROVE AgreeAt(q)'
    BY <1>0, <1>6, <1>f, <1>q, StartAgree
  <1>7. ASSUME NEW p \in Peers, EndSession(p) PROVE AgreeAt(q)'
    BY <1>0, <1>7, <1>f, <1>q, EndAgree
  <1>8. CASE Administration \/ Traffic
    BY <1>0, <1>8, <1>q, AdministrationAgree
  <1>9. CASE PollStep
    BY <1>1, <1>2, <1>3, <1>4, <1>5, <1>6, <1>7, <1>9 DEF PollStep, Quiet
  <1>10. CASE ~PollStep
    BY <1>8, <1>10, <1>f, Steps DEF PollStep
  <1>11. QED BY <1>9, <1>10

(* Between two polls the total of a peer, its log, and its sessions with the *)
(* counter of the current one agree, for any clients and connections and     *)
(* however toggles, deletions of others and traffic interleave with collect(), *)
(* as long as no statement fails and the process lives.                      *)
THEOREM AgreeCorrect == Spec => []AccountsAgree
  <1> DEFINE All == MoneyInv /\ StrayInv /\ EraseInv /\ HoldInv /\ AgreeInv
  <1>1. Init => All
    <2>1. ASSUME Init PROVE StrayInv /\ EraseInv /\ HoldInv
      <3>1. StrayInv
        BY <2>1, StrayInit
      <3>2. EraseInv /\ HoldInv
        BY <2>1 DEF Init, EraseInv, HoldInv, NoDeletion
      <3>3. QED BY <3>1, <3>2
    <2>2. ASSUME Init, NEW p \in Peers PROVE AgreeAt(p)
      <3>1. /\ total[p] = 0 /\ logged[p] = 0 /\ flow[p] = 0 /\ issued = 0
            /\ poll.stage = "idle" /\ online = {}
        BY <2>2 DEF Init, NoPoll, Somebody
      <3>2. Of(p, poll.queue) = {} /\ Of(p, poll.mine) = {} /\ p \notin Tracked
        BY <3>1 DEF Of, Tracked
      <3>3. SessionSum(SessionsOf(p), issued) = 0
        <4>1. 1 .. 0 = {}
          OBVIOUS
        <4>2. QED BY <3>1, <4>1, SumEmpty DEF SessionSum
      <3>4. Sum(poll.delta, {}) = 0
        BY SumEmpty
      <3>5. QED BY <3>1, <3>2, <3>3, <3>4 DEF AgreeAt
    <2>3. QED BY <2>1, <2>2, MoneyInit DEF AgreeInv
  <1>2. All /\ [Next]_vars => All'
    <2>1. ASSUME All, [Next]_vars PROVE MoneyInv' /\ StrayInv' /\ EraseInv' /\ HoldInv'
      BY <2>1, MoneyStep, StrayStep, EraseStep, HoldStep DEF MoneyInv, Inv
    <2>2. QED BY <2>1, AgreeStep
  <1>3. All => AccountsAgree
    <2> SUFFICES ASSUME All, BetweenPolls, Undisturbed, NEW p \in Peers \ erased
                 PROVE  /\ total[p] = logged[p]
                        /\ total[p] = SessionSum(SessionsOf(p), issued) + flow[p]
      BY DEF AccountsAgree, SessionSum, BytesOf, SessionsOf
    <2>1. AgreeAt(p) /\ p \in Peers
      BY DEF AgreeInv
    <2>2. Of(p, poll.queue) = {} /\ Of(p, poll.mine) = {} /\ Sum(poll.delta, {}) = 0
      BY SumEmpty DEF Of, BetweenPolls
    <2>3. /\ logged[p] \in Nat /\ flow[p] \in Nat /\ SessionSum(SessionsOf(p), issued) \in Nat
      BY <2>1, AgreeTypes DEF MoneyInv, Inv
    <2>4. QED BY <2>1, <2>2, <2>3 DEF AgreeAt
  <1> HIDE DEF All
  <1>4. QED
    BY <1>1, <1>2, <1>3, PTL DEF Spec
=============================================================================

-------------------------- MODULE ConfigSyncProofs --------------------------
(***************************************************************************)
(* Proofs about ConfigSync, for any number of handlers, peers, rules and   *)
(* requests.                                                               *)
(***************************************************************************)
EXTENDS ConfigSync, TLAPS

USE DEF Procs

(* What a configuration generated from well-typed tables is.               *)
LEMMA GenerateType == ASSUME NEW t \in Tables PROVE Generate(t) \in Config
  BY DEF Generate, Config, Tables

LEMMA NoSnapType == NoSnap \in Tables
  BY ConstantsAssumption DEF NoSnap, Tables, Status

LEMMA FreshType == ASSUME NEW op \in Ops, NEW s \in Stages PROVE Fresh(op, s) \in Request
  BY NoSnapType DEF Fresh, Request

LEMMA IdleType == Idle \in Request
  <1>1. [kind |-> "sync"] \in Ops
    BY DEF Ops
  <1>2. QED BY <1>1, FreshType DEF Idle, Stages

LEMMA InitType == Init => TypeOK
  <1> SUFFICES ASSUME Init PROVE TypeOK
    OBVIOUS
  <1>1. peers \in [Peers -> Status] /\ rules \in [rows : [Rules -> Status], order : Orders]
    BY NoSnapType DEF Init, Tables
  <1>2. dns \in Upstreams
    BY ConstantsAssumption DEF Init
  <1>3. req \in [Procs -> Request]
    BY IdleType DEF Init
  <1>4. QED
    BY <1>1, <1>2, <1>3 DEF Init, TypeOK

(* Privately, Publicly and Finish keep req well-typed.                     *)
LEMMA PrivatelyType ==
    ASSUME TypeOK, NEW g \in Procs, NEW r \in Request, Privately(g, r)
    PROVE  req' \in [Procs -> Request] /\ excused' \in BOOLEAN
  BY DEF TypeOK, Privately

LEMMA PubliclyType ==
    ASSUME TypeOK, NEW g \in Procs, NEW r \in Request, Publicly(g, r)
    PROVE  req' \in [Procs -> Request] /\ excused' \in BOOLEAN
  <1>1. ASSUME NEW h \in Procs PROVE [req[h] EXCEPT !.clean = FALSE] \in Request
    BY DEF TypeOK, Request
  <1>2. req' \in [Procs -> Request]
    BY <1>1 DEF Publicly
  <1>3. excused' \in BOOLEAN
    BY DEF Publicly, TypeOK
  <1>4. QED BY <1>2, <1>3

LEMMA FinishType ==
    ASSUME TypeOK, NEW g \in Procs, NEW o \in {"failed", "unpublished"}, Finish(g, o)
    PROVE  req' \in [Procs -> Request] /\ excused' \in BOOLEAN
  BY NoSnapType DEF TypeOK, Finish, Request, Stages

(* Every step of a handler before it publishes keeps the types.            *)
LEMMA AcceptType == ASSUME TypeOK, NEW h \in Handlers, Accept(h) PROVE TypeOK'
  <1> DEFINE Fits(op, s) == Privately(h, Fresh(op, s)) /\ requests' \in {requests, requests + 1}
  <1>1. \E op \in Ops, s \in Stages : Fits(op, s)
    <2>1. ASSUME NEW op \in Ops, Requested(h, op)
          PROVE  \E o \in Ops, s \in Stages : Fits(o, s)
      BY <2>1 DEF Requested, Stages
    <2> HIDE DEF Fits
    <2>2. CASE Requested(h, [kind |-> "createPeer"])
      BY <2>1, <2>2 DEF Ops
    <2>3. CASE \E p \in Peers : peers[p] # "new" /\
                 \/ Requested(h, [kind |-> "deletePeer", peer |-> p])
                 \/ \E on \in BOOLEAN : Requested(h, [kind |-> "togglePeer", peer |-> p, on |-> on])
      BY <2>1, <2>3 DEF Ops
    <2>4. CASE Requested(h, [kind |-> "createRule"])
      BY <2>1, <2>4 DEF Ops
    <2>5. CASE \E r \in Rules : rules.rows[r] # "new" /\
                 \/ Requested(h, [kind |-> "deleteRule", rule |-> r])
                 \/ \E on \in BOOLEAN : Requested(h, [kind |-> "updateRule", rule |-> r, on |-> on])
      BY <2>1, <2>5 DEF Ops
    <2>6. CASE \E o \in Orders : Requested(h, [kind |-> "reorderRules", order |-> o])
      BY <2>1, <2>6 DEF Ops
    <2>7. CASE \E u \in Upstreams : Requested(h, [kind |-> "updateDns", upstream |-> u])
      BY <2>1, <2>7 DEF Ops
    <2>8. CASE \E n \in PresetSizes : Requested(h, [kind |-> "applyPreset", size |-> n])
      BY <2>1, <2>8 DEF Ops
    <2>9. CASE Privately(h, Fresh([kind |-> "sync"], "rules")) /\ UNCHANGED requests
      BY <2>9 DEF Ops, Stages, Fits
    <2>10. QED BY <2>2, <2>3, <2>4, <2>5, <2>6, <2>7, <2>8, <2>9, Zenon DEF Accept
  <1>a. PICK op \in Ops, s \in Stages : Fits(op, s)
    BY <1>1
  <1>2. Fresh(op, s) \in Request
    BY FreshType
  <1>3. req' \in [Procs -> Request] /\ excused' \in BOOLEAN
    BY <1>a, <1>2, PrivatelyType
  <1>4. requests' \in Nat
    BY <1>a DEF TypeOK
  <1>5. QED BY <1>3, <1>4 DEF Accept, TypeOK, db

(* A statement of a handler is committed.                                   *)
LEMMA CommittedType ==
    ASSUME TypeOK, NEW h \in Handlers, NEW r \in Request, Committed(h, r),
           peers' \in [Peers -> Status], dns' \in Upstreams,
           rules' \in [rows : [Rules -> Status], order : Orders]
    PROVE  TypeOK'
  <1>1. [r EXCEPT !.dirty = TRUE] \in Request
    BY DEF Request
  <1>2. req' \in [Procs -> Request] /\ excused' \in BOOLEAN
    BY <1>1, PubliclyType DEF Committed
  <1>3. QED BY <1>2 DEF Committed, TypeOK

(* A handler goes on without committing anything.                           *)
LEMMA QuietType ==
    ASSUME TypeOK, UNCHANGED <<db, file, running, api, requests, crashes>>,
           req' \in [Procs -> Request], excused' \in BOOLEAN
    PROVE  TypeOK'
  BY DEF TypeOK, db

LEMMA PublishType == ASSUME TypeOK, NEW g \in Procs PROVE Publish(g) \in Request
  BY DEF TypeOK, Publish, Request, Stages

(* A new rule gets its row and a place in the order; no deleted row moves.   *)
LEMMA InsertRuleEffect ==
    ASSUME rules \in [rows : [Rules -> Status], order : Orders], InsertRule
    PROVE  /\ rules' \in [rows : [Rules -> Status], order : Orders]
           /\ \A r \in Rules : rules.rows[r] = "deleted" => rules'.rows[r] = "deleted"
  BY DEF InsertRule, Status

LEMMA MutateType == ASSUME TypeOK, NEW h \in Handlers, Mutate(h) PROVE TypeOK'
  <1> USE DEF db
  <1>0. /\ peers \in [Peers -> Status] /\ dns \in Upstreams
        /\ rules \in [rows : [Rules -> Status], order : Orders]
        /\ req[h] \in Request /\ Publish(h) \in Request
    BY PublishType DEF TypeOK
  <1>1. CASE CreatePeer(h)
    BY <1>0, <1>1, CommittedType DEF CreatePeer, Status
  <1>2. CASE DeletePeer(h)
    BY <1>0, <1>2, CommittedType DEF DeletePeer, Status
  <1>3. CASE TogglePeer(h)
    BY <1>0, <1>3, CommittedType DEF TogglePeer, Status
  <1>4. CASE CreateRule(h)
    BY <1>0, <1>4, CommittedType, InsertRuleEffect DEF CreateRule
  <1>5. CASE UpdateRule(h)
    <2>1. PICK o \in Orders :
            rules' = [rules EXCEPT !.order = o, !.rows[req[h].op.rule] =
                         IF req[h].op.on THEN "active" ELSE "inactive"]
      BY <1>5 DEF UpdateRule
    <2>2. rules' \in [rows : [Rules -> Status], order : Orders]
      BY <1>0, <2>1 DEF Status
    <2>3. QED BY <1>0, <1>5, <2>2, CommittedType DEF UpdateRule
  <1>6. CASE DeleteRule(h)
    BY <1>0, <1>6, CommittedType DEF DeleteRule, Status
  <1>7. CASE ReorderRules(h)
    <2>1. req[h].op.order \in Orders
      BY <1>0, <1>7 DEF ReorderRules, Doing, Request, Ops
    <2>2. QED BY <1>0, <1>7, <2>1, CommittedType DEF ReorderRules
  <1>8. CASE UpdateDns(h)
    <2>1. req[h].op.upstream \in Upstreams
      BY <1>0, <1>8 DEF UpdateDns, Doing, Request, Ops
    <2>2. ASSUME NEW g \in Procs
          PROVE  /\ [req[g] EXCEPT !.clean = FALSE] \in Request
                 /\ [req[h] EXCEPT !.stage = "reply", !.outcome = "unpublished",
                                   !.dirty = TRUE] \in Request
      BY <1>0 DEF TypeOK, Request, Stages
    <2>3. req' \in [Procs -> Request]
      BY <1>8, <2>2 DEF UpdateDns
    <2>4. QED BY <1>8, <2>1, <2>3 DEF UpdateDns, TypeOK
  <1>9. CASE CommitFails(h)
    BY <1>9, FinishType, QuietType DEF CommitFails
  <1>10. CASE ListRules(h)
    <2>1. req[h].op.size \in Nat
      BY <1>0, <1>10, ConstantsAssumption DEF ListRules, Doing, Request, Ops
    <2>2. [req[h] EXCEPT !.stage = "clear", !.todo = {r \in Rules : rules.rows[r] \in Live},
                         !.left = req[h].op.size] \in Request
      BY <1>0, <2>1 DEF Request, Stages
    <2>3. QED BY <1>10, <2>2, PrivatelyType, QuietType DEF ListRules
  <1>11. CASE ClearRule(h)
    <2>1. PICK r \in req[h].todo :
            \/ /\ rules' = [rules EXCEPT !.rows[r] = "deleted"]
               /\ Committed(h, [req[h] EXCEPT !.todo = @ \ {r}]) /\ UNCHANGED <<peers, dns>>
            \/ /\ Privately(h, [req[h] EXCEPT !.todo = @ \ {r}])
               /\ UNCHANGED <<db, file, running, api, requests, crashes>>
      BY <1>11 DEF ClearRule
    <2>2. [req[h] EXCEPT !.todo = @ \ {r}] \in Request
      BY <1>0 DEF Request
    <2>3. CASE /\ rules' = [rules EXCEPT !.rows[r] = "deleted"]
               /\ Committed(h, [req[h] EXCEPT !.todo = @ \ {r}]) /\ UNCHANGED <<peers, dns>>
      BY <1>0, <2>2, <2>3, CommittedType DEF Status
    <2>4. CASE /\ Privately(h, [req[h] EXCEPT !.todo = @ \ {r}])
               /\ UNCHANGED <<db, file, running, api, requests, crashes>>
      BY <2>2, <2>4, PrivatelyType, QuietType
    <2>5. QED BY <2>1, <2>3, <2>4
  <1>12. CASE Cleared(h)
    <2>1. [req[h] EXCEPT !.stage = "fill"] \in Request
      BY <1>0 DEF Request, Stages
    <2>2. QED BY <1>12, <2>1, PrivatelyType, QuietType DEF Cleared
  <1>13. CASE FillRule(h)
    <2>1. [req[h] EXCEPT !.left = @ - 1] \in Request
      BY <1>0, <1>13 DEF Request, FillRule
    <2>2. CASE Privately(h, [req[h] EXCEPT !.left = @ - 1])
               /\ UNCHANGED <<db, file, running, api, requests, crashes>>
      BY <2>1, <2>2, PrivatelyType, QuietType
    <2>3. CASE /\ InsertRule
               /\ Committed(h, [req[h] EXCEPT !.left = @ - 1]) /\ UNCHANGED <<peers, dns>>
      BY <1>0, <2>1, <2>3, CommittedType, InsertRuleEffect
    <2>4. QED BY <1>13, <2>2, <2>3 DEF FillRule
  <1>14. CASE Filled(h)
    BY <1>0, <1>14, PrivatelyType, QuietType DEF Filled
  <1>15. QED
    BY <1>1, <1>2, <1>3, <1>4, <1>5, <1>6, <1>7, <1>8, <1>9, <1>10, <1>11, <1>12, <1>13, <1>14
    DEF Mutate

(* Every step of a publish keeps the types.                                 *)
LEMMA PublishStepType == ASSUME TypeOK, NEW g \in Procs, PublishStep(g) PROVE TypeOK'
  <1> USE DEF db
  <1>0. /\ Database \in Tables /\ req[g] \in Request /\ req[g].snap \in Tables
        /\ req \in [Procs -> Request]
    BY DEF TypeOK, Database, Tables, Request
  <1>1. CASE ReadRules(g)
    <2>1. [req[g] EXCEPT !.stage = "dns", !.snap.rules = rules, !.clean = TRUE] \in Request
      BY <1>0 DEF Request, Tables, Stages, TypeOK
    <2>2. QED BY <1>1, <2>1, PrivatelyType, QuietType DEF ReadRules
  <1>2. CASE ReadDns(g)
    <2>1. ASSUME NEW d \in Upstreams
          PROVE  [req[g] EXCEPT !.stage = "peers", !.snap.dns = d] \in Request
      BY <1>0 DEF Request, Tables, Stages
    <2>2. CASE Privately(g, [req[g] EXCEPT !.stage = "peers", !.snap.dns = dns])
      BY <1>2, <2>1, <2>2, PrivatelyType, QuietType DEF ReadDns, TypeOK
    <2>3. CASE /\ req' = [req EXCEPT ![g].stage = "peers", ![g].snap.dns = DefaultUpstream,
                                     ![g].clean = FALSE]
               /\ excused' = TRUE
      <3>1. req' \in [Procs -> Request]
        BY <1>0, <2>3, ConstantsAssumption DEF Request, Tables, Stages
      <3>2. QED BY <1>2, <2>3, <3>1, QuietType DEF ReadDns
    <2>4. QED BY <1>2, <2>2, <2>3 DEF ReadDns
  <1>3. CASE ReadPeers(g)
    <2>1. [req[g] EXCEPT !.stage = "truncate", !.snap.peers = peers] \in Request
      BY <1>0 DEF Request, Tables, Stages, TypeOK
    <2>2. QED BY <1>3, <2>1, PrivatelyType, QuietType DEF ReadPeers
  <1>4. CASE GiveUp(g)
    BY <1>4, FinishType, QuietType DEF GiveUp
  <1>5. CASE Truncate(g)
    <2>1. [req[g] EXCEPT !.stage = "write"] \in Request
      BY <1>0 DEF Request, Stages
    <2>2. QED BY <1>5, <2>1, PubliclyType DEF Truncate, TypeOK
  <1>6. CASE Write(g)
    <2>1. [req[g] EXCEPT !.stage = "clash", !.snap = NoSnap] \in Request
      BY <1>0, NoSnapType DEF Request, Stages
    <2>2. Generate(req[g].snap) \in Config
      BY <1>0, GenerateType
    <2>3. file' \in Config \cup {Empty, Corrupt}
      BY <1>6, <2>2 DEF Write
    <2>4. QED BY <1>6, <2>1, <2>3, PubliclyType DEF Write, TypeOK
  <1>7. CASE WriteFails(g)
    <2>1. req' \in [Procs -> Request]
      BY <1>0, <1>7, NoSnapType DEF WriteFails, Request, Stages
    <2>2. QED BY <1>7, <2>1 DEF WriteFails, TypeOK
  <1>8. ASSUME Reloaded(g) PROVE req' \in [Procs -> Request] /\ excused' \in BOOLEAN
    BY <1>0, <1>8 DEF Reloaded, Request, Stages, TypeOK
  <1>9. CASE ClashReload(g)
    BY <1>8, <1>9 DEF ClashReload, TypeOK, Loadable
  <1>10. CASE ClashFails(g)
    <2>1. [req[g] EXCEPT !.stage = "docker"] \in Request
      BY <1>0 DEF Request, Stages
    <2>2. req' \in [Procs -> Request] /\ excused' \in BOOLEAN
      BY <1>10, <2>1, PrivatelyType DEF ClashFails
    <2>3. QED BY <1>10, <2>2 DEF ClashFails, TypeOK, Loadable
  <1>11. CASE DockerRestart(g)
    BY <1>8, <1>11 DEF DockerRestart, TypeOK, Loadable
  <1>12. CASE DockerFails(g)
    <2>1. req' \in [Procs -> Request]
      BY <1>0, <1>12 DEF DockerFails, Request, Stages
    <2>2. QED BY <1>12, <2>1, QuietType DEF DockerFails
  <1>13. QED
    BY <1>1, <1>2, <1>3, <1>4, <1>5, <1>6, <1>7, <1>9, <1>10, <1>11, <1>12 DEF PublishStep

(* The API process and sing-box.                                            *)
LEMMA BootType == ASSUME TypeOK, Boot PROVE TypeOK'
  <1>1. peers' \in [Peers -> Status] /\ rules' \in [rows : [Rules -> Status], order : Orders]
    BY DEF Boot, TypeOK, Reseed, Status
  <1>2. Fresh([kind |-> "startup"], "rules") \in Request
    <2>1. [kind |-> "startup"] \in Ops
      BY DEF Ops
    <2>2. QED BY <2>1, FreshType DEF Stages
  <1>3. [Fresh([kind |-> "startup"], "rules") EXCEPT !.dirty = TRUE] \in Request
    BY <1>2 DEF Request
  <1>4. req' \in [Procs -> Request]
    BY <1>3 DEF Boot, TypeOK
  <1>5. QED BY <1>1, <1>4 DEF Boot, TypeOK

LEMMA NextType == ASSUME TypeOK, [Next]_vars PROVE TypeOK'
  <1> USE DEF db
  <1>1. ASSUME NEW h \in Handlers, Reply(h) PROVE TypeOK'
    BY <1>1, IdleType, PrivatelyType, QuietType DEF Reply
  <1>2. CASE Serve
    <2>1. req' \in [Procs -> Request] /\ excused' \in BOOLEAN
      BY <1>2, IdleType, PrivatelyType DEF Serve
    <2>2. QED BY <1>2, <2>1 DEF Serve, TypeOK
  <1>3. CASE Crash
    BY <1>3, IdleType DEF Crash, TypeOK
  <1>4. CASE SingBoxCrash
    BY <1>4 DEF SingBoxCrash, TypeOK
  <1>5. CASE SingBoxStart
    BY <1>5 DEF SingBoxStart, TypeOK, Loadable
  <1>6. CASE UNCHANGED vars
    BY <1>6 DEF vars, TypeOK
  <1>7. QED
    BY <1>1, <1>2, <1>3, <1>4, <1>5, <1>6, AcceptType, MutateType, PublishStepType, BootType
    DEF Next

(* The variables keep the types of TypeOK, whatever the sizes of the sets and *)
(* the bounds, through every handler, publish, restart and crash.             *)
THEOREM TypeCorrect == Spec => []TypeOK
  BY InitType, NextType, PTL DEF Spec
-----------------------------------------------------------------------------
(* A goroutine whose publish nobody has disturbed (clean) holds, for every    *)
(* table it has read, what the table still says, and from the write on the    *)
(* file is what the database generates.  When the process is down nobody is   *)
(* in the middle of anything, so Boot disturbs nobody either.                 *)
Undisturbed(g) ==
    /\ req[g].stage \in {"dns", "peers", "truncate", "write"} => req[g].snap.rules = rules
    /\ req[g].stage \in {"peers", "truncate", "write"} => req[g].snap.dns = dns
    /\ req[g].stage \in {"truncate", "write"} => req[g].snap.peers = peers
    /\ req[g].stage = "write" => file = Empty
    /\ req[g].stage \in {"clash", "docker"} => file = Generate(Database)
    /\ req[g].stage = "reply" /\ req[g].outcome = "published" => InSync

NobodyWhenDown == api = "down" => \A g \in Procs : req[g].stage = "idle"
CleanInv == NobodyWhenDown /\ \A g \in Procs : req[g].clean => Undisturbed(g)

(* g will publish what is stale, or leave an excuse.                          *)
Pending(g) == \/ req[g].dirty /\ req[g].stage \notin {"idle", "reply"}
              \/ req[g].stage \in {"write", "clash", "docker"}

(* While nothing excuses staleness, every publish in progress is undisturbed  *)
(* and sing-box is in sync or somebody is about to put it in sync.            *)
DriftInv == api # "down" /\ ~excused =>
    /\ \A g \in Procs : InWindow(g) => req[g].clean
    /\ InSync \/ \E g \in Procs : Pending(g)

(* What the reads of a deletion rest on: the row h has deleted stays deleted, *)
(* and is deleted in what h has read since.                                   *)
Own(h) ==
    /\ req[h].stage \in {"clear", "fill"} => req[h].op.kind = "applyPreset"
    /\ req[h].op.kind = "deletePeer" =>
         /\ req[h].stage \in {"rules"} \cup Publishing => peers[req[h].op.peer] = "deleted"
         /\ req[h].stage \in {"truncate", "write"} =>
              req[h].snap.peers[req[h].op.peer] = "deleted"
    /\ req[h].op.kind = "deleteRule" =>
         /\ req[h].stage \in {"rules"} \cup Publishing => rules.rows[req[h].op.rule] = "deleted"
         /\ req[h].stage \in {"dns", "peers", "truncate", "write"} =>
              req[h].snap.rules.rows[req[h].op.rule] = "deleted"
OwnInv == NobodyWhenDown /\ \A h \in Handlers : Own(h)

-----------------------------------------------------------------------------
(* The shapes of a step of a handler before it publishes: it commits and goes *)
(* on, goes on without committing, or ends without publishing.                *)
Commits(h) ==
    /\ req'[h].dirty /\ req'[h].stage \in {"clear", "fill", "rules"}
    /\ \A g \in Procs \ {h} : req'[g] = [req[g] EXCEPT !.clean = FALSE]
    /\ excused' = (excused \/ \E g \in Procs \ {h} : InWindow(g))
Quietly(h) ==
    /\ UNCHANGED <<db, excused>>
    /\ req'[h].dirty = req[h].dirty /\ req'[h].stage \in {"clear", "fill", "rules"}
    /\ \A g \in Procs \ {h} : req'[g] = req[g]
Ends(h) ==
    /\ req'[h].stage = "reply" /\ req'[h].outcome # "published"
    /\ \/ /\ UNCHANGED db /\ excused' = (excused \/ req[h].dirty)
          /\ \A g \in Procs \ {h} : req'[g] = req[g]
       \/ /\ excused'
          /\ \A g \in Procs \ {h} : req'[g] = [req[g] EXCEPT !.clean = FALSE]

LEMMA CommittedShape ==
    ASSUME TypeOK, NEW h \in Handlers, NEW r \in Request, Committed(h, r),
           r.stage \in {"clear", "fill", "rules"}
    PROVE  Commits(h) /\ UNCHANGED <<file, running, api>>
  <1>1. req'[h] = [r EXCEPT !.dirty = TRUE]
    BY DEF Committed, Publicly
  <1>2. req'[h].dirty /\ req'[h].stage = r.stage
    BY <1>1 DEF Request
  <1>3. QED BY <1>2 DEF Committed, Publicly, Commits

LEMMA FinishShape ==
    ASSUME TypeOK, NEW g \in Procs, NEW o \in {"failed", "unpublished"}, Finish(g, o), UNCHANGED db
    PROVE  Ends(g)
  BY DEF TypeOK, Finish, Request, Ends

LEMMA PublishingStage == ASSUME TypeOK, NEW g \in Procs PROVE Publish(g).stage = "rules"
  BY DEF TypeOK, Publish, Request

LEMMA MutateShape ==
    ASSUME TypeOK, NEW h \in Handlers, Mutate(h)
    PROVE  /\ req[h].stage \in {"commit", "clear", "fill"}
           /\ UNCHANGED <<file, running, api>>
           /\ Commits(h) \/ Quietly(h) \/ Ends(h)
  <1>0. /\ req \in [Procs -> Request] /\ req[h] \in Request
        /\ Publish(h) \in Request /\ Publish(h).stage = "rules"
        /\ Publish(h).dirty = req[h].dirty
    BY PublishType, PublishingStage DEF TypeOK, Publish, Request
  <1>1. ASSUME Committed(h, Publish(h))
        PROVE  Commits(h) /\ UNCHANGED <<file, running, api>>
    BY <1>0, <1>1, CommittedShape
  <1>2. ASSUME NEW r \in Request, Privately(h, r), UNCHANGED db,
               r.dirty = req[h].dirty, r.stage \in {"clear", "fill", "rules"}
        PROVE  Quietly(h)
    BY <1>0, <1>2 DEF Privately, Quietly
  <1>3. CASE CreatePeer(h) \/ DeletePeer(h) \/ TogglePeer(h)
    BY <1>1, <1>3 DEF CreatePeer, DeletePeer, TogglePeer, Doing
  <1>4. CASE CreateRule(h) \/ UpdateRule(h) \/ DeleteRule(h) \/ ReorderRules(h)
    BY <1>1, <1>4 DEF CreateRule, UpdateRule, DeleteRule, ReorderRules, Doing
  <1>5. CASE UpdateDns(h)
    <2>1. req'[h] = [req[h] EXCEPT !.stage = "reply", !.outcome = "unpublished", !.dirty = TRUE]
      BY <1>5 DEF UpdateDns
    <2>2. req'[h].stage = "reply" /\ req'[h].outcome = "unpublished"
      BY <1>0, <2>1 DEF Request
    <2>3. QED BY <1>5, <2>2 DEF UpdateDns, Doing, Ends
  <1>6. CASE CommitFails(h)
    BY <1>6, FinishShape DEF CommitFails
  <1>7. CASE ListRules(h)
    <2>1. [req[h] EXCEPT !.stage = "clear", !.todo = {r \in Rules : rules.rows[r] \in Live},
                         !.left = req[h].op.size] \in Request
      BY <1>0, <1>7, ConstantsAssumption DEF ListRules, Doing, Request, Stages, Ops
    <2>2. Quietly(h)
      BY <1>0, <1>2, <1>7, <2>1 DEF ListRules, Request
    <2>3. QED BY <1>7, <2>2 DEF ListRules, Doing
  <1>8. CASE ClearRule(h)
    <2>1. ASSUME NEW r PROVE
            LET next == [req[h] EXCEPT !.todo = @ \ {r}]
            IN  next \in Request /\ (req[h].stage = "clear" => next.stage = "clear")
                /\ next.dirty = req[h].dirty
      BY <1>0 DEF Request
    <2>2. Commits(h) \/ Quietly(h)
      BY <1>2, <1>8, <2>1, CommittedShape DEF ClearRule
    <2>3. QED BY <1>8, <2>2 DEF ClearRule, Committed
  <1>9. CASE Cleared(h)
    <2>1. LET next == [req[h] EXCEPT !.stage = "fill"]
          IN  next \in Request /\ next.stage = "fill" /\ next.dirty = req[h].dirty
      BY <1>0 DEF Request, Stages
    <2>2. QED BY <1>2, <1>9, <2>1 DEF Cleared
  <1>10. CASE FillRule(h)
    <2>1. LET next == [req[h] EXCEPT !.left = @ - 1]
          IN  next \in Request /\ next.stage = "fill" /\ next.dirty = req[h].dirty
      BY <1>0, <1>10 DEF Request, FillRule
    <2>2. Commits(h) \/ Quietly(h)
      BY <1>2, <1>10, <2>1, CommittedShape DEF FillRule
    <2>3. QED BY <1>10, <2>2 DEF FillRule, Committed
  <1>11. CASE Filled(h)
    BY <1>0, <1>2, <1>11 DEF Filled
  <1>12. QED
    BY <1>3, <1>4, <1>5, <1>6, <1>7, <1>8, <1>9, <1>10, <1>11 DEF Mutate

(* A publish step leaves the tables and the process alone.                    *)
LEMMA PublishFrame ==
    ASSUME NEW g \in Procs, PublishStep(g)
    PROVE  /\ req[g].stage \in {"rules"} \cup Publishing
           /\ UNCHANGED <<db, api>>
  <1> USE DEF Publishing
  <1>1. CASE ReadRules(g) \/ ReadDns(g) \/ ReadPeers(g) \/ GiveUp(g)
    BY <1>1 DEF ReadRules, ReadDns, ReadPeers, GiveUp
  <1>2. CASE Truncate(g) \/ Write(g) \/ WriteFails(g)
    BY <1>2 DEF Truncate, Write, WriteFails
  <1>3. CASE ClashReload(g) \/ ClashFails(g) \/ DockerRestart(g) \/ DockerFails(g)
    BY <1>3 DEF ClashReload, ClashFails, DockerRestart, DockerFails
  <1>4. QED BY <1>1, <1>2, <1>3 DEF PublishStep

LEMMA DownStep == ASSUME TypeOK, NobodyWhenDown, [Next]_vars PROVE NobodyWhenDown'
  <1> USE DEF NobodyWhenDown
  <1>1. ASSUME NEW h \in Handlers, Accept(h) PROVE NobodyWhenDown'
    BY <1>1 DEF Accept
  <1>2. ASSUME NEW h \in Handlers, Mutate(h) PROVE NobodyWhenDown'
    BY <1>2, MutateShape
  <1>3. ASSUME NEW h \in Handlers, Reply(h) PROVE NobodyWhenDown'
    BY <1>3 DEF Reply
  <1>4. ASSUME NEW g \in Procs, PublishStep(g) PROVE NobodyWhenDown'
    BY <1>4, PublishFrame DEF Publishing
  <1>5. CASE Boot \/ Serve
    BY <1>5 DEF Boot, Serve
  <1>6. CASE Crash
    BY <1>6 DEF Crash, Idle, Fresh
  <1>7. CASE SingBoxCrash \/ SingBoxStart \/ UNCHANGED vars
    BY <1>7 DEF SingBoxCrash, SingBoxStart, vars
  <1>8. QED BY <1>1, <1>2, <1>3, <1>4, <1>5, <1>6, <1>7 DEF Next

(* An undisturbed publish stays so while tables and file do not change.       *)
LEMMA UndisturbedStays ==
    ASSUME NEW g \in Procs, Undisturbed(g), req'[g] = req[g], UNCHANGED <<db, file>>,
           running' \in {running, file, NoConfig}
    PROVE  Undisturbed(g)'
  BY DEF Undisturbed, InSync, Database, db

(* How CleanInv survives a step of one goroutine: by keeping its own promise  *)
(* and either disturbing all others or changing neither tables nor file.      *)
LEMMA OneDisturbs ==
    ASSUME TypeOK, NEW g \in Procs, req'[g].clean => Undisturbed(g)', NobodyWhenDown',
           \A h \in Procs \ {g} : req'[h] = [req[h] EXCEPT !.clean = FALSE]
    PROVE  CleanInv'
  <1>1. ASSUME NEW h \in Procs \ {g} PROVE ~req'[h].clean
    BY DEF TypeOK, Request
  <1>2. QED BY <1>1 DEF CleanInv

LEMMA OneStays ==
    ASSUME CleanInv, NEW g \in Procs, req'[g].clean => Undisturbed(g)', NobodyWhenDown',
           UNCHANGED <<db, file>>, running' \in {running, file, NoConfig},
           \A h \in Procs \ {g} : req'[h] = req[h]
    PROVE  CleanInv'
  BY UndisturbedStays DEF CleanInv

LEMMA CleanMutate ==
    ASSUME TypeOK, CleanInv, NEW h \in Handlers, Mutate(h), NobodyWhenDown' PROVE CleanInv'
  <1>1. CASE Commits(h)
    <2>1. Undisturbed(h)'
      BY <1>1 DEF Commits, Undisturbed
    <2>2. QED BY <1>1, <2>1, OneDisturbs DEF Commits
  <1>2. CASE Quietly(h)
    <2>1. Undisturbed(h)'
      BY <1>2 DEF Quietly, Undisturbed
    <2>2. QED BY <1>2, <2>1, OneStays, MutateShape DEF Quietly
  <1>3. CASE Ends(h)
    <2>1. Undisturbed(h)'
      BY <1>3 DEF Ends, Undisturbed
    <2>2. QED BY <1>3, <2>1, OneStays, OneDisturbs, MutateShape DEF Ends
  <1>4. QED BY <1>1, <1>2, <1>3, MutateShape

LEMMA CleanReads ==
    ASSUME TypeOK, CleanInv, NEW g \in Procs, NobodyWhenDown',
           ReadRules(g) \/ ReadDns(g) \/ ReadPeers(g) \/ GiveUp(g)
    PROVE  CleanInv'
  <1>0. /\ req \in [Procs -> Request] /\ req[g] \in Request /\ req[g].snap \in Tables
        /\ req[g].clean => Undisturbed(g)
    BY DEF TypeOK, Request, CleanInv
  <1>1. /\ UNCHANGED <<db, file, running>>
        /\ \A h \in Procs \ {g} : req'[h] = req[h]
    BY <1>0 DEF ReadRules, ReadDns, ReadPeers, GiveUp, Privately, Finish
  <1>2. CASE ReadRules(g)
    <2>1. req'[g] = [req[g] EXCEPT !.stage = "dns", !.snap.rules = rules, !.clean = TRUE]
      BY <1>0, <1>2 DEF ReadRules, Privately
    <2>2. req'[g].stage = "dns" /\ req'[g].snap.rules = rules
      BY <1>0, <2>1 DEF Request, Tables
    <2>3. Undisturbed(g)'
      BY <1>1, <2>2 DEF Undisturbed, db
    <2>4. QED BY <1>1, <2>3, OneStays
  <1>3. CASE ReadDns(g)
    <2>1. CASE req' = [req EXCEPT ![g].stage = "peers", ![g].snap.dns = DefaultUpstream,
                                  ![g].clean = FALSE]
      <3>1. ~req'[g].clean
        BY <1>0, <2>1 DEF Request
      <3>2. QED BY <1>1, <3>1, OneStays
    <2>2. CASE Privately(g, [req[g] EXCEPT !.stage = "peers", !.snap.dns = dns])
      <3>1. req'[g] = [req[g] EXCEPT !.stage = "peers", !.snap.dns = dns]
        BY <1>0, <2>2 DEF Privately
      <3>2. /\ req'[g].stage = "peers" /\ req'[g].clean = req[g].clean
            /\ req'[g].snap.rules = req[g].snap.rules /\ req'[g].snap.dns = dns
        BY <1>0, <3>1 DEF Request, Tables
      <3>3. req'[g].clean => Undisturbed(g)'
        BY <1>0, <1>1, <1>3, <3>2 DEF Undisturbed, db, ReadDns
      <3>4. QED BY <1>1, <3>3, OneStays
    <2>3. QED BY <1>3, <2>1, <2>2 DEF ReadDns
  <1>4. CASE ReadPeers(g)
    <2>1. req'[g] = [req[g] EXCEPT !.stage = "truncate", !.snap.peers = peers]
      BY <1>0, <1>4 DEF ReadPeers, Privately
    <2>2. /\ req'[g].stage = "truncate" /\ req'[g].clean = req[g].clean
          /\ req'[g].snap.rules = req[g].snap.rules
          /\ req'[g].snap.dns = req[g].snap.dns /\ req'[g].snap.peers = peers
      BY <1>0, <2>1 DEF Request, Tables
    <2>3. req'[g].clean => Undisturbed(g)'
      BY <1>0, <1>1, <1>4, <2>2 DEF Undisturbed, db, ReadPeers
    <2>4. QED BY <1>1, <2>3, OneStays
  <1>5. CASE GiveUp(g)
    <2>1. Ends(g)
      BY <1>1, <1>5, FinishShape DEF GiveUp
    <2>2. Undisturbed(g)'
      BY <2>1 DEF Ends, Undisturbed
    <2>3. QED BY <1>1, <2>2, OneStays
  <1>6. QED BY <1>2, <1>3, <1>4, <1>5

LEMMA CleanWrites ==
    ASSUME TypeOK, CleanInv, NEW g \in Procs, NobodyWhenDown',
           Truncate(g) \/ Write(g) \/ WriteFails(g)
    PROVE  CleanInv'
  <1>0. /\ req \in [Procs -> Request] /\ req[g] \in Request /\ req[g].snap \in Tables
        /\ req[g].clean => Undisturbed(g)
    BY DEF TypeOK, Request, CleanInv
  <1>1. \A h \in Procs \ {g} : req'[h] = [req[h] EXCEPT !.clean = FALSE]
    BY DEF Truncate, Write, WriteFails, Publicly
  <1>2. CASE Truncate(g)
    <2>1. req'[g] = [req[g] EXCEPT !.stage = "write"]
      BY <1>2 DEF Truncate, Publicly
    <2>2. req'[g].stage = "write" /\ req'[g].clean = req[g].clean /\ req'[g].snap = req[g].snap
      BY <1>0, <2>1 DEF Request
    <2>3. req'[g].clean => Undisturbed(g)'
      BY <1>0, <1>2, <2>2 DEF Undisturbed, Truncate, db
    <2>4. QED BY <1>1, <2>3, OneDisturbs
  <1>3. CASE Write(g)
    <2>1. req'[g] = [req[g] EXCEPT !.stage = "clash", !.snap = NoSnap]
      BY <1>3 DEF Write, Publicly
    <2>2. req'[g].stage = "clash" /\ req'[g].clean = req[g].clean
      BY <1>0, <2>1 DEF Request
    <2>3. ASSUME req[g].clean PROVE file' = Generate(req[g].snap)
      BY <1>0, <1>3, <2>3 DEF Write, Undisturbed
    <2>4. ASSUME req[g].clean PROVE Generate(req[g].snap) = Generate(Database)'
      BY <1>0, <1>3, <2>4 DEF Write, Undisturbed, Generate, Database, db
    <2>5. req'[g].clean => Undisturbed(g)'
      BY <2>2, <2>3, <2>4 DEF Undisturbed
    <2>6. QED BY <1>1, <2>5, OneDisturbs
  <1>4. CASE WriteFails(g)
    <2>1. req'[g] = [req[g] EXCEPT !.stage = "reply", !.outcome = "unpublished",
                                   !.snap = NoSnap, !.clean = FALSE]
      BY <1>4 DEF WriteFails
    <2>2. ~req'[g].clean
      BY <1>0, <2>1 DEF Request
    <2>3. QED BY <1>1, <2>2, OneDisturbs
  <1>5. QED BY <1>2, <1>3, <1>4

LEMMA ReloadedShape ==
    ASSUME TypeOK, NEW g \in Procs, Reloaded(g)
    PROVE  /\ req'[g].stage = "reply" /\ req'[g].clean = req[g].clean
           /\ \A h \in Procs \ {g} : req'[h] = req[h]
  BY DEF Reloaded, TypeOK, Request

LEMMA CleanReloads ==
    ASSUME TypeOK, CleanInv, NEW g \in Procs, NobodyWhenDown',
           ClashReload(g) \/ ClashFails(g) \/ DockerRestart(g) \/ DockerFails(g)
    PROVE  CleanInv'
  <1>0. /\ req \in [Procs -> Request] /\ req[g] \in Request
        /\ req[g].clean => Undisturbed(g)
    BY DEF TypeOK, Request, CleanInv
  <1>1. UNCHANGED <<db, file>> /\ running' \in {running, file, NoConfig}
    BY DEF ClashReload, ClashFails, DockerRestart, DockerFails
  <1>2. CASE ClashReload(g) \/ DockerRestart(g)
    <2>1. Reloaded(g) /\ running' \in {file, NoConfig}
      BY <1>2 DEF ClashReload, DockerRestart
    <2>2. ASSUME req[g].clean PROVE file = Generate(Database)
      BY <1>0, <1>2, <2>2 DEF Undisturbed, ClashReload, DockerRestart
    <2>3. req'[g].clean => InSync'
      BY <1>1, <2>1, <2>2, ReloadedShape DEF InSync, Database, db
    <2>4. req'[g].clean => Undisturbed(g)'
      BY <2>1, <2>3, ReloadedShape DEF Undisturbed
    <2>5. QED BY <1>1, <2>1, <2>4, ReloadedShape, OneStays
  <1>3. CASE ClashFails(g)
    <2>1. req'[g] = [req[g] EXCEPT !.stage = "docker"]
          /\ \A h \in Procs \ {g} : req'[h] = req[h]
      BY <1>0, <1>3 DEF ClashFails, Privately
    <2>2. req'[g].stage = "docker" /\ req'[g].clean = req[g].clean
      BY <1>0, <2>1 DEF Request
    <2>3. req'[g].clean => Undisturbed(g)'
      BY <1>0, <1>1, <1>3, <2>2 DEF Undisturbed, ClashFails, Database, db
    <2>4. QED BY <1>1, <2>1, <2>3, OneStays
  <1>4. CASE DockerFails(g)
    <2>1. /\ req'[g].stage = "reply" /\ req'[g].outcome = "unpublished"
          /\ \A h \in Procs \ {g} : req'[h] = req[h]
      BY <1>0, <1>4 DEF DockerFails, Request
    <2>2. Undisturbed(g)'
      BY <2>1 DEF Undisturbed
    <2>3. QED BY <1>1, <2>1, <2>2, OneStays
  <1>5. QED BY <1>2, <1>3, <1>4

LEMMA IdleFields == /\ Idle.stage = "idle" /\ ~Idle.clean
                    /\ \A op, s : /\ Fresh(op, s).stage = s /\ ~Fresh(op, s).clean
                                   /\ ~Fresh(op, s).dirty /\ Fresh(op, s).op = op
  BY DEF Idle, Fresh

LEMMA CleanStep == ASSUME TypeOK, CleanInv, [Next]_vars PROVE CleanInv'
  <1>0. NobodyWhenDown'
    BY DownStep DEF CleanInv
  <1>r. req \in [Procs -> Request]
    BY DEF TypeOK
  <1>1. ASSUME NEW h \in Handlers, Accept(h) PROVE CleanInv'
    <2>1. PICK op, s : Privately(h, Fresh(op, s))
      BY <1>1, Zenon DEF Accept, Requested
    <2>2. ~req'[h].clean /\ \A g \in Procs \ {h} : req'[g] = req[g]
      BY <1>r, <2>1, IdleFields DEF Privately
    <2>3. QED BY <1>0, <1>1, <2>2, OneStays DEF Accept
  <1>2. ASSUME NEW h \in Handlers, Reply(h) PROVE CleanInv'
    <2>1. ~req'[h].clean /\ \A g \in Procs \ {h} : req'[g] = req[g]
      BY <1>r, <1>2, IdleFields DEF Reply, Privately
    <2>2. QED BY <1>0, <1>2, <2>1, OneStays DEF Reply
  <1>3. CASE Boot
    <2>1. \A g \in Procs \ {Main} : req'[g] = req[g] /\ req[g].stage = "idle"
      BY <1>r, <1>3 DEF Boot, CleanInv, NobodyWhenDown
    <2>2. req'[Main].stage = "rules"
      BY <1>r, <1>3, IdleFields DEF Boot, Fresh
    <2>3. \A g \in Procs : Undisturbed(g)'
      BY <2>1, <2>2 DEF Undisturbed
    <2>4. QED BY <1>0, <2>3 DEF CleanInv
  <1>4. CASE Serve
    <2>1. ~req'[Main].clean /\ \A g \in Procs \ {Main} : req'[g] = req[g]
      BY <1>r, <1>4, IdleFields DEF Serve, Privately
    <2>2. QED BY <1>0, <1>4, <2>1, OneStays DEF Serve
  <1>5. CASE Crash
    BY <1>0, <1>5, IdleFields DEF Crash, CleanInv
  <1>6. CASE SingBoxCrash \/ SingBoxStart \/ UNCHANGED vars
    <2>1. /\ UNCHANGED <<req, db, file>> /\ running' \in {running, file, NoConfig}
      BY <1>6 DEF SingBoxCrash, SingBoxStart, vars, db
    <2>2. QED BY <1>0, <2>1, UndisturbedStays DEF CleanInv
  <1>7. ASSUME NEW g \in Procs, PublishStep(g) PROVE CleanInv'
    BY <1>0, <1>7, CleanReads, CleanWrites, CleanReloads DEF PublishStep
  <1>8. QED
    BY <1>0, <1>1, <1>2, <1>3, <1>4, <1>5, <1>6, <1>7, CleanMutate DEF Next

LEMMA CleanInit == Init => CleanInv
  BY IdleFields DEF Init, CleanInv, NobodyWhenDown

(* A publish that succeeded undisturbed has put sing-box in sync with the     *)
(* database, for any number of concurrent handlers, restarts and crashes.     *)
THEOREM CleanPublishCorrect == Spec => []CleanPublishIsLive
  <1>1. CleanInv => CleanPublishIsLive
    BY DEF CleanInv, CleanPublishIsLive, Undisturbed
  <1>2. QED
    BY <1>1, TypeCorrect, CleanInit, CleanStep, PTL DEF Spec

-----------------------------------------------------------------------------
(* A step that changes neither tables, file nor excuses, and of one goroutine *)
(* only: what it promised to publish it still does.                           *)
LEMMA DriftStays ==
    ASSUME DriftInv, NEW g \in Procs, Pending(g) => Pending(g)',
           InWindow(g)' => req'[g].clean \/ (InWindow(g) /\ req'[g].clean = req[g].clean),
           \A h \in Procs \ {g} : req'[h] = req[h],
           UNCHANGED <<db, file, excused>>, running' \in {running, file, NoConfig},
           api' # "down" => api # "down"
    PROVE  DriftInv'
  <1> SUFFICES ASSUME api' # "down", ~excused'
               PROVE  /\ \A h \in Procs : InWindow(h)' => req'[h].clean
                      /\ InSync' \/ \E h \in Procs : Pending(h)'
    BY DEF DriftInv
  <1>1. /\ \A h \in Procs : InWindow(h) => req[h].clean
        /\ InSync \/ \E h \in Procs : Pending(h)
    BY DEF DriftInv
  <1>2. ASSUME NEW h \in Procs, InWindow(h)' PROVE req'[h].clean
    BY <1>1, <1>2 DEF InWindow
  <1>3. InSync => InSync'
    BY DEF InSync, Database, db
  <1>4. ASSUME NEW h \in Procs, Pending(h) PROVE Pending(h)'
    BY <1>4 DEF Pending
  <1>5. QED BY <1>1, <1>2, <1>3, <1>4

LEMMA DriftEnds ==
    ASSUME TypeOK, DriftInv, NEW g \in Procs, Ends(g), UNCHANGED <<file, running, api>>,
           req[g].stage \notin {"write", "clash", "docker"}
    PROVE  DriftInv'
  <1>1. CASE excused'
    BY <1>1 DEF DriftInv
  <1>2. CASE req[g].dirty
    BY <1>2 DEF DriftInv, Ends
  <1>3. CASE ~excused' /\ ~req[g].dirty
    <2>1. ~Pending(g) /\ ~InWindow(g)'
      BY <1>3 DEF Pending, InWindow, Ends, Publishing
    <2>2. /\ UNCHANGED <<db, excused>>
          /\ \A h \in Procs \ {g} : req'[h] = req[h]
      BY <1>3 DEF Ends, TypeOK
    <2>3. QED BY <2>1, <2>2, DriftStays
  <1>4. QED BY <1>1, <1>2, <1>3

LEMMA DriftMutate ==
    ASSUME TypeOK, DriftInv, NEW h \in Handlers, Mutate(h) PROVE DriftInv'
  <1>1. CASE Commits(h)
    <2> SUFFICES ASSUME api' # "down", ~excused'
                 PROVE  /\ \A g \in Procs : InWindow(g)' => req'[g].clean
                        /\ InSync' \/ \E g \in Procs : Pending(g)'
      BY DEF DriftInv
    <2>1. Pending(h)' /\ ~InWindow(h)'
      BY <1>1 DEF Commits, Pending, InWindow, Publishing
    <2>2. ASSUME NEW g \in Procs \ {h} PROVE ~InWindow(g)'
      <3>1. ~InWindow(g)
        BY <1>1 DEF Commits
      <3>2. req'[g].stage = req[g].stage
        <4>1. req[g] \in Request /\ req'[g] = [req[g] EXCEPT !.clean = FALSE]
          BY <1>1 DEF Commits, TypeOK
        <4>2. QED BY <4>1 DEF Request
      <3>3. QED BY <3>1, <3>2 DEF InWindow
    <2>3. QED BY <2>1, <2>2
  <1>2. CASE Quietly(h)
    <2>1. /\ Pending(h) => Pending(h)'
          /\ ~InWindow(h)'
      BY <1>2, MutateShape DEF Quietly, Pending, InWindow, Publishing
    <2>2. QED BY <1>2, <2>1, MutateShape, DriftStays DEF Quietly
  <1>3. CASE Ends(h)
    BY <1>3, MutateShape, DriftEnds
  <1>4. QED BY <1>1, <1>2, <1>3, MutateShape

LEMMA DriftReads ==
    ASSUME TypeOK, DriftInv, NEW g \in Procs,
           ReadRules(g) \/ ReadDns(g) \/ ReadPeers(g) \/ GiveUp(g) \/ ClashFails(g)
    PROVE  DriftInv'
  <1>0. req \in [Procs -> Request] /\ req[g] \in Request /\ req[g].snap \in Tables
    BY DEF TypeOK, Request
  <1>1. /\ UNCHANGED <<db, file, api>> /\ running' \in {running, file, NoConfig}
        /\ \A h \in Procs \ {g} : req'[h] = req[h]
    BY <1>0 DEF ReadRules, ReadDns, ReadPeers, GiveUp, ClashFails, Privately, Finish
  <1>2. ASSUME NEW r, Privately(g, r), r.dirty = req[g].dirty,
               r.stage \in {"dns", "peers", "truncate", "docker"},
               r.clean \/ (InWindow(g) /\ r.clean = req[g].clean),
               req[g].stage = "clash" => r.stage = "docker",
               req[g].stage \in {"rules", "dns", "peers", "clash"}
        PROVE  DriftInv'
    <2>1. req'[g] = r /\ UNCHANGED excused
      BY <1>0, <1>2 DEF Privately
    <2>2. Pending(g) => Pending(g)'
      BY <1>2, <2>1 DEF Pending
    <2>3. QED BY <1>1, <1>2, <2>1, <2>2, DriftStays
  <1>3. CASE ReadRules(g)
    <2>1. PICK r : r = [req[g] EXCEPT !.stage = "dns", !.snap.rules = rules, !.clean = TRUE]
      OBVIOUS
    <2>2. r.stage = "dns" /\ r.dirty = req[g].dirty /\ r.clean
      BY <1>0, <2>1 DEF Request
    <2>3. Privately(g, r) /\ req[g].stage = "rules"
      BY <1>3, <2>1 DEF ReadRules
    <2>4. QED BY <1>2, <2>2, <2>3
  <1>4. CASE ReadDns(g)
    <2>1. LET r == [req[g] EXCEPT !.stage = "peers", !.snap.dns = dns]
          IN  r.stage = "peers" /\ r.dirty = req[g].dirty /\ r.clean = req[g].clean
      BY <1>0 DEF Request
    <2>2. CASE excused'
      BY <2>2 DEF DriftInv
    <2>3. CASE Privately(g, [req[g] EXCEPT !.stage = "peers", !.snap.dns = dns])
      BY <1>2, <1>4, <2>1, <2>3 DEF ReadDns, InWindow, Publishing
    <2>4. QED BY <1>4, <2>2, <2>3 DEF ReadDns
  <1>5. CASE ReadPeers(g)
    <2>1. LET r == [req[g] EXCEPT !.stage = "truncate", !.snap.peers = peers]
          IN  r.stage = "truncate" /\ r.dirty = req[g].dirty /\ r.clean = req[g].clean
      BY <1>0 DEF Request
    <2>2. QED BY <1>2, <1>5, <2>1 DEF ReadPeers, InWindow, Publishing
  <1>6. CASE GiveUp(g)
    BY <1>1, <1>6, FinishShape, DriftEnds DEF GiveUp
  <1>7. CASE ClashFails(g)
    <2>1. LET r == [req[g] EXCEPT !.stage = "docker"]
          IN  r.stage = "docker" /\ r.dirty = req[g].dirty /\ r.clean = req[g].clean
      BY <1>0 DEF Request
    <2>2. QED BY <1>2, <1>7, <2>1 DEF ClashFails, InWindow, Publishing
  <1>8. QED BY <1>3, <1>4, <1>5, <1>6, <1>7

LEMMA DriftWrites ==
    ASSUME TypeOK, DriftInv, NEW g \in Procs,
           Truncate(g) \/ Write(g) \/ WriteFails(g) \/ DockerFails(g)
    PROVE  DriftInv'
  <1>1. CASE WriteFails(g) \/ DockerFails(g)
    BY <1>1 DEF WriteFails, DockerFails, DriftInv
  <1>2. CASE Truncate(g) \/ Write(g)
    <2>0. req[g] \in Request
      BY DEF TypeOK
    <2>1. PICK r : /\ Publicly(g, r) /\ r.stage \in {"write", "clash"}
                   /\ r.clean = req[g].clean
      <3>1. LET r == [req[g] EXCEPT !.stage = "write"]
            IN  r.stage = "write" /\ r.clean = req[g].clean
        BY <2>0 DEF Request
      <3>2. LET r == [req[g] EXCEPT !.stage = "clash", !.snap = NoSnap]
            IN  r.stage = "clash" /\ r.clean = req[g].clean
        BY <2>0 DEF Request
      <3>3. QED BY <1>2, <3>1, <3>2 DEF Truncate, Write
    <2> SUFFICES ASSUME api' # "down", ~excused'
                 PROVE  /\ \A h \in Procs : InWindow(h)' => req'[h].clean
                        /\ InSync' \/ \E h \in Procs : Pending(h)'
      BY DEF DriftInv
    <2>2. req'[g] = r /\ Pending(g)'
      BY <2>1 DEF Publicly, Pending
    <2>3. req[g].clean
      BY <1>2, <2>1 DEF DriftInv, Publicly, InWindow, Publishing, Truncate, Write
    <2>4. ASSUME NEW h \in Procs \ {g} PROVE ~InWindow(h)'
      <3>1. ~InWindow(h)
        BY <2>1 DEF Publicly
      <3>2. req'[h].stage = req[h].stage
        BY <2>1 DEF Publicly, TypeOK, Request
      <3>3. QED BY <3>1, <3>2 DEF InWindow
    <2>5. QED BY <2>1, <2>2, <2>3, <2>4
  <1>3. QED BY <1>1, <1>2

LEMMA DriftReloads ==
    ASSUME TypeOK, CleanInv, DriftInv, NEW g \in Procs, ClashReload(g) \/ DockerRestart(g)
    PROVE  DriftInv'
  <1> SUFFICES ASSUME api' # "down", ~excused'
               PROVE  /\ \A h \in Procs : InWindow(h)' => req'[h].clean
                      /\ InSync' \/ \E h \in Procs : Pending(h)'
    BY DEF DriftInv
  <1>1. /\ Reloaded(g) /\ running' \in {file, NoConfig} /\ UNCHANGED <<db, file, api>>
        /\ req[g].stage \in {"clash", "docker"}
    BY DEF ClashReload, DockerRestart
  <1>2. \A h \in Procs : InWindow(h) => req[h].clean
    BY <1>1 DEF Reloaded, DriftInv
  <1>3. file = Generate(Database)
    BY <1>1, <1>2 DEF InWindow, Publishing, CleanInv, Undisturbed
  <1>4. InSync'
    BY <1>1, <1>3 DEF InSync, Database, db
  <1>5. ASSUME NEW h \in Procs, InWindow(h)' PROVE req'[h].clean
    BY <1>1, <1>2, <1>5, ReloadedShape DEF InWindow, Publishing
  <1>6. QED BY <1>4, <1>5

LEMMA DriftStep == ASSUME TypeOK, CleanInv, DriftInv, [Next]_vars PROVE DriftInv'
  <1>r. req \in [Procs -> Request]
    BY DEF TypeOK
  <1>1. ASSUME NEW h \in Handlers, Accept(h) PROVE DriftInv'
    <2>1. PICK op, s : Privately(h, Fresh(op, s)) /\ (s = "commit" \/ s = "rules")
      BY <1>1, Zenon DEF Accept, Requested
    <2>2. /\ req'[h].stage = s /\ UNCHANGED excused
          /\ \A g \in Procs \ {h} : req'[g] = req[g]
      BY <1>r, <2>1, IdleFields DEF Privately
    <2>3. ~Pending(h) /\ ~InWindow(h)'
      BY <1>1, <2>1, <2>2 DEF Accept, Pending, InWindow, Publishing
    <2>4. QED BY <1>1, <2>2, <2>3, DriftStays DEF Accept
  <1>2. ASSUME NEW h \in Handlers, Reply(h) PROVE DriftInv'
    <2>1. /\ req'[h].stage = "idle" /\ UNCHANGED excused
          /\ \A g \in Procs \ {h} : req'[g] = req[g]
      BY <1>r, <1>2, IdleFields DEF Reply, Privately
    <2>2. ~Pending(h) /\ ~InWindow(h)'
      BY <1>2, <2>1 DEF Reply, Pending, InWindow, Publishing
    <2>3. QED BY <1>2, <2>1, <2>2, DriftStays DEF Reply
  <1>3. CASE Boot
    <2>1. \A g \in Procs \ {Main} : req'[g] = req[g] /\ req[g].stage = "idle"
      BY <1>r, <1>3 DEF Boot, CleanInv, NobodyWhenDown
    <2>2. req'[Main].stage = "rules" /\ req'[Main].dirty
      BY <1>r, <1>3, IdleFields DEF Boot, Fresh
    <2>3. QED BY <2>1, <2>2 DEF DriftInv, Pending, InWindow, Publishing
  <1>4. CASE Serve
    <2>1. /\ req'[Main].stage = "idle" /\ UNCHANGED excused
          /\ \A g \in Procs \ {Main} : req'[g] = req[g]
      BY <1>r, <1>4, IdleFields DEF Serve, Privately
    <2>2. ~Pending(Main) /\ ~InWindow(Main)'
      BY <1>4, <2>1 DEF Serve, Pending, InWindow, Publishing
    <2>3. api # "down"
      BY <1>4 DEF Serve, CleanInv, NobodyWhenDown
    <2>4. QED BY <1>4, <2>1, <2>2, <2>3, DriftStays DEF Serve
  <1>5. CASE Crash
    BY <1>5 DEF Crash, DriftInv
  <1>6. CASE SingBoxCrash \/ SingBoxStart \/ UNCHANGED vars
    <2>1. /\ UNCHANGED <<req, db, file, api, excused>>
          /\ running' \in {running, file, NoConfig}
      BY <1>6 DEF SingBoxCrash, SingBoxStart, vars, db
    <2>2. InSync => InSync'
      BY <2>1 DEF InSync, Database, db
    <2>3. QED BY <2>1, <2>2 DEF DriftInv, InWindow, Pending
  <1>7. ASSUME NEW g \in Procs, PublishStep(g) PROVE DriftInv'
    BY <1>7, DriftReads, DriftWrites, DriftReloads DEF PublishStep
  <1>8. QED
    BY <1>1, <1>2, <1>3, <1>4, <1>5, <1>6, <1>7, DriftMutate DEF Next

(* When the API is quiet, sing-box disagrees with the database only for one   *)
(* of the causes `excused' records: for any number of handlers, any history   *)
(* of requests, API restarts and sing-box crashes.                            *)
THEOREM DriftCorrect == Spec => []DriftHasCause
  <1>1. Init => DriftInv
    BY DEF Init, DriftInv
  <1>2. DriftInv => DriftHasCause
    BY DEF DriftInv, DriftHasCause, Quiescent, Pending
  <1>3. QED
    BY <1>1, <1>2, TypeCorrect, CleanInit, CleanStep, DriftStep, PTL DEF Spec

-----------------------------------------------------------------------------
(* Only a restart brings deleted rows back.                                   *)
StayDeleted == /\ \A p \in Peers : peers[p] = "deleted" => peers'[p] = "deleted"
               /\ \A r \in Rules : rules.rows[r] = "deleted" => rules'.rows[r] = "deleted"

LEMMA OwnStays ==
    ASSUME TypeOK, OwnInv, NEW g \in Procs, g \in Handlers => Own(g)', StayDeleted, NobodyWhenDown',
           \A h \in Procs \ {g} : \/ req'[h] = req[h]
                                  \/ req'[h] = [req[h] EXCEPT !.clean = FALSE]
    PROVE  OwnInv'
  <1> SUFFICES ASSUME NEW h \in Handlers, h # g PROVE Own(h)'
    BY DEF OwnInv
  <1>1. /\ req'[h].stage = req[h].stage /\ req'[h].op = req[h].op /\ req'[h].snap = req[h].snap
    <2>1. req[h] \in Request /\ (req'[h] = req[h] \/ req'[h] = [req[h] EXCEPT !.clean = FALSE])
      BY DEF TypeOK
    <2>2. QED BY <2>1 DEF Request
  <1>2. /\ req[h].op.kind = "deletePeer" => req[h].op.peer \in Peers
        /\ req[h].op.kind = "deleteRule" => req[h].op.rule \in Rules
    BY DEF TypeOK, Request, Ops
  <1>3. Own(h)
    BY DEF OwnInv
  <1>4. QED BY <1>1, <1>2, <1>3 DEF Own, StayDeleted

LEMMA OwnMutate ==
    ASSUME TypeOK, OwnInv, NEW h \in Handlers, Mutate(h), NobodyWhenDown' PROVE OwnInv'
  <1>0. /\ req \in [Procs -> Request] /\ req[h] \in Request /\ Own(h)
        /\ peers \in [Peers -> Status] /\ rules \in [rows : [Rules -> Status], order : Orders]
    BY DEF TypeOK, OwnInv
  <1>1. \A g \in Procs \ {h} : \/ req'[g] = req[g]
                                \/ req'[g] = [req[g] EXCEPT !.clean = FALSE]
    BY MutateShape DEF Commits, Quietly, Ends
  <1>2. ASSUME Committed(h, Publish(h)) PROVE req'[h].stage = "rules" /\ req'[h].op = req[h].op
    <2>1. req'[h] = [Publish(h) EXCEPT !.dirty = TRUE]
      BY <1>2 DEF Committed, Publicly
    <2>2. QED BY <1>0, <2>1 DEF Publish, Request
  <1>3. CASE CreatePeer(h) \/ TogglePeer(h)
    <2>1. Own(h)'
      BY <1>2, <1>3 DEF CreatePeer, TogglePeer, Doing, Own
    <2>2. StayDeleted
      BY <1>0, <1>3 DEF CreatePeer, TogglePeer, StayDeleted, Live
    <2>3. QED BY <1>1, <2>1, <2>2, OwnStays
  <1>4. CASE CreateRule(h) \/ UpdateRule(h) \/ ReorderRules(h)
    <2>1. Own(h)'
      BY <1>2, <1>4 DEF CreateRule, UpdateRule, ReorderRules, Doing, Own
    <2>2. StayDeleted
      <3>1. CASE CreateRule(h)
        BY <1>0, <3>1, InsertRuleEffect DEF CreateRule, StayDeleted
      <3>2. CASE UpdateRule(h) \/ ReorderRules(h)
        BY <1>0, <3>2 DEF UpdateRule, ReorderRules, StayDeleted, Live
      <3>3. QED BY <1>4, <3>1, <3>2
    <2>3. QED BY <1>1, <2>1, <2>2, OwnStays
  <1>5. CASE DeletePeer(h)
    <2>1. req[h].op.peer \in Peers /\ req[h].op.kind = "deletePeer"
      BY <1>0, <1>5 DEF DeletePeer, Doing, Request, Ops
    <2>2. peers'[req[h].op.peer] = "deleted"
      BY <1>0, <1>5, <2>1 DEF DeletePeer
    <2>3. Own(h)'
      BY <1>2, <1>5, <2>1, <2>2 DEF DeletePeer, Own
    <2>4. StayDeleted
      BY <1>0, <1>5 DEF DeletePeer, StayDeleted
    <2>5. QED BY <1>1, <2>3, <2>4, OwnStays
  <1>6. CASE DeleteRule(h)
    <2>1. req[h].op.rule \in Rules /\ req[h].op.kind = "deleteRule"
      BY <1>0, <1>6 DEF DeleteRule, Doing, Request, Ops
    <2>2. rules'.rows[req[h].op.rule] = "deleted"
      BY <1>0, <1>6, <2>1 DEF DeleteRule
    <2>3. Own(h)'
      BY <1>2, <1>6, <2>1, <2>2 DEF DeleteRule, Own
    <2>4. StayDeleted
      BY <1>0, <1>6 DEF DeleteRule, StayDeleted
    <2>5. QED BY <1>1, <2>3, <2>4, OwnStays
  <1>7. CASE UpdateDns(h) \/ CommitFails(h)
    <2>1. req'[h].stage = "reply"
      <3>1. CASE UpdateDns(h)
        <4>1. req'[h] = [req[h] EXCEPT !.stage = "reply", !.outcome = "unpublished", !.dirty = TRUE]
          BY <3>1 DEF UpdateDns
        <4>2. QED BY <1>0, <4>1 DEF Request
      <3>2. CASE CommitFails(h)
        BY <3>2, FinishShape DEF CommitFails, Ends
      <3>3. QED BY <1>7, <3>1, <3>2
    <2>2. Own(h)'
      BY <2>1 DEF Own, Publishing
    <2>3. StayDeleted
      BY <1>7 DEF UpdateDns, CommitFails, StayDeleted, db
    <2>4. QED BY <1>1, <2>2, <2>3, OwnStays
  <1>8. CASE ListRules(h) \/ ClearRule(h) \/ Cleared(h) \/ FillRule(h) \/ Filled(h)
    <2>1. req[h].op.kind = "applyPreset"
      BY <1>0, <1>8 DEF ListRules, Doing, ClearRule, Cleared, FillRule, Filled, Own
    <2>2. ASSUME NEW r, r.op = req[h].op, r \in Request, Privately(h, r) \/ Committed(h, r)
          PROVE  req'[h].op = req[h].op
      BY <1>0, <2>2 DEF Privately, Committed, Publicly, Request
    <2>3. req'[h].op = req[h].op
      <3>1. CASE ListRules(h)
        <4>1. PICK r : r = [req[h] EXCEPT !.stage = "clear",
                                          !.todo = {x \in Rules : rules.rows[x] \in Live},
                                          !.left = req[h].op.size]
          OBVIOUS
        <4>2. r \in Request /\ r.op = req[h].op
          BY <1>0, <2>1, <4>1, ConstantsAssumption DEF Request, Stages, Ops
        <4>3. QED BY <2>2, <3>1, <4>1, <4>2 DEF ListRules
      <3>2. CASE ClearRule(h)
        <4>1. PICK x, r : /\ r = [req[h] EXCEPT !.todo = @ \ {x}]
                          /\ Privately(h, r) \/ Committed(h, r)
          BY <3>2 DEF ClearRule
        <4>2. r \in Request /\ r.op = req[h].op
          BY <1>0, <4>1 DEF Request
        <4>3. QED BY <2>2, <4>1, <4>2
      <3>3. CASE FillRule(h)
        <4>1. PICK r : /\ r = [req[h] EXCEPT !.left = @ - 1]
                       /\ Privately(h, r) \/ Committed(h, r)
          BY <3>3 DEF FillRule
        <4>2. r \in Request /\ r.op = req[h].op
          BY <1>0, <3>3, <4>1 DEF Request, FillRule
        <4>3. QED BY <2>2, <4>1, <4>2
      <3>4. CASE Cleared(h)
        <4>1. PICK r : r = [req[h] EXCEPT !.stage = "fill"] /\ Privately(h, r)
          BY <3>4 DEF Cleared
        <4>2. r \in Request /\ r.op = req[h].op
          BY <1>0, <4>1 DEF Request, Stages
        <4>3. QED BY <2>2, <4>1, <4>2
      <3>5. CASE Filled(h)
        <4>1. PICK r : r = [req[h] EXCEPT !.stage = "rules"] /\ Privately(h, r)
          BY <3>5 DEF Filled, Publish
        <4>2. r \in Request /\ r.op = req[h].op
          BY <1>0, <4>1 DEF Request, Stages
        <4>3. QED BY <2>2, <4>1, <4>2
      <3>6. QED BY <1>8, <3>1, <3>2, <3>3, <3>4, <3>5
    <2>4. Own(h)'
      BY <2>1, <2>3 DEF Own
    <2>5. StayDeleted
      <3>1. CASE FillRule(h)
        BY <1>0, <3>1, InsertRuleEffect DEF FillRule, StayDeleted, db
      <3>2. CASE ListRules(h) \/ ClearRule(h) \/ Cleared(h) \/ Filled(h)
        BY <1>0, <3>2 DEF ListRules, ClearRule, Cleared, Filled, StayDeleted, db
      <3>3. QED BY <1>8, <3>1, <3>2
    <2>6. QED BY <1>1, <2>4, <2>5, OwnStays
  <1>9. QED
    BY <1>3, <1>4, <1>5, <1>6, <1>7, <1>8 DEF Mutate

LEMMA OwnPublish ==
    ASSUME TypeOK, OwnInv, NEW g \in Procs, PublishStep(g), NobodyWhenDown' PROVE OwnInv'
  <1>0. /\ req \in [Procs -> Request] /\ req[g] \in Request /\ req[g].snap \in Tables
        /\ g \in Handlers => Own(g)
    BY DEF TypeOK, OwnInv, Request
  <1>1. UNCHANGED <<peers, rules>> /\ StayDeleted
    BY PublishFrame DEF StayDeleted, db
  <1>2. ASSUME \A h \in Procs \ {g} : \/ req'[h] = req[h]
                                       \/ req'[h] = [req[h] EXCEPT !.clean = FALSE],
               \/ req'[g].stage \in {"reply", "docker", "clash"} /\ req'[g].op = req[g].op
               \/ g \in Handlers => Own(g)'
        PROVE  OwnInv'
    <2>1. g \in Handlers => Own(g)'
      BY <1>0, <1>1, <1>2, PublishFrame DEF Own, Publishing
    <2>2. QED BY <1>1, <1>2, <2>1, OwnStays
  <1>3. CASE ReadRules(g)
    <2>1. req' = [req EXCEPT ![g] =
            [req[g] EXCEPT !.stage = "dns", !.snap.rules = rules, !.clean = TRUE]]
      BY <1>3 DEF ReadRules, Privately
    <2>2. /\ req'[g].stage = "dns" /\ req'[g].op = req[g].op /\ req'[g].snap.rules = rules
      BY <1>0, <2>1 DEF Request, Tables
    <2>3. g \in Handlers => Own(g)'
      BY <1>0, <1>1, <1>3, <2>2 DEF Own, ReadRules
    <2>4. QED BY <1>0, <1>2, <2>1, <2>3
  <1>4. CASE ReadDns(g)
    <2>1. PICK d, c : req' = [req EXCEPT ![g] =
            [req[g] EXCEPT !.stage = "peers", !.snap.dns = d, !.clean = c]]
      <3>1. CASE Privately(g, [req[g] EXCEPT !.stage = "peers", !.snap.dns = dns])
        <4>1. [req[g] EXCEPT !.stage = "peers", !.snap.dns = dns]
               = [req[g] EXCEPT !.stage = "peers", !.snap.dns = dns, !.clean = req[g].clean]
          BY <1>0 DEF Request
        <4>2. QED BY <3>1, <4>1 DEF Privately
      <3>2. CASE req' = [req EXCEPT ![g].stage = "peers", ![g].snap.dns = DefaultUpstream,
                                    ![g].clean = FALSE]
        BY <1>0, <3>2
      <3>3. QED BY <1>4, <3>1, <3>2 DEF ReadDns
    <2>2. /\ req'[g].stage = "peers" /\ req'[g].op = req[g].op
          /\ req'[g].snap.rules = req[g].snap.rules
      BY <1>0, <2>1 DEF Request, Tables
    <2>3. g \in Handlers => Own(g)'
      BY <1>0, <1>1, <1>4, <2>2 DEF Own, ReadDns, Publishing
    <2>4. QED BY <1>0, <1>2, <2>1, <2>3
  <1>5. CASE ReadPeers(g)
    <2>1. req' = [req EXCEPT ![g] = [req[g] EXCEPT !.stage = "truncate", !.snap.peers = peers]]
      BY <1>5 DEF ReadPeers, Privately
    <2>2. /\ req'[g].stage = "truncate" /\ req'[g].op = req[g].op
          /\ req'[g].snap.rules = req[g].snap.rules /\ req'[g].snap.peers = peers
      BY <1>0, <2>1 DEF Request, Tables
    <2>3. g \in Handlers => Own(g)'
      BY <1>0, <1>1, <1>5, <2>2 DEF Own, ReadPeers, Publishing
    <2>4. QED BY <1>0, <1>2, <2>1, <2>3
  <1>6. CASE Truncate(g)
    <2>1. req'[g] = [req[g] EXCEPT !.stage = "write"]
      BY <1>6 DEF Truncate, Publicly
    <2>2. /\ req'[g].stage = "write" /\ req'[g].op = req[g].op /\ req'[g].snap = req[g].snap
      BY <1>0, <2>1 DEF Request
    <2>3. g \in Handlers => Own(g)'
      BY <1>0, <1>1, <1>6, <2>2 DEF Own, Truncate, Publishing
    <2>4. QED BY <1>2, <1>6, <2>3 DEF Truncate, Publicly
  <1>7. CASE Write(g)
    <2>1. req'[g] = [req[g] EXCEPT !.stage = "clash", !.snap = NoSnap]
      BY <1>7 DEF Write, Publicly
    <2>2. req'[g].stage = "clash" /\ req'[g].op = req[g].op
      BY <1>0, <2>1 DEF Request
    <2>3. QED BY <1>2, <1>7, <2>2 DEF Write, Publicly
  <1>8. CASE WriteFails(g)
    <2>1. req'[g] = [req[g] EXCEPT !.stage = "reply", !.outcome = "unpublished",
                                   !.snap = NoSnap, !.clean = FALSE]
      BY <1>8 DEF WriteFails
    <2>2. req'[g].stage = "reply" /\ req'[g].op = req[g].op
      BY <1>0, <2>1 DEF Request
    <2>3. QED BY <1>2, <1>8, <2>2 DEF WriteFails
  <1>9. CASE GiveUp(g) \/ DockerFails(g)
    <2>1. /\ req'[g].stage = "reply" /\ req'[g].op = req[g].op
          /\ \A h \in Procs \ {g} : req'[h] = req[h]
      BY <1>0, <1>9 DEF GiveUp, DockerFails, Finish, Request
    <2>2. QED BY <1>2, <2>1
  <1>10. CASE ClashReload(g) \/ DockerRestart(g)
    <2>1. Reloaded(g)
      BY <1>10 DEF ClashReload, DockerRestart
    <2>2. req'[g].op = req[g].op
      BY <1>0, <2>1 DEF Reloaded, Request
    <2>3. QED BY <1>2, <2>1, <2>2, ReloadedShape
  <1>11. CASE ClashFails(g)
    <2>1. req' = [req EXCEPT ![g] = [req[g] EXCEPT !.stage = "docker"]]
      BY <1>11 DEF ClashFails, Privately
    <2>2. req'[g].stage = "docker" /\ req'[g].op = req[g].op
      BY <1>0, <2>1 DEF Request
    <2>3. QED BY <1>0, <1>2, <2>1, <2>2
  <1>12. QED
    BY <1>3, <1>4, <1>5, <1>6, <1>7, <1>8, <1>9, <1>10, <1>11 DEF PublishStep

LEMMA OwnStep == ASSUME TypeOK, OwnInv, [Next]_vars PROVE OwnInv'
  <1>0. NobodyWhenDown'
    BY DownStep DEF OwnInv
  <1>r. req \in [Procs -> Request]
    BY DEF TypeOK
  <1>1. ASSUME NEW h \in Handlers, Accept(h) PROVE OwnInv'
    <2>1. PICK op, s : /\ Privately(h, Fresh(op, s))
                       /\ s = "commit" \/ (s = "rules" /\ op = [kind |-> "sync"])
      BY <1>1, Zenon DEF Accept, Requested
    <2>2. req'[h].stage = s /\ req'[h].op = op /\ \A g \in Procs \ {h} : req'[g] = req[g]
      BY <1>r, <2>1, IdleFields DEF Privately
    <2>3. Own(h)'
      BY <2>1, <2>2 DEF Own, Publishing
    <2>4. StayDeleted
      BY <1>1 DEF Accept, StayDeleted, db
    <2>5. QED BY <1>0, <2>2, <2>3, <2>4, OwnStays
  <1>2. ASSUME NEW h \in Handlers, Reply(h) PROVE OwnInv'
    <2>1. req'[h].stage = "idle" /\ \A g \in Procs \ {h} : req'[g] = req[g]
      BY <1>r, <1>2, IdleFields DEF Reply, Privately
    <2>2. Own(h)' /\ StayDeleted
      BY <1>2, <2>1 DEF Own, Publishing, Reply, StayDeleted, db
    <2>3. QED BY <1>0, <2>1, <2>2, OwnStays
  <1>3. CASE Boot
    <2>1. ASSUME NEW h \in Handlers PROVE req'[h].stage = "idle"
      BY <1>r, <1>3, ConstantsAssumption DEF Boot, OwnInv, NobodyWhenDown
    <2>2. QED BY <1>0, <2>1 DEF OwnInv, Own, Publishing
  <1>4. CASE Serve
    <2>1. \A g \in Procs \ {Main} : req'[g] = req[g]
      BY <1>r, <1>4 DEF Serve, Privately
    <2>2. StayDeleted
      BY <1>4 DEF Serve, StayDeleted, db
    <2>3. QED BY <1>0, <2>1, <2>2, OwnStays, ConstantsAssumption
  <1>5. CASE Crash
    <2>1. \A h \in Handlers : req'[h].stage = "idle"
      BY <1>5, IdleFields DEF Crash
    <2>2. QED BY <1>0, <2>1 DEF OwnInv, Own, Publishing
  <1>6. CASE SingBoxCrash \/ SingBoxStart \/ UNCHANGED vars
    BY <1>0, <1>6 DEF SingBoxCrash, SingBoxStart, vars, db, OwnInv, Own
  <1>7. QED
    BY <1>0, <1>1, <1>2, <1>3, <1>4, <1>5, <1>6, OwnMutate, OwnPublish DEF Next

(* A peer or a rule that a request deletes is never in the configuration the  *)
(* same request writes, whatever its reads interleave with.                   *)
THEOREM OwnChangeCorrect == Spec => []OwnChangeInSnapshot
  <1>1. Init => OwnInv
    <2>1. ASSUME Init PROVE \A g \in Procs : req[g].stage = "idle"
      BY <2>1, IdleFields DEF Init
    <2>2. QED BY <2>1 DEF Init, OwnInv, Own, NobodyWhenDown, Publishing
  <1>2. OwnInv => OwnChangeInSnapshot
    BY DEF OwnInv, Own, OwnChangeInSnapshot, Generate, Publishing
  <1>3. QED
    BY <1>1, <1>2, TypeCorrect, OwnStep, PTL DEF Spec
=============================================================================

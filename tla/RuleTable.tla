------------------------------ MODULE RuleTable ------------------------------
(***************************************************************************)
(* The table of routing rules and the requests that change it.             *)
(*                                                                         *)
(* The priority of a rule decides which of two matching rules sing-box     *)
(* obeys, and nothing in the schema keeps two rules from sharing one: it   *)
(* is up to the handlers.  Each of them runs one or more SQL statements    *)
(* while others run theirs: a new rule gets the number of rules plus one,  *)
(* counted in a statement of its own; an update reads the row, changes the *)
(* columns the request names and writes all of them back; a preset lists   *)
(* the rules, deletes them one by one and inserts its own one by one;      *)
(* only a reorder is a transaction.  What follows the change, the publish, *)
(* is the subject of ConfigSync and not repeated here.                     *)
(*                                                                         *)
(* A row is its body (name, type, pattern and action), its priority and    *)
(* whether it is active.  Rules are numbered in the order of insertion:    *)
(* UUIDs are never reused.  A request that is refused, or whose first      *)
(* statement fails or finds nothing, changes nothing and is not a step.    *)
(***************************************************************************)
EXTENDS Integers, Sequences, FiniteSets

CONSTANTS
    Handlers,     \* goroutines that serve requests
    Bodies,       \* what rules may say
    Seed,         \* the seed rows, a sequence of bodies: priorities 1, 2, ...
    Presets,      \* sequences of bodies
    Orders,       \* lists of rules that reorders name
    Edits,        \* sets of columns that updates name
    Priorities,   \* the priorities requests name: any integers
    MaxRequests,  \* bound on requests
    MaxRules,     \* bound on rows ever inserted
    MaxFaults,    \* bound on failing statements
    MaxRestarts   \* bound on restarts of the process

Columns == {"body", "priority", "active"}

ASSUME RuleAssumption ==
    /\ Bodies # {} /\ Seed \in Seq(Bodies)
    /\ Presets \subseteq Seq(Bodies) \ {<<>>}
    /\ Orders \subseteq Seq(Nat) \ {<<>>}
    /\ Edits \subseteq SUBSET Columns
    /\ Priorities \subseteq Int /\ MaxRequests \in Nat /\ MaxRules \in Nat
    /\ MaxFaults \in Nat /\ MaxRestarts \in Nat

VARIABLES
    rules,     \* routing_rules: a function from the numbers of its rows
    issued,    \* how many rows were ever inserted
    call,      \* what each handler is doing
    requests,  \* requests accepted
    faults,    \* statements that failed
    restarts,  \* restarts of the process
    said,      \* history: per row and column, the last value that was asked for
    torn,      \* history: <<row, column>> written back over another change, and
               \* not asked for again since
    loose      \* history: something happened that may leave a gap or a tie

tables  == <<rules, issued>>
counts  == <<requests, faults, restarts>>
history == <<said, torn, loose>>
vars    == <<tables, call, counts, history>>

-----------------------------------------------------------------------------
Row(body, priority, active) == [body |-> body, priority |-> priority, active |-> active]
Rows == [body : Bodies, priority : Int, active : BOOLEAN]

With(table, id, row) == [i \in DOMAIN table \cup {id} |-> IF i = id THEN row ELSE table[i]]
Without(table, id)   == [i \in DOMAIN table \ {id} |-> table[i]]

SeedRows == [i \in 1 .. Len(Seed) |-> Row(Seed[i], i, TRUE)]

(* SELECT COUNT( * ).                                                       *)
Count == Cardinality(DOMAIN rules)

(* A changed Patched: a request that does not say whether the rule is active *)
(* makes it so (a plain bool in the request instead of a pointer).           *)
PatchedActive(row, columns, ask) ==
    [c \in Columns |-> IF c \in columns THEN ask[c] ELSE IF c = "active" THEN TRUE ELSE row[c]]

(* The row an update writes: what it asks for in the columns it names, what *)
(* it has read in the others.                                               *)
Patched(row, columns, ask) == [c \in Columns |-> IF c \in columns THEN ask[c] ELSE row[c]]

(* The priority of rule i after a reorder: one UPDATE per place of the list, *)
(* the last that names the rule counts, rules it leaves out stay.            *)
Places(order, i) == {k \in 1 .. Len(order) : order[k] = i}

(* A changed Moved: the places are counted from zero.                        *)
MovedFromZero(row, i, order) ==
    Row(row.body,
        IF Places(order, i) = {} THEN row.priority
        ELSE (CHOOSE k \in Places(order, i) : \A m \in Places(order, i) : m <= k) - 1,
        row.active)

Moved(row, i, order) ==
    Row(row.body,
        IF Places(order, i) = {} THEN row.priority
        ELSE CHOOSE k \in Places(order, i) : \A m \in Places(order, i) : m <= k,
        row.active)
Reordered(table, order) == [i \in DOMAIN table |-> Moved(table[i], i, order)]

Named(order) == {i \in DOMAIN rules : Places(order, i) # {}}

(* A list that names every rule once.                                        *)
Complete(order) ==
    /\ Len(order) = Count
    /\ {order[k] : k \in 1 .. Len(order)} = DOMAIN rules

(* Every rule has a place of its own, and no place is empty.               *)
Dense(table) ==
    /\ \A i \in DOMAIN table : table[i].priority \in 1 .. Cardinality(DOMAIN table)
    /\ \A i, j \in DOMAIN table : table[i].priority = table[j].priority => i = j

(* What a handler remembers between two statements: the row it will insert or  *)
(* has read, the columns to change and their new values; for a preset, the     *)
(* rules it has listed, those still to be deleted, how many of its own were    *)
(* tried, whether anybody else changed the table since, and whether all its    *)
(* statements worked.                                                          *)
Call == [stage : {"idle", "counted", "read", "clear", "fill"},
         id : Nat, row : Rows, columns : SUBSET Columns, ask : Rows,
         listed : SUBSET Nat, todo : SUBSET Nat, preset : Seq(Bodies), next : Nat,
         alone : BOOLEAN, clean : BOOLEAN]

NoRow == Row(CHOOSE b \in Bodies : TRUE, 0, TRUE)

Idle == [stage |-> "idle", id |-> 0, row |-> NoRow, columns |-> {}, ask |-> NoRow,
         listed |-> {}, todo |-> {}, preset |-> <<>>, next |-> 0,
         alone |-> TRUE, clean |-> TRUE]

Init ==
    /\ rules = SeedRows /\ issued = Len(Seed)
    /\ call = [h \in Handlers |-> Idle]
    /\ requests = 0 /\ faults = 0 /\ restarts = 0
    /\ said = SeedRows /\ torn = {} /\ loose = FALSE

-----------------------------------------------------------------------------
At(h, stage) == call[h].stage = stage
InPreset(h)  == At(h, "clear") \/ At(h, "fill")

Accept(h) ==
    /\ At(h, "idle")
    /\ requests < MaxRequests /\ requests' = requests + 1
    /\ UNCHANGED <<faults, restarts>>

Works == UNCHANGED counts
Fails == faults < MaxFaults /\ faults' = faults + 1 /\ UNCHANGED <<requests, restarts>>

(* A handler that has not changed the table.                                *)
Goes(h, mine) == call' = [call EXCEPT ![h] = mine]

(* A handler that has: a preset that is being applied is not alone any more. *)
Changes(h, mine) ==
    call' = [g \in Handlers |->
                IF g = h THEN mine
                ELSE IF InPreset(g) THEN [call[g] EXCEPT !.alone = FALSE]
                ELSE call[g]]

(* A changed InsertRow: the new row takes the place of the last one.        *)
InsertRowOver(row) ==
    /\ issued < MaxRules /\ issued' = issued
    /\ rules' = With(rules, issued + 1, row)
    /\ said' = With(said, issued + 1, row)
    /\ UNCHANGED torn

(* INSERT of a row nobody has seen.                                         *)
InsertRow(row) ==
    /\ issued < MaxRules /\ issued' = issued + 1
    /\ rules' = With(rules, issued + 1, row)
    /\ said' = With(said, issued + 1, row)
    /\ UNCHANGED torn

-----------------------------------------------------------------------------
(* CreateRule without a priority: the number of rules plus one, counted by a *)
(* statement of its own,                                                     *)
CountRules(h) ==
    \E body \in Bodies :
        /\ Accept(h)
        /\ Goes(h, [Idle EXCEPT !.stage = "counted", !.row = Row(body, Count + 1, TRUE)])
        /\ UNCHANGED <<tables, history>>

(* and the insertion by the next.                                            *)
InsertCounted(h) ==
    /\ At(h, "counted") /\ Works
    /\ InsertRow(call[h].row)
    /\ loose' = (loose \/ call[h].row.priority # Count + 1)
    /\ Changes(h, Idle)

(* CreateRule with a priority, which may be negative but not zero, inserts   *)
(* at once.                                                                  *)
InsertAt(h) ==
    \E body \in Bodies, priority \in Priorities \ {0} :
        /\ Accept(h)
        /\ InsertRow(Row(body, priority, TRUE))
        /\ loose' = (loose \/ priority # Count + 1)
        /\ Changes(h, Idle)

(* UpdateRule reads the row,                                                 *)
ReadRule(h) ==
    \E id \in DOMAIN rules, columns \in Edits, body \in Bodies,
       priority \in Priorities, active \in BOOLEAN :
        /\ Accept(h)
        /\ Goes(h, [Idle EXCEPT !.stage = "read", !.id = id, !.row = rules[id],
                                !.columns = columns, !.ask = Patched(NoRow, columns, Row(body, priority, active))])
        /\ UNCHANGED <<tables, history>>

(* changes the columns the request names and writes them all back, those it  *)
(* did not mean to change included.                                          *)
WriteRule(h) ==
    LET mine == call[h]
        id   == mine.id
        row  == Patched(mine.row, mine.columns, mine.ask)
    IN  /\ At(h, "read") /\ Works
        /\ id \in DOMAIN rules
        /\ rules' = With(rules, id, row)
        /\ said' = With(said, id, [c \in Columns |-> IF c \in mine.columns THEN mine.ask[c]
                                                    ELSE said[id][c]])
        /\ torn' = (torn \ {<<id, c>> : c \in mine.columns})
                     \cup {<<id, c>> : c \in {d \in Columns \ mine.columns :
                                                mine.row[d] # rules[id][d]}}
        /\ loose' = (loose \/ row.priority # rules[id].priority)
        /\ Changes(h, Idle)
        /\ UNCHANGED issued

(* The row has been deleted meanwhile: no row is affected, 404.              *)
WriteNothing(h) ==
    /\ At(h, "read") /\ Works
    /\ call[h].id \notin DOMAIN rules
    /\ Goes(h, Idle)
    /\ UNCHANGED <<tables, history>>

DeleteRule(h) ==
    \E id \in DOMAIN rules :
        /\ Accept(h)
        /\ rules' = Without(rules, id) /\ said' = Without(said, id)
        /\ loose' = (loose \/ rules[id].priority # Count)
        /\ Changes(h, Idle)
        /\ UNCHANGED <<issued, torn>>

(* ReorderRules, one transaction.                                            *)
Reorder(h) ==
    \E order \in Orders :
        /\ Accept(h)
        /\ rules' = Reordered(rules, order) /\ said' = Reordered(said, order)
        /\ torn' = torn \ {<<i, "priority">> : i \in Named(order)}
        /\ loose' = ~Complete(order)
        /\ Changes(h, Idle)
        /\ UNCHANGED issued

-----------------------------------------------------------------------------
(* A changed Cleared: a rule that is already gone ends the deletion.         *)
ClearedUntilGone(h, id) ==
    LET todo == IF id \in DOMAIN rules THEN call[h].todo \ {id} ELSE {}
    IN  [call[h] EXCEPT !.todo = todo, !.stage = IF todo = {} THEN "fill" ELSE "clear"]

(* The rule is deleted, or somebody else has deleted it (logged).            *)
Cleared(h, id) ==
    LET todo == call[h].todo \ {id}
    IN  [call[h] EXCEPT !.todo = todo, !.stage = IF todo = {} THEN "fill" ELSE "clear"]

(* ApplyPreset lists the rules there are,                                    *)
ListRules(h) ==
    \E preset \in Presets :
        /\ Accept(h)
        /\ Goes(h, [Idle EXCEPT !.stage = IF rules = <<>> THEN "fill" ELSE "clear",
                                !.preset = preset,
                                !.listed = DOMAIN rules, !.todo = DOMAIN rules])
        /\ UNCHANGED <<tables, history>>

(* deletes them one by one (in the order of their priorities; nothing here   *)
(* depends on it),                                                           *)
ClearRule(h) ==
    \E id \in call[h].todo :
        /\ At(h, "clear") /\ Works
        /\ rules' = Without(rules, id) /\ said' = Without(said, id)
        /\ Changes(h, Cleared(h, id))
        /\ UNCHANGED <<issued, torn, loose>>

(* leaving those whose DELETE fails,                                         *)
KeepRule(h) ==
    \E id \in call[h].todo :
        /\ At(h, "clear") /\ Fails
        /\ Goes(h, [Cleared(h, id) EXCEPT !.clean = FALSE])
        /\ UNCHANGED <<tables, history>>

(* and inserts its own rules one by one, priorities 1, 2, ...  With the last  *)
(* one in place the table is the preset, if nobody and nothing interfered.    *)
Last(h) == call[h].next + 1 = Len(call[h].preset)

Placed(h) == IF Last(h) THEN Idle ELSE [call[h] EXCEPT !.next = @ + 1]

PlaceRule(h) ==
    LET next == call[h].next + 1
    IN  /\ At(h, "fill") /\ Works
        /\ InsertRow(Row(call[h].preset[next], next, TRUE))
        /\ loose' = IF Last(h) THEN ~(call[h].alone /\ call[h].clean) ELSE loose
        /\ Changes(h, Placed(h))

(* A rule whose INSERT fails is skipped.                                      *)
SkipRule(h) ==
    /\ At(h, "fill") /\ Fails
    /\ loose' = (loose \/ Last(h))
    /\ Goes(h, IF Last(h) THEN Idle ELSE [Placed(h) EXCEPT !.clean = FALSE])
    /\ UNCHANGED <<tables, said, torn>>

-----------------------------------------------------------------------------
(* The statements of a request whose client has hung up fail, from the next  *)
(* to the last; so does the single one a create or an update has left.       *)
Abandon(h) ==
    /\ ~At(h, "idle") /\ Fails
    /\ loose' = (loose \/ InPreset(h))
    /\ Goes(h, Idle)
    /\ UNCHANGED <<tables, said, torn>>

(* A restart loses the handlers and inserts the seed rows that are missing,  *)
(* as they were at first.                                                    *)
Restart ==
    LET seeded(table) == [i \in DOMAIN table \cup DOMAIN SeedRows |->
                             IF i \in DOMAIN table THEN table[i] ELSE SeedRows[i]]
    IN  /\ restarts < MaxRestarts /\ restarts' = restarts + 1
        /\ call' = [h \in Handlers |-> Idle]
        /\ rules' = seeded(rules) /\ said' = seeded(said)
        /\ loose' = (loose \/ DOMAIN SeedRows \ DOMAIN rules # {} \/ \E h \in Handlers : InPreset(h))
        /\ UNCHANGED <<issued, torn, requests, faults>>

Request(h) ==
    \/ CountRules(h) \/ InsertCounted(h) \/ InsertAt(h)
    \/ ReadRule(h) \/ WriteRule(h) \/ WriteNothing(h)
    \/ DeleteRule(h) \/ Reorder(h)
    \/ ListRules(h) \/ ClearRule(h) \/ KeepRule(h) \/ PlaceRule(h) \/ SkipRule(h)
    \/ Abandon(h)

Next == (\E h \in Handlers : Request(h)) \/ Restart

Spec == Init /\ [][Next]_vars

-----------------------------------------------------------------------------
(* The variables have their types; a preset deletes what it has listed only.   *)
RuleTypeOK ==
    /\ issued \in Nat
    /\ DOMAIN rules \subseteq 1 .. issued /\ rules \in [DOMAIN rules -> Rows]
    /\ DOMAIN said = DOMAIN rules /\ said \in [DOMAIN said -> Rows]
    /\ torn \subseteq (1 .. issued) \X Columns
    /\ loose \in BOOLEAN
    /\ call \in [Handlers -> Call]
    /\ \A h \in Handlers : call[h].id <= issued /\ call[h].todo \subseteq call[h].listed
    /\ requests \in Nat /\ faults \in Nat /\ restarts \in Nat

(* While no preset is half applied, the priorities are 1 .. n, each once,      *)
(* unless a request named a priority itself, a rule other than the last was    *)
(* deleted, a create was overtaken between its two statements, an update wrote *)
(* an old priority back, a reorder left rules out, or a preset was disturbed;  *)
(* and the next complete reorder or undisturbed preset repairs all of that.    *)
PrioritiesDense ==
    ~loose /\ (\A h \in Handlers : ~InPreset(h)) => Dense(rules)

(* Every column of a rule holds what was last asked for it (by an update, a    *)
(* reorder, its creation), unless an update that asked for something else      *)
(* wrote the value it had read over a later one; and what is asked for next    *)
(* holds again.                                                                *)
LastWordCounts ==
    \A i \in DOMAIN rules : \A c \in Columns :
        <<i, c>> \notin torn => rules[i][c] = said[i][c]

(* A preset's handler inserts its last rule.                                   *)
Finishes(h) == At(h, "fill") /\ call'[h].stage = "idle" /\ UNCHANGED <<faults, restarts>>

(* A preset that was applied without a failed statement has left none of the   *)
(* rules it found, whatever others did to them meanwhile; if they did nothing, *)
(* the table is the preset, in its order.                                      *)
PresetReplacesAll ==
    [][\A h \in Handlers :
          Finishes(h) /\ call[h].clean =>
              /\ call[h].listed \cap DOMAIN rules' = {}
              /\ call[h].alone =>
                    /\ Cardinality(DOMAIN rules') = Len(call[h].preset)
                    /\ \A k \in 1 .. Len(call[h].preset) :
                          \E i \in DOMAIN rules' : rules'[i] = Row(call[h].preset[k], k, TRUE)]_vars
=============================================================================

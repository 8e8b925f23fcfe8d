-------------------------- MODULE RuleTableProofs --------------------------
(***************************************************************************)
(* Proofs about RuleTable, for any handlers, rules, presets, reorders and  *)
(* updates, and any number of requests, failures and restarts.             *)
(***************************************************************************)
EXTENDS RuleTable, FiniteSetTheorems, WellFoundedInduction, TLAPS

(* --------------------------------- rows --------------------------------- *)

LEMMA RowType ==
  ASSUME NEW body \in Bodies, NEW priority \in Int, NEW active \in BOOLEAN
  PROVE  Row(body, priority, active) \in Rows
BY DEF Row, Rows

(* A row is a function of its columns.                                     *)
LEMMA RowColumns ==
  ASSUME NEW row \in Rows
  PROVE  row["body"] \in Bodies /\ row["priority"] \in Int /\ row["active"] \in BOOLEAN
BY DEF Rows

LEMMA PatchedType ==
  ASSUME NEW row \in Rows, NEW columns \in SUBSET Columns, NEW ask \in Rows
  PROVE  Patched(row, columns, ask) \in Rows
<1> DEFINE p == Patched(row, columns, ask)
<1>1. p["body"] \in Bodies /\ p["priority"] \in Int /\ p["active"] \in BOOLEAN
  BY RowColumns DEF Patched, Columns
<1>2. p = [body |-> p["body"], priority |-> p["priority"], active |-> p["active"]]
  BY DEF Patched, Columns
<1>3. QED
  BY <1>1, <1>2 DEF Rows

Less == {pair \in Nat \X Nat : pair[1] < pair[2]}

LEMMA LessWellFounded == IsWellFoundedOn(Less, Nat)
BY NatLessThanWellFounded, Zenon DEF OpToRel, Less

(* A list that names a rule names it for a last time.                      *)
LEMMA LastPlace ==
  ASSUME NEW order \in Seq(Nat), NEW i, Places(order, i) # {}
  PROVE  \E k \in Places(order, i) : \A m \in Places(order, i) : m <= k
<1> DEFINE n == Len(order)
           back == {n - k : k \in Places(order, i)}
<1>1. n \in Nat /\ Places(order, i) \subseteq 1 .. n
  BY DEF Places
<1>2. back \subseteq Nat /\ back # {}
  BY <1>1
<1>3. PICK x \in back : \A y \in back : ~(<<y, x>> \in Less)
  BY <1>2, LessWellFounded, WFMin
<1>4. n - x \in Places(order, i)
  BY <1>1, <1>3
<1>5. ASSUME NEW m \in Places(order, i) PROVE m <= n - x
  <2>1. n - m \in back
    OBVIOUS
  <2>2. ~(<<n - m, x>> \in Less)
    BY <1>3, <2>1
  <2>3. <<n - m, x>> \in Less <=> n - m < x
    BY <1>1, <1>2, <1>3, <2>1 DEF Less
  <2>4. QED
    BY <1>1, <1>2, <1>3, <2>2, <2>3
<1>6. QED
  BY <1>4, <1>5

LastOf(order, i) == CHOOSE k \in Places(order, i) : \A m \in Places(order, i) : m <= k

(* What a reorder does to each column of a row.                            *)
LEMMA MovedColumns ==
  ASSUME NEW row, NEW i, NEW order
  PROVE  /\ Moved(row, i, order)["body"] = row.body
         /\ Moved(row, i, order)["active"] = row.active
         /\ Moved(row, i, order)["priority"]
               = IF Places(order, i) = {} THEN row.priority ELSE LastOf(order, i)
<1>1. Moved(row, i, order)
        = Row(row.body, IF Places(order, i) = {} THEN row.priority ELSE LastOf(order, i),
              row.active)
  BY Zenon DEF Moved, LastOf
<1>2. QED
  BY <1>1 DEF Row

LEMMA MovedType ==
  ASSUME NEW row \in Rows, NEW i, NEW order \in Orders
  PROVE  Moved(row, i, order) \in Rows
<1> DEFINE p == IF Places(order, i) = {} THEN row.priority
                ELSE CHOOSE k \in Places(order, i) : \A m \in Places(order, i) : m <= k
<1>1. order \in Seq(Nat)
  BY RuleAssumption
<1>2. row.body \in Bodies /\ row.priority \in Int /\ row.active \in BOOLEAN
  BY DEF Rows
<1>3. p \in Int
  <2>1. CASE Places(order, i) = {}
    BY <1>2, <2>1
  <2>2. CASE Places(order, i) # {}
    <3>1. p \in Places(order, i)
      BY <1>1, <2>2, LastPlace
    <3>2. QED
      BY <1>1, <3>1 DEF Places
  <2>3. QED
    BY <2>1, <2>2
<1>4. Moved(row, i, order) = Row(row.body, p, row.active)
  BY DEF Moved
<1>5. QED
  BY <1>2, <1>3, <1>4, RowType

(* -------------------------------- tables -------------------------------- *)

LEMMA WithType ==
  ASSUME NEW table, table \in [DOMAIN table -> Rows], NEW id, NEW row \in Rows
  PROVE  /\ DOMAIN With(table, id, row) = DOMAIN table \cup {id}
         /\ With(table, id, row) \in [DOMAIN table \cup {id} -> Rows]
         /\ With(table, id, row)[id] = row
         /\ \A i \in DOMAIN table : i # id => With(table, id, row)[i] = table[i]
BY DEF With

LEMMA WithoutType ==
  ASSUME NEW table, table \in [DOMAIN table -> Rows], NEW id
  PROVE  /\ DOMAIN Without(table, id) = DOMAIN table \ {id}
         /\ Without(table, id) \in [DOMAIN table \ {id} -> Rows]
         /\ \A i \in DOMAIN table \ {id} : Without(table, id)[i] = table[i]
BY DEF Without

LEMMA ReorderedType ==
  ASSUME NEW table, table \in [DOMAIN table -> Rows], NEW order \in Orders
  PROVE  /\ DOMAIN Reordered(table, order) = DOMAIN table
         /\ Reordered(table, order) \in [DOMAIN table -> Rows]
         /\ \A i \in DOMAIN table : Reordered(table, order)[i] = Moved(table[i], i, order)
BY MovedType DEF Reordered

(* The seed rows are rows.                                                 *)
LEMMA SeedType ==
  /\ Len(Seed) \in Nat /\ DOMAIN SeedRows = 1 .. Len(Seed)
  /\ SeedRows \in [1 .. Len(Seed) -> Rows]
<1>1. Len(Seed) \in Nat /\ \A i \in 1 .. Len(Seed) : Seed[i] \in Bodies
  BY RuleAssumption
<1>2. \A i \in 1 .. Len(Seed) : Row(Seed[i], i, TRUE) \in Rows
  BY <1>1 DEF Row, Rows
<1>3. QED
  BY <1>1, <1>2 DEF SeedRows

LEMMA NoRowType == NoRow \in Rows
<1>1. (CHOOSE b \in Bodies : TRUE) \in Bodies
  BY RuleAssumption
<1>2. QED
  BY <1>1, RowType, 0 \in Int DEF NoRow

LEMMA IdleType ==
  /\ Idle \in Call /\ Idle.stage = "idle" /\ Idle.id = 0 /\ Idle.next = 0
  /\ Idle.todo = {} /\ Idle.listed = {}
BY NoRowType DEF Idle, Call

(* ------------------------------- the rows ------------------------------- *)

(* What holds of the tables: their part of RuleTypeOK, and LastWordCounts. *)
Tables ==
    /\ issued \in Nat /\ Len(Seed) <= issued
    /\ DOMAIN rules \subseteq 1 .. issued /\ rules \in [DOMAIN rules -> Rows]
    /\ DOMAIN said = DOMAIN rules /\ said \in [DOMAIN said -> Rows]
    /\ torn \subseteq (1 .. issued) \X Columns
    /\ loose \in BOOLEAN
    /\ requests \in Nat /\ faults \in Nat /\ restarts \in Nat
    /\ LastWordCounts

LEMMA InsertKeeps ==
  ASSUME Tables, NEW row \in Rows, InsertRow(row)
  PROVE  /\ issued' = issued + 1 /\ DOMAIN rules' = DOMAIN rules \cup {issued + 1}
         /\ rules'[issued + 1] = row
         /\ \A i \in DOMAIN rules : rules'[i] = rules[i]
         /\ (DOMAIN rules \subseteq 1 .. issued)' /\ rules' \in [DOMAIN rules' -> Rows]
         /\ DOMAIN said' = DOMAIN rules' /\ said' \in [DOMAIN said' -> Rows]
         /\ torn' \subseteq (1 .. issued') \X Columns
         /\ Len(Seed) <= issued'
         /\ LastWordCounts'
<1> DEFINE id == issued + 1
<1>1. /\ rules' = With(rules, id, row) /\ said' = With(said, id, row)
      /\ issued' = id /\ torn' = torn
  BY DEF InsertRow
<1>2. id \notin DOMAIN rules /\ issued \in Nat /\ Len(Seed) \in Nat
  BY SeedType DEF Tables
<1>3. /\ DOMAIN rules' = DOMAIN rules \cup {id} /\ rules' \in [DOMAIN rules' -> Rows]
      /\ rules'[id] = row /\ \A i \in DOMAIN rules : rules'[i] = rules[i]
  BY <1>1, <1>2 DEF Tables, With
<1>4. /\ DOMAIN said' = DOMAIN rules \cup {id} /\ said' \in [DOMAIN said' -> Rows]
      /\ said'[id] = row /\ \A i \in DOMAIN rules : said'[i] = said[i]
  BY <1>1, <1>2 DEF Tables, With
<1>5. LastWordCounts'
  BY <1>1, <1>3, <1>4 DEF Tables, LastWordCounts
<1>6. (DOMAIN rules \subseteq 1 .. issued)' /\ torn' \subseteq (1 .. issued') \X Columns
      /\ Len(Seed) <= issued'
  BY <1>1, <1>2, <1>3 DEF Tables
<1>7. QED
  BY <1>1, <1>3, <1>4, <1>5, <1>6

LEMMA DropKeeps ==
  ASSUME Tables, NEW id, rules' = Without(rules, id), said' = Without(said, id), torn' = torn
  PROVE  /\ DOMAIN rules' = DOMAIN rules \ {id} /\ rules' \in [DOMAIN rules' -> Rows]
         /\ \A i \in DOMAIN rules' : rules'[i] = rules[i]
         /\ DOMAIN said' = DOMAIN rules' /\ said' \in [DOMAIN said' -> Rows]
         /\ LastWordCounts'
<1>1. /\ DOMAIN rules' = DOMAIN rules \ {id} /\ rules' \in [DOMAIN rules' -> Rows]
      /\ \A i \in DOMAIN rules' : rules'[i] = rules[i]
  BY WithoutType DEF Tables
<1>2. /\ DOMAIN said' = DOMAIN rules \ {id} /\ said' \in [DOMAIN said' -> Rows]
      /\ \A i \in DOMAIN said' : said'[i] = said[i]
  BY WithoutType DEF Tables
<1>3. LastWordCounts'
  BY <1>1, <1>2 DEF Tables, LastWordCounts
<1>4. QED
  BY <1>1, <1>2, <1>3

LEMMA ReorderKeeps ==
  ASSUME Tables, NEW order \in Orders,
         rules' = Reordered(rules, order), said' = Reordered(said, order),
         torn' = torn \ {<<i, "priority">> : i \in Named(order)}
  PROVE  /\ DOMAIN rules' = DOMAIN rules /\ rules' \in [DOMAIN rules' -> Rows]
         /\ torn' \subseteq (1 .. issued) \X Columns
         /\ \A i \in DOMAIN rules' : rules'[i] = Moved(rules[i], i, order)
         /\ DOMAIN said' = DOMAIN rules' /\ said' \in [DOMAIN said' -> Rows]
         /\ LastWordCounts'
<1>1. /\ DOMAIN rules' = DOMAIN rules /\ rules' \in [DOMAIN rules' -> Rows]
      /\ \A i \in DOMAIN rules : rules'[i] = Moved(rules[i], i, order)
  BY ReorderedType DEF Tables
<1>2. /\ DOMAIN said' = DOMAIN rules /\ said' \in [DOMAIN said' -> Rows]
      /\ \A i \in DOMAIN rules : said'[i] = Moved(said[i], i, order)
  BY ReorderedType DEF Tables
<1>3. ASSUME NEW i \in DOMAIN rules, NEW c \in Columns, <<i, c>> \notin torn'
      PROVE  rules'[i][c] = said'[i][c]
  <2>1. \A d \in Columns : <<i, d>> \notin torn => rules[i][d] = said[i][d]
    BY DEF Tables, LastWordCounts
  <2>2. /\ rules'[i]["body"] = rules[i]["body"] /\ said'[i]["body"] = said[i]["body"]
        /\ rules'[i]["active"] = rules[i]["active"] /\ said'[i]["active"] = said[i]["active"]
        /\ rules'[i]["priority"]
              = IF Places(order, i) = {} THEN rules[i]["priority"] ELSE LastOf(order, i)
        /\ said'[i]["priority"]
              = IF Places(order, i) = {} THEN said[i]["priority"] ELSE LastOf(order, i)
    BY <1>1, <1>2, MovedColumns
  <2>3. <<i, c>> \notin torn \/ (c = "priority" /\ Places(order, i) # {})
    BY <1>3 DEF Named
  <2>4. QED
    BY <2>1, <2>2, <2>3 DEF Columns
<1>4. LastWordCounts'
  BY <1>1, <1>3 DEF LastWordCounts
<1>5. torn' \subseteq (1 .. issued) \X Columns
  BY DEF Tables
<1>6. QED
  BY <1>1, <1>2, <1>4, <1>5

(* An update: what it wrote back over another change is recorded.          *)
LEMMA WriteKeeps ==
  ASSUME Tables, NEW h \in Handlers, call[h] \in Call, WriteRule(h)
  PROVE  /\ DOMAIN rules' = DOMAIN rules /\ rules' \in [DOMAIN rules' -> Rows]
         /\ \A i \in DOMAIN rules : i # call[h].id => rules'[i] = rules[i]
         /\ DOMAIN said' = DOMAIN rules' /\ said' \in [DOMAIN said' -> Rows]
         /\ torn' \subseteq (1 .. issued) \X Columns
         /\ ~loose' => \A i \in DOMAIN rules : rules'[i].priority = rules[i].priority
         /\ LastWordCounts'
<1> DEFINE mine == call[h]
           id == mine.id
           row == Patched(mine.row, mine.columns, mine.ask)
           word == [c \in Columns |-> IF c \in mine.columns THEN mine.ask[c] ELSE said[id][c]]
<1>1. mine.row \in Rows /\ mine.ask \in Rows /\ mine.columns \in SUBSET Columns
  BY DEF Call
<1>2. /\ id \in DOMAIN rules /\ rules' = With(rules, id, row) /\ said' = With(said, id, word)
      /\ torn' = (torn \ {<<id, c>> : c \in mine.columns})
                   \cup {<<id, c>> : c \in {d \in Columns \ mine.columns :
                                              mine.row[d] # rules[id][d]}}
      /\ loose' = (loose \/ row.priority # rules[id].priority)
  BY DEF WriteRule
<1>3. row \in Rows
  BY <1>1, PatchedType
<1>4. word \in Rows
  <2>1. said[id] \in Rows
    BY <1>2 DEF Tables
  <2>2. word = Patched(said[id], mine.columns, mine.ask)
    BY DEF Patched
  <2>3. QED
    BY <1>1, <2>1, <2>2, PatchedType
<1>5. /\ DOMAIN rules' = DOMAIN rules /\ rules' \in [DOMAIN rules' -> Rows]
      /\ rules'[id] = row /\ \A i \in DOMAIN rules : i # id => rules'[i] = rules[i]
  <2>1. rules \in [DOMAIN rules -> Rows]
    BY DEF Tables
  <2> HIDE DEF row
  <2>2. QED
    BY <1>2, <1>3, <2>1 DEF With
<1>6. /\ DOMAIN said' = DOMAIN rules /\ said' \in [DOMAIN said' -> Rows]
      /\ said'[id] = word /\ \A i \in DOMAIN rules : i # id => said'[i] = said[i]
  <2>1. said \in [DOMAIN said -> Rows] /\ DOMAIN said = DOMAIN rules
    BY DEF Tables
  <2> HIDE DEF word
  <2>2. QED
    BY <1>2, <1>4, <2>1 DEF With
<1>7. torn' \subseteq (1 .. issued) \X Columns
  BY <1>2 DEF Tables
<1>8. ASSUME ~loose', NEW i \in DOMAIN rules PROVE rules'[i].priority = rules[i].priority
  BY <1>2, <1>5, <1>8
<1>9. ASSUME NEW c \in Columns, <<id, c>> \notin torn' PROVE row[c] = word[c]
  <2>1. CASE c \in mine.columns
    BY <2>1 DEF Patched
  <2>2. CASE c \notin mine.columns
    <3>1. row[c] = mine.row[c] /\ word[c] = said[id][c]
      BY <2>2 DEF Patched
    <3>2. mine.row[c] = rules[id][c] /\ <<id, c>> \notin torn
      BY <1>2, <1>9, <2>2
    <3>3. rules[id][c] = said[id][c]
      BY <1>2, <3>2 DEF Tables, LastWordCounts
    <3>4. QED
      BY <3>1, <3>2, <3>3
  <2>3. QED
    BY <2>1, <2>2
<1> HIDE DEF row, word, mine
<1>10. LastWordCounts'
  <2> SUFFICES ASSUME NEW i \in DOMAIN rules, NEW c \in Columns, <<i, c>> \notin torn'
               PROVE  rules'[i][c] = said'[i][c]
    BY <1>5 DEF LastWordCounts
  <2>1. CASE i = id
    BY <1>5, <1>6, <1>9, <2>1
  <2>2. CASE i # id
    BY <1>2, <1>5, <1>6, <2>2 DEF Tables, LastWordCounts
  <2>3. QED
    BY <2>1, <2>2
<1>11. QED
  BY <1>5, <1>6, <1>7, <1>8, <1>10 DEF mine

(* ----------------------------- the handlers ----------------------------- *)

(* While nobody has touched the table and nothing has failed, it holds     *)
(* what a preset has left of the old rules, or what it has placed so far,  *)
(* in the order of insertion.                                              *)
Progress(h) ==
    /\ At(h, "clear") => call[h].next = 0 /\ DOMAIN rules = call[h].todo
    /\ At(h, "fill") =>
          /\ DOMAIN rules = (issued - call[h].next + 1) .. issued
          /\ \A k \in 1 .. call[h].next :
                rules[issued - call[h].next + k] = Row(call[h].preset[k], k, TRUE)

(* What holds of a handler: its part of RuleTypeOK; a preset has rules to  *)
(* place and, as far as its statements worked, has deleted the rules it    *)
(* has listed, for rules that are inserted later have other numbers.       *)
Sound(h) ==
    /\ call[h].id <= issued /\ call[h].todo \subseteq call[h].listed
    /\ InPreset(h) => /\ call[h].next < Len(call[h].preset)
                      /\ call[h].listed \subseteq 1 .. issued
    /\ At(h, "clear") /\ call[h].clean => call[h].listed \cap DOMAIN rules \subseteq call[h].todo
    /\ At(h, "fill") /\ call[h].clean => call[h].listed \cap DOMAIN rules = {}
    /\ call[h].alone /\ call[h].clean => Progress(h)

TableInv == Tables /\ call \in [Handlers -> Call] /\ \A h \in Handlers : Sound(h)

(* What a handler remembers does not change, except that it may not be     *)
(* alone any more.                                                         *)
Unmoved(g) ==
    /\ call'[g].stage = call[g].stage /\ call'[g].id = call[g].id
    /\ call'[g].listed = call[g].listed /\ call'[g].todo = call[g].todo
    /\ call'[g].preset = call[g].preset /\ call'[g].next = call[g].next
    /\ call'[g].clean = call[g].clean
    /\ InPreset(g) /\ call'[g].alone => call[g].alone /\ UNCHANGED tables

LEMMA ChangesCall ==
  ASSUME call \in [Handlers -> Call], NEW h \in Handlers, NEW mine \in Call, Changes(h, mine)
  PROVE  /\ call' \in [Handlers -> Call] /\ call'[h] = mine
         /\ \A g \in Handlers \ {h} : Unmoved(g)
<1>1. call' = [g \in Handlers |->
                 IF g = h THEN mine
                 ELSE IF InPreset(g) THEN [call[g] EXCEPT !.alone = FALSE]
                 ELSE call[g]]
  BY DEF Changes
<1>2. ASSUME NEW g \in Handlers
      PROVE  /\ [call[g] EXCEPT !.alone = FALSE] \in Call
             /\ [call[g] EXCEPT !.alone = FALSE].alone = FALSE
  BY DEF Call
<1>3. call' \in [Handlers -> Call] /\ call'[h] = mine
  BY <1>1, <1>2
<1>4. ASSUME NEW g \in Handlers \ {h} PROVE Unmoved(g)
  <2>1. CASE InPreset(g)
    <3>1. call'[g] = [call[g] EXCEPT !.alone = FALSE] /\ call[g] \in Call
      BY <1>1, <2>1
    <3>2. QED
      BY <3>1 DEF Unmoved, Call
  <2>2. CASE ~InPreset(g)
    BY <1>1, <2>2 DEF Unmoved
  <2>3. QED
    BY <2>1, <2>2
<1>5. QED
  BY <1>3, <1>4

LEMMA GoesCall ==
  ASSUME call \in [Handlers -> Call], NEW h \in Handlers, NEW mine \in Call, Goes(h, mine),
         UNCHANGED tables
  PROVE  /\ call' \in [Handlers -> Call] /\ call'[h] = mine
         /\ \A g \in Handlers \ {h} : Unmoved(g)
BY DEF Goes, Unmoved

(* A handler that is not the one that moves stays sound.                   *)
LEMMA Bystander ==
  ASSUME TableInv, NEW g \in Handlers, Unmoved(g), issued' \in Nat, issued <= issued',
         DOMAIN rules' \subseteq DOMAIN rules \cup ((issued + 1) .. issued')
  PROVE  Sound(g)'
<1>1. Sound(g) /\ call[g] \in Call /\ issued \in Nat
  BY DEF TableInv, Tables
<1>2. /\ At(g, "clear")' = At(g, "clear") /\ At(g, "fill")' = At(g, "fill")
      /\ InPreset(g)' = InPreset(g)
  BY DEF Unmoved, At, InPreset
<1>3. call'[g].id <= issued' /\ call'[g].todo \subseteq call'[g].listed
  BY <1>1 DEF Sound, Unmoved, Call
<1>4. InPreset(g) => /\ call[g].listed \subseteq 1 .. issued
                     /\ call'[g].next < Len(call'[g].preset)
                     /\ call'[g].listed \subseteq 1 .. issued'
  BY <1>1 DEF Sound, Unmoved
<1>5. InPreset(g) => call[g].listed \cap DOMAIN rules' \subseteq DOMAIN rules
  BY <1>1, <1>4
<1>6. /\ At(g, "clear") /\ call'[g].clean
           => call'[g].listed \cap DOMAIN rules' \subseteq call'[g].todo
      /\ At(g, "fill") /\ call'[g].clean => call'[g].listed \cap DOMAIN rules' = {}
  BY <1>1, <1>5 DEF Sound, Unmoved, InPreset
<1>7. ASSUME call'[g].alone, call'[g].clean PROVE Progress(g)'
  <2>1. CASE InPreset(g)
    <3>1. Progress(g) /\ UNCHANGED tables
      BY <1>1, <1>7, <2>1 DEF Sound, Unmoved
    <3>2. QED
      BY <1>2, <3>1 DEF Progress, Unmoved, tables
  <2>2. CASE ~InPreset(g)
    BY <1>2, <2>2 DEF Progress, InPreset
  <2>3. QED
    BY <2>1, <2>2
<1>8. QED
  BY <1>2, <1>3, <1>4, <1>6, <1>7 DEF Sound

(* A handler that is back, or never began.                                 *)
LEMMA IdleSound ==
  ASSUME NEW h \in Handlers, call[h].stage \notin {"clear", "fill"}, call[h].id <= issued,
         call[h].todo = {}
  PROVE  Sound(h)
BY DEF Sound, Progress, At, InPreset

(* A step of one handler.                                                  *)
LEMMA HandlerStep ==
  ASSUME TableInv, NEW h \in Handlers, NEW mine \in Call,
         Changes(h, mine) \/ (Goes(h, mine) /\ UNCHANGED tables),
         Tables', Sound(h)', issued <= issued',
         DOMAIN rules' \subseteq DOMAIN rules \cup ((issued + 1) .. issued')
  PROVE  TableInv'
<1>1. call' \in [Handlers -> Call] /\ \A g \in Handlers \ {h} : Unmoved(g)
  BY ChangesCall, GoesCall DEF TableInv
<1>2. \A g \in Handlers \ {h} : Sound(g)'
  BY <1>1, Bystander DEF Tables
<1>3. QED
  BY <1>1, <1>2 DEF TableInv

(* A handler that does not, or does not any more, apply a preset.          *)
LEMMA Otherwise ==
  ASSUME TableInv, NEW h \in Handlers, NEW mine \in Call,
         mine.stage \notin {"clear", "fill"}, mine.id <= issued', mine.todo = {},
         Changes(h, mine) \/ (Goes(h, mine) /\ UNCHANGED tables),
         Tables', issued <= issued',
         DOMAIN rules' \subseteq DOMAIN rules \cup ((issued + 1) .. issued')
  PROVE  TableInv'
<1>1. call'[h] = mine
  BY ChangesCall, GoesCall DEF TableInv
<1>2. Sound(h)'
  <2>1. ~At(h, "clear")' /\ ~At(h, "fill")' /\ ~InPreset(h)'
    BY <1>1 DEF At, InPreset
  <2>2. Progress(h)'
    BY <2>1 DEF Progress
  <2>3. QED
    BY <1>1, <2>1, <2>2 DEF Sound
<1>3. QED
  BY <1>2, HandlerStep

LEMMA Done ==
  ASSUME TableInv, NEW h \in Handlers,
         Changes(h, Idle) \/ (Goes(h, Idle) /\ UNCHANGED tables),
         Tables', issued <= issued',
         DOMAIN rules' \subseteq DOMAIN rules \cup ((issued + 1) .. issued')
  PROVE  TableInv'
<1>1. Idle.id <= issued'
  BY IdleType DEF Tables
<1>2. QED
  BY <1>1, IdleType, Otherwise

(* Finitely many rules are counted.                                        *)
LEMMA Counted ==
  ASSUME Tables
  PROVE  IsFiniteSet(DOMAIN rules) /\ Count \in Nat
<1>1. issued \in Int /\ 1 \in Int
  BY DEF Tables
<1>2. IsFiniteSet(1 .. issued)
  BY <1>1, FS_Interval
<1>3. IsFiniteSet(DOMAIN rules)
  BY <1>2, FS_Subset DEF Tables
<1>4. QED
  BY <1>3, FS_CardinalityType DEF Count

(* Nothing happens to the tables.                                          *)
LEMMA TablesStay ==
  ASSUME Tables, UNCHANGED <<tables, said, torn>>, loose' \in BOOLEAN,
         requests' \in Nat, faults' \in Nat, restarts' \in Nat
  PROVE  /\ Tables' /\ UNCHANGED <<rules, issued>>
         /\ issued <= issued'
         /\ DOMAIN rules' \subseteq DOMAIN rules \cup ((issued + 1) .. issued')
<1>1. UNCHANGED <<rules, issued, said, torn>>
  BY DEF tables
<1>2. LastWordCounts'
  BY <1>1 DEF Tables, LastWordCounts
<1>3. QED
  BY <1>1, <1>2 DEF Tables

(* The bounds that requests and failures count up to.                      *)
LEMMA CountsType ==
  ASSUME Tables, NEW h \in Handlers, Accept(h) \/ Works \/ Fails
  PROVE  requests' \in Nat /\ faults' \in Nat /\ restarts' \in Nat
BY DEF Tables, Accept, Works, Fails, counts

LEMMA CountRulesKeeps ==
  ASSUME TableInv, NEW h \in Handlers, CountRules(h)
  PROVE  TableInv'
<1>1. PICK body \in Bodies :
        /\ Goes(h, [Idle EXCEPT !.stage = "counted", !.row = Row(body, Count + 1, TRUE)])
        /\ Accept(h) /\ UNCHANGED <<tables, history>>
  BY DEF CountRules
<1> DEFINE row == Row(body, Count + 1, TRUE)
           mine == [Idle EXCEPT !.stage = "counted", !.row = row]
<1>2. row \in Rows
  <2>1. Count + 1 \in Int
    BY Counted DEF TableInv
  <2>2. QED
    BY <2>1, RowType
<1> HIDE DEF row
<1>3. mine \in Call /\ mine.stage = "counted" /\ mine.id = 0 /\ mine.todo = {}
  BY <1>2, IdleType DEF Call
<1>4. Goes(h, mine)
  BY <1>1 DEF row
<1> HIDE DEF mine
<1>5. Tables' /\ UNCHANGED <<rules, issued>>
  BY <1>1, TablesStay, CountsType DEF TableInv, history, Tables
<1>6. QED
  BY <1>3, <1>4, <1>5, Otherwise DEF tables, TableInv, Tables

LEMMA InsertCountedKeeps ==
  ASSUME TableInv, NEW h \in Handlers, InsertCounted(h)
  PROVE  TableInv'
<1>1. call[h] \in Call /\ Tables /\ InsertRow(call[h].row) /\ Changes(h, Idle)
  BY DEF TableInv, InsertCounted
<1>2. call[h].row \in Rows
  BY <1>1 DEF Call
<1>3. loose' \in BOOLEAN /\ requests' \in Nat /\ faults' \in Nat /\ restarts' \in Nat
  BY <1>1, CountsType DEF InsertCounted, Tables
<1>4. issued' = issued + 1 /\ issued \in Nat /\ DOMAIN rules' = DOMAIN rules \cup {issued + 1}
  BY <1>1, <1>2, InsertKeeps DEF Tables
<1>5. Tables'
  BY <1>1, <1>2, <1>3, <1>4, InsertKeeps DEF Tables
<1>6. QED
  BY <1>1, <1>4, <1>5, Done

LEMMA InsertAtKeeps ==
  ASSUME TableInv, NEW h \in Handlers, InsertAt(h)
  PROVE  TableInv'
<1>1. PICK body \in Bodies, priority \in Priorities \ {0} :
        /\ Accept(h) /\ InsertRow(Row(body, priority, TRUE)) /\ Changes(h, Idle)
        /\ loose' = (loose \/ priority # Count + 1)
  BY DEF InsertAt
<1> DEFINE row == Row(body, priority, TRUE)
<1>2. row \in Rows
  <2>1. priority \in Int /\ TRUE \in BOOLEAN
    BY RuleAssumption
  <2>2. QED
    BY <2>1, RowType
<1> HIDE DEF row
<1>3. Tables /\ InsertRow(row)
  BY <1>1 DEF TableInv, row
<1>4. loose' \in BOOLEAN /\ requests' \in Nat /\ faults' \in Nat /\ restarts' \in Nat
  BY <1>1, <1>3, CountsType DEF Tables
<1>5. issued' = issued + 1 /\ issued \in Nat /\ DOMAIN rules' = DOMAIN rules \cup {issued + 1}
  BY <1>2, <1>3, InsertKeeps DEF Tables
<1>6. Tables'
  BY <1>2, <1>3, <1>4, <1>5, InsertKeeps DEF Tables
<1>7. QED
  BY <1>1, <1>5, <1>6, Done

LEMMA ReadRuleKeeps ==
  ASSUME TableInv, NEW h \in Handlers, ReadRule(h)
  PROVE  TableInv'
<1>1. PICK id \in DOMAIN rules, columns \in Edits, body \in Bodies,
           priority \in Priorities, active \in BOOLEAN :
        /\ Accept(h) /\ UNCHANGED <<tables, history>>
        /\ Goes(h, [Idle EXCEPT !.stage = "read", !.id = id, !.row = rules[id],
                                !.columns = columns,
                                !.ask = Patched(NoRow, columns, Row(body, priority, active))])
  BY DEF ReadRule
<1> DEFINE ask == Patched(NoRow, columns, Row(body, priority, active))
           row == rules[id]
           mine == [Idle EXCEPT !.stage = "read", !.id = id, !.row = row,
                                !.columns = columns, !.ask = ask]
<1>2. columns \in SUBSET Columns /\ priority \in Int
  BY RuleAssumption
<1>3. ask \in Rows
  BY <1>2, NoRowType, RowType, PatchedType
<1>4. row \in Rows /\ id \in Nat /\ id <= issued
  BY DEF TableInv, Tables
<1> HIDE DEF ask, row
<1>5. mine \in Call /\ mine.stage = "read" /\ mine.id = id /\ mine.todo = {}
  BY <1>2, <1>3, <1>4, IdleType DEF Call
<1>6. Goes(h, mine)
  BY <1>1 DEF row, ask
<1> HIDE DEF mine
<1>7. Tables' /\ UNCHANGED <<rules, issued>>
  BY <1>1, TablesStay, CountsType DEF TableInv, history, Tables
<1>8. mine.id <= issued' /\ issued <= issued'
  BY <1>4, <1>5, <1>7 DEF TableInv, Tables
<1>9. mine.stage \notin {"clear", "fill"} /\ UNCHANGED tables
  BY <1>5, <1>7 DEF tables
<1>10. QED
  BY <1>5, <1>6, <1>7, <1>8, <1>9, Otherwise

LEMMA WriteRuleKeeps ==
  ASSUME TableInv, NEW h \in Handlers, WriteRule(h)
  PROVE  TableInv'
<1>1. Tables /\ call[h] \in Call
  BY DEF TableInv
<1>2. Changes(h, Idle) /\ issued' = issued /\ loose' \in BOOLEAN
  BY <1>1 DEF WriteRule, Tables
<1>3. requests' \in Nat /\ faults' \in Nat /\ restarts' \in Nat
  BY <1>1, CountsType DEF WriteRule
<1>4. DOMAIN rules' = DOMAIN rules
  BY <1>1, WriteKeeps
<1>5. Tables'
  BY <1>1, <1>2, <1>3, <1>4, WriteKeeps DEF Tables
<1>6. QED
  BY <1>1, <1>2, <1>4, <1>5, Done DEF Tables

LEMMA WriteNothingKeeps ==
  ASSUME TableInv, NEW h \in Handlers, WriteNothing(h)
  PROVE  TableInv'
<1>1. Tables /\ Goes(h, Idle) /\ Works /\ UNCHANGED <<tables, history>>
  BY DEF TableInv, WriteNothing
<1>2. Tables' /\ UNCHANGED <<rules, issued>>
  BY <1>1, TablesStay, CountsType DEF history, Tables
<1>3. QED
  BY <1>1, <1>2, Done DEF tables, Tables

LEMMA DeleteRuleKeeps ==
  ASSUME TableInv, NEW h \in Handlers, DeleteRule(h)
  PROVE  TableInv'
<1>1. PICK id \in DOMAIN rules :
        /\ Accept(h) /\ rules' = Without(rules, id) /\ said' = Without(said, id)
        /\ loose' = (loose \/ rules[id].priority # Count)
        /\ Changes(h, Idle) /\ UNCHANGED <<issued, torn>>
  BY DEF DeleteRule
<1>2. Tables /\ loose' \in BOOLEAN
  BY <1>1 DEF TableInv, Tables
<1>3. requests' \in Nat /\ faults' \in Nat /\ restarts' \in Nat
  BY <1>1, <1>2, CountsType
<1>4. DOMAIN rules' = DOMAIN rules \ {id}
  BY <1>1, <1>2, DropKeeps
<1>5. Tables'
  BY <1>1, <1>2, <1>3, <1>4, DropKeeps DEF Tables
<1>6. QED
  BY <1>1, <1>2, <1>4, <1>5, Done DEF Tables

LEMMA ReorderRuleKeeps ==
  ASSUME TableInv, NEW h \in Handlers, Reorder(h)
  PROVE  TableInv'
<1>1. PICK order \in Orders :
        /\ Accept(h) /\ rules' = Reordered(rules, order) /\ said' = Reordered(said, order)
        /\ torn' = torn \ {<<i, "priority">> : i \in Named(order)}
        /\ loose' = ~Complete(order) /\ Changes(h, Idle) /\ UNCHANGED issued
  BY DEF Reorder
<1>2. Tables /\ loose' \in BOOLEAN
  BY <1>1 DEF TableInv
<1>3. requests' \in Nat /\ faults' \in Nat /\ restarts' \in Nat
  BY <1>1, <1>2, CountsType
<1>4. DOMAIN rules' = DOMAIN rules
  BY <1>1, <1>2, ReorderKeeps
<1>5. Tables'
  BY <1>1, <1>2, <1>3, <1>4, ReorderKeeps DEF Tables
<1>6. QED
  BY <1>1, <1>2, <1>4, <1>5, Done DEF Tables

(* -------------------------------- presets ------------------------------- *)

LEMMA ListRulesKeeps ==
  ASSUME TableInv, NEW h \in Handlers, ListRules(h)
  PROVE  TableInv'
<1>1. PICK preset \in Presets :
        /\ Accept(h) /\ UNCHANGED <<tables, history>>
        /\ Goes(h, [Idle EXCEPT !.stage = IF rules = <<>> THEN "fill" ELSE "clear",
                                !.preset = preset,
                                !.listed = DOMAIN rules, !.todo = DOMAIN rules])
  BY DEF ListRules
<1> DEFINE stage == IF rules = <<>> THEN "fill" ELSE "clear"
           mine == [Idle EXCEPT !.stage = stage, !.preset = preset,
                                !.listed = DOMAIN rules, !.todo = DOMAIN rules]
<1>2. preset \in Seq(Bodies) /\ 0 < Len(preset)
  BY RuleAssumption
<1>3. stage \in {"fill", "clear"} /\ (stage = "fill" => DOMAIN rules = {})
  <2>1. rules = <<>> => DOMAIN rules = {}
    BY DOMAIN <<>> = {}
  <2>2. QED
    BY <2>1
<1> HIDE DEF stage
<1>4. DOMAIN rules \subseteq 1 .. issued /\ issued \in Nat
  BY DEF TableInv, Tables
<1>5. /\ mine \in Call /\ mine.stage = stage /\ mine.id = 0 /\ mine.next = 0
      /\ mine.todo = DOMAIN rules /\ mine.listed = DOMAIN rules /\ mine.preset = preset
  <2>1. DOMAIN rules \in SUBSET Nat
    BY <1>4
  <2>2. QED
    BY <1>2, <1>3, <2>1, IdleType DEF Call
<1>6. Goes(h, mine)
  BY <1>1 DEF stage
<1> HIDE DEF mine
<1>7. Tables' /\ UNCHANGED <<rules, issued>> /\ UNCHANGED tables
  BY <1>1, TablesStay, CountsType DEF TableInv, history, Tables
<1>8. call'[h] = mine
  BY <1>5, <1>6, <1>7, GoesCall DEF TableInv
<1>9. Progress(h)'
  <2>1. stage = "fill" => DOMAIN rules' = (issued' - 0 + 1) .. issued'
    BY <1>3, <1>4, <1>7
  <2>2. At(h, "fill")' <=> stage = "fill"
    BY <1>5, <1>8 DEF At
  <2>3. call'[h].next = 0 /\ call'[h].todo = DOMAIN rules'
    BY <1>5, <1>7, <1>8
  <2>4. \A k \in 1 .. 0 : FALSE
    OBVIOUS
  <2>5. QED
    BY <2>1, <2>2, <2>3, <2>4 DEF Progress
<1>10. Sound(h)'
  BY <1>2, <1>3, <1>4, <1>5, <1>7, <1>8, <1>9 DEF Sound, At, InPreset
<1>11. QED
  BY <1>4, <1>5, <1>6, <1>7, <1>10, HandlerStep

(* What a deletion leaves to do.                                           *)
LEMMA ClearedType ==
  ASSUME call \in [Handlers -> Call], NEW h \in Handlers, NEW id
  PROVE  /\ Cleared(h, id) \in Call /\ Cleared(h, id).id = call[h].id
         /\ Cleared(h, id).todo = call[h].todo \ {id}
         /\ Cleared(h, id).stage = IF call[h].todo \ {id} = {} THEN "fill" ELSE "clear"
         /\ Cleared(h, id).listed = call[h].listed /\ Cleared(h, id).preset = call[h].preset
         /\ Cleared(h, id).next = call[h].next /\ Cleared(h, id).alone = call[h].alone
         /\ Cleared(h, id).clean = call[h].clean
<1> DEFINE todo == call[h].todo \ {id}
           stage == IF todo = {} THEN "fill" ELSE "clear"
<1>1. call[h] \in Call /\ todo \in SUBSET Nat /\ stage \in {"fill", "clear"}
  BY DEF Call
<1>2. Cleared(h, id) = [call[h] EXCEPT !.todo = todo, !.stage = stage]
  BY DEF Cleared
<1> HIDE DEF todo, stage
<1>3. /\ Cleared(h, id) \in Call /\ Cleared(h, id).id = call[h].id
      /\ Cleared(h, id).todo = todo /\ Cleared(h, id).stage = stage
      /\ Cleared(h, id).listed = call[h].listed /\ Cleared(h, id).preset = call[h].preset
      /\ Cleared(h, id).next = call[h].next /\ Cleared(h, id).alone = call[h].alone
      /\ Cleared(h, id).clean = call[h].clean
  BY <1>1, <1>2 DEF Call
<1>4. QED
  BY <1>3 DEF todo, stage

LEMMA ClearRuleKeeps ==
  ASSUME TableInv, NEW h \in Handlers, ClearRule(h)
  PROVE  TableInv'
<1>1. PICK id \in call[h].todo :
        /\ At(h, "clear") /\ Works
        /\ rules' = Without(rules, id) /\ said' = Without(said, id)
        /\ Changes(h, Cleared(h, id)) /\ UNCHANGED <<issued, torn, loose>>
  BY DEF ClearRule
<1>2. /\ Tables /\ call \in [Handlers -> Call] /\ call[h] \in Call /\ Sound(h)
      /\ issued \in Nat
  BY DEF TableInv, Tables
<1>3. requests' \in Nat /\ faults' \in Nat /\ restarts' \in Nat
  BY <1>1, <1>2, CountsType
<1>4. DOMAIN rules' = DOMAIN rules \ {id}
  BY <1>1, <1>2, DropKeeps
<1>5. Tables'
  BY <1>1, <1>2, <1>3, <1>4, DropKeeps DEF Tables
<1>6. call'[h] = Cleared(h, id)
  BY <1>1, <1>2, ChangesCall, ClearedType
<1>7. InPreset(h) /\ At(h, "clear")
  BY <1>1 DEF InPreset
<1>8. ASSUME call'[h].alone, call'[h].clean PROVE Progress(h)'
  <2>1. call[h].next = 0 /\ DOMAIN rules = call[h].todo
    <3>1. call[h].alone /\ call[h].clean
      BY <1>2, <1>6, <1>8, ClearedType
    <3>2. QED
      BY <1>2, <1>7, <3>1 DEF Sound, Progress
  <2>2. call'[h].next = 0 /\ DOMAIN rules' = call'[h].todo
    BY <1>2, <1>4, <1>6, <2>1, ClearedType
  <2>3. At(h, "fill")' => DOMAIN rules' = {}
    BY <1>2, <1>6, <2>2, ClearedType DEF At
  <2>4. {} = (issued' - 0 + 1) .. issued' /\ \A k \in 1 .. 0 : FALSE
    BY <1>1, <1>2
  <2>5. QED
    BY <2>2, <2>3, <2>4 DEF Progress
<1>9. /\ call'[h].clean /\ At(h, "clear")' =>
         call'[h].listed \cap DOMAIN rules' \subseteq call'[h].todo
      /\ call'[h].clean /\ At(h, "fill")' => call'[h].listed \cap DOMAIN rules' = {}
  <2>1. call'[h].clean => call[h].listed \cap DOMAIN rules' \subseteq call[h].todo \ {id}
    BY <1>2, <1>4, <1>6, <1>7, ClearedType DEF Sound
  <2>2. QED
    BY <1>2, <1>6, <2>1, ClearedType DEF At
<1>10. Sound(h)'
  <2>1. call'[h].id <= issued' /\ call'[h].todo \subseteq call'[h].listed
    BY <1>1, <1>2, <1>6, ClearedType DEF Sound
  <2>2. call'[h].next < Len(call'[h].preset) /\ call'[h].listed \subseteq 1 .. issued'
    BY <1>1, <1>2, <1>6, <1>7, ClearedType DEF Sound
  <2>3. QED
    BY <1>8, <1>9, <2>1, <2>2 DEF Sound
<1>11. QED
  BY <1>1, <1>2, <1>4, <1>5, <1>10, ClearedType, HandlerStep

LEMMA KeepRuleKeeps ==
  ASSUME TableInv, NEW h \in Handlers, KeepRule(h)
  PROVE  TableInv'
<1>1. PICK id \in call[h].todo :
        /\ At(h, "clear") /\ Fails /\ UNCHANGED <<tables, history>>
        /\ Goes(h, [Cleared(h, id) EXCEPT !.clean = FALSE])
  BY DEF KeepRule
<1> DEFINE old == Cleared(h, id)
           mine == [old EXCEPT !.clean = FALSE]
<1>2. /\ Tables /\ call \in [Handlers -> Call] /\ Sound(h) /\ InPreset(h)
      /\ call[h] \in Call /\ issued \in Nat
  BY <1>1 DEF TableInv, Tables, InPreset
<1>3. /\ mine \in Call /\ mine.id = call[h].id /\ mine.todo = call[h].todo \ {id}
      /\ mine.listed = call[h].listed /\ mine.preset = call[h].preset
      /\ mine.next = call[h].next /\ mine.clean = FALSE
  <2>1. /\ old \in Call /\ old.id = call[h].id /\ old.todo = call[h].todo \ {id}
        /\ old.listed = call[h].listed /\ old.preset = call[h].preset
        /\ old.next = call[h].next
    BY <1>2, ClearedType
  <2> HIDE DEF old
  <2>2. QED
    BY <2>1 DEF Call
<1>4. Goes(h, mine)
  BY <1>1
<1> HIDE DEF mine
<1>5. Tables' /\ UNCHANGED <<rules, issued>> /\ UNCHANGED tables
  BY <1>1, <1>2, TablesStay, CountsType DEF history, Tables
<1>6. call'[h] = mine
  BY <1>2, <1>3, <1>4, <1>5, GoesCall
<1>7. Sound(h)'
  BY <1>2, <1>3, <1>5, <1>6 DEF Sound
<1>8. QED
  BY <1>2, <1>3, <1>4, <1>5, <1>7, HandlerStep

(* The rule that PlaceRule inserts.                                        *)
NextRow(h) == Row(call[h].preset[call[h].next + 1], call[h].next + 1, TRUE)

LEMMA PlaceInserts ==
  ASSUME TableInv, NEW h \in Handlers, PlaceRule(h)
  PROVE  /\ NextRow(h) \in Rows /\ InsertRow(NextRow(h))
         /\ call[h] \in Call /\ At(h, "fill") /\ InPreset(h) /\ Changes(h, Placed(h))
         /\ issued' = issued + 1 /\ issued \in Nat
         /\ DOMAIN rules' = DOMAIN rules \cup {issued + 1}
         /\ rules'[issued + 1] = NextRow(h) /\ \A i \in DOMAIN rules : rules'[i] = rules[i]
         /\ Tables'
<1>1. /\ Tables /\ Sound(h) /\ call[h] \in Call /\ At(h, "fill") /\ InPreset(h) /\ Works
      /\ Changes(h, Placed(h)) /\ InsertRow(NextRow(h))
      /\ loose' = IF Last(h) THEN ~(call[h].alone /\ call[h].clean) ELSE loose
  BY DEF TableInv, PlaceRule, InPreset, NextRow
<1>2. NextRow(h) \in Rows
  <2>1. /\ call[h].next \in Nat /\ call[h].preset \in Seq(Bodies)
        /\ call[h].next < Len(call[h].preset)
    BY <1>1 DEF Call, Sound
  <2>2. call[h].preset[call[h].next + 1] \in Bodies /\ call[h].next + 1 \in Int
    BY <2>1
  <2>3. QED
    BY <2>2, RowType DEF NextRow
<1>3. loose' \in BOOLEAN /\ requests' \in Nat /\ faults' \in Nat /\ restarts' \in Nat
  BY <1>1, CountsType DEF Tables
<1>4. /\ issued' = issued + 1 /\ issued \in Nat /\ DOMAIN rules' = DOMAIN rules \cup {issued + 1}
      /\ rules'[issued + 1] = NextRow(h) /\ \A i \in DOMAIN rules : rules'[i] = rules[i]
  BY <1>1, <1>2, InsertKeeps DEF Tables
<1>5. Tables'
  BY <1>1, <1>2, <1>3, <1>4, InsertKeeps DEF Tables
<1>6. QED
  BY <1>1, <1>2, <1>4, <1>5

(* One more rule of a preset that nobody disturbed is in its place.        *)
LEMMA PlaceProgress ==
  ASSUME TableInv, NEW h \in Handlers, PlaceRule(h), call[h].alone, call[h].clean
  PROVE  LET next == call[h].next + 1
         IN  /\ DOMAIN rules' = (issued' - next + 1) .. issued'
             /\ \A k \in 1 .. next : rules'[issued' - next + k] = Row(call[h].preset[k], k, TRUE)
<1> DEFINE next == call[h].next
<1>1. next \in Nat /\ Progress(h) /\ At(h, "fill") /\ issued' = issued + 1 /\ issued \in Nat
  BY PlaceInserts DEF TableInv, Sound, Call
<1>2. /\ DOMAIN rules = (issued - next + 1) .. issued
      /\ \A k \in 1 .. next : rules[issued - next + k] = Row(call[h].preset[k], k, TRUE)
  BY <1>1 DEF Progress
<1>3. /\ DOMAIN rules' = DOMAIN rules \cup {issued + 1}
      /\ rules'[issued + 1] = Row(call[h].preset[next + 1], next + 1, TRUE)
      /\ \A i \in DOMAIN rules : rules'[i] = rules[i]
  BY PlaceInserts DEF NextRow
<1> HIDE DEF next
<1>4. DOMAIN rules' = (issued' - (next + 1) + 1) .. issued'
  BY <1>1, <1>2, <1>3
<1>5. ASSUME NEW k \in 1 .. (next + 1)
      PROVE  rules'[issued' - (next + 1) + k] = Row(call[h].preset[k], k, TRUE)
  <2>1. CASE k = next + 1
    <3>1. issued' - (next + 1) + k = issued + 1
      BY <1>1, <2>1
    <3>2. QED
      BY <1>3, <2>1, <3>1
  <2>2. CASE k \in 1 .. next
    <3>1. issued' - (next + 1) + k = issued - next + k /\ issued - next + k \in DOMAIN rules
      BY <1>1, <1>2, <2>2
    <3>2. QED
      BY <1>2, <1>3, <2>2, <3>1
  <2>3. k = next + 1 \/ k \in 1 .. next
    BY <1>1
  <2>4. QED
    BY <2>1, <2>2, <2>3
<1>6. QED
  BY <1>4, <1>5 DEF next

LEMMA PlacedType ==
  ASSUME TableInv, NEW h \in Handlers, ~Last(h)
  PROVE  /\ Placed(h) \in Call /\ Placed(h).next = call[h].next + 1
         /\ Placed(h).stage = call[h].stage /\ Placed(h).id = call[h].id
         /\ Placed(h).todo = call[h].todo /\ Placed(h).listed = call[h].listed
         /\ Placed(h).preset = call[h].preset /\ Placed(h).alone = call[h].alone
         /\ Placed(h).clean = call[h].clean
<1>1. call[h] \in Call
  BY DEF TableInv
<1>2. Placed(h) = [call[h] EXCEPT !.next = @ + 1]
  BY DEF Placed
<1>3. QED
  BY <1>1, <1>2 DEF Call

LEMMA PlaceRuleKeeps ==
  ASSUME TableInv, NEW h \in Handlers, PlaceRule(h)
  PROVE  TableInv'
<1>1. /\ call[h] \in Call /\ At(h, "fill") /\ InPreset(h) /\ Changes(h, Placed(h))
      /\ issued' = issued + 1 /\ issued \in Nat /\ Tables'
      /\ DOMAIN rules' = DOMAIN rules \cup {issued + 1} /\ Sound(h)
  BY PlaceInserts DEF TableInv
<1>2. CASE Last(h)
  BY <1>1, <1>2, Done DEF Placed
<1>3. CASE ~Last(h)
  <2>1. call'[h] = Placed(h)
    BY <1>1, <1>3, PlacedType, ChangesCall DEF TableInv
  <2>2. At(h, "fill")' /\ ~At(h, "clear")' /\ InPreset(h)'
    BY <1>1, <1>3, <2>1, PlacedType DEF At, InPreset
  <2>3. call'[h].next < Len(call'[h].preset)
    <3>1. /\ call[h].next \in Nat /\ call[h].next < Len(call[h].preset)
          /\ Len(call[h].preset) \in Nat /\ call[h].next + 1 # Len(call[h].preset)
      BY <1>1, <1>3 DEF Call, Sound, Last
    <3>2. call[h].next + 1 < Len(call[h].preset)
      BY <3>1
    <3>3. QED
      BY <1>3, <2>1, <3>2, PlacedType
  <2>4. /\ call'[h].id <= issued' /\ call'[h].todo \subseteq call'[h].listed
        /\ call'[h].listed \subseteq 1 .. issued'
    <3>1. call[h].id \in Nat /\ call[h].id <= issued
      BY <1>1 DEF Call, Sound
    <3>2. call[h].todo \subseteq call[h].listed /\ call[h].listed \subseteq 1 .. issued
      BY <1>1 DEF Sound
    <3>3. QED
      BY <1>1, <1>3, <2>1, <3>1, <3>2, PlacedType
  <2>5. call'[h].clean => call'[h].listed \cap DOMAIN rules' = {}
    <3>1. call[h].listed \subseteq 1 .. issued
      BY <1>1 DEF Sound
    <3>2. issued + 1 \notin call[h].listed
      BY <1>1, <3>1
    <3>3. call[h].clean => call[h].listed \cap DOMAIN rules = {}
      BY <1>1 DEF Sound
    <3>4. QED
      BY <1>1, <1>3, <2>1, <3>2, <3>3, PlacedType
  <2>6. ASSUME call'[h].alone, call'[h].clean PROVE Progress(h)'
    <3>1. call[h].alone /\ call[h].clean
      BY <1>3, <2>1, <2>6, PlacedType
    <3>2. /\ DOMAIN rules' = (issued' - (call[h].next + 1) + 1) .. issued'
          /\ \A k \in 1 .. (call[h].next + 1) :
                rules'[issued' - (call[h].next + 1) + k] = Row(call[h].preset[k], k, TRUE)
      BY <3>1, PlaceProgress
    <3>3. QED
      BY <1>3, <2>1, <2>2, <3>2, PlacedType DEF Progress
  <2>7. Sound(h)'
    BY <2>2, <2>3, <2>4, <2>5, <2>6 DEF Sound
  <2>8. QED
    BY <1>1, <1>3, <2>7, PlacedType, HandlerStep
<1>4. QED
  BY <1>2, <1>3

LEMMA SkipRuleKeeps ==
  ASSUME TableInv, NEW h \in Handlers, SkipRule(h)
  PROVE  TableInv'
<1>1. /\ Tables /\ call \in [Handlers -> Call] /\ Sound(h) /\ call[h] \in Call
      /\ At(h, "fill") /\ InPreset(h) /\ Fails /\ UNCHANGED <<tables, said, torn>>
      /\ loose' = (loose \/ Last(h)) /\ issued \in Nat
  BY DEF TableInv, Tables, SkipRule, InPreset
<1>2. Tables' /\ UNCHANGED <<rules, issued>> /\ UNCHANGED tables
  BY <1>1, TablesStay, CountsType DEF Tables
<1>3. CASE Last(h)
  BY <1>1, <1>2, <1>3, Done DEF SkipRule
<1>4. CASE ~Last(h)
  <2> DEFINE old == Placed(h)
             mine == [old EXCEPT !.clean = FALSE]
  <2>1. Goes(h, mine)
    BY <1>4 DEF SkipRule
  <2>2. /\ mine \in Call /\ mine.next = call[h].next + 1 /\ mine.stage = call[h].stage
        /\ mine.id = call[h].id /\ mine.todo = call[h].todo /\ mine.listed = call[h].listed
        /\ mine.preset = call[h].preset /\ mine.clean = FALSE
    <3>1. /\ old \in Call /\ old.next = call[h].next + 1 /\ old.stage = call[h].stage
          /\ old.id = call[h].id /\ old.todo = call[h].todo /\ old.listed = call[h].listed
          /\ old.preset = call[h].preset
      BY <1>4, PlacedType
    <3> HIDE DEF old
    <3>2. QED
      BY <3>1 DEF Call
  <2> HIDE DEF mine
  <2>3. call'[h] = mine
    BY <1>1, <1>2, <2>1, <2>2, GoesCall
  <2>4. call'[h].next < Len(call'[h].preset)
    <3>1. /\ call[h].next \in Nat /\ call[h].next < Len(call[h].preset)
          /\ Len(call[h].preset) \in Nat /\ call[h].next + 1 # Len(call[h].preset)
      BY <1>1, <1>4 DEF Call, Sound, Last
    <3>2. call[h].next + 1 < Len(call[h].preset)
      BY <3>1
    <3>3. QED
      BY <2>2, <2>3, <3>2
  <2>5. Sound(h)'
    BY <1>1, <1>2, <2>2, <2>3, <2>4 DEF Sound
  <2>6. QED
    BY <1>1, <1>2, <2>1, <2>2, <2>5, HandlerStep
<1>5. QED
  BY <1>3, <1>4

LEMMA AbandonKeeps ==
  ASSUME TableInv, NEW h \in Handlers, Abandon(h)
  PROVE  TableInv'
<1>1. /\ Tables /\ Goes(h, Idle) /\ Fails /\ UNCHANGED <<tables, said, torn>>
      /\ loose' = (loose \/ InPreset(h))
  BY DEF TableInv, Abandon
<1>2. Tables' /\ UNCHANGED <<rules, issued>>
  BY <1>1, TablesStay, CountsType DEF Tables
<1>3. QED
  BY <1>1, <1>2, Done DEF tables, Tables

(* A restart brings back the seed rows that are missing, as they were.     *)
LEMMA RestartKeeps ==
  ASSUME TableInv, Restart
  PROVE  TableInv'
<1> DEFINE all == DOMAIN rules \cup DOMAIN SeedRows
<1>1. /\ rules' = [i \in all |-> IF i \in DOMAIN rules THEN rules[i] ELSE SeedRows[i]]
      /\ said' = [i \in DOMAIN said \cup DOMAIN SeedRows |->
                     IF i \in DOMAIN said THEN said[i] ELSE SeedRows[i]]
      /\ issued' = issued /\ torn' = torn /\ call' = [h \in Handlers |-> Idle]
      /\ restarts' = restarts + 1 /\ requests' = requests /\ faults' = faults
      /\ loose' \in BOOLEAN
  BY DEF Restart, TableInv, Tables
<1>2. Tables
  BY DEF TableInv
<1>3. DOMAIN rules' = all /\ rules' \in [all -> Rows]
  BY <1>1, <1>2, SeedType DEF Tables
<1>4. DOMAIN said' = all /\ said' \in [all -> Rows]
  BY <1>1, <1>2, SeedType DEF Tables
<1>5. all \subseteq 1 .. issued
  BY <1>2, SeedType DEF Tables
<1>6. LastWordCounts'
  BY <1>1, <1>2, <1>3 DEF Tables, LastWordCounts
<1>7. Tables'
  BY <1>1, <1>2, <1>3, <1>4, <1>5, <1>6 DEF Tables
<1>8. call' \in [Handlers -> Call] /\ \A h \in Handlers : call'[h] = Idle
  BY <1>1, IdleType
<1>9. ASSUME NEW h \in Handlers PROVE Sound(h)'
  <2>1. ~At(h, "clear")' /\ ~At(h, "fill")' /\ ~InPreset(h)'
    BY <1>8, IdleType DEF At, InPreset
  <2>2. call'[h].id <= issued' /\ call'[h].todo = {}
    BY <1>1, <1>2, <1>8, IdleType DEF Tables
  <2>3. QED
    BY <2>1, <2>2 DEF Sound, Progress
<1>10. QED
  BY <1>7, <1>8, <1>9 DEF TableInv

LEMMA TableInit == Init => TableInv
<1> SUFFICES ASSUME Init PROVE TableInv
  OBVIOUS
<1>1. Tables
  <2>1. /\ rules = SeedRows /\ said = SeedRows /\ issued = Len(Seed) /\ torn = {}
        /\ loose = FALSE /\ requests = 0 /\ faults = 0 /\ restarts = 0
    BY DEF Init
  <2>2. LastWordCounts
    BY <2>1 DEF LastWordCounts
  <2>3. /\ issued \in Nat /\ Len(Seed) <= issued /\ DOMAIN rules = 1 .. issued
        /\ rules \in [1 .. issued -> Rows]
    BY <2>1, SeedType
  <2>4. torn \subseteq (1 .. issued) \X Columns
    BY <2>1
  <2>5. QED
    BY <2>1, <2>2, <2>3, <2>4 DEF Tables
<1>2. call \in [Handlers -> Call] /\ \A h \in Handlers : call[h] = Idle
  BY IdleType DEF Init
<1>3. ASSUME NEW h \in Handlers PROVE Sound(h)
  <2>1. call[h].stage = "idle" /\ call[h].id <= issued /\ call[h].todo = {}
    BY <1>1, <1>2, IdleType DEF Tables
  <2>2. QED
    BY <2>1, IdleSound
<1>4. QED
  BY <1>1, <1>2, <1>3 DEF TableInv

LEMMA TableStep ==
  ASSUME TableInv, [Next]_vars
  PROVE  TableInv'
<1>1. ASSUME NEW h \in Handlers, Request(h) PROVE TableInv'
  BY <1>1, CountRulesKeeps, InsertCountedKeeps, InsertAtKeeps, ReadRuleKeeps, WriteRuleKeeps,
     WriteNothingKeeps, DeleteRuleKeeps, ReorderRuleKeeps, ListRulesKeeps, ClearRuleKeeps,
     KeepRuleKeeps, PlaceRuleKeeps, SkipRuleKeeps, AbandonKeeps DEF Request
<1>2. CASE UNCHANGED vars
  <2>1. UNCHANGED <<rules, issued, call, requests, faults, restarts, said, torn, loose>>
    BY <1>2 DEF vars, tables, counts, history
  <2>2. Tables'
    BY <2>1 DEF TableInv, Tables, LastWordCounts
  <2>3. \A h \in Handlers : Sound(h)'
    BY <2>1 DEF TableInv, Sound, Progress, At, InPreset
  <2>4. QED
    BY <2>1, <2>2, <2>3 DEF TableInv
<1>3. QED
  BY <1>1, <1>2, RestartKeeps DEF Next

(* ------------------------------ what follows ---------------------------- *)

(* The variables have their types and the rows theirs, for any handlers    *)
(* and rules; a preset deletes what it has listed only.                    *)
THEOREM TypeCorrect == Spec => []RuleTypeOK
<1>1. TableInv /\ [Next]_vars => TableInv'
  BY TableStep
<1>2. TableInv => RuleTypeOK
  BY DEF TableInv, Tables, Sound, RuleTypeOK
<1>3. QED
  BY <1>1, <1>2, TableInit, PTL DEF Spec

(* Every column of a rule holds what was last asked for it, unless an      *)
(* update wrote the value it had read over a later one (UpdateRule reads a *)
(* row and writes all of it), for any number of concurrent requests.       *)
THEOREM LastWordCorrect == Spec => []LastWordCounts
<1>1. TableInv /\ [Next]_vars => TableInv'
  BY TableStep
<1>2. TableInv => LastWordCounts
  BY DEF TableInv, Tables
<1>3. QED
  BY <1>1, <1>2, TableInit, PTL DEF Spec

(* ------------------------------ priorities ------------------------------ *)

Resting == \A h \in Handlers : ~InPreset(h)

DenseInv == TableInv /\ PrioritiesDense

(* A new rule takes the place after the last.                              *)
LEMMA DenseInsert ==
  ASSUME Tables, NEW row \in Rows, InsertRow(row), row.priority = Count + 1, Dense(rules)
  PROVE  Dense(rules)'
<1>1. /\ issued \in Nat /\ DOMAIN rules \subseteq 1 .. issued /\ issued + 1 \notin DOMAIN rules
      /\ rules \in [DOMAIN rules -> Rows]
  BY DEF Tables
<1>2. /\ DOMAIN rules' = DOMAIN rules \cup {issued + 1} /\ rules'[issued + 1] = row
      /\ \A i \in DOMAIN rules : rules'[i] = rules[i]
  BY InsertKeeps
<1>3. Count \in Nat /\ Cardinality(DOMAIN rules') = Count + 1
  BY <1>1, <1>2, Counted, FS_AddElement DEF Count
<1>4. /\ \A i \in DOMAIN rules : rules[i].priority \in 1 .. Count
      /\ \A i, j \in DOMAIN rules : rules[i].priority = rules[j].priority => i = j
  BY DEF Dense, Count
<1> HIDE DEF Count
<1>5. ASSUME NEW i \in DOMAIN rules' PROVE rules'[i].priority \in 1 .. (Count + 1)
  BY <1>2, <1>3, <1>4
<1>6. ASSUME NEW i \in DOMAIN rules', NEW j \in DOMAIN rules',
             rules'[i].priority = rules'[j].priority
      PROVE  i = j
  <2>1. \A k \in DOMAIN rules : rules'[k].priority # Count + 1
    BY <1>2, <1>3, <1>4
  <2>2. rules'[issued + 1].priority = Count + 1
    BY <1>2
  <2>3. QED
    BY <1>2, <1>4, <1>6, <2>1, <2>2
<1>7. QED
  BY <1>3, <1>5, <1>6 DEF Dense

(* The last rule goes.                                                     *)
LEMMA DenseDelete ==
  ASSUME Tables, NEW id \in DOMAIN rules, rules' = Without(rules, id),
         rules[id].priority = Count, Dense(rules)
  PROVE  Dense(rules)'
<1>1. /\ DOMAIN rules' = DOMAIN rules \ {id}
      /\ \A i \in DOMAIN rules \ {id} : rules'[i] = rules[i]
  BY WithoutType DEF Tables
<1>2. Count \in Nat /\ Cardinality(DOMAIN rules') = Count - 1
  BY <1>1, Counted, FS_RemoveElement DEF Count
<1>3. /\ \A i \in DOMAIN rules : rules[i].priority \in 1 .. Count
      /\ \A i, j \in DOMAIN rules : rules[i].priority = rules[j].priority => i = j
  BY DEF Dense, Count
<1>4. ASSUME NEW i \in DOMAIN rules' PROVE rules'[i].priority \in 1 .. (Count - 1)
  <2>1. rules'[i] = rules[i] /\ rules[i].priority \in 1 .. Count /\ rules[i].priority # Count
    BY <1>1, <1>3
  <2>2. QED
    BY <1>2, <2>1
<1>5. QED
  BY <1>1, <1>2, <1>3, <1>4 DEF Dense

(* Nobody's place changes.                                                 *)
LEMMA DenseSame ==
  ASSUME Dense(rules), DOMAIN rules' = DOMAIN rules,
         \A i \in DOMAIN rules : rules'[i].priority = rules[i].priority
  PROVE  Dense(rules)'
BY DEF Dense

(* A reorder that names every rule once gives each the place it has in the *)
(* list.                                                                   *)
LEMMA DenseReorder ==
  ASSUME Tables, NEW order \in Orders, Complete(order), rules' = Reordered(rules, order)
  PROVE  Dense(rules)'
<1>1. /\ DOMAIN rules' = DOMAIN rules
      /\ \A i \in DOMAIN rules : rules'[i] = Moved(rules[i], i, order)
  BY ReorderedType DEF Tables
<1>2. order \in Seq(Nat) /\ Len(order) = Cardinality(DOMAIN rules)
  BY RuleAssumption DEF Complete, Count
<1>3. ASSUME NEW i \in DOMAIN rules
      PROVE  /\ rules'[i].priority \in 1 .. Len(order)
             /\ order[rules'[i].priority] = i
  <2>1. Places(order, i) # {}
    BY DEF Complete, Places
  <2>2. LastOf(order, i) \in Places(order, i)
    BY <1>2, <2>1, LastPlace DEF LastOf
  <2>3. Moved(rules[i], i, order)["priority"] = LastOf(order, i)
    BY <2>1, MovedColumns
  <2>4. rules'[i].priority = LastOf(order, i)
    BY <1>1, <2>3
  <2>5. QED
    BY <2>2, <2>4 DEF Places
<1>4. QED
  BY <1>1, <1>2, <1>3 DEF Dense

(* The last rule of a preset that nobody and nothing disturbed.            *)
LEMMA DensePreset ==
  ASSUME TableInv, NEW h \in Handlers, PlaceRule(h), Last(h), call[h].alone, call[h].clean
  PROVE  Dense(rules)'
<1> DEFINE n == call[h].next + 1
           first == issued' - n
<1>1. /\ call[h].next \in Nat /\ issued' \in Nat
      /\ DOMAIN rules' \subseteq 1 .. issued'
  BY PlaceInserts DEF Call, Tables
<1>2. /\ DOMAIN rules' = (first + 1) .. issued'
      /\ \A k \in 1 .. n : rules'[first + k] = Row(call[h].preset[k], k, TRUE)
  BY PlaceProgress
<1>3. n \in Nat /\ first \in Int /\ issued' = first + n
  BY <1>1
<1> HIDE DEF n, first
<1>4. Cardinality(DOMAIN rules') = n
  BY <1>2, <1>3, FS_Interval
<1>5. ASSUME NEW i \in DOMAIN rules'
      PROVE  i - first \in 1 .. n /\ rules'[i].priority = i - first
  <2>1. i - first \in 1 .. n /\ i = first + (i - first)
    BY <1>2, <1>3
  <2>2. rules'[i] = Row(call[h].preset[i - first], i - first, TRUE)
    BY <1>2, <2>1
  <2>3. QED
    BY <2>1, <2>2 DEF Row
<1>6. ASSUME NEW i \in DOMAIN rules', NEW j \in DOMAIN rules', i - first = j - first
      PROVE  i = j
  BY <1>2, <1>3, <1>6
<1>7. QED
  BY <1>4, <1>5, <1>6 DEF Dense

(* No preset is half applied after a step of a handler that was not at one *)
(* if none was before.                                                     *)
LEMMA RestBefore ==
  ASSUME TableInv, NEW h \in Handlers, NEW mine \in Call, ~InPreset(h), Resting',
         Changes(h, mine) \/ (Goes(h, mine) /\ UNCHANGED tables)
  PROVE  Resting
<1>1. \A g \in Handlers \ {h} : Unmoved(g)
  BY ChangesCall, GoesCall DEF TableInv
<1>2. QED
  BY <1>1 DEF Resting, InPreset, At, Unmoved

(* The steps of a handler that does not apply a preset: they are recorded  *)
(* as loosening, or keep the priorities dense.                             *)
LEMMA DensePlain ==
  ASSUME DenseInv, NEW h \in Handlers, ~loose', Resting',
         \/ CountRules(h) \/ InsertCounted(h) \/ InsertAt(h) \/ ReadRule(h)
         \/ WriteRule(h) \/ WriteNothing(h) \/ DeleteRule(h)
  PROVE  Dense(rules)'
<1> USE DEF DenseInv
<1>1. /\ Tables /\ call[h] \in Call /\ PrioritiesDense
      /\ \A t \in {"idle", "counted", "read"} : At(h, t) => ~InPreset(h)
  BY DEF TableInv, At, InPreset
<1>2. CASE CountRules(h)
  <2>1. PICK mine : Goes(h, mine) /\ At(h, "idle") /\ UNCHANGED <<tables, history>>
    BY <1>2 DEF CountRules, Accept
  <2>2. Resting /\ ~loose /\ rules' = rules
    BY <1>1, <2>1 DEF Goes, Resting, InPreset, At, tables, history, TableInv
  <2>3. QED
    BY <1>1, <2>2 DEF PrioritiesDense, Resting, Dense
<1>3. CASE InsertCounted(h)
  <2>1. /\ At(h, "counted") /\ InsertRow(call[h].row) /\ Changes(h, Idle)
        /\ ~loose /\ call[h].row.priority = Count + 1
    BY <1>3 DEF InsertCounted
  <2>2. Resting /\ call[h].row \in Rows
    BY <1>1, <2>1, IdleType, RestBefore DEF Call
  <2>3. QED
    BY <1>1, <2>1, <2>2, DenseInsert DEF PrioritiesDense, Resting
<1>4. CASE InsertAt(h)
  <2>1. PICK body \in Bodies, priority \in Priorities \ {0} :
          /\ At(h, "idle") /\ InsertRow(Row(body, priority, TRUE)) /\ Changes(h, Idle)
          /\ ~loose /\ priority = Count + 1
    BY <1>4 DEF InsertAt, Accept
  <2>2. Resting
    BY <1>1, <2>1, IdleType, RestBefore
  <2>3. Row(body, priority, TRUE) \in Rows /\ Row(body, priority, TRUE).priority = priority
    BY RowType, RuleAssumption, priority \in Int DEF Row
  <2>4. QED
    BY <1>1, <2>1, <2>2, <2>3, DenseInsert DEF PrioritiesDense, Resting
<1>5. CASE ReadRule(h)
  <2>1. PICK mine : Goes(h, mine) /\ At(h, "idle") /\ UNCHANGED <<tables, history>>
    BY <1>5 DEF ReadRule, Accept
  <2>2. Resting /\ ~loose /\ rules' = rules
    BY <1>1, <2>1 DEF Goes, Resting, InPreset, At, tables, history, TableInv
  <2>3. QED
    BY <1>1, <2>2 DEF PrioritiesDense, Resting, Dense
<1>6. CASE WriteRule(h)
  <2>1. /\ At(h, "read") /\ Changes(h, Idle) /\ ~loose
        /\ DOMAIN rules' = DOMAIN rules
        /\ \A i \in DOMAIN rules : rules'[i].priority = rules[i].priority
    BY <1>1, <1>6, WriteKeeps DEF WriteRule
  <2>2. Resting
    BY <1>1, <2>1, IdleType, RestBefore
  <2>3. QED
    BY <1>1, <2>1, <2>2, DenseSame DEF PrioritiesDense, Resting
<1>7. CASE WriteNothing(h)
  <2>1. At(h, "read") /\ Goes(h, Idle) /\ UNCHANGED <<tables, history>>
    BY <1>7 DEF WriteNothing
  <2>2. Resting /\ ~loose /\ rules' = rules
    BY <1>1, <2>1, IdleType, RestBefore DEF tables, history
  <2>3. QED
    BY <1>1, <2>2 DEF PrioritiesDense, Resting, Dense
<1>8. CASE DeleteRule(h)
  <2>1. PICK id \in DOMAIN rules :
          /\ At(h, "idle") /\ rules' = Without(rules, id) /\ Changes(h, Idle)
          /\ ~loose /\ rules[id].priority = Count
    BY <1>8 DEF DeleteRule, Accept
  <2>2. Resting
    BY <1>1, <2>1, IdleType, RestBefore
  <2>3. QED
    BY <1>1, <2>1, <2>2, DenseDelete DEF PrioritiesDense, Resting
<1>9. QED
  BY <1>2, <1>3, <1>4, <1>5, <1>6, <1>7, <1>8

(* A preset that is still being applied, or has failed, promises nothing;  *)
(* one that is done undisturbed has repaired the priorities.               *)
LEMMA DensePresets ==
  ASSUME DenseInv, NEW h \in Handlers, ~loose', Resting',
         \/ ListRules(h) \/ ClearRule(h) \/ KeepRule(h) \/ PlaceRule(h) \/ SkipRule(h)
         \/ Abandon(h)
  PROVE  Dense(rules)'
<1> USE DEF DenseInv
<1>1. /\ Tables /\ call \in [Handlers -> Call] /\ call[h] \in Call /\ PrioritiesDense
      /\ call'[h].stage \notin {"clear", "fill"}
  BY DEF TableInv, Resting, InPreset, At
<1>2. CASE ListRules(h)
  <2>1. PICK preset \in Presets :
          Goes(h, [Idle EXCEPT !.stage = IF rules = <<>> THEN "fill" ELSE "clear",
                               !.preset = preset,
                               !.listed = DOMAIN rules, !.todo = DOMAIN rules])
    BY <1>2 DEF ListRules
  <2>2. call'[h].stage = IF rules = <<>> THEN "fill" ELSE "clear"
    BY <1>1, <2>1 DEF Goes, Idle
  <2>3. QED
    BY <1>1, <2>2
<1>3. CASE ClearRule(h)
  <2>1. PICK id : Changes(h, Cleared(h, id))
    BY <1>3 DEF ClearRule
  <2>2. call'[h] = Cleared(h, id)
    BY <1>1, <2>1, ClearedType, ChangesCall
  <2>3. QED
    BY <1>1, <2>2, ClearedType
<1>4. CASE KeepRule(h)
  <2>1. PICK id : Goes(h, [Cleared(h, id) EXCEPT !.clean = FALSE])
    BY <1>4 DEF KeepRule
  <2>2. call'[h] = [Cleared(h, id) EXCEPT !.clean = FALSE]
    BY <1>1, <2>1 DEF Goes
  <2>3. Cleared(h, id) \in Call /\ Cleared(h, id).stage \in {"clear", "fill"}
    BY <1>1, ClearedType
  <2>4. QED
    BY <1>1, <2>2, <2>3 DEF Call
<1>5. CASE PlaceRule(h)
  <2>1. Last(h)
    <3> SUFFICES ASSUME ~Last(h) PROVE FALSE
      OBVIOUS
    <3>1. call'[h] = Placed(h) /\ At(h, "fill")
      BY <1>5, PlaceInserts, PlacedType, ChangesCall DEF TableInv
    <3>2. QED
      BY <1>1, <3>1, PlacedType DEF At
  <2>2. call[h].alone /\ call[h].clean
    BY <1>5, <2>1 DEF PlaceRule
  <2>3. QED
    BY <1>5, <2>1, <2>2, DensePreset
<1>6. CASE SkipRule(h)
  <2>1. ~Last(h) /\ At(h, "fill") /\ Goes(h, [Placed(h) EXCEPT !.clean = FALSE])
    BY <1>6 DEF SkipRule
  <2>2. Placed(h) \in Call /\ Placed(h).stage = "fill"
    BY <2>1, PlacedType DEF At
  <2>3. call'[h] = [Placed(h) EXCEPT !.clean = FALSE]
    BY <1>1, <2>1 DEF Goes
  <2>4. QED
    BY <1>1, <2>2, <2>3 DEF Call
<1>7. CASE Abandon(h)
  <2>1. ~InPreset(h) /\ ~loose /\ Goes(h, Idle) /\ UNCHANGED tables
    BY <1>7 DEF Abandon
  <2>2. Resting /\ rules' = rules
    BY <2>1, IdleType, RestBefore DEF tables
  <2>3. QED
    BY <1>1, <2>1, <2>2 DEF PrioritiesDense, Resting, Dense
<1>8. QED
  BY <1>2, <1>3, <1>4, <1>5, <1>6, <1>7

(* A restart that finds everything in place changes nothing.               *)
LEMMA DenseRestart ==
  ASSUME DenseInv, Restart, ~loose'
  PROVE  Dense(rules)'
<1>1. Resting /\ ~loose /\ DOMAIN SeedRows \ DOMAIN rules = {}
  BY DEF Restart, Resting
<1>2. rules' = [i \in DOMAIN rules \cup DOMAIN SeedRows |->
                   IF i \in DOMAIN rules THEN rules[i] ELSE SeedRows[i]]
  BY DEF Restart
<1>3. DOMAIN rules' = DOMAIN rules /\ \A i \in DOMAIN rules : rules'[i] = rules[i]
  BY <1>1, <1>2
<1>4. QED
  BY <1>1, <1>3, DenseSame DEF DenseInv, PrioritiesDense, Resting

LEMMA DenseStep ==
  ASSUME DenseInv, [Next]_vars
  PROVE  DenseInv'
<1>1. TableInv'
  BY TableStep DEF DenseInv
<1>2. ASSUME ~loose', Resting' PROVE Dense(rules)'
  <2>1. ASSUME NEW h \in Handlers, Reorder(h) PROVE Dense(rules)'
    <3>1. PICK order \in Orders : rules' = Reordered(rules, order) /\ loose' = ~Complete(order)
      BY <2>1 DEF Reorder
    <3>2. QED
      BY <1>2, <3>1, DenseReorder DEF DenseInv, TableInv
  <2>2. ASSUME NEW h \in Handlers, Request(h) PROVE Dense(rules)'
    BY <1>2, <2>1, <2>2, DensePlain, DensePresets DEF Request
  <2>3. CASE UNCHANGED vars
    <3>1. rules' = rules /\ call' = call /\ loose' = loose
      BY <2>3 DEF vars, tables, history
    <3>2. QED
      BY <1>2, <3>1 DEF DenseInv, PrioritiesDense, Resting, InPreset, At, Dense
  <2>4. QED
    BY <1>2, <2>2, <2>3, DenseRestart DEF Next
<1>3. PrioritiesDense'
  BY <1>2 DEF PrioritiesDense, Resting
<1>4. QED
  BY <1>1, <1>3 DEF DenseInv

LEMMA DenseInit == Init => DenseInv
<1> SUFFICES ASSUME Init PROVE DenseInv
  OBVIOUS
<1>1. rules = SeedRows /\ Len(Seed) \in Nat /\ DOMAIN SeedRows = 1 .. Len(Seed)
  BY SeedType DEF Init
<1>2. Cardinality(DOMAIN rules) = Len(Seed)
  BY <1>1, FS_Interval
<1>3. \A i \in DOMAIN rules : rules[i].priority = i
  BY <1>1 DEF SeedRows, Row
<1>4. Dense(rules)
  BY <1>1, <1>2, <1>3 DEF Dense
<1>5. QED
  BY <1>4, TableInit DEF DenseInv, PrioritiesDense

(* While no preset is half applied the priorities are 1 .. n, each once,   *)
(* unless one of the listed disturbances came after the last complete      *)
(* reorder or undisturbed preset, for any number of concurrent requests.   *)
THEOREM DenseCorrect == Spec => []PrioritiesDense
<1>1. DenseInv /\ [Next]_vars => DenseInv'
  BY DenseStep
<1>2. DenseInv => PrioritiesDense
  BY DEF DenseInv
<1>3. QED
  BY <1>1, <1>2, DenseInit, PTL DEF Spec

(* Only the insertion of a preset's last rule ends it without a failure.   *)
LEMMA FinishesByPlacing ==
  ASSUME TableInv, NEW h \in Handlers, [Next]_vars, Finishes(h)
  PROVE  PlaceRule(h) /\ Last(h)
<1>1. At(h, "fill") /\ call'[h].stage = "idle" /\ UNCHANGED <<faults, restarts>>
  BY DEF Finishes
<1>2. call \in [Handlers -> Call] /\ call[h] \in Call /\ faults \in Nat /\ restarts \in Nat
  BY DEF TableInv, Tables
<1>3. Next /\ ~Restart
  BY <1>1, <1>2 DEF vars, At, Restart
<1>4. PICK g \in Handlers : Request(g)
  BY <1>3 DEF Next
<1>5. g = h
  <2>1. SUFFICES ASSUME g # h PROVE call'[h].stage = call[h].stage
    BY <1>1 DEF At
  <2>2. ASSUME NEW mine, Goes(g, mine) \/ Changes(g, mine)
        PROVE  call'[h].stage = call[h].stage
    <3>1. CASE Goes(g, mine)
      BY <1>2, <2>1, <3>1 DEF Goes
    <3>2. CASE Changes(g, mine)
      <4>1. call'[h] = IF InPreset(h) THEN [call[h] EXCEPT !.alone = FALSE] ELSE call[h]
        BY <2>1, <3>2 DEF Changes
      <4>2. [call[h] EXCEPT !.alone = FALSE].stage = call[h].stage
        BY <1>2 DEF Call
      <4>3. CASE InPreset(h)
        BY <4>1, <4>2, <4>3
      <4>4. CASE ~InPreset(h)
        BY <4>1, <4>4
      <4>5. QED
        BY <4>3, <4>4
    <3>3. QED
      BY <2>2, <3>1, <3>2
  <2>3. QED
    BY <1>4, <2>2 DEF Request, CountRules, InsertCounted, InsertAt, ReadRule, WriteRule,
       WriteNothing, DeleteRule, Reorder, ListRules, ClearRule, KeepRule, PlaceRule,
       SkipRule, Abandon
<1>6. ~Fails
  BY <1>1, <1>2 DEF Fails
<1>7. PlaceRule(h)
  BY <1>1, <1>4, <1>5, <1>6 DEF Request, CountRules, InsertCounted, InsertAt, ReadRule,
     WriteRule, WriteNothing, DeleteRule, Reorder, ListRules, ClearRule, KeepRule,
     SkipRule, Abandon, Accept, At
<1>8. Last(h)
  <2> SUFFICES ASSUME ~Last(h) PROVE FALSE
    OBVIOUS
  <2>1. call'[h] = Placed(h)
    BY <1>7, PlaceInserts, PlacedType, ChangesCall DEF TableInv
  <2>2. QED
    BY <1>1, <2>1, PlacedType DEF At
<1>9. QED
  BY <1>7, <1>8

(* A preset that was applied without a failed statement has left none of   *)
(* the rules it found; undisturbed, the table is the preset (ApplyPreset), *)
(* for any presets, tables and concurrent requests.                        *)
THEOREM PresetCorrect == Spec => PresetReplacesAll
<1>1. TableInv /\ [Next]_vars => TableInv'
  BY TableStep
<1> DEFINE Replaced(h) ==
        /\ call[h].listed \cap DOMAIN rules' = {}
        /\ call[h].alone =>
              /\ Cardinality(DOMAIN rules') = Len(call[h].preset)
              /\ \A k \in 1 .. Len(call[h].preset) :
                    \E i \in DOMAIN rules' : rules'[i] = Row(call[h].preset[k], k, TRUE)
<1>2. ASSUME TableInv, [Next]_vars, NEW h \in Handlers, Finishes(h), call[h].clean
      PROVE  Replaced(h)
  <2>1. PlaceRule(h) /\ Last(h)
    BY <1>2, FinishesByPlacing
  <2>2. /\ issued \in Nat /\ issued' = issued + 1 /\ At(h, "fill") /\ InPreset(h)
        /\ call[h] \in Call /\ DOMAIN rules' = DOMAIN rules \cup {issued + 1}
    BY <1>2, <2>1, PlaceInserts
  <2>3. call[h].listed \cap DOMAIN rules' = {}
    <3>1. call[h].listed \cap DOMAIN rules = {} /\ call[h].listed \subseteq 1 .. issued
      BY <1>2, <2>2 DEF TableInv, Sound
    <3>2. QED
      BY <2>2, <3>1
  <2>4. ASSUME call[h].alone
        PROVE  /\ Cardinality(DOMAIN rules') = Len(call[h].preset)
               /\ \A k \in 1 .. Len(call[h].preset) :
                     \E i \in DOMAIN rules' : rules'[i] = Row(call[h].preset[k], k, TRUE)
    <3> DEFINE n == Len(call[h].preset)
    <3>1. n \in Nat /\ call[h].next + 1 = n
      BY <2>1, <2>2 DEF Call, Last
    <3>2. /\ DOMAIN rules' = (issued' - n + 1) .. issued'
          /\ \A k \in 1 .. n : rules'[issued' - n + k] = Row(call[h].preset[k], k, TRUE)
      BY <1>2, <2>1, <2>4, <3>1, PlaceProgress
    <3> HIDE DEF n
    <3>3. Cardinality(DOMAIN rules') = n
      <4>1. issued' - n + 1 \in Int /\ issued' \in Int
        BY <2>2, <3>1
      <4>2. Cardinality((issued' - n + 1) .. issued')
              = IF issued' - n + 1 > issued' THEN 0 ELSE issued' - (issued' - n + 1) + 1
        BY <4>1, FS_Interval
      <4>3. QED
        BY <2>2, <3>1, <3>2, <4>2
    <3>4. ASSUME NEW k \in 1 .. n
          PROVE  \E i \in DOMAIN rules' : rules'[i] = Row(call[h].preset[k], k, TRUE)
      <4>1. issued' - n + k \in DOMAIN rules'
        BY <2>2, <3>1, <3>2
      <4>2. QED
        BY <3>2, <4>1
    <3>5. QED
      BY <3>3, <3>4 DEF n
  <2>5. QED
    BY <2>3, <2>4
<1>3. TableInv /\ [Next]_vars =>
        [\A h \in Handlers : Finishes(h) /\ call[h].clean => Replaced(h)]_vars
  BY <1>2
<1>4. QED
  BY <1>1, <1>3, TableInit, PTL DEF Spec, PresetReplacesAll
=============================================================================

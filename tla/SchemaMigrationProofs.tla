------------------------ MODULE SchemaMigrationProofs -------------------------
(***************************************************************************)
(* Proofs about SchemaMigration for any tables, columns, processes, and    *)
(* any number of stops.                                                    *)
(***************************************************************************)
EXTENDS SchemaMigration, TLAPS

-------------------------------------------------------------------------------
(* Types. *)

Columns == UNION {[S -> SUBSET Cols] : S \in SUBSET Tables}

Plans == [live : Columns, copies : SUBSET Tables, left : SUBSET Tables, at : Tables \cup {Absent},
          add : SUBSET Cols, drop : SUBSET Cols]

\* What the plan of process p can be at each step.
PlanFits(p) ==
    /\ plan[p].left \subseteq DOMAIN plan[p].live
    /\ pc[p] \in {"columns", "create copy"} \cup Rebuild => plan[p].left \subseteq WantedTables
    /\ pc[p] \in {"create copy"} \cup Rebuild => plan[p].at \in WantedTables
    /\ plan[p].add \cup plan[p].drop # {} => plan[p].at \in WantedTables
    /\ pc[p] = "drops" => plan[p].left \cap WantedTables = {}

TablesTyped ==
    /\ table \in [Tables -> Stored \cup {Absent}]
    /\ copy \in [Tables -> Stored \cup {Absent}]
    /\ version \in {"old", "new"}
    /\ written \in [Tables -> SUBSET {OldRow, NewRow}]

ProcsTyped ==
    /\ pc \in [Procs -> Migrate \cup {"up", "down"}]
    /\ plan \in [Procs -> Plans]
    /\ \A p \in Procs : PlanFits(p)

SignsTyped == disturbed \subseteq WantedTables /\ stops \in 0..MaxStops

Typed == TablesTyped /\ ProcsTyped /\ SignsTyped

LEMMA ColumnsOf ==
  ASSUME NEW f \in Columns
  PROVE  DOMAIN f \subseteq Tables /\ \A t \in DOMAIN f : f[t] \subseteq Cols
<1>1. PICK S \in SUBSET Tables : f \in [S -> SUBSET Cols]
  BY DEF Columns
<1>2. QED
  BY <1>1

LEMMA TypedIsTypeOK ==
  ASSUME Typed
  PROVE  TypeOK
<1>1. \A p \in Procs : plan[p] \in Plans /\ plan[p].live \in Columns /\ PlanFits(p)
  BY DEF Typed, ProcsTyped, Plans
<1>2. ASSUME NEW p \in Procs
      PROVE  LET found == plan[p].live IN
        /\ DOMAIN found \subseteq Tables /\ \A t \in DOMAIN found : found[t] \subseteq Cols
        /\ plan[p].copies \subseteq Tables
        /\ plan[p].left \subseteq DOMAIN found
        /\ pc[p] \in {"create copy"} \cup Rebuild => plan[p].at \in WantedTables
        /\ plan[p].add \subseteq Cols /\ plan[p].drop \subseteq Cols
        /\ plan[p].add \cup plan[p].drop # {} => plan[p].at \in WantedTables
  BY <1>1, ColumnsOf DEF Plans, PlanFits
<1>3. QED
  BY <1>2 DEF TypeOK, Typed, TablesTyped, ProcsTyped, SignsTyped

LEMMA BlankIsPlan == Blank \in Plans
<1>1. <<>> \in Columns
  <2>1. <<>> = [t \in {} |-> {}] 
    OBVIOUS
  <2>2. [t \in {} |-> {}] \in [{} -> SUBSET Cols] /\ {} \in SUBSET Tables
    OBVIOUS
  <2>3. QED
    BY <2>1, <2>2 DEF Columns
<1>2. QED
  BY <1>1 DEF Blank, Plans

\* The tables a set of processes is rebuilding are wanted ones.
LEMMA RebuildsAreWanted ==
  ASSUME ProcsTyped, NEW P \in SUBSET Procs
  PROVE  Rebuilding(P) \subseteq WantedTables
  BY DEF ProcsTyped, PlanFits, Rebuilding

-------------------------------------------------------------------------------
(* Every step keeps the types. *)

\* A process exits, stopped or refused.
LEMMA ExitTyped ==
  ASSUME ProcsTyped, disturbed \subseteq WantedTables, NEW p \in Procs, Exit(p)
  PROVE  ProcsTyped' /\ disturbed' \subseteq WantedTables
<1>1. Rebuilding({p}) \subseteq WantedTables
  BY RebuildsAreWanted
<1>2. /\ pc' \in [Procs -> Migrate \cup {"up", "down"}] /\ plan' \in [Procs -> Plans]
      /\ pc'[p] = "down" /\ plan'[p] = Blank
      /\ \A q \in Procs \ {p} : pc'[q] = pc[q] /\ plan'[q] = plan[q]
  BY BlankIsPlan DEF Exit, GoTo, ProcsTyped
<1>3. PlanFits(p)'
  BY <1>2 DEF PlanFits, Blank, Rebuild
<1>4. \A q \in Procs \ {p} : PlanFits(q)'
  BY <1>2 DEF ProcsTyped, PlanFits
<1>5. QED
  BY <1>1, <1>2, <1>3, <1>4 DEF Exit, ProcsTyped

\* A process goes on with the plan it has or a new one.
LEMMA PlanTyped ==
  ASSUME ProcsTyped, NEW p \in Procs, NEW step \in Migrate \cup {"up", "down"}, NEW r \in Plans,
         pc' = [pc EXCEPT ![p] = step], plan' = [plan EXCEPT ![p] = r],
         r.left \subseteq DOMAIN r.live,
         step \in {"columns", "create copy"} \cup Rebuild => r.left \subseteq WantedTables,
         step \in {"create copy"} \cup Rebuild => r.at \in WantedTables,
         r.add \cup r.drop # {} => r.at \in WantedTables,
         step = "drops" => r.left \cap WantedTables = {}
  PROVE  ProcsTyped'
<1>1. /\ pc' \in [Procs -> Migrate \cup {"up", "down"}] /\ plan' \in [Procs -> Plans]
      /\ pc'[p] = step /\ plan'[p] = r
      /\ \A q \in Procs \ {p} : pc'[q] = pc[q] /\ plan'[q] = plan[q]
  BY DEF ProcsTyped
<1>2. PlanFits(p)'
  BY <1>1 DEF PlanFits
<1>3. \A q \in Procs \ {p} : PlanFits(q)'
  BY <1>1 DEF ProcsTyped, PlanFits
<1>4. QED
  BY <1>1, <1>2, <1>3 DEF ProcsTyped

\* A process goes on and keeps its plan, which fits the next step.
LEMMA MoveTyped ==
  ASSUME ProcsTyped, NEW p \in Procs, NEW step \in Migrate \cup {"up", "down"}, GoTo(p, step), plan' = plan,
         step \in {"columns", "create copy"} \cup Rebuild => plan[p].left \subseteq WantedTables,
         step \in {"create copy"} \cup Rebuild => plan[p].at \in WantedTables,
         step = "drops" => plan[p].left \cap WantedTables = {}
  PROVE  ProcsTyped'
<1>1. plan[p] \in Plans /\ PlanFits(p) /\ plan' = [plan EXCEPT ![p] = plan[p]]
  BY DEF ProcsTyped
<1>2. QED
  BY <1>1, PlanTyped DEF PlanFits, GoTo

\* A process changes its plan where it is.
LEMMA StayTyped ==
  ASSUME ProcsTyped, NEW p \in Procs, NEW r \in Plans, pc' = pc, plan' = [plan EXCEPT ![p] = r],
         r.left \subseteq DOMAIN r.live,
         pc[p] \in {"columns", "create copy"} \cup Rebuild => r.left \subseteq WantedTables,
         pc[p] \in {"create copy"} \cup Rebuild => r.at \in WantedTables,
         r.add \cup r.drop # {} => r.at \in WantedTables,
         pc[p] = "drops" => r.left \cap WantedTables = {}
  PROVE  ProcsTyped'
<1>1. pc' = [pc EXCEPT ![p] = pc[p]] /\ pc[p] \in Migrate \cup {"up", "down"}
  BY DEF ProcsTyped
<1>2. QED
  BY <1>1, PlanTyped

LEMMA QuietTables ==
  ASSUME TablesTyped, UNCHANGED database
  PROVE  TablesTyped'
  BY DEF TablesTyped, database

LEMMA NewTable ==
  ASSUME NEW t \in WantedTables, NEW k \in BOOLEAN
  PROVE  [cols |-> Wanted[t], rows |-> {}, keyed |-> k] \in Stored
  BY SchemaAssumption DEF Stored

LEMMA StartTyped ==
  ASSUME Typed, NEW p \in Procs, Start(p)
  PROVE  Typed'
<1>1. TablesTyped'
  BY QuietTables DEF Start, Typed
<1>2. ProcsTyped'
  BY MoveTyped DEF Start, Typed, Migrate, Rebuild
<1>3. SignsTyped'
  BY RebuildsAreWanted DEF Start, Typed, SignsTyped
<1>4. QED
  BY <1>1, <1>2, <1>3 DEF Typed

LEMMA CreateTyped ==
  ASSUME Typed, NEW p \in Procs, CreateTables(p)
  PROVE  Typed'
<1>1. TablesTyped'
  BY NewTable DEF CreateTables, Typed, TablesTyped
<1>2. ProcsTyped'
  BY MoveTyped DEF CreateTables, Typed, Migrate, Rebuild
<1>3. SignsTyped'
  BY DEF CreateTables, Typed, SignsTyped
<1>4. QED
  BY <1>1, <1>2, <1>3 DEF Typed

LEMMA FoundIsTyped ==
  ASSUME TablesTyped
  PROVE  [t \in {u \in Tables : table[u] # Absent} |-> table[t].cols] \in Columns
<1> DEFINE S == {u \in Tables : table[u] # Absent}
<1>1. \A t \in S : table[t].cols \in SUBSET Cols
  BY DEF TablesTyped, Stored
<1>2. [t \in S |-> table[t].cols] \in [S -> SUBSET Cols] /\ S \in SUBSET Tables
  BY <1>1
<1>3. QED
  BY <1>2 DEF Columns

LEMMA LookTyped ==
  ASSUME Typed, NEW p \in Procs, Look(p)
  PROVE  Typed'
<1> DEFINE found == {t \in Tables : table[t] # Absent}
           r == [plan[p] EXCEPT !.live = [t \in found |-> table[t].cols],
                                !.copies = {t \in Tables : copy[t] # Absent},
                                !.left = found \cap WantedTables]
<1>1. plan[p] \in Plans /\ PlanFits(p)
  BY DEF Typed, ProcsTyped
<1>2. [t \in found |-> table[t].cols] \in Columns
  BY FoundIsTyped DEF Typed
<1>3. r \in Plans /\ plan' = [plan EXCEPT ![p] = r]
  BY <1>1, <1>2 DEF Look, Plans, Typed, ProcsTyped
<1>4. /\ r.left \subseteq DOMAIN r.live /\ r.left \subseteq WantedTables
      /\ r.add \cup r.drop # {} => r.at \in WantedTables
  BY <1>1 DEF PlanFits, Plans
<1>5. ProcsTyped'
  <2> HIDE DEF r
  <2>1. pc' = [pc EXCEPT ![p] = "columns"] /\ "columns" \in Migrate \cup {"up", "down"}
    BY DEF Look, GoTo, Migrate
  <2>2. QED
    BY <1>3, <1>4, <2>1, PlanTyped DEF Typed, Rebuild
<1>6. TablesTyped' /\ SignsTyped'
  BY QuietTables DEF Look, Typed, SignsTyped
<1>7. QED
  BY <1>5, <1>6 DEF Typed

LEMMA TakeTyped ==
  ASSUME Typed, NEW p \in Procs, NEW t \in Tables, TakeTable(p, t)
  PROVE  Typed'
<1> DEFINE found == plan[p].live[t]
           r == [plan[p] EXCEPT !.left = @ \ {t}, !.at = t, !.add = Wanted[t] \ found,
                                !.drop = {c \in found \ Wanted[t] : <<t, c>> \notin Protected}]
<1>1. plan[p] \in Plans /\ plan[p].live \in Columns /\ PlanFits(p) /\ pc[p] = "columns" /\ t \in plan[p].left
  BY DEF Typed, ProcsTyped, TakeTable, Settled, Plans
<1>2. t \in WantedTables /\ found \subseteq Cols /\ Wanted[t] \subseteq Cols
  BY <1>1, ColumnsOf, SchemaAssumption DEF PlanFits
<1>3. r \in Plans /\ plan' = [plan EXCEPT ![p] = r]
  BY <1>1, <1>2 DEF TakeTable, Plans, Typed, ProcsTyped
<1>4. /\ r.left \subseteq DOMAIN r.live /\ r.left \subseteq WantedTables /\ r.at \in WantedTables
  BY <1>1, <1>2 DEF PlanFits, Plans
<1>5. ProcsTyped'
  <2> HIDE DEF r
  <2>1. QED
    BY <1>1, <1>3, <1>4, StayTyped DEF Typed, Rebuild, TakeTable
<1>6. TablesTyped' /\ SignsTyped'
  BY QuietTables DEF TakeTable, Typed, SignsTyped
<1>7. QED
  BY <1>5, <1>6 DEF Typed

LEMMA AddTyped ==
  ASSUME Typed, NEW p \in Procs, NEW c \in Cols, AddColumn(p, c)
  PROVE  Typed'
<1> DEFINE t == plan[p].at
           r == [plan[p] EXCEPT !.add = @ \ {c}]
<1>1. /\ plan[p] \in Plans /\ PlanFits(p) /\ pc[p] = "columns" /\ t \in WantedTables /\ t \in Tables
  BY SchemaAssumption DEF Typed, ProcsTyped, AddColumn, PlanFits
<1>2. CASE Exit(p) /\ UNCHANGED table
  BY <1>2, ExitTyped DEF AddColumn, Typed, TablesTyped, SignsTyped
<1>3. CASE /\ table[t] # Absent /\ table' = [table EXCEPT ![t].cols = @ \cup {c}]
           /\ plan' = [plan EXCEPT ![p].add = @ \ {c}] /\ UNCHANGED <<pc, disturbed>>
  <2>1. table[t] \in Stored
    BY <1>1, <1>3 DEF Typed, TablesTyped
  <2>2. TablesTyped'
    BY <1>1, <1>3, <2>1 DEF AddColumn, Typed, TablesTyped, Stored
  <2>3. r \in Plans /\ plan' = [plan EXCEPT ![p] = r]
    BY <1>1, <1>3 DEF Plans, Typed, ProcsTyped
  <2>4. /\ r.left \subseteq DOMAIN r.live /\ r.left \subseteq WantedTables /\ r.at \in WantedTables
    BY <1>1 DEF PlanFits, Plans
  <2>5. ProcsTyped'
    <3> HIDE DEF r
    <3>1. QED
      BY <1>1, <1>3, <2>3, <2>4, StayTyped DEF Typed, Rebuild
  <2>6. QED
    BY <1>3, <2>2, <2>5 DEF Typed, SignsTyped, AddColumn
<1>4. QED
  BY <1>2, <1>3 DEF AddColumn

LEMMA DropColumnTyped ==
  ASSUME Typed, NEW p \in Procs, NEW c \in Cols, DropColumn(p, c)
  PROVE  Typed'
<1> DEFINE t == plan[p].at
           r == [plan[p] EXCEPT !.drop = @ \ {c}]
<1>1. /\ plan[p] \in Plans /\ PlanFits(p) /\ pc[p] = "columns" /\ t \in WantedTables /\ t \in Tables
  BY SchemaAssumption DEF Typed, ProcsTyped, DropColumn, PlanFits
<1>2. stops' \in 0..MaxStops
  <2>1. stops' = stops \/ (stops < MaxStops /\ stops' = stops + 1)
    BY DEF DropColumn
  <2>2. stops \in 0..MaxStops /\ MaxStops \in Nat
    BY SchemaAssumption DEF Typed, SignsTyped
  <2>3. QED
    BY <2>1, <2>2
<1>3. CASE GoTo(p, "create copy") /\ UNCHANGED <<table, plan>>
  <2>1. ProcsTyped'
    BY <1>1, <1>3, MoveTyped DEF Typed, PlanFits, Migrate, Rebuild
  <2>2. QED
    BY <1>3, <1>2, <2>1 DEF Typed, TablesTyped, SignsTyped, DropColumn
<1>4. CASE /\ table[t] # Absent /\ table' = [table EXCEPT ![t].cols = @ \ {c}]
           /\ plan' = [plan EXCEPT ![p].drop = @ \ {c}] /\ UNCHANGED pc
  <2>1. table[t] \in Stored
    BY <1>1, <1>4 DEF Typed, TablesTyped
  <2>2. TablesTyped'
    BY <1>1, <1>4, <2>1 DEF DropColumn, Typed, TablesTyped, Stored
  <2>3. r \in Plans /\ plan' = [plan EXCEPT ![p] = r]
    BY <1>1, <1>4 DEF Plans, Typed, ProcsTyped
  <2>4. /\ r.left \subseteq DOMAIN r.live /\ r.left \subseteq WantedTables /\ r.at \in WantedTables
    BY <1>1 DEF PlanFits, Plans
  <2>5. ProcsTyped'
    <3> HIDE DEF r
    <3>1. QED
      BY <1>1, <1>4, <2>3, <2>4, StayTyped DEF Typed, Rebuild
  <2>6. QED
    BY <1>4, <1>2, <2>2, <2>5 DEF Typed, SignsTyped, DropColumn
<1>5. QED
  BY <1>3, <1>4 DEF DropColumn, Droppable

LEMMA AtRebuild ==
  ASSUME Typed, NEW p \in Procs, pc[p] \in {"create copy"} \cup Rebuild
  PROVE  /\ plan[p] \in Plans /\ PlanFits(p) /\ plan[p].at \in WantedTables /\ plan[p].at \in Tables
         /\ plan[p].left \subseteq WantedTables
  BY SchemaAssumption DEF Typed, ProcsTyped, PlanFits

LEMMA CreateCopyTyped ==
  ASSUME Typed, NEW p \in Procs, CreateCopy(p)
  PROVE  Typed'
<1> DEFINE t == plan[p].at
<1>1. PlanFits(p) /\ t \in WantedTables /\ t \in Tables /\ plan[p].left \subseteq WantedTables
  BY AtRebuild DEF CreateCopy
<1>2. CASE Exit(p) /\ UNCHANGED copy
  BY <1>2, ExitTyped DEF CreateCopy, Typed, TablesTyped, SignsTyped
<1>3. CASE /\ copy' = [copy EXCEPT ![t] = [cols |-> Wanted[t], rows |-> {}, keyed |-> FALSE]]
           /\ GoTo(p, "copy") /\ UNCHANGED plan
           /\ disturbed' = disturbed \cup {u \in {t} : \E q \in Procs \ {p} : pc[q] # "down"}
  <2>1. TablesTyped'
    BY <1>1, <1>3, NewTable DEF CreateCopy, Typed, TablesTyped
  <2>2. ProcsTyped'
    BY <1>1, <1>3, MoveTyped DEF Typed, Migrate, Rebuild
  <2>3. QED
    BY <1>1, <1>3, <2>1, <2>2 DEF Typed, SignsTyped, CreateCopy
<1>4. QED
  BY <1>2, <1>3 DEF CreateCopy

LEMMA CopyRowsTyped ==
  ASSUME Typed, NEW p \in Procs, CopyRows(p)
  PROVE  Typed'
<1> DEFINE t == plan[p].at
<1>1. PlanFits(p) /\ t \in WantedTables /\ t \in Tables /\ plan[p].left \subseteq WantedTables
  BY AtRebuild DEF CopyRows, Rebuild
<1>2. CASE Exit(p) /\ UNCHANGED copy
  BY <1>2, ExitTyped DEF CopyRows, Typed, TablesTyped, SignsTyped
<1>3. CASE /\ table[t] # Absent /\ copy[t] # Absent
           /\ copy' = [copy EXCEPT ![t].rows = @ \cup table[t].rows]
           /\ GoTo(p, "drop old") /\ UNCHANGED <<plan, disturbed>>
  <2>1. table[t] \in Stored /\ copy[t] \in Stored
    BY <1>1, <1>3 DEF Typed, TablesTyped
  <2>2. TablesTyped'
    BY <1>1, <1>3, <2>1 DEF CopyRows, Typed, TablesTyped, Stored
  <2>3. ProcsTyped'
    BY <1>1, <1>3, MoveTyped DEF Typed, Migrate, Rebuild
  <2>4. QED
    BY <1>3, <2>2, <2>3 DEF Typed, SignsTyped, CopyRows
<1>4. QED
  BY <1>2, <1>3 DEF CopyRows

LEMMA DropOldTyped ==
  ASSUME Typed, NEW p \in Procs, DropOld(p)
  PROVE  Typed'
<1> DEFINE t == plan[p].at
<1>1. PlanFits(p) /\ t \in WantedTables /\ t \in Tables /\ plan[p].left \subseteq WantedTables
  BY AtRebuild DEF DropOld, Rebuild
<1>2. CASE Exit(p) /\ UNCHANGED table
  BY <1>2, ExitTyped DEF DropOld, Typed, TablesTyped, SignsTyped
<1>3. CASE /\ table' = [table EXCEPT ![t] = Absent]
           /\ GoTo(p, "rename") /\ UNCHANGED <<plan, disturbed>>
  <2>1. TablesTyped'
    BY <1>3 DEF DropOld, Typed, TablesTyped
  <2>2. ProcsTyped'
    BY <1>1, <1>3, MoveTyped DEF Typed, Migrate, Rebuild
  <2>3. QED
    BY <1>3, <2>1, <2>2 DEF Typed, SignsTyped, DropOld
<1>4. QED
  BY <1>2, <1>3 DEF DropOld

LEMMA RenameTyped ==
  ASSUME Typed, NEW p \in Procs, RenameCopy(p)
  PROVE  Typed'
<1> DEFINE t == plan[p].at
           r == [plan[p] EXCEPT !.drop = {}]
<1>1. /\ PlanFits(p) /\ t \in WantedTables /\ t \in Tables /\ plan[p].left \subseteq WantedTables
      /\ plan[p] \in Plans
  BY AtRebuild DEF RenameCopy, Rebuild
<1>2. CASE Exit(p) /\ UNCHANGED <<table, copy>>
  BY <1>2, ExitTyped DEF RenameCopy, Typed, TablesTyped, SignsTyped
<1>3. CASE /\ copy[t] # Absent
           /\ table' = [table EXCEPT ![t] = copy[t]] /\ copy' = [copy EXCEPT ![t] = Absent]
           /\ plan' = [plan EXCEPT ![p].drop = {}]
           /\ GoTo(p, "columns") /\ UNCHANGED disturbed
  <2>1. TablesTyped'
    BY <1>1, <1>3 DEF RenameCopy, Typed, TablesTyped
  <2>2. r \in Plans /\ plan' = [plan EXCEPT ![p] = r]
    BY <1>1, <1>3 DEF Plans, Typed, ProcsTyped
  <2>3. /\ r.left \subseteq DOMAIN r.live /\ r.left \subseteq WantedTables /\ r.at \in WantedTables
    BY <1>1 DEF PlanFits, Plans
  <2>4. ProcsTyped'
    <3> HIDE DEF r
    <3>1. pc' = [pc EXCEPT ![p] = "columns"] /\ "columns" \in Migrate \cup {"up", "down"}
      BY <1>3 DEF GoTo, Migrate
    <3>2. QED
      BY <2>2, <2>3, <3>1, PlanTyped DEF Typed, Rebuild
  <2>5. QED
    BY <1>3, <2>1, <2>4 DEF Typed, SignsTyped, RenameCopy
<1>4. QED
  BY <1>2, <1>3 DEF RenameCopy

LEMMA BeginDropsTyped ==
  ASSUME Typed, NEW p \in Procs, BeginDrops(p)
  PROVE  Typed'
<1> DEFINE r == [plan[p] EXCEPT !.left = DOMAIN plan[p].live \ WantedTables]
<1>1. plan[p] \in Plans /\ plan[p].live \in Columns /\ PlanFits(p)
  BY DEF Typed, ProcsTyped, Plans
<1>2. r \in Plans /\ plan' = [plan EXCEPT ![p] = r]
  BY <1>1, ColumnsOf DEF BeginDrops, Plans, Typed, ProcsTyped
<1>3. /\ r.left \subseteq DOMAIN r.live /\ r.left \cap WantedTables = {}
      /\ r.add \cup r.drop # {} => r.at \in WantedTables
  BY <1>1 DEF PlanFits, Plans
<1>4. ProcsTyped'
  <2> HIDE DEF r
  <2>1. pc' = [pc EXCEPT ![p] = "drops"] /\ "drops" \in Migrate \cup {"up", "down"}
    BY DEF BeginDrops, GoTo, Migrate
  <2>2. QED
    BY <1>2, <1>3, <2>1, PlanTyped DEF Typed, Rebuild
<1>5. TablesTyped' /\ SignsTyped'
  BY QuietTables DEF BeginDrops, Typed, SignsTyped
<1>6. QED
  BY <1>4, <1>5 DEF Typed

LEMMA DropTableTyped ==
  ASSUME Typed, NEW p \in Procs, NEW t \in Tables, DropTable(p, t)
  PROVE  Typed'
<1> DEFINE r == [plan[p] EXCEPT !.left = @ \ {t}]
<1>1. plan[p] \in Plans /\ PlanFits(p) /\ pc[p] = "drops"
  BY DEF Typed, ProcsTyped, DropTable
<1>2. CASE Exit(p) /\ UNCHANGED table
  BY <1>2, ExitTyped DEF DropTable, Typed, TablesTyped, SignsTyped
<1>3. CASE /\ table' = [table EXCEPT ![t] = Absent]
           /\ plan' = [plan EXCEPT ![p].left = @ \ {t}] /\ UNCHANGED <<pc, disturbed>>
  <2>1. TablesTyped'
    BY <1>3 DEF DropTable, Typed, TablesTyped
  <2>2. r \in Plans /\ plan' = [plan EXCEPT ![p] = r]
    BY <1>1, <1>3 DEF Plans, Typed, ProcsTyped
  <2>3. /\ r.left \subseteq DOMAIN r.live /\ r.left \cap WantedTables = {}
        /\ r.add \cup r.drop # {} => r.at \in WantedTables
    BY <1>1 DEF PlanFits, Plans
  <2>4. ProcsTyped'
    <3> HIDE DEF r
    <3>1. QED
      BY <1>1, <1>3, <2>2, <2>3, StayTyped DEF Typed, Rebuild
  <2>5. QED
    BY <1>3, <2>1, <2>4 DEF Typed, SignsTyped, DropTable
<1>4. QED
  BY <1>2, <1>3 DEF DropTable

LEMMA DropCopyTyped ==
  ASSUME Typed, NEW p \in Procs, NEW t \in Tables, DropCopy(p, t)
  PROVE  Typed'
<1> DEFINE r == [plan[p] EXCEPT !.copies = @ \ {t}]
<1>1. plan[p] \in Plans /\ PlanFits(p) /\ pc[p] = "drops"
  BY DEF Typed, ProcsTyped, DropCopy
<1>2. r \in Plans /\ plan' = [plan EXCEPT ![p] = r]
  BY <1>1 DEF DropCopy, Plans, Typed, ProcsTyped
<1>3. /\ r.left \subseteq DOMAIN r.live /\ r.left \cap WantedTables = {}
      /\ r.add \cup r.drop # {} => r.at \in WantedTables
  BY <1>1 DEF PlanFits, Plans
<1>4. ProcsTyped'
  <2> HIDE DEF r
  <2>1. QED
    BY <1>1, <1>2, <1>3, StayTyped DEF Typed, Rebuild, DropCopy
<1>5. TablesTyped' /\ SignsTyped'
  BY DEF DropCopy, Typed, TablesTyped, SignsTyped
<1>6. QED
  BY <1>4, <1>5 DEF Typed

LEMMA FinishTyped ==
  ASSUME Typed, NEW p \in Procs, Finish(p)
  PROVE  Typed'
<1>1. CASE Exit(p) /\ UNCHANGED version
  BY <1>1, ExitTyped DEF Finish, Typed, TablesTyped, SignsTyped
<1>2. CASE version' = "new" /\ GoTo(p, "up") /\ plan' = [plan EXCEPT ![p] = Blank] /\ UNCHANGED disturbed
  <2>1. TablesTyped'
    BY <1>2 DEF Finish, Typed, TablesTyped
  <2>2. Blank.left = {} /\ Blank.add \cup Blank.drop = {}
    BY DEF Blank
  <2>3. ProcsTyped'
    BY <1>2, <2>2, BlankIsPlan, PlanTyped DEF GoTo, Typed, Rebuild
  <2>4. QED
    BY <1>2, <2>1, <2>3 DEF Typed, SignsTyped, Finish
<1>3. QED
  BY <1>1, <1>2 DEF Finish

LEMMA InsertTyped ==
  ASSUME Typed, NEW p \in Procs, NEW t \in Tables, Insert(p, t)
  PROVE  Typed'
<1>1. table[t] \in Stored
  BY DEF Insert, Typed, TablesTyped
<1>2. TablesTyped'
  BY <1>1 DEF Insert, Typed, TablesTyped, Stored
<1>3. ProcsTyped'
  BY DEF Insert, Typed, ProcsTyped, PlanFits
<1>4. QED
  BY <1>2, <1>3 DEF Typed, SignsTyped, Insert

LEMMA StopTyped ==
  ASSUME Typed, NEW p \in Procs, Stop(p)
  PROVE  Typed'
<1>1. ProcsTyped' /\ disturbed' \subseteq WantedTables
  BY ExitTyped DEF Stop, Typed, SignsTyped
<1>2. stops' \in 0..MaxStops
  BY SchemaAssumption DEF Stop, Typed, SignsTyped
<1>3. QED
  BY <1>1, <1>2, QuietTables DEF Stop, Typed, SignsTyped

LEMMA InitTyped == Init => Typed
<1> SUFFICES ASSUME Init PROVE Typed
  OBVIOUS
<1>1. TablesTyped
  BY SchemaAssumption DEF Init, TablesTyped, Stored
<1>2. ProcsTyped
  <2>1. pc \in [Procs -> Migrate \cup {"up", "down"}] /\ plan \in [Procs -> Plans]
    BY BlankIsPlan DEF Init
  <2>2. \A p \in Procs : plan[p] = Blank /\ pc[p] \in {"down", "up"}
    BY DEF Init
  <2>3. ASSUME NEW p \in Procs PROVE PlanFits(p)
    <3>1. plan[p].left = {} /\ plan[p].add = {} /\ plan[p].drop = {}
      BY <2>2 DEF Blank
    <3>2. pc[p] = "down" \/ pc[p] = "up"
      BY <2>2
    <3>3. QED
      BY <3>1, <3>2 DEF PlanFits, Rebuild
  <2>4. QED
    BY <2>1, <2>3 DEF ProcsTyped
<1>3. QED
  BY <1>1, <1>2, SchemaAssumption DEF Init, Typed, SignsTyped

LEMMA NextTyped ==
  ASSUME Typed, [Next]_vars
  PROVE  Typed'
<1>1. ASSUME NEW p \in Procs, Step(p) PROVE Typed'
  <2>1. CASE Start(p) BY <2>1, StartTyped
  <2>2. CASE CreateTables(p) BY <2>2, CreateTyped
  <2>3. CASE Look(p) BY <2>3, LookTyped
  <2>4. CASE \E t \in Tables : TakeTable(p, t) BY <2>4, TakeTyped
  <2>5. CASE \E c \in Cols : AddColumn(p, c) \/ DropColumn(p, c) BY <2>5, AddTyped, DropColumnTyped
  <2>6. CASE CreateCopy(p) BY <2>6, CreateCopyTyped
  <2>7. CASE CopyRows(p) BY <2>7, CopyRowsTyped
  <2>8. CASE DropOld(p) BY <2>8, DropOldTyped
  <2>9. CASE RenameCopy(p) BY <2>9, RenameTyped
  <2>10. CASE BeginDrops(p) BY <2>10, BeginDropsTyped
  <2>11. CASE Finish(p) BY <2>11, FinishTyped
  <2>12. CASE \E t \in Tables : DropTable(p, t) \/ DropCopy(p, t) BY <2>12, DropTableTyped, DropCopyTyped
  <2>13. QED
    BY <1>1, <2>1, <2>2, <2>3, <2>4, <2>5, <2>6, <2>7, <2>8, <2>9, <2>10, <2>11, <2>12 DEF Step
<1>2. CASE UNCHANGED vars
  BY <1>2 DEF vars, Typed, TablesTyped, ProcsTyped, PlanFits, SignsTyped
<1>3. QED
  BY <1>1, <1>2, StopTyped, InsertTyped DEF Next

\* For any tables, columns and processes every variable keeps to its domain, and a plan never
\* leads a process to a table that is not wanted (schema/logic.rs:103-193).
THEOREM MigrationTyped == Spec => []TypeOK
<1>1. Spec => []Typed
  BY InitTyped, NextTyped, PTL DEF Spec
<1>2. QED
  BY <1>1, TypedIsTypeOK, PTL

-------------------------------------------------------------------------------
(* Rows. *)

\* A process whose rebuild was not disturbed is alone.
AloneThen(p) == pc[p] \in Rebuild /\ plan[p].at \notin disturbed => \A q \in Procs \ {p} : pc[q] = "down"

\* Before the old table is dropped its rows are in the copy.
CopiedThen(p) ==
    pc[p] = "drop old" /\ plan[p].at \notin disturbed
        => RowsOf(table[plan[p].at]) \subseteq RowsOf(copy[plan[p].at])

\* A copy of an undisturbed table belongs to a rebuild that is going on.
CopyOwned(t) ==
    t \notin disturbed /\ copy[t] # Absent => \E q \in Procs : pc[q] \in Rebuild /\ plan[q].at = t

RowsInv ==
    /\ \A p \in Procs : AloneThen(p) /\ CopiedThen(p)
    /\ \A t \in WantedTables : CopyOwned(t)
    /\ RowsKept

\* The other processes stay where they are.
OthersRest(p) == \A q \in Procs \ {p} : pc'[q] = pc[q] /\ plan'[q] = plan[q]

\* A process at work that rebuilds nothing may change the tables if it takes no row away: nobody
\* else is in an undisturbed rebuild, so there is no copy to lose either.
LEMMA WorkKeepsRows ==
  ASSUME Typed, RowsInv, NEW p \in Procs, pc[p] # "down", pc[p] \notin Rebuild, pc'[p] \notin Rebuild,
         OthersRest(p), disturbed' = disturbed,
         \A t \in WantedTables : copy'[t] = copy[t] \/ copy'[t] = Absent,
         \A t \in WantedTables : /\ RowsOf(table[t]) \subseteq RowsOf(table'[t])
                                 /\ written'[t] \subseteq written[t] \cup RowsOf(table'[t])
  PROVE  RowsInv'
<1>1. \A q \in Procs : pc[q] \in Rebuild => plan[q].at \in disturbed
  BY DEF RowsInv, AloneThen
<1>2. \A q \in Procs : pc'[q] \in Rebuild => plan'[q].at \in disturbed'
  BY <1>1 DEF OthersRest
<1>3. \A q \in Procs : AloneThen(q)' /\ CopiedThen(q)'
  BY <1>2 DEF AloneThen, CopiedThen, Rebuild
<1>4. ASSUME NEW t \in WantedTables, t \notin disturbed PROVE copy[t] = Absent /\ copy'[t] = Absent
  BY <1>1, <1>4 DEF RowsInv, CopyOwned
<1>5. \A t \in WantedTables : CopyOwned(t)'
  BY <1>4 DEF CopyOwned
<1>6. RowsKept'
  <2> SUFFICES ASSUME NEW t \in WantedTables, t \notin disturbed
               PROVE  written'[t] \subseteq RowsOf(table'[t]) \cup RowsOf(copy'[t])
    BY DEF RowsKept, RowsOf
  <2>1. written[t] \subseteq RowsOf(table[t]) \cup RowsOf(copy[t])
    BY DEF RowsInv, RowsKept
  <2>2. RowsOf(copy[t]) = {}
    BY <1>4 DEF RowsOf
  <2>3. QED
    BY <2>1, <2>2
<1>7. QED
  BY <1>3, <1>5, <1>6 DEF RowsInv

\* Whoever is refused or stopped leaves a disturbed table behind.
LEMMA ExitKeepsRows ==
  ASSUME Typed, RowsInv, NEW p \in Procs, Exit(p), UNCHANGED <<table, copy, written>>
  PROVE  RowsInv'
<1>1. /\ pc'[p] = "down" /\ OthersRest(p) /\ disturbed \subseteq disturbed'
      /\ pc[p] \in Rebuild => plan[p].at \in disturbed'
  BY DEF Exit, GoTo, Rebuilding, Typed, ProcsTyped, OthersRest
<1>2. \A q \in Procs : AloneThen(q)'
  BY <1>1 DEF RowsInv, AloneThen, OthersRest, Rebuild
<1>3. \A q \in Procs : CopiedThen(q)'
  BY <1>1 DEF RowsInv, CopiedThen, OthersRest, RowsOf
<1>4. ASSUME NEW t \in WantedTables PROVE CopyOwned(t)'
  BY <1>1 DEF RowsInv, CopyOwned, OthersRest
<1>5. RowsKept'
  BY <1>1 DEF RowsInv, RowsKept, RowsOf
<1>6. QED
  BY <1>2, <1>3, <1>4, <1>5 DEF RowsInv

LEMMA StartKeepsRows ==
  ASSUME Typed, RowsInv, NEW p \in Procs, Start(p)
  PROVE  RowsInv'
<1>1. /\ pc'[p] \notin Rebuild /\ pc[p] = "down"
      /\ \A q \in Procs \ {p} : pc'[q] = pc[q]
      /\ plan' = plan /\ UNCHANGED <<table, copy, written>>
  BY DEF Start, GoTo, Typed, ProcsTyped, Rebuild, database
<1>2. disturbed \subseteq disturbed' /\ \A q \in Procs : pc[q] \in Rebuild => plan[q].at \in disturbed'
  BY DEF Start, Rebuilding
<1>3. \A q \in Procs : pc'[q] \in Rebuild => plan'[q].at \in disturbed'
  BY <1>1, <1>2
<1>4. \A q \in Procs : AloneThen(q)' /\ CopiedThen(q)'
  BY <1>3 DEF AloneThen, CopiedThen, Rebuild
<1>5. \A t \in WantedTables : CopyOwned(t)'
  BY <1>1, <1>2 DEF RowsInv, CopyOwned
<1>6. RowsKept'
  BY <1>1, <1>2 DEF RowsInv, RowsKept, RowsOf
<1>7. QED
  BY <1>4, <1>5, <1>6 DEF RowsInv

LEMMA CreateCopyKeepsRows ==
  ASSUME Typed, RowsInv, NEW p \in Procs, CreateCopy(p)
  PROVE  RowsInv'
<1> DEFINE t == plan[p].at
           new == [cols |-> Wanted[t], rows |-> {}, keyed |-> FALSE]
<1>1. CASE Exit(p) /\ UNCHANGED copy
  BY <1>1, ExitKeepsRows DEF CreateCopy
<1>2. CASE /\ copy[t] = Absent /\ copy' = [copy EXCEPT ![t] = new]
           /\ GoTo(p, "copy") /\ UNCHANGED plan
           /\ disturbed' = disturbed \cup {u \in {t} : \E q \in Procs \ {p} : pc[q] # "down"}
  <2>1. t \in WantedTables /\ t \in Tables /\ pc[p] = "create copy"
    BY SchemaAssumption DEF CreateCopy, Typed, ProcsTyped, PlanFits
  <2>2. /\ pc'[p] = "copy" /\ OthersRest(p) /\ disturbed \subseteq disturbed' /\ plan'[p].at = t
        /\ t \notin disturbed' => \A q \in Procs \ {p} : pc[q] = "down"
    BY <1>2 DEF GoTo, Typed, ProcsTyped, OthersRest
  <2>3. \A q \in Procs \ {p} : pc[q] \in Rebuild => plan[q].at \in disturbed
    BY <2>1 DEF RowsInv, AloneThen
  <2>4. \A q \in Procs \ {p} : AloneThen(q)' /\ CopiedThen(q)'
    BY <2>2, <2>3 DEF AloneThen, CopiedThen, OthersRest, Rebuild
  <2>5. AloneThen(p)' /\ CopiedThen(p)'
    BY <2>2 DEF AloneThen, CopiedThen, OthersRest
  <2>6. ASSUME NEW u \in WantedTables PROVE CopyOwned(u)'
    <3>1. CASE u = t
      BY <2>2, <3>1 DEF CopyOwned, Rebuild
    <3>2. CASE u # t
      <4>1. copy'[u] = copy[u]
        BY <1>2, <3>2
      <4>2. \A q \in Procs : pc[q] \in Rebuild => q # p
        BY <2>1 DEF Rebuild
      <4>3. QED
        BY <2>2, <4>1, <4>2 DEF RowsInv, CopyOwned, OthersRest
    <3>3. QED
      BY <3>1, <3>2
  <2>7. RowsKept'
    <3> SUFFICES ASSUME NEW u \in WantedTables, u \notin disturbed'
                 PROVE  written'[u] \subseteq RowsOf(table'[u]) \cup RowsOf(copy'[u])
      BY DEF RowsKept, RowsOf
    <3>1. /\ written[u] \subseteq RowsOf(table[u]) \cup RowsOf(copy[u])
          /\ table' = table /\ written' = written
      BY <2>2 DEF RowsInv, RowsKept, CreateCopy
    <3>2. RowsOf(copy[u]) \subseteq RowsOf(copy'[u])
      BY <1>2 DEF RowsOf
    <3>3. QED
      BY <3>1, <3>2
  <2>8. QED
    BY <2>4, <2>5, <2>6, <2>7 DEF RowsInv
<1>3. QED
  BY <1>1, <1>2 DEF CreateCopy

\* A process goes on with its rebuild: nobody who is in another one is undisturbed, the copies that
\* were owned still are.
LEMMA RebuildGoesOn ==
  ASSUME Typed, RowsInv, NEW p \in Procs, pc[p] \in Rebuild, pc'[p] \in Rebuild, plan' = plan,
         \A q \in Procs \ {p} : pc'[q] = pc[q], disturbed' = disturbed,
         \A t \in Tables : copy'[t] # Absent => copy[t] # Absent
  PROVE  /\ \A q \in Procs : AloneThen(q)' /\ (q # p => CopiedThen(q)')
         /\ \A t \in WantedTables : CopyOwned(t)'
<1>1. \A q \in Procs \ {p} : pc[q] \in Rebuild => plan[q].at \in disturbed
  BY DEF RowsInv, AloneThen, Rebuild
<1>2. \A q \in Procs \ {p} : AloneThen(q)' /\ CopiedThen(q)'
  BY <1>1 DEF AloneThen, CopiedThen, Rebuild
<1>3. AloneThen(p)'
  BY DEF RowsInv, AloneThen
<1>4. ASSUME NEW t \in WantedTables PROVE CopyOwned(t)'
  BY SchemaAssumption DEF RowsInv, CopyOwned
<1>5. QED
  BY <1>2, <1>3, <1>4

LEMMA CopyRowsKeepsRows ==
  ASSUME Typed, RowsInv, NEW p \in Procs, CopyRows(p)
  PROVE  RowsInv'
<1> DEFINE t == plan[p].at
<1>1. CASE Exit(p) /\ UNCHANGED copy
  BY <1>1, ExitKeepsRows DEF CopyRows
<1>2. CASE /\ table[t] # Absent /\ copy[t] # Absent
           /\ copy' = [copy EXCEPT ![t].rows = @ \cup table[t].rows]
           /\ GoTo(p, "drop old") /\ UNCHANGED <<plan, disturbed>>
  <2>1. t \in Tables /\ pc[p] \in Rebuild
    BY SchemaAssumption DEF CopyRows, Typed, ProcsTyped, PlanFits, Rebuild
  <2>2. /\ pc'[p] = "drop old" /\ \A q \in Procs \ {p} : pc'[q] = pc[q]
        /\ plan' = plan /\ disturbed' = disturbed /\ table' = table /\ written' = written
    BY <1>2 DEF CopyRows, GoTo, Typed, ProcsTyped
  <2>3. copy[t] \in Stored /\ copy \in [Tables -> Stored \cup {Absent}]
    BY <1>2, <2>1 DEF Typed, TablesTyped
  <2>4. copy'[t] = [copy[t] EXCEPT !.rows = @ \cup table[t].rows] /\ copy'[t] \in Stored
    <3>1. (table[t].rows) \in SUBSET {OldRow, NewRow}
      BY <1>2, <2>1 DEF Typed, TablesTyped, Stored
    <3>2. QED
      BY <1>2, <2>1, <2>3, <3>1 DEF Stored
  <2>5. RowsOf(copy'[t]) = RowsOf(copy[t]) \cup RowsOf(table[t])
    BY <1>2, <2>3, <2>4, SchemaAssumption DEF RowsOf, Stored
  <2>6. \A u \in Tables \ {t} : copy'[u] = copy[u]
    BY <1>2, <2>3
  <2>7. \A u \in Tables : copy'[u] # Absent => copy[u] # Absent
    BY <1>2, <2>6
  <2>8. /\ \A q \in Procs : AloneThen(q)' /\ (q # p => CopiedThen(q)')
        /\ \A u \in WantedTables : CopyOwned(u)'
    BY <2>1, <2>2, <2>7, RebuildGoesOn DEF Rebuild
  <2>9. CopiedThen(p)'
    BY <2>2, <2>5 DEF CopiedThen, RowsOf
  <2>10. RowsKept'
    <3> SUFFICES ASSUME NEW u \in WantedTables, u \notin disturbed
                 PROVE  written[u] \subseteq RowsOf(table[u]) \cup RowsOf(copy'[u])
      BY <2>2 DEF RowsKept, RowsOf
    <3>1. written[u] \subseteq RowsOf(table[u]) \cup RowsOf(copy[u]) /\ u \in Tables
      BY SchemaAssumption DEF RowsInv, RowsKept
    <3>2. RowsOf(copy[u]) \subseteq RowsOf(copy'[u])
      BY <2>5, <2>6, <3>1
    <3>3. QED
      BY <3>1, <3>2
  <2>11. QED
    BY <2>8, <2>9, <2>10 DEF RowsInv
<1>3. QED
  BY <1>1, <1>2 DEF CopyRows

LEMMA DropOldKeepsRows ==
  ASSUME Typed, RowsInv, NEW p \in Procs, DropOld(p)
  PROVE  RowsInv'
<1> DEFINE t == plan[p].at
<1>1. CASE Exit(p) /\ UNCHANGED table
  BY <1>1, ExitKeepsRows DEF DropOld
<1>2. CASE table' = [table EXCEPT ![t] = Absent] /\ GoTo(p, "rename") /\ UNCHANGED <<plan, disturbed>>
  <2>1. t \in Tables /\ pc[p] \in Rebuild /\ pc[p] = "drop old"
    BY SchemaAssumption DEF DropOld, Typed, ProcsTyped, PlanFits, Rebuild
  <2>2. /\ pc'[p] = "rename" /\ \A q \in Procs \ {p} : pc'[q] = pc[q]
        /\ plan' = plan /\ disturbed' = disturbed /\ copy' = copy /\ written' = written
    BY <1>2 DEF DropOld, GoTo, Typed, ProcsTyped
  <2>3. /\ \A q \in Procs : AloneThen(q)' /\ (q # p => CopiedThen(q)')
        /\ \A u \in WantedTables : CopyOwned(u)'
    BY <2>1, <2>2, RebuildGoesOn DEF Rebuild
  <2>4. CopiedThen(p)'
    BY <2>2 DEF CopiedThen
  <2>5. RowsKept'
    <3> SUFFICES ASSUME NEW u \in WantedTables, u \notin disturbed
                 PROVE  written[u] \subseteq RowsOf(table'[u]) \cup RowsOf(copy[u])
      BY <2>2 DEF RowsKept, RowsOf
    <3>1. written[u] \subseteq RowsOf(table[u]) \cup RowsOf(copy[u]) /\ u \in Tables
      BY SchemaAssumption DEF RowsInv, RowsKept
    <3>2. u = t => RowsOf(table[u]) \subseteq RowsOf(copy[u])
      BY <2>1 DEF RowsInv, CopiedThen
    <3>3. u # t => table'[u] = table[u]
      BY <1>2
    <3>4. QED
      BY <3>1, <3>2, <3>3
  <2>6. QED
    BY <2>3, <2>4, <2>5 DEF RowsInv
<1>3. QED
  BY <1>1, <1>2 DEF DropOld

LEMMA RenameKeepsRows ==
  ASSUME Typed, RowsInv, NEW p \in Procs, RenameCopy(p)
  PROVE  RowsInv'
<1> DEFINE t == plan[p].at
<1>1. CASE Exit(p) /\ UNCHANGED <<table, copy>>
  BY <1>1, ExitKeepsRows DEF RenameCopy
<1>2. CASE /\ table[t] = Absent
           /\ table' = [table EXCEPT ![t] = copy[t]] /\ copy' = [copy EXCEPT ![t] = Absent]
           /\ plan' = [plan EXCEPT ![p].drop = {}]
           /\ GoTo(p, "columns") /\ UNCHANGED disturbed
  <2>1. t \in Tables /\ pc[p] = "rename"
    BY SchemaAssumption DEF RenameCopy, Typed, ProcsTyped, PlanFits, Rebuild
  <2>2. /\ pc'[p] = "columns" /\ OthersRest(p) /\ disturbed' = disturbed /\ written' = written
    BY <1>2 DEF RenameCopy, GoTo, Typed, ProcsTyped, OthersRest
  <2>3. \A q \in Procs \ {p} : pc[q] \in Rebuild => plan[q].at \in disturbed
    BY <2>1 DEF RowsInv, AloneThen, Rebuild
  <2>4. \A q \in Procs : pc'[q] \in Rebuild => plan'[q].at \in disturbed'
    BY <2>2, <2>3 DEF OthersRest, Rebuild
  <2>5. \A q \in Procs : AloneThen(q)' /\ CopiedThen(q)'
    BY <2>4 DEF AloneThen, CopiedThen, Rebuild
  <2>6. /\ table'[t] = copy[t] /\ copy'[t] = Absent
        /\ \A u \in Tables \ {t} : table'[u] = table[u] /\ copy'[u] = copy[u]
    BY <1>2, <2>1 DEF Typed, TablesTyped
  <2>7. ASSUME NEW u \in WantedTables, u \notin disturbed PROVE copy'[u] = Absent
    <3>1. CASE u = t
      BY <2>6, <3>1
    <3>2. CASE u # t
      <4>1. \A q \in Procs : pc[q] \in Rebuild => plan[q].at # u
        BY <2>3, <2>7, <3>2
      <4>2. u \in Tables
        BY SchemaAssumption
      <4>3. QED
        BY <2>6, <2>7, <3>2, <4>1, <4>2 DEF RowsInv, CopyOwned
    <3>3. QED
      BY <3>1, <3>2
  <2>8. \A u \in WantedTables : CopyOwned(u)'
    BY <2>2, <2>7 DEF CopyOwned
  <2>9. RowsKept'
    <3> SUFFICES ASSUME NEW u \in WantedTables, u \notin disturbed
                 PROVE  written[u] \subseteq RowsOf(table'[u]) \cup RowsOf(copy'[u])
      BY <2>2 DEF RowsKept, RowsOf
    <3>1. written[u] \subseteq RowsOf(table[u]) \cup RowsOf(copy[u]) /\ u \in Tables
      BY SchemaAssumption DEF RowsInv, RowsKept
    <3>2. CASE u = t
      <4>1. RowsOf(table[t]) = {}
        BY <1>2 DEF RowsOf
      <4>2. QED
        BY <2>6, <3>1, <3>2, <4>1
    <3>3. CASE u # t
      BY <2>6, <3>1, <3>3
    <3>4. QED
      BY <3>2, <3>3
  <2>10. QED
    BY <2>5, <2>8, <2>9 DEF RowsInv
<1>3. QED
  BY <1>1, <1>2 DEF RenameCopy

LEMMA WorkStepsKeepRows ==
  ASSUME Typed, RowsInv, NEW p \in Procs,
         \/ CreateTables(p) \/ Look(p) \/ BeginDrops(p) \/ Finish(p)
         \/ \E t \in Tables : TakeTable(p, t) \/ DropTable(p, t) \/ DropCopy(p, t) \/ Insert(p, t)
         \/ \E c \in Cols : AddColumn(p, c) \/ DropColumn(p, c)
  PROVE  RowsInv'
<1> USE DEF OthersRest
<1>1. CASE CreateTables(p)
  <2>1. /\ pc[p] = "create" /\ pc'[p] = "look" /\ OthersRest(p)
        /\ disturbed' = disturbed /\ copy' = copy /\ written' = written
    BY <1>1 DEF CreateTables, GoTo, Typed, ProcsTyped
  <2>2. \A t \in WantedTables : RowsOf(table[t]) \subseteq RowsOf(table'[t])
    BY <1>1, SchemaAssumption DEF CreateTables, RowsOf
  <2>3. QED
    BY <2>1, <2>2, WorkKeepsRows DEF Rebuild
<1>2. CASE Look(p)
  <2>1. /\ pc[p] = "look" /\ pc'[p] = "columns" /\ OthersRest(p)
        /\ disturbed' = disturbed /\ copy' = copy /\ written' = written /\ table' = table
    BY <1>2 DEF Look, GoTo, Typed, ProcsTyped, database
  <2>2. QED
    BY <2>1, WorkKeepsRows DEF Rebuild
<1>3. CASE BeginDrops(p)
  <2>1. /\ pc[p] = "columns" /\ pc'[p] = "drops" /\ OthersRest(p)
        /\ disturbed' = disturbed /\ copy' = copy /\ written' = written /\ table' = table
    BY <1>3 DEF BeginDrops, Settled, GoTo, Typed, ProcsTyped, database
  <2>2. QED
    BY <2>1, WorkKeepsRows DEF Rebuild
<1>4. CASE Finish(p)
  <2>1. CASE Exit(p)
    BY <1>4, <2>1, ExitKeepsRows DEF Finish
  <2>2. CASE GoTo(p, "up") /\ plan' = [plan EXCEPT ![p] = Blank] /\ UNCHANGED disturbed
    <3>1. /\ pc[p] = "drops" /\ pc'[p] = "up" /\ OthersRest(p)
          /\ disturbed' = disturbed /\ copy' = copy /\ written' = written /\ table' = table
      BY <1>4, <2>2 DEF Finish, GoTo, Typed, ProcsTyped
    <3>2. QED
      BY <3>1, WorkKeepsRows DEF Rebuild
  <2>3. QED
    BY <1>4, <2>1, <2>2 DEF Finish
<1>5. ASSUME NEW t \in Tables, TakeTable(p, t) PROVE RowsInv'
  <2>1. /\ pc[p] = "columns" /\ pc'[p] = "columns" /\ OthersRest(p)
        /\ disturbed' = disturbed /\ copy' = copy /\ written' = written /\ table' = table
    BY <1>5 DEF TakeTable, Settled, Typed, ProcsTyped, database
  <2>2. QED
    BY <2>1, WorkKeepsRows DEF Rebuild
<1>6. ASSUME NEW t \in Tables, DropTable(p, t) PROVE RowsInv'
  <2>1. CASE Exit(p) /\ UNCHANGED table
    BY <1>6, <2>1, ExitKeepsRows DEF DropTable
  <2>2. CASE /\ table' = [table EXCEPT ![t] = Absent]
             /\ plan' = [plan EXCEPT ![p].left = @ \ {t}] /\ UNCHANGED <<pc, disturbed>>
    <3>1. /\ pc[p] = "drops" /\ pc'[p] = "drops" /\ OthersRest(p)
          /\ disturbed' = disturbed /\ copy' = copy /\ written' = written
      BY <1>6, <2>2 DEF DropTable, Typed, ProcsTyped
    <3>2. t \notin WantedTables
      BY <1>6, <3>1 DEF DropTable, Typed, ProcsTyped, PlanFits
    <3>3. \A u \in WantedTables : table'[u] = table[u]
      BY <2>2, <3>2
    <3>4. QED
      BY <3>1, <3>3, WorkKeepsRows DEF Rebuild
  <2>3. QED
    BY <1>6, <2>1, <2>2 DEF DropTable
<1>7. ASSUME NEW t \in Tables, DropCopy(p, t) PROVE RowsInv'
  <2>1. /\ pc[p] = "drops" /\ pc'[p] = "drops" /\ OthersRest(p)
        /\ disturbed' = disturbed /\ table' = table /\ written' = written
    BY <1>7 DEF DropCopy, Typed, ProcsTyped
  <2>2. \A u \in WantedTables : copy'[u] = copy[u] \/ copy'[u] = Absent
    BY <1>7, SchemaAssumption DEF DropCopy, Typed, TablesTyped
  <2>3. QED
    BY <2>1, <2>2, WorkKeepsRows DEF Rebuild
<1>8. ASSUME NEW t \in Tables, Insert(p, t) PROVE RowsInv'
  <2>1. /\ pc[p] = "up" /\ pc'[p] = "up" /\ OthersRest(p)
        /\ disturbed' = disturbed /\ copy' = copy
    BY <1>8 DEF Insert
  <2>2. table[t] \in Stored /\ table \in [Tables -> Stored \cup {Absent}]
    BY <1>8 DEF Insert, Typed, TablesTyped
  <2>3. /\ table'[t] = [table[t] EXCEPT !.rows = @ \cup {NewRow}]
        /\ written'[t] = written[t] \cup {NewRow}
        /\ \A u \in Tables \ {t} : table'[u] = table[u] /\ written'[u] = written[u]
    BY <1>8, <2>2 DEF Insert, Typed, TablesTyped, Stored
  <2>4. table'[t] \in Stored
    BY <2>2, <2>3 DEF Stored
  <2>5. RowsOf(table'[t]) = RowsOf(table[t]) \cup {NewRow}
    BY <2>2, <2>3, <2>4, SchemaAssumption DEF RowsOf, Stored
  <2>6. \A u \in WantedTables : /\ RowsOf(table[u]) \subseteq RowsOf(table'[u])
                                /\ written'[u] \subseteq written[u] \cup RowsOf(table'[u])
    BY <2>3, <2>5, SchemaAssumption
  <2>7. QED
    BY <2>1, <2>6, WorkKeepsRows DEF Rebuild
<1>9. ASSUME NEW c \in Cols, AddColumn(p, c) PROVE RowsInv'
  <2>1. CASE Exit(p) /\ UNCHANGED table
    BY <1>9, <2>1, ExitKeepsRows DEF AddColumn
  <2>2. CASE /\ table[plan[p].at] # Absent
             /\ table' = [table EXCEPT ![plan[p].at].cols = @ \cup {c}]
             /\ plan' = [plan EXCEPT ![p].add = @ \ {c}] /\ UNCHANGED <<pc, disturbed>>
    <3>1. /\ pc[p] = "columns" /\ pc'[p] = "columns" /\ OthersRest(p)
          /\ disturbed' = disturbed /\ copy' = copy /\ written' = written
      BY <1>9, <2>2 DEF AddColumn, Typed, ProcsTyped
    <3>2. plan[p].at \in Tables
      BY <1>9, SchemaAssumption DEF AddColumn, Typed, ProcsTyped, PlanFits
    <3>3. /\ table[plan[p].at] \in Stored /\ table \in [Tables -> Stored \cup {Absent}]
          /\ c \in Cols
      BY <2>2, <3>2 DEF Typed, TablesTyped
    <3>4. /\ table'[plan[p].at] \in Stored /\ table'[plan[p].at].rows = table[plan[p].at].rows
          /\ \A u \in Tables \ {plan[p].at} : table'[u] = table[u]
      BY <2>2, <3>2, <3>3 DEF Stored
    <3>5. \A u \in WantedTables : RowsOf(table[u]) = RowsOf(table'[u])
      BY <3>3, <3>4, SchemaAssumption DEF RowsOf, Stored
    <3>6. QED
      BY <3>1, <3>5, WorkKeepsRows DEF Rebuild
  <2>3. QED
    BY <1>9, <2>1, <2>2 DEF AddColumn
<1>10. ASSUME NEW c \in Cols, DropColumn(p, c) PROVE RowsInv'
  <2>1. CASE GoTo(p, "create copy") /\ UNCHANGED <<table, plan>>
    <3>1. /\ pc[p] = "columns" /\ pc'[p] = "create copy" /\ OthersRest(p)
          /\ disturbed' = disturbed /\ copy' = copy /\ written' = written /\ table' = table
      BY <1>10, <2>1 DEF DropColumn, GoTo, Typed, ProcsTyped
    <3>2. QED
      BY <3>1, WorkKeepsRows DEF Rebuild
  <2>2. CASE /\ table[plan[p].at] # Absent
             /\ table' = [table EXCEPT ![plan[p].at].cols = @ \ {c}]
             /\ plan' = [plan EXCEPT ![p].drop = @ \ {c}] /\ UNCHANGED pc
    <3>1. /\ pc[p] = "columns" /\ pc'[p] = "columns" /\ OthersRest(p)
          /\ disturbed' = disturbed /\ copy' = copy /\ written' = written
      BY <1>10, <2>2 DEF DropColumn, Typed, ProcsTyped
    <3>2. plan[p].at \in Tables
      BY <1>10, SchemaAssumption DEF DropColumn, Typed, ProcsTyped, PlanFits
    <3>3. table[plan[p].at] \in Stored /\ table \in [Tables -> Stored \cup {Absent}]
      BY <2>2, <3>2 DEF Typed, TablesTyped
    <3>4. /\ table'[plan[p].at] \in Stored /\ table'[plan[p].at].rows = table[plan[p].at].rows
          /\ \A u \in Tables \ {plan[p].at} : table'[u] = table[u]
      BY <2>2, <3>2, <3>3 DEF Stored
    <3>5. \A u \in WantedTables : RowsOf(table[u]) = RowsOf(table'[u])
      BY <3>3, <3>4, SchemaAssumption DEF RowsOf, Stored
    <3>6. QED
      BY <3>1, <3>5, WorkKeepsRows DEF Rebuild
  <2>3. QED
    BY <1>10, <2>1, <2>2 DEF DropColumn, Droppable
<1>11. QED
  BY <1>1, <1>2, <1>3, <1>4, <1>5, <1>6, <1>7, <1>8, <1>9, <1>10

LEMMA NextKeepsRows ==
  ASSUME Typed, RowsInv, [Next]_vars
  PROVE  RowsInv'
<1>1. ASSUME NEW p \in Procs, Step(p) PROVE RowsInv'
  <2>1. CASE Start(p) BY <2>1, StartKeepsRows
  <2>2. CASE CreateCopy(p) BY <2>2, CreateCopyKeepsRows
  <2>3. CASE CopyRows(p) BY <2>3, CopyRowsKeepsRows
  <2>4. CASE DropOld(p) BY <2>4, DropOldKeepsRows
  <2>5. CASE RenameCopy(p) BY <2>5, RenameKeepsRows
  <2>6. CASE \/ CreateTables(p) \/ Look(p) \/ BeginDrops(p) \/ Finish(p)
             \/ \E t \in Tables : TakeTable(p, t) \/ DropTable(p, t) \/ DropCopy(p, t)
             \/ \E c \in Cols : AddColumn(p, c) \/ DropColumn(p, c)
    BY <2>6, WorkStepsKeepRows
  <2>7. QED
    BY <1>1, <2>1, <2>2, <2>3, <2>4, <2>5, <2>6 DEF Step
<1>2. ASSUME NEW p \in Procs, Stop(p) PROVE RowsInv'
  BY <1>2, ExitKeepsRows DEF Stop, database
<1>3. ASSUME NEW p \in Procs, NEW t \in Tables, Insert(p, t) PROVE RowsInv'
  BY <1>3, WorkStepsKeepRows
<1>4. CASE UNCHANGED vars
  BY <1>4 DEF vars, RowsInv, AloneThen, CopiedThen, CopyOwned, RowsKept, RowsOf
<1>5. QED
  BY <1>1, <1>2, <1>3, <1>4 DEF Next

LEMMA InitHasRows == Init => RowsInv
<1> SUFFICES ASSUME Init PROVE RowsInv
  OBVIOUS
<1>1. \A p \in Procs : pc[p] = "down" \/ pc[p] = "up"
  BY DEF Init
<1>2. \A p \in Procs : AloneThen(p) /\ CopiedThen(p)
  BY <1>1 DEF AloneThen, CopiedThen, Rebuild
<1>3. \A t \in WantedTables : CopyOwned(t)
  BY SchemaAssumption DEF Init, CopyOwned
<1>4. RowsKept
  <2> SUFFICES ASSUME NEW t \in WantedTables PROVE written[t] \subseteq RowsOf(table[t])
    BY DEF RowsKept
  <2>1. t \in Tables
    BY SchemaAssumption
  <2>2. CASE t \in DOMAIN Before
    <3>1. /\ table[t] = [cols |-> Before[t], rows |-> {OldRow}, keyed |-> TRUE]
          /\ written[t] = {OldRow}
      BY <2>1, <2>2 DEF Init
    <3>2. table[t] \in [cols : SUBSET Cols, rows : SUBSET {OldRow, NewRow}, keyed : BOOLEAN]
      BY <3>1, <2>2, SchemaAssumption
    <3>3. table[t] # Absent
      BY <3>2, SchemaAssumption
    <3>4. QED
      BY <3>1, <3>3 DEF RowsOf
  <2>3. CASE t \notin DOMAIN Before
    BY <2>1, <2>3 DEF Init
  <2>4. QED
    BY <2>2, <2>3
<1>5. QED
  BY <1>2, <1>3, <1>4 DEF RowsInv

\* Whatever processes migrate, serve, are refused or stopped beside each other, a wanted table keeps
\* every row it was given unless its rebuild was disturbed: the row is in it or in its copy
\* (schema/logic.rs:681-741, :195-211).
THEOREM RowsAreKept == Spec => []RowsKept
<1>1. Spec => [](Typed /\ RowsInv)
  BY InitTyped, NextTyped, InitHasRows, NextKeepsRows, PTL DEF Spec
<1>2. RowsInv => RowsKept
  BY DEF RowsInv
<1>3. QED
  BY <1>1, <1>2, PTL

-------------------------------------------------------------------------------
(* The recorded version. *)

\* Tables nothing is promised of: one that is being rebuilt, or whose rebuild was disturbed.
Excused == disturbed \cup Rebuilding(Procs)

\* Table t has at least the columns needed, and unwanted ones only where they may be.
Has(t, needed) == table[t] # Absent /\ needed \subseteq table[t].cols

Extra(t) == table[t].cols \ Wanted[t]

Kept(t) == {c \in Cols : <<t, c>> \in Protected}

\* What process p has still to add to and to drop from table t.
ToAdd(p, t)  == IF t = plan[p].at THEN plan[p].add ELSE {}
ToDrop(p, t) == IF t = plan[p].at THEN plan[p].drop ELSE {}

\* A table that is still to be compared is as it was found, or better.
LeftAsFound(p, t) ==
    /\ Has(t, Wanted[t] \cap plan[p].live[t])
    /\ Extra(t) \subseteq plan[p].live[t]

\* A table that was compared is as wanted up to what the plan says.
DoneButPlan(p, t) ==
    /\ Has(t, Wanted[t] \ ToAdd(p, t))
    /\ Extra(t) \subseteq Kept(t) \cup ToDrop(p, t)

AsWanted(t) == Has(t, Wanted[t]) /\ Extra(t) \subseteq Kept(t)

PlanHonest(p) ==
    /\ plan[p].at \in WantedTables => /\ plan[p].add \subseteq Wanted[plan[p].at]
                                      /\ plan[p].drop \cap Wanted[plan[p].at] = {}
    /\ pc[p] = "look" => \A t \in WantedTables \ Excused : table[t] # Absent
    /\ pc[p] \in {"columns", "create copy"} \cup Rebuild =>
          \A t \in WantedTables \ Excused :
             IF t \in plan[p].left THEN LeftAsFound(p, t) ELSE DoneButPlan(p, t)
    /\ pc[p] = "drops" => \A t \in WantedTables \ Excused : AsWanted(t)

HonestInv ==
    /\ \A t \in WantedTables : copy[t] # Absent => copy[t].cols = Wanted[t]
    /\ \A p \in Procs : PlanHonest(p)
    /\ version = "new" => \A t \in WantedTables \ Excused : AsWanted(t)

\* A step leaves a table excused, or makes it what is wanted, or changes it for the better.
Improves(t) ==
    \/ t \in Excused'
    \/ table'[t] # Absent /\ table'[t].cols = Wanted[t]
    \/ /\ t \notin Excused
       /\ table[t] # Absent => /\ table'[t] # Absent
                               /\ table[t].cols \cap Wanted[t] \subseteq table'[t].cols
                               /\ table'[t].cols \ Wanted[t] \subseteq table[t].cols

AllImprove == \A t \in WantedTables : Improves(t)

\* Then a process that rests keeps its promises.
LEMMA RestHonest ==
  ASSUME Typed, HonestInv, AllImprove, NEW p \in Procs, pc'[p] = pc[p], plan'[p] = plan[p]
  PROVE  PlanHonest(p)'
<1>1. \A t \in WantedTables \ Excused' : Improves(t)
  BY DEF AllImprove
<1>2. PlanHonest(p)
  BY DEF HonestInv
<1>3. pc[p] = "look" => \A t \in WantedTables \ Excused' : table'[t] # Absent
  BY <1>1, <1>2 DEF PlanHonest, Improves
<1>4. ASSUME pc[p] \in {"columns", "create copy"} \cup Rebuild, NEW t \in WantedTables \ Excused'
      PROVE  IF t \in plan[p].left THEN LeftAsFound(p, t)' ELSE DoneButPlan(p, t)'
  <2>1. t \notin Excused => IF t \in plan[p].left THEN LeftAsFound(p, t) ELSE DoneButPlan(p, t)
    BY <1>2, <1>4 DEF PlanHonest
  <2>2. CASE table'[t] # Absent /\ table'[t].cols = Wanted[t]
    BY <2>2 DEF LeftAsFound, DoneButPlan, Has, Extra
  <2>3. CASE /\ t \notin Excused
             /\ table[t] # Absent => /\ table'[t] # Absent
                                     /\ table[t].cols \cap Wanted[t] \subseteq table'[t].cols
                                     /\ table'[t].cols \ Wanted[t] \subseteq table[t].cols
    BY <2>1, <2>3 DEF LeftAsFound, DoneButPlan, Has, Extra, Kept, ToAdd, ToDrop
  <2>4. QED
    BY <1>1, <1>4, <2>2, <2>3 DEF Improves
<1>5. ASSUME pc[p] = "drops", NEW t \in WantedTables \ Excused' PROVE AsWanted(t)'
  <2>1. t \notin Excused => AsWanted(t)
    BY <1>2, <1>5 DEF PlanHonest
  <2>2. QED
    BY <1>1, <1>5, <2>1 DEF Improves, AsWanted, Has, Extra, Kept
<1>6. plan'[p].at \in WantedTables => /\ plan'[p].add \subseteq Wanted[plan'[p].at]
                                      /\ plan'[p].drop \cap Wanted[plan'[p].at] = {}
  BY <1>2 DEF PlanHonest
<1>7. \A t \in WantedTables \ Excused' :
         pc[p] \in {"columns", "create copy"} \cup Rebuild =>
           IF t \in plan'[p].left THEN LeftAsFound(p, t)' ELSE DoneButPlan(p, t)'
  BY <1>4
<1>8. QED
  BY <1>3, <1>5, <1>6, <1>7 DEF PlanHonest

\* And a version that was recorded stays true.
LEMMA VersionStays ==
  ASSUME Typed, HonestInv, AllImprove, version' = version
  PROVE  version' = "new" => \A t \in WantedTables \ Excused' : AsWanted(t)'
<1> SUFFICES ASSUME version = "new", NEW t \in WantedTables \ Excused' PROVE AsWanted(t)'
  OBVIOUS
<1>1. t \notin Excused => AsWanted(t)
  BY DEF HonestInv
<1>2. QED
  BY <1>1 DEF AllImprove, Improves, AsWanted, Has, Extra, Kept

\* Whoever is refused or stopped breaks no promise.
LEMMA ExitHonest ==
  ASSUME Typed, HonestInv, NEW p \in Procs, Exit(p), UNCHANGED <<table, copy, version>>
  PROVE  HonestInv'
<1>1. /\ pc'[p] = "down" /\ plan'[p] = Blank /\ OthersRest(p) /\ disturbed \subseteq disturbed'
      /\ pc[p] \in Rebuild => plan[p].at \in disturbed'
  BY DEF Exit, GoTo, Rebuilding, Typed, ProcsTyped, OthersRest
<1>2. Excused \subseteq Excused'
  BY <1>1 DEF Excused, Rebuilding, OthersRest
<1>3. AllImprove
  BY <1>2 DEF AllImprove, Improves
<1>4. PlanHonest(p)'
  <2>1. plan'[p].add = {} /\ plan'[p].drop = {}
    BY <1>1 DEF Blank
  <2>2. QED
    BY <1>1, <2>1 DEF PlanHonest, Rebuild
<1>5. \A q \in Procs : PlanHonest(q)'
  BY <1>1, <1>3, <1>4, RestHonest DEF OthersRest
<1>6. QED
  BY <1>3, <1>5, VersionStays DEF HonestInv

\* A step of p that changes neither the tables nor the version.
LEMMA QuietHonest ==
  ASSUME Typed, HonestInv, NEW p \in Procs, OthersRest(p), UNCHANGED <<table, copy, version>>,
         Excused \subseteq Excused', PlanHonest(p)'
  PROVE  HonestInv'
<1>1. AllImprove
  BY DEF AllImprove, Improves
<1>2. \A q \in Procs : PlanHonest(q)'
  BY <1>1, RestHonest DEF OthersRest
<1>3. QED
  BY <1>1, <1>2, VersionStays DEF HonestInv

\* A step of p that changes the tables.
LEMMA ChangeHonest ==
  ASSUME Typed, HonestInv, NEW p \in Procs, OthersRest(p), copy' = copy, version' = version,
         AllImprove, PlanHonest(p)'
  PROVE  HonestInv'
<1>1. \A q \in Procs : PlanHonest(q)'
  BY RestHonest DEF OthersRest
<1>2. QED
  BY <1>1, VersionStays DEF HonestInv

LEMMA StartHonest ==
  ASSUME Typed, HonestInv, NEW p \in Procs, Start(p)
  PROVE  HonestInv'
<1>1. /\ pc'[p] \in {"up", "create"} /\ pc[p] = "down" /\ plan' = plan
      /\ \A q \in Procs \ {p} : pc'[q] = pc[q]
      /\ disturbed \subseteq disturbed' /\ UNCHANGED <<table, copy, version>>
  BY DEF Start, GoTo, Typed, ProcsTyped, database
<1>2. Excused \subseteq Excused'
  BY <1>1 DEF Excused, Rebuilding, Rebuild
<1>3. PlanHonest(p)'
  BY <1>1 DEF HonestInv, PlanHonest, Rebuild
<1>4. QED
  BY <1>1, <1>2, <1>3, QuietHonest DEF OthersRest

LEMMA CreateHonest ==
  ASSUME Typed, HonestInv, NEW p \in Procs, CreateTables(p)
  PROVE  HonestInv'
<1>1. /\ pc[p] = "create" /\ pc'[p] = "look" /\ OthersRest(p) /\ plan' = plan
      /\ disturbed' = disturbed /\ copy' = copy /\ version' = version
  BY DEF CreateTables, GoTo, Typed, ProcsTyped, OthersRest
<1>2. Excused' = Excused
  BY <1>1 DEF Excused, Rebuilding, Rebuild, OthersRest
<1>3. ASSUME NEW t \in WantedTables
      PROVE  /\ table'[t] # Absent
             /\ table[t] # Absent => table'[t] = table[t]
             /\ table[t] = Absent => table'[t].cols = Wanted[t]
  <2>1. table'[t] = IF table[t] = Absent THEN [cols |-> Wanted[t], rows |-> {}, keyed |-> TRUE]
                    ELSE table[t]
    BY SchemaAssumption DEF CreateTables
  <2>2. [cols |-> Wanted[t], rows |-> {}, keyed |-> TRUE] # Absent
    BY NewTable, SchemaAssumption DEF Stored
  <2>3. QED
    BY <2>1, <2>2
<1>4. AllImprove
  BY <1>2, <1>3 DEF AllImprove, Improves
<1>5. PlanHonest(p)'
  BY <1>1, <1>3 DEF HonestInv, PlanHonest, Rebuild
<1>6. QED
  BY <1>1, <1>4, <1>5, ChangeHonest

LEMMA LookHonest ==
  ASSUME Typed, HonestInv, NEW p \in Procs, Look(p)
  PROVE  HonestInv'
<1> DEFINE found == {t \in Tables : table[t] # Absent}
<1>1. /\ pc[p] = "look" /\ pc'[p] = "columns" /\ OthersRest(p)
      /\ disturbed' = disturbed /\ UNCHANGED <<table, copy, version>>
  BY DEF Look, GoTo, Typed, ProcsTyped, OthersRest, database
<1>2. Excused' = Excused
  BY <1>1 DEF Excused, Rebuilding, Rebuild, OthersRest
<1>3. /\ plan'[p].live = [t \in found |-> table[t].cols] /\ plan'[p].left = found \cap WantedTables
      /\ plan'[p].at = plan[p].at /\ plan'[p].add = plan[p].add /\ plan'[p].drop = plan[p].drop
  BY DEF Look, Typed, ProcsTyped, Plans
<1>4. PlanHonest(p)
  BY DEF HonestInv
<1>5. ASSUME NEW t \in WantedTables \ Excused'
      PROVE  t \in plan'[p].left /\ LeftAsFound(p, t)'
  <2>1. table[t] # Absent /\ t \in found
    BY <1>1, <1>2, <1>4, <1>5, SchemaAssumption DEF PlanHonest
  <2>2. plan'[p].live[t] = table[t].cols
    BY <1>3, <2>1
  <2>3. QED
    BY <1>1, <1>3, <2>1, <2>2 DEF LeftAsFound, Has, Extra
<1>6. PlanHonest(p)'
  BY <1>1, <1>3, <1>4, <1>5 DEF PlanHonest
<1>7. QED
  BY <1>1, <1>2, <1>6, QuietHonest

LEMMA TakeHonest ==
  ASSUME Typed, HonestInv, NEW p \in Procs, NEW t \in Tables, TakeTable(p, t)
  PROVE  HonestInv'
<1> DEFINE found == plan[p].live[t]
<1>1. /\ pc[p] = "columns" /\ pc'[p] = "columns" /\ OthersRest(p)
      /\ disturbed' = disturbed /\ UNCHANGED <<table, copy, version>>
      /\ plan[p].add = {} /\ plan[p].drop = {} /\ t \in plan[p].left
  BY DEF TakeTable, Settled, Typed, ProcsTyped, OthersRest, database
<1>2. Excused' = Excused
  BY <1>1 DEF Excused, Rebuilding, Rebuild, OthersRest
<1>3. /\ plan'[p].live = plan[p].live /\ plan'[p].left = plan[p].left \ {t} /\ plan'[p].at = t
      /\ plan'[p].add = Wanted[t] \ found
      /\ plan'[p].drop = {c \in found \ Wanted[t] : <<t, c>> \notin Protected}
  BY DEF TakeTable, Typed, ProcsTyped, Plans
<1>4. PlanHonest(p) /\ t \in WantedTables /\ plan[p].live \in Columns /\ t \in DOMAIN plan[p].live
  BY <1>1 DEF HonestInv, Typed, ProcsTyped, PlanFits, Plans
<1>5. found \subseteq Cols
  BY <1>4, ColumnsOf
<1>6. ASSUME NEW u \in WantedTables \ Excused'
      PROVE  IF u \in plan'[p].left THEN LeftAsFound(p, u)' ELSE DoneButPlan(p, u)'
  <2>1. IF u \in plan[p].left THEN LeftAsFound(p, u) ELSE DoneButPlan(p, u)
    BY <1>1, <1>2, <1>4 DEF PlanHonest
  <2>2. CASE u = t
    BY <1>1, <1>3, <1>5, <2>1, <2>2 DEF LeftAsFound, DoneButPlan, Has, Extra, Kept, ToAdd, ToDrop
  <2>3. CASE u # t
    BY <1>1, <1>3, <2>1, <2>3 DEF LeftAsFound, DoneButPlan, Has, Extra, Kept, ToAdd, ToDrop
  <2>4. QED
    BY <2>2, <2>3
<1>7. PlanHonest(p)'
  BY <1>1, <1>3, <1>6 DEF PlanHonest
<1>8. QED
  BY <1>1, <1>2, <1>7, QuietHonest

LEMMA AddHonest ==
  ASSUME Typed, HonestInv, NEW p \in Procs, NEW c \in Cols, AddColumn(p, c)
  PROVE  HonestInv'
<1> DEFINE t == plan[p].at
<1>1. CASE Exit(p) /\ UNCHANGED table
  BY <1>1, ExitHonest DEF AddColumn
<1>2. CASE /\ table[t] # Absent /\ table' = [table EXCEPT ![t].cols = @ \cup {c}]
           /\ plan' = [plan EXCEPT ![p].add = @ \ {c}] /\ UNCHANGED <<pc, disturbed>>
  <2>1. /\ pc[p] = "columns" /\ pc'[p] = "columns" /\ OthersRest(p)
        /\ disturbed' = disturbed /\ copy' = copy /\ version' = version /\ c \in plan[p].add
    BY <1>2 DEF AddColumn, Typed, ProcsTyped, OthersRest
  <2>2. Excused' = Excused
    BY <2>1 DEF Excused, Rebuilding, Rebuild, OthersRest
  <2>3. /\ plan'[p].left = plan[p].left /\ plan'[p].live = plan[p].live /\ plan'[p].at = t
        /\ plan'[p].add = plan[p].add \ {c} /\ plan'[p].drop = plan[p].drop
    BY <1>2 DEF Typed, ProcsTyped, Plans
  <2>4. PlanHonest(p) /\ t \in WantedTables /\ t \in Tables
    BY <2>1, SchemaAssumption DEF HonestInv, Typed, ProcsTyped, PlanFits
  <2>5. c \in Wanted[t]
    BY <2>1, <2>4 DEF PlanHonest
  <2>6. table[t] \in Stored /\ table \in [Tables -> Stored \cup {Absent}]
    BY <1>2, <2>4 DEF Typed, TablesTyped
  <2>7. /\ table'[t].cols = table[t].cols \cup {c} /\ table'[t] \in Stored
        /\ \A u \in Tables \ {t} : table'[u] = table[u]
    BY <1>2, <2>4, <2>6 DEF Stored
  <2>8. table'[t] # Absent
    BY <2>7, SchemaAssumption DEF Stored
  <2>9. AllImprove
    <3> SUFFICES ASSUME NEW u \in WantedTables PROVE Improves(u)
      BY DEF AllImprove
    <3>1. CASE u = t
      BY <2>2, <2>5, <2>7, <2>8, <3>1 DEF Improves
    <3>2. CASE u # t
      BY <2>2, <2>7, <3>2, SchemaAssumption DEF Improves
    <3>3. QED
      BY <3>1, <3>2
  <2>10. ASSUME NEW u \in WantedTables \ Excused'
         PROVE  IF u \in plan'[p].left THEN LeftAsFound(p, u)' ELSE DoneButPlan(p, u)'
    <3>1. IF u \in plan[p].left THEN LeftAsFound(p, u) ELSE DoneButPlan(p, u)
      BY <2>1, <2>2, <2>4 DEF PlanHonest
    <3>2. CASE u = t
      BY <2>3, <2>5, <2>7, <2>8, <3>1, <3>2 DEF LeftAsFound, DoneButPlan, Has, Extra, Kept, ToAdd, ToDrop
    <3>3. CASE u # t
      <4>1. table'[u] = table[u]
        BY <2>7, <3>3, SchemaAssumption
      <4>2. QED
        BY <2>3, <3>1, <3>3, <4>1 DEF LeftAsFound, DoneButPlan, Has, Extra, Kept, ToAdd, ToDrop
    <3>4. QED
      BY <3>2, <3>3
  <2>11. PlanHonest(p)'
    BY <2>1, <2>3, <2>4, <2>10 DEF PlanHonest
  <2>12. QED
    BY <2>1, <2>9, <2>11, ChangeHonest
<1>3. QED
  BY <1>1, <1>2 DEF AddColumn

LEMMA DropColumnHonest ==
  ASSUME Typed, HonestInv, NEW p \in Procs, NEW c \in Cols, DropColumn(p, c)
  PROVE  HonestInv'
<1> DEFINE t == plan[p].at
<1>1. /\ pc[p] = "columns" /\ c \in plan[p].drop /\ copy' = copy /\ version' = version
      /\ disturbed' = disturbed
  BY DEF DropColumn
<1>2. PlanHonest(p) /\ t \in WantedTables /\ t \in Tables
  BY <1>1, SchemaAssumption DEF HonestInv, Typed, ProcsTyped, PlanFits
<1>3. CASE GoTo(p, "create copy") /\ UNCHANGED <<table, plan>>
  <2>1. pc'[p] = "create copy" /\ OthersRest(p)
    BY <1>3 DEF GoTo, Typed, ProcsTyped, OthersRest
  <2>2. Excused' = Excused
    BY <1>1, <1>3, <2>1 DEF Excused, Rebuilding, Rebuild, OthersRest
  <2>3. PlanHonest(p)'
    BY <1>1, <1>2, <1>3, <2>1, <2>2 DEF PlanHonest, LeftAsFound, DoneButPlan, Has, Extra, Kept, ToAdd, ToDrop
  <2>4. QED
    BY <1>1, <1>3, <2>1, <2>2, <2>3, QuietHonest
<1>4. CASE /\ table[t] # Absent /\ table' = [table EXCEPT ![t].cols = @ \ {c}]
           /\ plan' = [plan EXCEPT ![p].drop = @ \ {c}] /\ UNCHANGED pc
  <2>1. pc'[p] = "columns" /\ OthersRest(p)
    BY <1>1, <1>4 DEF Typed, ProcsTyped, OthersRest
  <2>2. Excused' = Excused
    BY <1>1, <2>1 DEF Excused, Rebuilding, Rebuild, OthersRest
  <2>3. /\ plan'[p].left = plan[p].left /\ plan'[p].live = plan[p].live /\ plan'[p].at = t
        /\ plan'[p].add = plan[p].add /\ plan'[p].drop = plan[p].drop \ {c}
    BY <1>4 DEF Typed, ProcsTyped, Plans
  <2>4. c \notin Wanted[t]
    BY <1>1, <1>2 DEF PlanHonest
  <2>5. table[t] \in Stored /\ table \in [Tables -> Stored \cup {Absent}]
    BY <1>2, <1>4 DEF Typed, TablesTyped
  <2>6. /\ table'[t].cols = table[t].cols \ {c} /\ table'[t] \in Stored
        /\ \A u \in Tables \ {t} : table'[u] = table[u]
    BY <1>2, <1>4, <2>5 DEF Stored
  <2>7. table'[t] # Absent
    BY <2>6, SchemaAssumption DEF Stored
  <2>8. AllImprove
    <3> SUFFICES ASSUME NEW u \in WantedTables PROVE Improves(u)
      BY DEF AllImprove
    <3>1. CASE u = t
      BY <2>2, <2>4, <2>6, <2>7, <3>1 DEF Improves
    <3>2. CASE u # t
      BY <2>2, <2>6, <3>2, SchemaAssumption DEF Improves
    <3>3. QED
      BY <3>1, <3>2
  <2>9. ASSUME NEW u \in WantedTables \ Excused'
        PROVE  IF u \in plan'[p].left THEN LeftAsFound(p, u)' ELSE DoneButPlan(p, u)'
    <3>1. IF u \in plan[p].left THEN LeftAsFound(p, u) ELSE DoneButPlan(p, u)
      BY <1>1, <1>2, <2>2 DEF PlanHonest
    <3>2. CASE u = t
      BY <2>3, <2>4, <2>6, <2>7, <3>1, <3>2 DEF LeftAsFound, DoneButPlan, Has, Extra, Kept, ToAdd, ToDrop
    <3>3. CASE u # t
      <4>1. table'[u] = table[u]
        BY <2>6, <3>3, SchemaAssumption
      <4>2. QED
        BY <2>3, <3>1, <3>3, <4>1 DEF LeftAsFound, DoneButPlan, Has, Extra, Kept, ToAdd, ToDrop
    <3>4. QED
      BY <3>2, <3>3
  <2>10. PlanHonest(p)'
    BY <1>2, <2>1, <2>3, <2>9 DEF PlanHonest
  <2>11. QED
    BY <1>1, <2>1, <2>8, <2>10, ChangeHonest
<1>5. QED
  BY <1>3, <1>4 DEF DropColumn, Droppable

\* The steps of a rebuild that leave its table alone.
LEMMA RebuildHonest ==
  ASSUME Typed, HonestInv, NEW p \in Procs, pc[p] \in {"create copy"} \cup Rebuild, pc'[p] \in Rebuild,
         plan' = plan, \A q \in Procs \ {p} : pc'[q] = pc[q],
         disturbed \subseteq disturbed', version' = version,
         \A t \in WantedTables : copy'[t] # Absent => copy'[t].cols = Wanted[t],
         \A t \in WantedTables : t = plan[p].at \/ table'[t] = table[t]
  PROVE  HonestInv'
<1>1. Excused \subseteq Excused' /\ plan[p].at \in Excused'
  BY DEF Excused, Rebuilding
<1>2. AllImprove
  BY <1>1 DEF AllImprove, Improves
<1>3. ASSUME NEW t \in WantedTables \ Excused'
      PROVE  IF t \in plan[p].left THEN LeftAsFound(p, t)' ELSE DoneButPlan(p, t)'
  <2>1. IF t \in plan[p].left THEN LeftAsFound(p, t) ELSE DoneButPlan(p, t)
    BY <1>1, <1>3 DEF HonestInv, PlanHonest
  <2>2. table'[t] = table[t]
    BY <1>1, <1>3
  <2>3. QED
    BY <2>1, <2>2 DEF LeftAsFound, DoneButPlan, Has, Extra, Kept, ToAdd, ToDrop
<1>4. PlanHonest(p)'
  BY <1>3 DEF HonestInv, PlanHonest, Rebuild
<1>5. \A q \in Procs : PlanHonest(q)'
  BY <1>2, <1>4, RestHonest
<1>6. QED
  BY <1>2, <1>5, VersionStays DEF HonestInv

LEMMA CreateCopyHonest ==
  ASSUME Typed, HonestInv, NEW p \in Procs, CreateCopy(p)
  PROVE  HonestInv'
<1> DEFINE t == plan[p].at
<1>1. CASE Exit(p) /\ UNCHANGED copy
  BY <1>1, ExitHonest DEF CreateCopy
<1>2. CASE /\ copy' = [copy EXCEPT ![t] = [cols |-> Wanted[t], rows |-> {}, keyed |-> FALSE]]
           /\ GoTo(p, "copy") /\ UNCHANGED plan /\ disturbed \subseteq disturbed'
  <2>1. \A u \in WantedTables : copy'[u] # Absent => copy'[u].cols = Wanted[u]
    BY <1>2, SchemaAssumption DEF HonestInv, Typed, TablesTyped
  <2>2. QED
    BY <1>2, <2>1, RebuildHonest DEF CreateCopy, GoTo, Typed, ProcsTyped, Rebuild
<1>3. QED
  BY <1>1, <1>2 DEF CreateCopy

LEMMA CopyRowsHonest ==
  ASSUME Typed, HonestInv, NEW p \in Procs, CopyRows(p)
  PROVE  HonestInv'
<1> DEFINE t == plan[p].at
<1>1. CASE Exit(p) /\ UNCHANGED copy
  BY <1>1, ExitHonest DEF CopyRows
<1>2. CASE /\ copy[t] # Absent /\ copy' = [copy EXCEPT ![t].rows = @ \cup table[t].rows]
           /\ GoTo(p, "drop old") /\ UNCHANGED <<plan, disturbed>>
  <2>1. t \in Tables
    BY SchemaAssumption DEF CopyRows, Typed, ProcsTyped, PlanFits, Rebuild
  <2>2. copy[t] \in Stored /\ copy \in [Tables -> Stored \cup {Absent}]
    BY <1>2, <2>1 DEF Typed, TablesTyped
  <2>3. copy'[t].cols = copy[t].cols /\ \A u \in Tables \ {t} : copy'[u] = copy[u]
    BY <1>2, <2>1, <2>2 DEF Stored
  <2>4. \A u \in WantedTables : copy'[u] # Absent => copy'[u].cols = Wanted[u]
    BY <1>2, <2>3, SchemaAssumption DEF HonestInv
  <2>5. QED
    BY <1>2, <2>4, RebuildHonest DEF CopyRows, GoTo, Typed, ProcsTyped, Rebuild
<1>3. QED
  BY <1>1, <1>2 DEF CopyRows

LEMMA DropOldHonest ==
  ASSUME Typed, HonestInv, NEW p \in Procs, DropOld(p)
  PROVE  HonestInv'
<1> DEFINE t == plan[p].at
<1>1. CASE Exit(p) /\ UNCHANGED table
  BY <1>1, ExitHonest DEF DropOld
<1>2. CASE table' = [table EXCEPT ![t] = Absent] /\ GoTo(p, "rename") /\ UNCHANGED <<plan, disturbed>>
  <2>1. \A u \in WantedTables : u = t \/ table'[u] = table[u]
    BY <1>2, SchemaAssumption DEF Typed, TablesTyped
  <2>2. /\ copy' = copy /\ version' = version /\ pc[p] \in {"create copy"} \cup Rebuild
        /\ pc'[p] \in Rebuild /\ \A q \in Procs \ {p} : pc'[q] = pc[q]
    BY <1>2 DEF DropOld, GoTo, Typed, ProcsTyped, Rebuild
  <2>3. QED
    BY <1>2, <2>1, <2>2, RebuildHonest DEF HonestInv
<1>3. QED
  BY <1>1, <1>2 DEF DropOld

LEMMA RenameHonest ==
  ASSUME Typed, HonestInv, NEW p \in Procs, RenameCopy(p)
  PROVE  HonestInv'
<1> DEFINE t == plan[p].at
<1>1. CASE Exit(p) /\ UNCHANGED <<table, copy>>
  BY <1>1, ExitHonest DEF RenameCopy
<1>2. CASE /\ copy[t] # Absent
           /\ table' = [table EXCEPT ![t] = copy[t]] /\ copy' = [copy EXCEPT ![t] = Absent]
           /\ plan' = [plan EXCEPT ![p].drop = {}]
           /\ GoTo(p, "columns") /\ UNCHANGED disturbed
  <2>1. t \in Tables /\ t \in WantedTables /\ pc[p] = "rename"
    BY SchemaAssumption DEF RenameCopy, Typed, ProcsTyped, PlanFits, Rebuild
  <2>2. /\ pc'[p] = "columns" /\ OthersRest(p) /\ disturbed' = disturbed /\ version' = version
    BY <1>2 DEF RenameCopy, GoTo, Typed, ProcsTyped, OthersRest
  <2>3. /\ plan'[p].left = plan[p].left /\ plan'[p].live = plan[p].live /\ plan'[p].at = t
        /\ plan'[p].add = plan[p].add /\ plan'[p].drop = {}
    BY <1>2 DEF Typed, ProcsTyped, Plans
  <2>4. Excused \subseteq Excused' \cup {t}
    BY <2>2 DEF Excused, Rebuilding, OthersRest
  <2>5. /\ table'[t] = copy[t] /\ copy'[t] = Absent
        /\ \A u \in Tables \ {t} : table'[u] = table[u] /\ copy'[u] = copy[u]
    BY <1>2, <2>1 DEF Typed, TablesTyped
  <2>6. table'[t] # Absent /\ table'[t].cols = Wanted[t]
    BY <1>2, <2>1, <2>5 DEF HonestInv
  <2>7. \A u \in WantedTables : copy'[u] # Absent => copy'[u].cols = Wanted[u]
    BY <2>5, SchemaAssumption DEF HonestInv
  <2>8. AllImprove
    <3> SUFFICES ASSUME NEW u \in WantedTables, u # t PROVE Improves(u)
      BY <2>6 DEF AllImprove, Improves
    <3>1. table'[u] = table[u] /\ (u \in Excused => u \in Excused')
      BY <2>4, <2>5, SchemaAssumption
    <3>2. QED
      BY <3>1 DEF Improves
  <2>9. ASSUME NEW u \in WantedTables \ Excused'
        PROVE  IF u \in plan'[p].left THEN LeftAsFound(p, u)' ELSE DoneButPlan(p, u)'
    <3>1. CASE u = t
      BY <2>6, <3>1 DEF LeftAsFound, DoneButPlan, Has, Extra
    <3>2. CASE u # t
      <4>1. table'[u] = table[u] /\ u \notin Excused
        BY <2>4, <2>5, <2>9, <3>2, SchemaAssumption
      <4>2. IF u \in plan[p].left THEN LeftAsFound(p, u) ELSE DoneButPlan(p, u)
        BY <2>1, <2>9, <4>1 DEF HonestInv, PlanHonest, Rebuild
      <4>3. QED
        BY <2>3, <3>2, <4>1, <4>2 DEF LeftAsFound, DoneButPlan, Has, Extra, Kept, ToAdd, ToDrop
    <3>3. QED
      BY <3>1, <3>2
  <2>10. PlanHonest(p)'
    BY <2>2, <2>3, <2>9 DEF HonestInv, PlanHonest
  <2>11. \A q \in Procs : PlanHonest(q)'
    BY <2>2, <2>8, <2>10, RestHonest DEF OthersRest
  <2>12. QED
    BY <2>2, <2>7, <2>8, <2>11, VersionStays DEF HonestInv
<1>3. QED
  BY <1>1, <1>2 DEF RenameCopy

LEMMA BeginDropsHonest ==
  ASSUME Typed, HonestInv, NEW p \in Procs, BeginDrops(p)
  PROVE  HonestInv'
<1>1. /\ pc[p] = "columns" /\ pc'[p] = "drops" /\ OthersRest(p)
      /\ disturbed' = disturbed /\ UNCHANGED <<table, copy, version>>
      /\ plan[p].add = {} /\ plan[p].drop = {} /\ plan[p].left = {}
  BY DEF BeginDrops, Settled, GoTo, Typed, ProcsTyped, OthersRest, database
<1>2. plan'[p].at = plan[p].at /\ plan'[p].add = plan[p].add /\ plan'[p].drop = plan[p].drop
  BY DEF BeginDrops, Typed, ProcsTyped, Plans
<1>3. Excused' = Excused
  BY <1>1 DEF Excused, Rebuilding, Rebuild, OthersRest
<1>4. ASSUME NEW t \in WantedTables \ Excused' PROVE AsWanted(t)'
  <2>1. DoneButPlan(p, t)
    BY <1>1, <1>3, <1>4 DEF HonestInv, PlanHonest
  <2>2. QED
    BY <1>1, <2>1 DEF DoneButPlan, AsWanted, Has, Extra, Kept, ToAdd, ToDrop
<1>5. PlanHonest(p)'
  BY <1>1, <1>2, <1>4 DEF HonestInv, PlanHonest, Rebuild
<1>6. QED
  BY <1>1, <1>3, <1>5, QuietHonest

LEMMA DropTableHonest ==
  ASSUME Typed, HonestInv, NEW p \in Procs, NEW t \in Tables, DropTable(p, t)
  PROVE  HonestInv'
<1>1. CASE Exit(p) /\ UNCHANGED table
  BY <1>1, ExitHonest DEF DropTable
<1>2. CASE /\ table' = [table EXCEPT ![t] = Absent]
           /\ plan' = [plan EXCEPT ![p].left = @ \ {t}] /\ UNCHANGED <<pc, disturbed>>
  <2>1. /\ pc[p] = "drops" /\ pc'[p] = "drops" /\ OthersRest(p)
        /\ disturbed' = disturbed /\ copy' = copy /\ version' = version
    BY <1>2 DEF DropTable, Typed, ProcsTyped, OthersRest
  <2>2. plan'[p].at = plan[p].at /\ plan'[p].add = plan[p].add /\ plan'[p].drop = plan[p].drop
    BY <1>2 DEF Typed, ProcsTyped, Plans
  <2>3. Excused' = Excused
    BY <2>1 DEF Excused, Rebuilding, Rebuild, OthersRest
  <2>4. t \notin WantedTables
    BY <2>1 DEF DropTable, Typed, ProcsTyped, PlanFits
  <2>5. \A u \in WantedTables : table'[u] = table[u]
    BY <1>2, <2>4
  <2>6. AllImprove
    BY <2>3, <2>5 DEF AllImprove, Improves
  <2>7. ASSUME NEW u \in WantedTables \ Excused' PROVE AsWanted(u)'
    BY <2>1, <2>3, <2>5, <2>7 DEF HonestInv, PlanHonest, AsWanted, Has, Extra, Kept
  <2>8. PlanHonest(p)'
    BY <2>1, <2>2, <2>7 DEF HonestInv, PlanHonest, Rebuild
  <2>9. QED
    BY <2>1, <2>6, <2>8, ChangeHonest
<1>3. QED
  BY <1>1, <1>2 DEF DropTable

LEMMA DropCopyHonest ==
  ASSUME Typed, HonestInv, NEW p \in Procs, NEW t \in Tables, DropCopy(p, t)
  PROVE  HonestInv'
<1>1. /\ pc' = pc /\ pc[p] = "drops" /\ OthersRest(p)
      /\ disturbed' = disturbed /\ table' = table /\ version' = version
  BY DEF DropCopy, Typed, ProcsTyped, OthersRest
<1>2. plan'[p].at = plan[p].at /\ plan'[p].add = plan[p].add /\ plan'[p].drop = plan[p].drop
  BY DEF DropCopy, Typed, ProcsTyped, Plans
<1>3. Excused' = Excused
  BY <1>1 DEF Excused, Rebuilding, Rebuild, OthersRest
<1>4. AllImprove
  BY <1>1, <1>3 DEF AllImprove, Improves
<1>5. \A u \in WantedTables : copy'[u] # Absent => copy'[u].cols = Wanted[u]
  BY SchemaAssumption DEF DropCopy, HonestInv, Typed, TablesTyped
<1>6. ASSUME NEW u \in WantedTables \ Excused' PROVE AsWanted(u)'
  BY <1>1, <1>3, <1>6 DEF HonestInv, PlanHonest, AsWanted, Has, Extra, Kept
<1>7. PlanHonest(p)'
  BY <1>1, <1>2, <1>6 DEF HonestInv, PlanHonest, Rebuild
<1>8. \A q \in Procs : PlanHonest(q)'
  BY <1>1, <1>4, <1>7, RestHonest DEF OthersRest
<1>9. QED
  BY <1>1, <1>4, <1>5, <1>8, VersionStays DEF HonestInv

\* The version is recorded at the end of a migration, when every table is as wanted or excused.
LEMMA FinishHonest ==
  ASSUME Typed, HonestInv, NEW p \in Procs, Finish(p)
  PROVE  HonestInv'
<1>1. CASE Exit(p) /\ UNCHANGED version
  BY <1>1, ExitHonest DEF Finish
<1>2. CASE version' = "new" /\ GoTo(p, "up") /\ plan' = [plan EXCEPT ![p] = Blank] /\ UNCHANGED disturbed
  <2>1. /\ pc[p] = "drops" /\ pc'[p] = "up" /\ plan'[p] = Blank /\ OthersRest(p)
        /\ disturbed' = disturbed /\ UNCHANGED <<table, copy>>
    BY <1>2 DEF Finish, GoTo, Typed, ProcsTyped, OthersRest
  <2>2. Excused' = Excused
    BY <2>1 DEF Excused, Rebuilding, Rebuild, OthersRest
  <2>3. AllImprove
    BY <2>1, <2>2 DEF AllImprove, Improves
  <2>4. plan'[p].add = {} /\ plan'[p].drop = {}
    BY <2>1 DEF Blank
  <2>5. PlanHonest(p)'
    BY <2>1, <2>4 DEF PlanHonest, Rebuild
  <2>6. \A q \in Procs : PlanHonest(q)'
    BY <2>1, <2>3, <2>5, RestHonest DEF OthersRest
  <2>7. ASSUME NEW t \in WantedTables \ Excused' PROVE AsWanted(t)'
    BY <2>1, <2>2, <2>7 DEF HonestInv, PlanHonest, AsWanted, Has, Extra, Kept
  <2>8. QED
    BY <2>1, <2>6, <2>7 DEF HonestInv
<1>3. QED
  BY <1>1, <1>2 DEF Finish

LEMMA InsertHonest ==
  ASSUME Typed, HonestInv, NEW p \in Procs, NEW t \in Tables, Insert(p, t)
  PROVE  HonestInv'
<1>1. /\ pc' = pc /\ plan' = plan /\ disturbed' = disturbed /\ copy' = copy /\ version' = version
  BY DEF Insert
<1>2. Excused' = Excused
  BY <1>1 DEF Excused, Rebuilding
<1>3. table[t] \in Stored /\ table \in [Tables -> Stored \cup {Absent}]
  BY DEF Insert, Typed, TablesTyped
<1>4. /\ table'[t].cols = table[t].cols /\ table'[t] \in Stored
      /\ \A u \in Tables \ {t} : table'[u] = table[u]
  <2>1. table'[t] = [table[t] EXCEPT !.rows = @ \cup {NewRow}]
    BY <1>3 DEF Insert
  <2>2. QED
    BY <1>3, <2>1 DEF Insert, Stored
<1>5. table'[t] # Absent
  BY <1>4, SchemaAssumption DEF Stored
<1>6. AllImprove
  <2> SUFFICES ASSUME NEW u \in WantedTables PROVE Improves(u)
    BY DEF AllImprove
  <2>1. QED
    BY <1>2, <1>4, <1>5, SchemaAssumption DEF Improves
<1>7. \A q \in Procs : PlanHonest(q)'
  BY <1>1, <1>6, RestHonest
<1>8. QED
  BY <1>1, <1>6, <1>7, VersionStays DEF HonestInv

LEMMA NextHonest ==
  ASSUME Typed, HonestInv, [Next]_vars
  PROVE  HonestInv'
<1>1. ASSUME NEW p \in Procs, Step(p) PROVE HonestInv'
  <2>1. CASE Start(p) BY <2>1, StartHonest
  <2>2. CASE CreateTables(p) BY <2>2, CreateHonest
  <2>3. CASE Look(p) BY <2>3, LookHonest
  <2>4. CASE \E t \in Tables : TakeTable(p, t) BY <2>4, TakeHonest
  <2>5. CASE \E c \in Cols : AddColumn(p, c) \/ DropColumn(p, c) BY <2>5, AddHonest, DropColumnHonest
  <2>6. CASE CreateCopy(p) BY <2>6, CreateCopyHonest
  <2>7. CASE CopyRows(p) BY <2>7, CopyRowsHonest
  <2>8. CASE DropOld(p) BY <2>8, DropOldHonest
  <2>9. CASE RenameCopy(p) BY <2>9, RenameHonest
  <2>10. CASE BeginDrops(p) BY <2>10, BeginDropsHonest
  <2>11. CASE Finish(p) BY <2>11, FinishHonest
  <2>12. CASE \E t \in Tables : DropTable(p, t) \/ DropCopy(p, t) BY <2>12, DropTableHonest, DropCopyHonest
  <2>13. QED
    BY <1>1, <2>1, <2>2, <2>3, <2>4, <2>5, <2>6, <2>7, <2>8, <2>9, <2>10, <2>11, <2>12 DEF Step
<1>2. ASSUME NEW p \in Procs, Stop(p) PROVE HonestInv'
  BY <1>2, ExitHonest DEF Stop, database
<1>3. CASE UNCHANGED vars
  <2>1. Excused' = Excused
    BY <1>3 DEF vars, Excused, Rebuilding
  <2>2. AllImprove
    BY <1>3, <2>1 DEF vars, AllImprove, Improves
  <2>3. \A q \in Procs : PlanHonest(q)'
    BY <1>3, <2>2, RestHonest DEF vars
  <2>4. QED
    BY <1>3, <2>2, <2>3, VersionStays DEF vars, HonestInv
<1>4. QED
  BY <1>1, <1>2, <1>3, InsertHonest DEF Next

LEMMA InitHonest == Init => HonestInv
<1> SUFFICES ASSUME Init PROVE HonestInv
  OBVIOUS
<1>1. \A t \in WantedTables : copy[t] = Absent
  BY SchemaAssumption DEF Init
<1>2. ASSUME NEW p \in Procs PROVE PlanHonest(p)
  <2>1. (pc[p] = "down" \/ pc[p] = "up") /\ plan[p].add = {} /\ plan[p].drop = {}
    BY DEF Init, Blank
  <2>2. QED
    BY <2>1 DEF PlanHonest, Rebuild
<1>3. QED
  BY <1>1, <1>2 DEF Init, HonestInv

\* A version is recorded only over the schema it stands for: every wanted table that nobody is
\* rebuilding and whose rebuild was not disturbed has its columns and no others but protected ones,
\* however many processes migrated at once (schema/logic.rs:24, :224).
THEOREM RecordedVersionIsHonest == Spec => []VersionHonest
<1>1. Spec => [](Typed /\ HonestInv)
  BY InitTyped, NextTyped, InitHonest, NextHonest, PTL DEF Spec
<1>2. HonestInv => VersionHonest
  BY DEF HonestInv, VersionHonest, AsWanted, Has, Extra, Kept, Excused
<1>3. QED
  BY <1>1, <1>2, PTL

===============================================================================

--------------------------- MODULE SchemaMigration ----------------------------
(***************************************************************************)
(* The declarative migration (turso/schema/logic.rs) that every process    *)
(* runs before it serves (turso/client.rs): read the recorded version,     *)
(* create what is missing, compare the columns found with the ones wanted, *)
(* alter or rebuild the tables that differ, drop what is not wanted and    *)
(* record the version.  Statements run one by one, in no transaction, and  *)
(* several processes may be at it at once.                                 *)
(*                                                                         *)
(* Left out: the renames (SCHEMA_SQL holds no directive), the legacy table *)
(* (dropped like any unwanted one), column types and defaults, indexes and *)
(* triggers beyond the batch that ends a migration.                        *)
(***************************************************************************)
EXTENDS Naturals, FiniteSets

CONSTANTS
    Procs,        \* processes with a database connection
    Tables, Cols,
    Absent,       \* a table that does not exist
    Before,       \* columns of the tables the older build left
    Wanted,       \* columns of the tables of SCHEMA_SQL
    Stubborn,     \* columns ALTER TABLE cannot drop (keys, indexed, referenced), as <<table, column>>
    Protected,    \* PROTECTED_COLUMNS
    Referenced,   \* tables whose rows others refer to: DROP TABLE is refused while they hold any
    Indexed,      \* tables SCHEMA_SQL has an index on
    Busy,         \* bound: tables that are given a row meanwhile
    OldRow, NewRow,
    MaxStops      \* bound: processes killed or stopped, and drops of a column that fail for no lasting reason

WantedTables == DOMAIN Wanted

ASSUME SchemaAssumption ==
    /\ WantedTables \subseteq Tables /\ DOMAIN Before \subseteq Tables
    /\ Busy \subseteq WantedTables /\ Indexed \subseteq WantedTables
    /\ \A t \in WantedTables : Wanted[t] \subseteq Cols
    /\ \A t \in DOMAIN Before : Before[t] \subseteq Cols
    /\ MaxStops \in Nat
    /\ Absent \notin [cols : SUBSET Cols, rows : SUBSET {OldRow, NewRow}, keyed : BOOLEAN]

VARIABLES
    table, copy,  \* a table and its _rebuild_ copy: columns, rows, and whether it has its keys
    version,      \* _schema_version: old or new
    pc,           \* a process: the next step of its migration, up (it serves) or down
    plan,         \* what it remembers: the columns (live) and copies it found, the tables left to
                  \* compare and then to drop, the table it is at, the columns to add and to drop
    written,      \* ghost: rows a table was given
    disturbed,    \* ghost: tables whose rebuild was not left alone from beginning to end
    stops

database == <<table, copy, version, written>>
vars     == <<table, copy, version, pc, plan, written, disturbed, stops>>

Stored == [cols : SUBSET Cols, rows : SUBSET {OldRow, NewRow}, keyed : BOOLEAN]

Rebuild == {"copy", "drop old", "rename"}
Migrate == {"create", "look", "columns", "create copy", "drops"} \cup Rebuild

Blank == [live |-> <<>>, copies |-> {}, left |-> {}, at |-> Absent, add |-> {}, drop |-> {}]

\* A process that serves at the beginning runs the older build.
Init ==
    /\ table = [t \in Tables |-> IF t \in DOMAIN Before
                                 THEN [cols |-> Before[t], rows |-> {OldRow}, keyed |-> TRUE]
                                 ELSE Absent]
    /\ copy = [t \in Tables |-> Absent]
    /\ version = "old"
    /\ pc \in [Procs -> {"down", "up"}]
    /\ plan = [p \in Procs |-> Blank]
    /\ written = [t \in Tables |-> IF t \in DOMAIN Before THEN {OldRow} ELSE {}]
    /\ disturbed = {} /\ stops = 0

GoTo(p, step) == pc' = [pc EXCEPT ![p] = step]

Rebuilding(P) == {plan[q].at : q \in {r \in P : pc[r] \in Rebuild}}

\* A statement is refused: migrate returns the error and the process exits.
Exit(p) ==
    /\ GoTo(p, "down")
    /\ plan' = [plan EXCEPT ![p] = Blank]
    /\ disturbed' = disturbed \cup Rebuilding({p})

\* Seeded fault: the version is recorded before the schema is changed.
StartRecorded(p) ==
    /\ pc[p] = "down"
    /\ GoTo(p, IF version = "new" THEN "up" ELSE "create")
    /\ version' = "new"
    /\ UNCHANGED <<table, copy, written, plan, disturbed, stops>>

\* The container starts again; get_applied_version decides whether there is anything to do.
Start(p) ==
    /\ pc[p] = "down"
    /\ GoTo(p, IF version = "new" THEN "up" ELSE "create")
    /\ disturbed' = disturbed \cup Rebuilding(Procs)
    /\ UNCHANGED <<database, plan, stops>>

\* Seeded fault: CREATE TABLE without IF NOT EXISTS.
CreateStrictly(p) ==
    /\ pc[p] = "create"
    /\ IF \A t \in WantedTables : table[t] = Absent
       THEN /\ table' = [t \in Tables |-> IF t \in WantedTables
                                          THEN [cols |-> Wanted[t], rows |-> {}, keyed |-> TRUE]
                                          ELSE table[t]]
            /\ GoTo(p, "look") /\ UNCHANGED <<plan, disturbed>>
       ELSE Exit(p) /\ UNCHANGED table
    /\ UNCHANGED <<copy, version, written, stops>>

\* CREATE TABLE IF NOT EXISTS
CreateTables(p) ==
    /\ pc[p] = "create"
    /\ table' = [t \in Tables |-> IF t \in WantedTables /\ table[t] = Absent
                                  THEN [cols |-> Wanted[t], rows |-> {}, keyed |-> TRUE]
                                  ELSE table[t]]
    /\ GoTo(p, "look")
    /\ UNCHANGED <<copy, version, written, plan, disturbed, stops>>

\* Seeded fault: a wanted table is compared whether it was found or not.
LookUnchecked(p) ==
    LET found == {t \in Tables : table[t] # Absent} IN
    /\ pc[p] = "look"
    /\ plan' = [plan EXCEPT ![p].live = [t \in found |-> table[t].cols],
                            ![p].copies = {t \in Tables : copy[t] # Absent},
                            ![p].left = WantedTables]
    /\ GoTo(p, "columns")
    /\ UNCHANGED <<database, disturbed, stops>>

\* get_live_tables: what the rest of the migration goes by.
Look(p) ==
    LET found == {t \in Tables : table[t] # Absent} IN
    /\ pc[p] = "look"
    /\ plan' = [plan EXCEPT ![p].live = [t \in found |-> table[t].cols],
                            ![p].copies = {t \in Tables : copy[t] # Absent},
                            ![p].left = found \cap WantedTables]
    /\ GoTo(p, "columns")
    /\ UNCHANGED <<database, disturbed, stops>>

--------------------------------------------------------------------------------
(* The columns of one table. *)

Settled(p) == pc[p] = "columns" /\ plan[p].add = {} /\ plan[p].drop = {}

TakeTable(p, t) ==
    LET found == plan[p].live[t] IN
    /\ Settled(p) /\ t \in plan[p].left
    /\ plan' = [plan EXCEPT ![p].left = @ \ {t}, ![p].at = t,
                            ![p].add = Wanted[t] \ found,
                            ![p].drop = {c \in found \ Wanted[t] : <<t, c>> \notin Protected}]
    /\ UNCHANGED <<database, pc, disturbed, stops>>

\* ALTER TABLE ADD COLUMN is refused if somebody else added it meanwhile.
AddColumn(p, c) ==
    LET t == plan[p].at IN
    /\ pc[p] = "columns" /\ c \in plan[p].add
    /\ IF table[t] # Absent /\ c \notin table[t].cols
       THEN /\ table' = [table EXCEPT ![t].cols = @ \cup {c}]
            /\ plan' = [plan EXCEPT ![p].add = @ \ {c}]
            /\ UNCHANGED <<pc, disturbed>>
       ELSE Exit(p) /\ UNCHANGED table
    /\ UNCHANGED <<copy, version, written, stops>>

Droppable(t, c) == table[t] # Absent /\ c \in table[t].cols /\ <<t, c>> \notin Stubborn

\* ALTER TABLE DROP COLUMN; whatever it fails for, a lost statement too, the table is rebuilt.
DropColumn(p, c) ==
    LET t == plan[p].at IN
    /\ pc[p] = "columns" /\ plan[p].add = {} /\ c \in plan[p].drop
    /\ \/ /\ Droppable(t, c)
          /\ table' = [table EXCEPT ![t].cols = @ \ {c}]
          /\ plan' = [plan EXCEPT ![p].drop = @ \ {c}]
          /\ UNCHANGED <<pc, stops>>
       \/ ~Droppable(t, c) /\ GoTo(p, "create copy") /\ UNCHANGED <<table, plan, stops>>
       \/ /\ stops < MaxStops /\ stops' = stops + 1
          /\ GoTo(p, "create copy") /\ UNCHANGED <<table, plan>>
    /\ UNCHANGED <<copy, version, written, disturbed>>

--------------------------------------------------------------------------------
(* rebuild_table_without_columns: four statements. *)

\* The copy has the wanted columns and no key.  One that is there already is an error.
CreateCopy(p) ==
    LET t == plan[p].at IN
    /\ pc[p] = "create copy"
    /\ IF copy[t] = Absent
       THEN /\ copy' = [copy EXCEPT ![t] = [cols |-> Wanted[t], rows |-> {}, keyed |-> FALSE]]
            /\ GoTo(p, "copy")
            /\ disturbed' = disturbed \cup {u \in {t} : \E q \in Procs \ {p} : pc[q] # "down"}
            /\ UNCHANGED plan
       ELSE Exit(p) /\ UNCHANGED copy
    /\ UNCHANGED <<table, version, written, stops>>

\* Seeded fault: the copy is not filled.
SkipCopy(p) ==
    /\ pc[p] = "copy" /\ GoTo(p, "drop old")
    /\ UNCHANGED <<database, plan, disturbed, stops>>

CopyRows(p) ==
    LET t == plan[p].at IN
    /\ pc[p] = "copy"
    /\ IF table[t] # Absent /\ copy[t] # Absent /\ Wanted[t] \subseteq table[t].cols
       THEN /\ copy' = [copy EXCEPT ![t].rows = @ \cup table[t].rows]
            /\ GoTo(p, "drop old") /\ UNCHANGED <<plan, disturbed>>
       ELSE Exit(p) /\ UNCHANGED copy
    /\ UNCHANGED <<table, version, written, stops>>

\* With foreign_keys = ON.
MayDrop(t) == ~(t \in Referenced /\ table[t].rows # {})

DropOld(p) ==
    LET t == plan[p].at IN
    /\ pc[p] = "drop old"
    /\ IF table[t] # Absent /\ MayDrop(t)
       THEN /\ table' = [table EXCEPT ![t] = Absent]
            /\ GoTo(p, "rename") /\ UNCHANGED <<plan, disturbed>>
       ELSE Exit(p) /\ UNCHANGED table
    /\ UNCHANGED <<copy, version, written, stops>>

\* The break leaves the other columns of the table: the copy has only wanted ones.
RenameCopy(p) ==
    LET t == plan[p].at IN
    /\ pc[p] = "rename"
    /\ IF table[t] = Absent /\ copy[t] # Absent
       THEN /\ table' = [table EXCEPT ![t] = copy[t]]
            /\ copy' = [copy EXCEPT ![t] = Absent]
            /\ plan' = [plan EXCEPT ![p].drop = {}]
            /\ GoTo(p, "columns") /\ UNCHANGED disturbed
       ELSE Exit(p) /\ UNCHANGED <<table, copy>>
    /\ UNCHANGED <<version, written, stops>>

--------------------------------------------------------------------------------
(* The end of a migration. *)

BeginDrops(p) ==
    /\ Settled(p) /\ plan[p].left = {}
    /\ plan' = [plan EXCEPT ![p].left = DOMAIN plan[p].live \ WantedTables]
    /\ GoTo(p, "drops")
    /\ UNCHANGED <<database, disturbed, stops>>

DropTable(p, t) ==
    /\ pc[p] = "drops" /\ t \in plan[p].left
    /\ IF table[t] = Absent \/ MayDrop(t)
       THEN /\ table' = [table EXCEPT ![t] = Absent]
            /\ plan' = [plan EXCEPT ![p].left = @ \ {t}]
            /\ UNCHANGED <<pc, disturbed>>
       ELSE Exit(p) /\ UNCHANGED table
    /\ UNCHANGED <<copy, version, written, stops>>

\* A copy it found is not a wanted table either, whoever is filling it.
DropCopy(p, t) ==
    /\ pc[p] = "drops" /\ t \in plan[p].copies
    /\ copy' = [copy EXCEPT ![t] = Absent]
    /\ plan' = [plan EXCEPT ![p].copies = @ \ {t}]
    /\ UNCHANGED <<table, version, written, pc, disturbed, stops>>

\* The stale indexes and triggers go and one batch creates the wanted ones, which needs their
\* tables, and records the version.
Finish(p) ==
    /\ pc[p] = "drops" /\ plan[p].left = {} /\ plan[p].copies = {}
    /\ IF \A t \in Indexed : table[t] # Absent
       THEN /\ version' = "new" /\ GoTo(p, "up")
            /\ plan' = [plan EXCEPT ![p] = Blank]
            /\ UNCHANGED disturbed
       ELSE Exit(p) /\ UNCHANGED version
    /\ UNCHANGED <<table, copy, written, stops>>

--------------------------------------------------------------------------------
(* The processes around it. *)

\* A process that serves, of either build, inserts a row.
Insert(p, t) ==
    /\ pc[p] = "up" /\ t \in Busy /\ table[t] # Absent /\ NewRow \notin written[t]
    /\ table' = [table EXCEPT ![t].rows = @ \cup {NewRow}]
    /\ written' = [written EXCEPT ![t] = @ \cup {NewRow}]
    /\ UNCHANGED <<copy, version, pc, plan, disturbed, stops>>

\* A process is stopped or killed.
Stop(p) ==
    /\ pc[p] # "down" /\ stops < MaxStops
    /\ Exit(p)
    /\ stops' = stops + 1
    /\ UNCHANGED database

Step(p) ==
    \/ Start(p) \/ CreateTables(p) \/ Look(p)
    \/ \E t \in Tables : TakeTable(p, t)
    \/ \E c \in Cols : AddColumn(p, c) \/ DropColumn(p, c)
    \/ CreateCopy(p) \/ CopyRows(p) \/ DropOld(p) \/ RenameCopy(p)
    \/ BeginDrops(p) \/ Finish(p)
    \/ \E t \in Tables : DropTable(p, t) \/ DropCopy(p, t)

Next == \E p \in Procs : Step(p) \/ Stop(p) \/ \E t \in Tables : Insert(p, t)

\* Processes run, and the container manager starts one that exited (restart: unless-stopped).
Fairness == \A p \in Procs : WF_vars(Step(p))

Spec == Init /\ [][Next]_vars /\ Fairness

--------------------------------------------------------------------------------
(* Properties. *)

\* Every variable keeps to its domain (schema/logic.rs).
TypeOK ==
    /\ table \in [Tables -> Stored \cup {Absent}]
    /\ copy \in [Tables -> Stored \cup {Absent}]
    /\ version \in {"old", "new"}
    /\ pc \in [Procs -> Migrate \cup {"up", "down"}]
    /\ \A p \in Procs : LET found == plan[p].live IN
        /\ DOMAIN found \subseteq Tables /\ \A t \in DOMAIN found : found[t] \subseteq Cols
        /\ plan[p].copies \subseteq Tables
        /\ plan[p].left \subseteq DOMAIN found
        /\ pc[p] \in {"create copy"} \cup Rebuild => plan[p].at \in WantedTables
        /\ plan[p].add \subseteq Cols /\ plan[p].drop \subseteq Cols
        /\ plan[p].add \cup plan[p].drop # {} => plan[p].at \in WantedTables
    /\ written \in [Tables -> SUBSET {OldRow, NewRow}]
    /\ disturbed \subseteq WantedTables
    /\ stops \in 0..MaxStops

RowsOf(stored) == IF stored = Absent THEN {} ELSE stored.rows

\* A table of the older build that is still wanted keeps every row it was ever given, whatever
\* processes migrate, serve or stop beside each other, unless its rebuild was not left alone; then
\* the rows are in the table or in its copy (schema/logic.rs:681-741, :195-211).
RowsKept ==
    \A t \in WantedTables \ disturbed : written[t] \subseteq RowsOf(table[t]) \cup RowsOf(copy[t])

\* When the version is recorded the schema is there: later starts skip the migration, so nobody
\* would repair it; a process that began earlier may still be rebuilding a table, though
\* (schema/logic.rs:24, :224).
VersionHonest ==
    version = "new" =>
        \A t \in WantedTables \ (disturbed \cup Rebuilding(Procs)) :
            /\ table[t] # Absent
            /\ Wanted[t] \subseteq table[t].cols
            /\ \A c \in table[t].cols \ Wanted[t] : <<t, c>> \in Protected

\* Processes that start together make each other fail, but not for ever: in the end each serves,
\* unless a rebuild was disturbed (turso/client.rs:29).
EachComesUp == \A p \in Procs : <>[](pc[p] = "up" \/ disturbed # {})

================================================================================

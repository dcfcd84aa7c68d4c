------------------------------ MODULE Migrations ------------------------------
(***************************************************************************)
(* Opening the dashboard's database (Database::new, run_migrations in      *)
(* omnivore-core, storage/db.rs, over schema.sql): the tables, then the    *)
(* columns later releases added, then the indexes.  No transaction spans   *)
(* the statements, so a server may stop between any two of them, and a     *)
(* second server may open the same file at the same time.                  *)
(*                                                                         *)
(* Left out: the tables that never gained a column (source_cache,          *)
(* api_keys, sessions, permission_cache) and the types of the columns.     *)
(***************************************************************************)
EXTENDS Naturals, Sequences, FiniteSets

CONSTANTS
    Servers,        \* server processes that open the database file
    OldDatabases,   \* databases left by older releases: [tables, columns]
    MaxStops        \* bound: how often a server stops, or a statement fails

VARIABLES
    tables,    \* the tables there are
    columns,   \* which of the columns added since the first release there are
    seeded,    \* the settings table has its row
    indexes,   \* the indexes there are
    server,    \* where each server is in its startup
    stops      \* stops and failures so far

vars == <<tables, columns, seeded, indexes, server, stops>>

SchemaTables == <<"projects", "coverage_snapshots", "settings">>

\* The guarded ALTER TABLEs, in their order; a guard asks for the first column.
Migrations == <<
    [table |-> "coverage_snapshots", columns |-> <<"dependencies_json">>],
    [table |-> "coverage_snapshots", columns |-> <<"source">>],
    [table |-> "projects", columns |-> <<"github_repo">>],
    [table |-> "projects", columns |-> <<"source_root">>],
    [table |-> "projects", columns |-> <<"line_threshold", "branch_threshold">>],
    [table |-> "projects",
     columns |-> <<"line_warn_threshold", "branch_warn_threshold">>],
    [table |-> "settings",
     columns |-> <<"default_line_warn_threshold", "default_branch_warn_threshold">>],
    [table |-> "settings", columns |-> <<"retention_full", "retention_summary">>],
    [table |-> "projects", columns |-> <<"tags">>],
    [table |-> "projects",
     columns |-> <<"ratchet_enabled", "ratchet_line_floor", "ratchet_branch_floor">>]>>

\* The late columns each index is over: idx_snapshots_project, idx_snapshots_series.
Indexes == <<{}, {"source"}>>

ColumnsOf(m) == {m.columns[i] : i \in DOMAIN m.columns}
LateColumns(t) ==
    UNION {ColumnsOf(Migrations[g]) : g \in {g \in DOMAIN Migrations : Migrations[g].table = t}}
AllColumns == UNION {ColumnsOf(Migrations[g]) : g \in DOMAIN Migrations}
AllTables == {SchemaTables[i] : i \in DOMAIN SchemaTables}

Phases == {"down", "tables", "seed", "check", "alter", "indexes", "ready", "failed"}
Counts == 1..(Len(Migrations) + 1)
Position == [phase: Phases, n: Counts, column: Counts]

\* A release has the columns of the tables it has, and all or none of those
\* that came together.
Release(old) ==
    /\ old.columns \subseteq UNION {LateColumns(t) : t \in old.tables}
    /\ \A g \in DOMAIN Migrations : \/ ColumnsOf(Migrations[g]) \subseteq old.columns
                                   \/ ColumnsOf(Migrations[g]) \cap old.columns = {}

ASSUME MigrationsAssumption ==
    /\ Servers # {}
    /\ MaxStops \in Nat
    /\ OldDatabases \subseteq [tables: SUBSET AllTables, columns: SUBSET AllColumns]
    /\ \A old \in OldDatabases : Release(old)

TypeOK ==
    /\ tables \subseteq AllTables
    /\ columns \subseteq UNION {LateColumns(t) : t \in tables}
    /\ seeded => "settings" \in tables
    /\ indexes \subseteq DOMAIN Indexes
    /\ server \in [Servers -> Position]
    /\ stops \in 0..MaxStops

Init ==
    /\ \E old \in OldDatabases :
          /\ tables = old.tables
          /\ columns = old.columns
          /\ seeded = ("settings" \in old.tables)
    /\ indexes = {}
    /\ server = [s \in Servers |-> [phase |-> "down", n |-> 1, column |-> 1]]
    /\ stops = 0

-----------------------------------------------------------------------------
In(s, phase) == server[s].phase = phase
Starting(s) == server[s].phase \notin {"down", "ready", "failed"}

Enter(s, phase, n) ==
    server' = [server EXCEPT ![s] = [phase |-> phase, n |-> n, column |-> 1]]

\* Mutant of Following: schema.sql is executed whole, before the ALTERs.
FollowingEager(phase) ==
    CASE phase = "tables" -> "seed" [] phase = "seed" -> "indexes"
      [] phase = "indexes" -> "check" [] phase = "check" -> "ready"

\* The three phases: tables and seed row, guarded ALTERs, indexes.
Following(phase) ==
    CASE phase = "tables" -> "seed" [] phase = "seed" -> "check"
      [] phase = "check" -> "indexes" [] phase = "indexes" -> "ready"

\* To the next statement of a phase of `length` statements, or past it.
Advance(s, phase, length) ==
    IF server[s].n < length THEN Enter(s, phase, server[s].n + 1)
    ELSE Enter(s, Following(phase), 1)

\* A server is started, again after a stop (restart: unless-stopped).
Start(s) ==
    /\ server[s].phase \in {"down", "failed"}
    /\ Enter(s, "tables", 1)
    /\ UNCHANGED <<tables, columns, seeded, indexes, stops>>

\* Mutant of CreateTable: tables are created on a fresh file only.
CreateTableFresh(s) ==
    /\ In(s, "tables")
    /\ tables' = IF tables = {} THEN AllTables ELSE tables
    /\ columns' = IF tables = {} THEN AllColumns ELSE columns
    /\ Advance(s, "tables", Len(SchemaTables))
    /\ UNCHANGED <<seeded, indexes, stops>>

\* CREATE TABLE IF NOT EXISTS: a new table has every column, an old one keeps
\* the columns it has.
CreateTable(s) ==
    /\ In(s, "tables")
    /\ LET t == SchemaTables[server[s].n]
       IN  /\ tables' = tables \union {t}
           /\ columns' = IF t \in tables THEN columns ELSE columns \union LateColumns(t)
    /\ Advance(s, "tables", Len(SchemaTables))
    /\ UNCHANGED <<seeded, indexes, stops>>

\* INSERT OR IGNORE INTO settings (id) VALUES (1)
SeedSettings(s) ==
    /\ In(s, "seed")
    /\ seeded' = TRUE
    /\ Advance(s, "seed", 1)
    /\ UNCHANGED <<tables, columns, indexes, stops>>

\* Mutant of Missing: the guard is left out.
MissingAlways(column) == TRUE

\* What a guard finds out: SELECT COUNT(*) FROM pragma_table_info(...)
Missing(column) == column \notin columns

CheckGuard(s) ==
    /\ In(s, "check")
    /\ IF Missing(Migrations[server[s].n].columns[1])
       THEN Enter(s, "alter", server[s].n)
       ELSE Advance(s, "check", Len(Migrations))
    /\ UNCHANGED <<tables, columns, seeded, indexes, stops>>

\* Mutant of AfterColumn: only the first column of a guard is added.
AfterColumnFirst(s) == Advance(s, "check", Len(Migrations))

AfterColumn(s) ==
    IF server[s].column < Len(Migrations[server[s].n].columns)
    THEN server' = [server EXCEPT ![s].column = @ + 1]
    ELSE Advance(s, "check", Len(Migrations))

\* ALTER TABLE ... ADD COLUMN; a column that is there is an error, and the
\* server exits.
AddColumn(s) ==
    /\ In(s, "alter")
    /\ LET column == Migrations[server[s].n].columns[server[s].column]
       IN  IF column \in columns
           THEN /\ Enter(s, "failed", 1)
                /\ UNCHANGED columns
           ELSE /\ columns' = columns \union {column}
                /\ AfterColumn(s)
    /\ UNCHANGED <<tables, seeded, indexes, stops>>

\* CREATE INDEX IF NOT EXISTS; a column that is not there is an error.
CreateIndex(s) ==
    /\ In(s, "indexes")
    /\ IF server[s].n \in indexes \/ Indexes[server[s].n] \subseteq columns
       THEN /\ indexes' = indexes \union {server[s].n}
            /\ Advance(s, "indexes", Len(Indexes))
       ELSE /\ Enter(s, "failed", 1)
            /\ UNCHANGED indexes
    /\ UNCHANGED <<tables, columns, seeded, stops>>

\* The process is stopped, or a statement fails and it exits (main: `?`).
Stop(s) ==
    /\ stops < MaxStops
    /\ stops' = stops + 1
    /\ Starting(s) \/ In(s, "ready")
    /\ Enter(s, "down", 1)
    /\ UNCHANGED <<tables, columns, seeded, indexes>>

\* The SELECT of a guard fails: unwrap_or(0) takes the column for missing.
GuardUnread(s) ==
    /\ stops < MaxStops
    /\ stops' = stops + 1
    /\ In(s, "check")
    /\ Enter(s, "alter", server[s].n)
    /\ UNCHANGED <<tables, columns, seeded, indexes>>

Step(s) ==
    \/ CreateTable(s) \/ SeedSettings(s) \/ CheckGuard(s) \/ AddColumn(s)
    \/ CreateIndex(s)

Next == \E s \in Servers : Start(s) \/ Step(s) \/ Stop(s) \/ GuardUnread(s)

Spec == Init /\ [][Next]_vars

\* A started server goes on, and one that is down is started again.
FairSpec == Spec /\ \A s \in Servers : WF_vars(Start(s) \/ Step(s))

-----------------------------------------------------------------------------
AllReady == \A s \in Servers : In(s, "ready")
SchemaComplete ==
    /\ tables = AllTables
    /\ columns = AllColumns
    /\ seeded
    /\ indexes = DOMAIN Indexes

\* Whatever release left the database behind, and however two servers that
\* open it together interleave, the schema is the one of schema.sql when they
\* are up, as long as nothing stops.
UpgradeComplete == stops = 0 /\ AllReady => SchemaComplete

\* An older database never keeps every server down ("Starting against a
\* database created by an older Omnivore must work"): a server that loses the
\* race for a column leaves another one that goes on.
OneServerStands == stops = 0 => \E s \in Servers : ~In(s, "failed")

\* Every server comes up in the end and stays up, whatever was stopped where.
ServersComeUp == \A s \in Servers : <>[]In(s, "ready")

\* What a guard's comment says ("add retention columns to settings if
\* missing"): once the servers are up no column is missing, also when an
\* earlier startup was cut short.
MigratedSchemaComplete == AllReady => columns = AllColumns
=============================================================================

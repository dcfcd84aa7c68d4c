----------------------------- MODULE CoverageDb -----------------------------
(***************************************************************************)
(* The SQLite database of the Omnivore dashboard (omnivore-core,           *)
(* storage/db.rs and schema.sql): the rows that ingest and the settings    *)
(* pages write, and one operator per SQL statement.  A statement runs in   *)
(* its own transaction, so each operator is one atomic change of the       *)
(* tables; what runs between two statements of a handler is up to the      *)
(* module that calls them (Ingest).                                        *)
(*                                                                         *)
(* Simplifications:                                                        *)
(*   - a coverage rate is a natural number, since the code only compares   *)
(*     rates with floors and takes maxima;                                 *)
(*   - a (target, source) pair is one value, a series;                     *)
(*   - a branch name stands for its ASCII case folding, which is how       *)
(*     RatchetPolicy compares it;                                          *)
(*   - columns nothing here depends on (names, thresholds, tags, commit,   *)
(*     counts of lines) are left out.                                      *)
(***************************************************************************)
EXTENDS Integers, FiniteSets

CONSTANTS
    Requests,          \* HTTP requests; a snapshot's UUID is that of its request
    ProjectIds,
    Series,            \* (target, source) pairs
    Branches,
    KeyIds,            \* API keys that may ever be issued
    Rates,             \* coverage rates, as natural numbers
    ReleaseBranches,   \* RatchetPolicy.branches
    RequireBranch,     \* RatchetPolicy.require_branch
    DefaultRetention,  \* GlobalSettings::default(): 30 full, 60 summary
    IntMax,            \* the largest i64
    NoProject, NoFloor, NoBranch, NoRow, Global, Unissued, Revoked

VARIABLES
    projects,   \* table projects, by id
    snapshots,  \* table coverage_snapshots, by the id of the ingest request
    api_keys,   \* table api_keys, by id
    settings    \* the single row of table settings

db == <<projects, snapshots, api_keys, settings>>

Metrics == {"line", "branch"}
Rate == [Metrics -> Rates]
Floor == [Metrics -> Rates \union {NoFloor}]
Project == [ratchet: BOOLEAN, floor: Floor]
Snapshot == [project: ProjectIds, series: Series, created: Nat, files: BOOLEAN]
ApiKey == [scope: ProjectIds \union {Global}, used: BOOLEAN]
Retention == [full: Int, summary: Int]

ASSUME ConstantsAssumption ==
    /\ Rates \subseteq Nat
    /\ 0 \in Rates
    /\ ReleaseBranches \subseteq Branches
    /\ RequireBranch \in BOOLEAN
    /\ DefaultRetention \in Retention
    /\ IntMax \in Nat

ASSUME SentinelsAssumption ==
    /\ NoFloor \notin Rates
    /\ NoBranch \notin Branches
    /\ NoProject \notin Project
    /\ NoRow \notin Snapshot
    /\ Global \notin ProjectIds
    /\ {Unissued, Revoked} \intersect ApiKey = {}

DbTypeOK ==
    /\ projects \in [ProjectIds -> Project \union {NoProject}]
    /\ snapshots \in [Requests -> Snapshot \union {NoRow}]
    /\ api_keys \in [KeyIds -> ApiKey \union {Unissued, Revoked}]
    /\ settings \in Retention

Exists(p) == projects[p] # NoProject
Live(k) == api_keys[k] \notin {Unissued, Revoked}
Stored(id) == snapshots[id] # NoRow

-----------------------------------------------------------------------------
(* Projects *)

\* A row created by ingest or by the API starts with the ratchet off.
NewProject == [ratchet |-> FALSE, floor |-> [m \in Metrics |-> NoFloor]]

\* create_project: the INSERT.  The primary key refuses an id in use.
InsertProject(p) ==
    /\ ~Exists(p)
    /\ projects' = [projects EXCEPT ![p] = NewProject]
    /\ UNCHANGED <<snapshots, api_keys, settings>>

\* delete_project: one transaction over the three tables.
DeleteProject(p) ==
    /\ snapshots' = [id \in Requests |->
                        IF Stored(id) /\ snapshots[id].project = p
                        THEN NoRow ELSE snapshots[id]]
    /\ api_keys' = [k \in KeyIds |->
                        IF Live(k) /\ api_keys[k].scope = p
                        THEN Revoked ELSE api_keys[k]]
    /\ projects' = [projects EXCEPT ![p] = NoProject]
    /\ UNCHANGED settings

\* update_project_ratchet: overwrites the three columns; no row, no change.
UpdateRatchet(p, enabled, floor) ==
    /\ projects' = IF Exists(p)
                   THEN [projects EXCEPT ![p] =
                            [ratchet |-> enabled, floor |-> floor]]
                   ELSE projects
    /\ UNCHANGED <<snapshots, api_keys, settings>>

\* Mutant of Higher: without COALESCE, MAX(NULL, rate) is NULL.
HigherNoCoalesce(floor, rate) ==
    IF floor = NoFloor THEN NoFloor ELSE IF rate > floor THEN rate ELSE floor

\* Mutant of Higher: the floor follows the rate down as well.
HigherAssigns(floor, rate) == rate

\* SQL: MAX(COALESCE(floor, 0), rate)
Higher(floor, rate) ==
    LET base == IF floor = NoFloor THEN 0 ELSE floor
    IN  IF rate > base THEN rate ELSE base

\* Mutant of AdvanceRatchetFloor: the two rates are bound in the wrong order.
AdvanceRatchetFloorSwapped(p, rate) ==
    /\ projects' =
         IF Exists(p) /\ projects[p].ratchet
         THEN [projects EXCEPT ![p].floor =
                  [m \in Metrics |->
                     Higher(projects[p].floor[m],
                            rate[IF m = "line" THEN "branch" ELSE "line"])]]
         ELSE projects
    /\ UNCHANGED <<snapshots, api_keys, settings>>

\* advance_ratchet_floor: one UPDATE ... WHERE id = ? AND ratchet_enabled = 1
AdvanceRatchetFloor(p, rate) ==
    /\ projects' =
         IF Exists(p) /\ projects[p].ratchet
         THEN [projects EXCEPT ![p].floor =
                  [m \in Metrics |-> Higher(projects[p].floor[m], rate[m])]]
         ELSE projects
    /\ UNCHANGED <<snapshots, api_keys, settings>>

\* Mutant of Allows: every branch may raise the floor.
AllowsAny(branch) == TRUE

\* RatchetPolicy::allows
Allows(branch) ==
    IF branch = NoBranch THEN ~RequireBranch ELSE branch \in ReleaseBranches

-----------------------------------------------------------------------------
(* Snapshots *)

\* Mutant of InsertSnapshot: foreign keys are off on this connection.
InsertSnapshotUnchecked(id, p, series, created) ==
    /\ snapshots' = [snapshots EXCEPT ![id] =
                        [project |-> p, series |-> series,
                         created |-> created, files |-> TRUE]]
    /\ UNCHANGED <<projects, api_keys, settings>>

\* insert_snapshot; the foreign key wants the project's row to be there.
InsertSnapshot(id, p, series, created) ==
    /\ Exists(p)
    /\ snapshots' = [snapshots EXCEPT ![id] =
                        [project |-> p, series |-> series,
                         created |-> created, files |-> TRUE]]
    /\ UNCHANGED <<projects, api_keys, settings>>

InSeries(id, p, series) ==
    /\ Stored(id)
    /\ snapshots[id].project = p
    /\ snapshots[id].series = series

\* Mutant of BeyondOffset: one row more than the limit survives.
BeyondOffsetByOne(p, series, n) ==
    {id \in Requests :
        /\ InSeries(id, p, series)
        /\ Cardinality({o \in Requests :
              /\ InSeries(o, p, series)
              /\ snapshots[o].created > snapshots[id].created}) > n}

\* Mutant of BeyondOffset: the order is over all series of the project.
BeyondOffsetMixed(p, series, n) ==
    {id \in Requests :
        /\ InSeries(id, p, series)
        /\ Cardinality({o \in Requests :
              /\ Stored(o)
              /\ snapshots[o].project = p
              /\ snapshots[o].created > snapshots[id].created}) >= n}

\* The ids that ORDER BY created_at DESC LIMIT -1 OFFSET n selects within a
\* series: those with at least n newer rows (a negative offset counts as 0).
BeyondOffset(p, series, n) ==
    {id \in Requests :
        /\ InSeries(id, p, series)
        /\ Cardinality({o \in Requests :
              /\ InSeries(o, p, series)
              /\ snapshots[o].created > snapshots[id].created}) >= n}

\* prune_snapshots, first statement: UPDATE ... SET files_json = NULL
StripFiles(p, series, full) ==
    LET old == BeyondOffset(p, series, full)
    IN  /\ snapshots' = [id \in Requests |->
                            IF id \in old
                            THEN [snapshots[id] EXCEPT !.files = FALSE]
                            ELSE snapshots[id]]
        /\ UNCHANGED <<projects, api_keys, settings>>

\* prune_snapshots, second statement: DELETE
DeleteOld(p, series, total) ==
    LET old == BeyondOffset(p, series, total)
    IN  /\ snapshots' = [id \in Requests |->
                            IF id \in old THEN NoRow ELSE snapshots[id]]
        /\ UNCHANGED <<projects, api_keys, settings>>

\* The sum of two i64 in a release build, which wraps around.
Add64(a, b) ==
    IF a + b > IntMax THEN (a + b) - 2 * (IntMax + 1) ELSE a + b

-----------------------------------------------------------------------------
(* API keys and settings *)

\* create_api_key.  A key's id and secret are random: never issued twice.
InsertApiKey(k, scope) ==
    /\ api_keys[k] = Unissued
    /\ scope # Global => Exists(scope)
    /\ api_keys' = [api_keys EXCEPT ![k] = [scope |-> scope, used |-> FALSE]]
    /\ UNCHANGED <<projects, snapshots, settings>>

\* delete_api_key
DeleteApiKey(k) ==
    /\ Live(k)
    /\ api_keys' = [api_keys EXCEPT ![k] = Revoked]
    /\ UNCHANGED <<projects, snapshots, settings>>

\* validate_api_key, second statement: UPDATE ... SET last_used_at
TouchApiKey(k) ==
    /\ api_keys' = IF Live(k) THEN [api_keys EXCEPT ![k].used = TRUE]
                   ELSE api_keys
    /\ UNCHANGED <<projects, snapshots, settings>>

\* update_global_settings
UpdateSettings(retention) ==
    /\ settings' = retention
    /\ UNCHANGED <<projects, snapshots, api_keys>>

=============================================================================

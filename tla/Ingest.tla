------------------------------- MODULE Ingest -------------------------------
(***************************************************************************)
(* The write path of the dashboard: the ingest and create-project handlers *)
(* (routes/coverage.rs, routes/projects.rs) with the API-key check they    *)
(* share (routes/api_auth.rs) and Database::ingest_snapshot, next to the   *)
(* settings pages that change the same rows (routes/settings.rs).          *)
(*                                                                         *)
(* A handler is an async function over a pool of connections and takes no  *)
(* lock: at every await another request may run.  One action is the code   *)
(* from one await to the next, so each holds at most one SQL statement of  *)
(* CoverageDb; req[r].pc names the await at which request r is suspended.  *)
(*                                                                         *)
(* Left to other parts of the system: the rate limiter in front of ingest, *)
(* the pull-request comment after it, and who may use the settings pages.  *)
(***************************************************************************)
EXTENDS CoverageDb

CONSTANTS
    Calls,             \* what clients send: a set of Call
    RequireApiKey,     \* OMNIVORE_REQUIRE_API_KEY
    AllowAutocreate,   \* OMNIVORE_ALLOW_PROJECT_AUTOCREATE
    NoKey,             \* a request without X-API-Key
    Open,              \* authenticate_write's Ok(None)
    NoCall,            \* a request not sent yet
    Blank,             \* an empty or unparsable form field
    RatchetForms,      \* what the project settings form submits
    RetentionForms,    \* what the global settings form submits
    Deletable,         \* projects somebody may delete
    Faults,            \* may a statement fail (pool timeout, I/O error)?
    MayBreak,          \* may a client hang up or the server restart?
    InitialProjects,   \* the projects table at the start
    InitialSettings    \* the settings row at the start

Call == [op: {"ingest", "create"}, project: ProjectIds, series: Series,
         branch: Branches \union {NoBranch}, rate: Rate]
RatchetForm == [enabled: BOOLEAN, floor: Floor]
RetentionForm == [full: Int \union {Blank}, summary: Int \union {Blank}]

ASSUME IngestAssumption ==
    /\ Calls \subseteq Call
    /\ {RequireApiKey, AllowAutocreate, Faults, MayBreak} \subseteq BOOLEAN
    /\ RatchetForms \subseteq RatchetForm
    /\ RetentionForms \subseteq RetentionForm
    /\ Deletable \subseteq ProjectIds
    /\ InitialProjects \subseteq [ProjectIds -> Project \union {NoProject}]
    /\ InitialSettings \subseteq Retention
    /\ NoKey \notin KeyIds
    /\ Open \notin ProjectIds \union {Global}
    /\ NoCall \notin Call
    /\ Blank \notin Int

VARIABLES
    req,    \* the requests and the locals of their handlers
    clock   \* the wall clock, as far as created_at needs it

vars == <<db, req, clock>>

\* Where a handler is suspended; each of these awaits a statement.
Awaits == {"keys", "validate", "touch", "known", "lookup", "create",
           "readback", "insert", "ratchet", "advance", "retention",
           "strip", "delete"}
InFlight == Awaits \union {"parse"}
Pc == InFlight \union {"idle", "done", "lost"}
Statuses == {0, 201, 400, 401, 403, 404, 409, 500}
Limits == [full: Int, total: Int]

Request == [
    pc: Pc,
    call: Calls \union {NoCall},
    key: KeyIds \union {NoKey},
    scope: ProjectIds \union {Global, Open},
    created: Nat,               \* snapshot.created_at
    warned: SUBSET Metrics,     \* RatchetResult.*_floor_violated
    limits: Limits,             \* what prune_snapshots read
    status: Statuses,           \* the answer, 0 before there is one
    inserted: BOOLEAN,          \* auxiliary: the snapshot was stored once
    after: SUBSET Requests]     \* auxiliary: answered before this was sent

Idle == [pc |-> "idle", call |-> NoCall, key |-> NoKey, scope |-> Open,
         created |-> 0, warned |-> {}, limits |-> [full |-> 0, total |-> 0],
         status |-> 0, inserted |-> FALSE, after |-> {}]

TypeOK ==
    /\ DbTypeOK
    /\ req \in [Requests -> Request]
    /\ clock \in Nat
    /\ \A r \in Requests : req[r].pc # "idle" => req[r].call # NoCall

Init ==
    /\ projects \in InitialProjects
    /\ snapshots = [id \in Requests |-> NoRow]
    /\ api_keys = [k \in KeyIds |-> Unissued]
    /\ settings \in InitialSettings
    /\ req = [r \in Requests |-> Idle]
    /\ clock = 0

At(r, pc) == req[r].pc = pc
Target(r) == req[r].call.project
RateOf(r) == req[r].call.rate
IsIngest(r) == req[r].call.op = "ingest"
Answered(r) == req[r].pc = "done"

Goto(r, pc) == req' = [req EXCEPT ![r].pc = pc]
Reply(r, status) == req' = [req EXCEPT ![r].pc = "done", ![r].status = status]

-----------------------------------------------------------------------------
(* Authentication and parsing, shared by the two handlers *)

\* A client sends a call with a key it was given once, or with none.
Receive(r) ==
    /\ At(r, "idle")
    /\ \E c \in Calls, k \in {k \in KeyIds : api_keys[k] # Unissued} \union {NoKey} :
          req' = [req EXCEPT
                    ![r].pc = IF RequireApiKey THEN "validate" ELSE "keys",
                    ![r].call = c,
                    ![r].key = k,
                    ![r].after = {q \in Requests : Answered(q)}]
    /\ UNCHANGED <<db, clock>>

\* any_api_keys_exist: without a key in the table the instance is open.
AnyApiKeysExist(r) ==
    /\ At(r, "keys")
    /\ Goto(r, IF \E k \in KeyIds : Live(k) THEN "validate" ELSE "parse")
    /\ UNCHANGED <<db, clock>>

\* validate_api_key, the SELECT by hash; no header and no row are both 401.
ValidateApiKey(r) ==
    /\ At(r, "validate")
    /\ IF req[r].key # NoKey /\ Live(req[r].key)
       THEN req' = [req EXCEPT ![r].pc = "touch",
                               ![r].scope = api_keys[req[r].key].scope]
       ELSE Reply(r, 401)
    /\ UNCHANGED <<db, clock>>

\* validate_api_key, the UPDATE of last_used_at.
MarkKeyUsed(r) ==
    /\ At(r, "touch")
    /\ TouchApiKey(req[r].key)
    /\ Goto(r, "parse")
    /\ UNCHANGED clock

\* A body that does not parse, or a repository slug that is malformed.
RefuseBody(r) ==
    /\ At(r, "parse")
    /\ Reply(r, 400)
    /\ UNCHANGED <<db, clock>>

\* Mutant of InScope: the scope of the key is not looked at.
InScopeAny(r) == TRUE

InScope(r) == req[r].scope \in {Open, Global, Target(r)}

\* enforce_project_scope
RefuseScope(r) ==
    /\ At(r, "parse")
    /\ ~InScope(r)
    /\ Reply(r, 403)
    /\ UNCHANGED <<db, clock>>

\* The parser stamps created_at; enforce_project_scope lets the call through.
ParseIngest(r) ==
    /\ At(r, "parse")
    /\ IsIngest(r)
    /\ InScope(r)
    /\ clock' = clock + 1
    /\ req' = [req EXCEPT ![r].pc = IF AllowAutocreate THEN "lookup" ELSE "known",
                          ![r].created = clock + 1]
    /\ UNCHANGED db

ParseCreate(r) ==
    /\ At(r, "parse")
    /\ ~IsIngest(r)
    /\ InScope(r)
    /\ Goto(r, "create")
    /\ UNCHANGED <<db, clock>>

\* Closed mode: the handler looks the project up before it ingests.
RequireKnownProject(r) ==
    /\ At(r, "known")
    /\ IF Exists(Target(r)) THEN Goto(r, "lookup") ELSE Reply(r, 404)
    /\ UNCHANGED <<db, clock>>

-----------------------------------------------------------------------------
(* Database::ingest_snapshot *)

\* Mutant of LookupProject: closed mode is forgotten behind the handler.
LookupProjectOpen(r) ==
    /\ At(r, "lookup")
    /\ Goto(r, IF Exists(Target(r)) THEN "insert" ELSE "create")
    /\ UNCHANGED <<db, clock>>

\* get_project; an unknown project is created, or refused in closed mode.
LookupProject(r) ==
    /\ At(r, "lookup")
    /\ IF Exists(Target(r)) THEN Goto(r, "insert")
       ELSE IF AllowAutocreate THEN Goto(r, "create")
       ELSE Reply(r, 500)
    /\ UNCHANGED <<db, clock>>

\* How a failing statement is answered: create_project maps any error to 409.
ErrorStatus(r) ==
    IF ~IsIngest(r) /\ req[r].pc \in {"create", "readback"} THEN 409 ELSE 500

\* create_project, the INSERT.
CreateProject(r) ==
    /\ At(r, "create")
    /\ InsertProject(Target(r))
    /\ Goto(r, "readback")
    /\ UNCHANGED clock

\* The INSERT hits the primary key: another request created the project.
CreateConflict(r) ==
    /\ At(r, "create")
    /\ Exists(Target(r))
    /\ Reply(r, ErrorStatus(r))
    /\ UNCHANGED <<db, clock>>

\* create_project, the SELECT behind the INSERT (RowNotFound if deleted).
ReadBackProject(r) ==
    /\ At(r, "readback")
    /\ IF ~Exists(Target(r)) THEN Reply(r, ErrorStatus(r))
       ELSE IF IsIngest(r) THEN Goto(r, "insert")
       ELSE Reply(r, 201)
    /\ UNCHANGED <<db, clock>>

\* insert_snapshot
StoreSnapshot(r) ==
    /\ At(r, "insert")
    /\ InsertSnapshot(r, Target(r), req[r].call.series, req[r].created)
    /\ req' = [req EXCEPT ![r].pc = "ratchet", ![r].inserted = TRUE]
    /\ UNCHANGED clock

\* Mutant of StoreOrphan: the failed INSERT is tried again for ever.
StoreOrphanRetries(r) ==
    /\ At(r, "insert")
    /\ ~Exists(Target(r))
    /\ UNCHANGED vars

\* insert_snapshot fails on its foreign key: the project was deleted.
StoreOrphan(r) ==
    /\ At(r, "insert")
    /\ ~Exists(Target(r))
    /\ Reply(r, 500)
    /\ UNCHANGED <<db, clock>>

Violated(r) ==
    {m \in Metrics :
        LET floor == projects[Target(r)].floor[m]
        IN  floor # NoFloor /\ RateOf(r)[m] < floor}

\* Mutant of CheckRatchet: only builds that may raise a floor are judged.
CheckRatchetRelease(r) ==
    /\ At(r, "ratchet")
    /\ IF /\ Exists(Target(r))
          /\ projects[Target(r)].ratchet
          /\ Allows(req[r].call.branch)
       THEN req' = [req EXCEPT ![r].pc = "advance", ![r].warned = Violated(r)]
       ELSE Goto(r, "retention")
    /\ UNCHANGED <<db, clock>>

\* The second get_project: the verdict, on the floors as they are now, and
\* whether this snapshot may raise them.
CheckRatchet(r) ==
    /\ At(r, "ratchet")
    /\ IF Exists(Target(r)) /\ projects[Target(r)].ratchet
       THEN req' = [req EXCEPT
                      ![r].pc = IF Allows(req[r].call.branch) THEN "advance"
                                ELSE "retention",
                      ![r].warned = Violated(r)]
       ELSE Goto(r, "retention")
    /\ UNCHANGED <<db, clock>>

AdvanceRatchet(r) ==
    /\ At(r, "advance")
    /\ AdvanceRatchetFloor(Target(r), RateOf(r))
    /\ Goto(r, "retention")
    /\ UNCHANGED clock

LimitsOf(s) == [full |-> s.full, total |-> Add64(s.full, s.summary)]

\* get_global_settings().unwrap_or_default()
ReadRetention(r) ==
    /\ At(r, "retention")
    /\ \/ req' = [req EXCEPT ![r].pc = "strip",
                             ![r].limits = LimitsOf(settings)]
       \/ /\ Faults
          /\ req' = [req EXCEPT ![r].pc = "strip",
                                ![r].limits = LimitsOf(DefaultRetention)]
    /\ UNCHANGED <<db, clock>>

Strip(r) ==
    /\ At(r, "strip")
    /\ StripFiles(Target(r), req[r].call.series, req[r].limits.full)
    /\ Goto(r, "delete")
    /\ UNCHANGED clock

Delete(r) ==
    /\ At(r, "delete")
    /\ DeleteOld(Target(r), req[r].call.series, req[r].limits.total)
    /\ Reply(r, 201)
    /\ UNCHANGED clock

\* Any other statement may fail; the request ends, what it stored stays.
StatementFails(r) ==
    /\ Faults
    /\ req[r].pc \in Awaits \ {"retention"}
    /\ Reply(r, ErrorStatus(r))
    /\ UNCHANGED <<db, clock>>

-----------------------------------------------------------------------------
(* Requests that end without an answer *)

\* The client hangs up and the server drops the handler's future.
HangUp(r) ==
    /\ MayBreak
    /\ req[r].pc \in InFlight
    /\ Goto(r, "lost")
    /\ UNCHANGED <<db, clock>>

\* The server restarts; the database file keeps every finished statement.
Restart ==
    /\ MayBreak
    /\ \E r \in Requests : req[r].pc \in InFlight
    /\ req' = [r \in Requests |-> IF req[r].pc \in InFlight
                                  THEN [req[r] EXCEPT !.pc = "lost"]
                                  ELSE req[r]]
    /\ UNCHANGED <<db, clock>>

-----------------------------------------------------------------------------
(* The settings pages.  Each handler runs one statement (DeleteProject one *)
(* transaction), so each is one action.                                    *)

\* Mutant of Field: a blank field is stored as it is.
FieldAsIs(v, least, default) == v

Field(v, least, default) ==
    IF v = Blank THEN default ELSE IF v < least THEN least ELSE v

SaveSettings ==
    /\ \E f \in RetentionForms :
          UpdateSettings([
             full |-> Field(f.full, 1, DefaultRetention.full),
             summary |-> Field(f.summary, 0, DefaultRetention.summary)])
    /\ UNCHANGED <<req, clock>>

SaveProjectRatchet ==
    /\ \E p \in ProjectIds, f \in RatchetForms :
          UpdateRatchet(p, f.enabled, f.floor)
    /\ UNCHANGED <<req, clock>>

RemoveProject ==
    /\ \E p \in Deletable : DeleteProject(p)
    /\ UNCHANGED <<req, clock>>

IssueApiKey ==
    /\ \E k \in KeyIds, scope \in ProjectIds \union {Global} :
          InsertApiKey(k, scope)
    /\ UNCHANGED <<req, clock>>

RevokeApiKey ==
    /\ \E k \in KeyIds : DeleteApiKey(k)
    /\ UNCHANGED <<req, clock>>

-----------------------------------------------------------------------------
Step(r) ==
    \/ AnyApiKeysExist(r) \/ ValidateApiKey(r) \/ MarkKeyUsed(r)
    \/ RefuseBody(r) \/ RefuseScope(r) \/ ParseIngest(r) \/ ParseCreate(r)
    \/ RequireKnownProject(r) \/ LookupProject(r)
    \/ CreateProject(r) \/ CreateConflict(r) \/ ReadBackProject(r)
    \/ StoreSnapshot(r) \/ StoreOrphan(r)
    \/ CheckRatchet(r) \/ AdvanceRatchet(r)
    \/ ReadRetention(r) \/ Strip(r) \/ Delete(r)
    \/ StatementFails(r)

Admin ==
    \/ SaveSettings \/ SaveProjectRatchet \/ RemoveProject
    \/ IssueApiKey \/ RevokeApiKey

Next ==
    \/ \E r \in Requests : Receive(r) \/ Step(r) \/ HangUp(r)
    \/ Restart
    \/ Admin

Spec == Init /\ [][Next]_vars

\* The runtime polls every ready handler, and a statement ends: with its
\* result, or with the error of its timeout.
FairSpec == Spec /\ \A r \in Requests : WF_vars(Step(r))

-----------------------------------------------------------------------------
(* Safety *)

\* Every stored snapshot belongs to a project that exists, and every key that
\* is scoped to a project is scoped to one that exists, whatever runs while
\* the project is deleted (db.rs: scoped keys "must not outlive it").
ReferencesResolve ==
    /\ \A id \in Requests : Stored(id) => Exists(snapshots[id].project)
    /\ \A k \in KeyIds :
          Live(k) => api_keys[k].scope \in {Global} \union {p \in ProjectIds : Exists(p)}

\* A snapshot is stored only for a call that the key check of this instance
\* lets through: with a key for the project or for all of them, or with none
\* while no key is demanded.
WritesAuthorised ==
    \A r \in Requests :
        req[r].inserted =>
            \/ req[r].scope \in {Global, Target(r)}
            \/ req[r].scope = Open /\ ~RequireApiKey

ReleaseLine == ReleaseBranches \union (IF RequireBranch THEN {} ELSE {NoBranch})
IsRelease(r) == IsIngest(r) /\ req[r].call.branch \in ReleaseLine
Succeeded(r) == Answered(r) /\ req[r].status = 201

\* A floor never comes out of nowhere: it was there at the start, an
\* administrator entered it, or it is the rate of a snapshot of that project
\* that was stored and is on the release line ("only a release-line build may
\* raise the floor").
FloorProvenance ==
    \A p \in ProjectIds : Exists(p) =>
        \A m \in Metrics :
            \/ projects[p].floor[m] = NoFloor
            \/ \E f \in RatchetForms : f.floor[m] = projects[p].floor[m]
            \/ \E i \in InitialProjects :
                  i[p] # NoProject /\ i[p].floor[m] = projects[p].floor[m]
            \/ \E r \in Requests :
                  /\ req[r].inserted
                  /\ IsRelease(r)
                  /\ Target(r) = p
                  /\ RateOf(r)[m] = projects[p].floor[m]

\* No administrator touches a ratchet or deletes a project.
Undisturbed == RatchetForms = {} /\ Deletable = {}

Ratcheted(p) == Exists(p) /\ projects[p].ratchet

\* No raise is lost: once a release build is answered with 201 the floor of
\* its ratcheted project is at least its rate, for both metrics and however
\* many ingests ran at the same time.
FloorCaughtUp ==
    Undisturbed =>
        \A r \in Requests :
            Succeeded(r) /\ IsRelease(r) /\ Ratcheted(Target(r)) =>
                \A m \in Metrics :
                    /\ projects[Target(r)].floor[m] # NoFloor
                    /\ projects[Target(r)].floor[m] >= RateOf(r)[m]

\* A regression does not pass unnoticed: a build sent after a better release
\* build of its ratcheted project was answered carries a warning.
NoSilentRegression ==
    Undisturbed =>
        \A r \in Requests, m \in Metrics :
            Succeeded(r) /\ IsIngest(r) /\ Ratcheted(Target(r)) =>
                \A q \in req[r].after :
                    /\ Succeeded(q)
                    /\ IsRelease(q)
                    /\ Target(q) = Target(r)
                    /\ RateOf(r)[m] < RateOf(q)[m]
                    => m \in req[r].warned

\* Nobody changes the retention limits or deletes a project.
SteadyRetention == RetentionForms = {} /\ Deletable = {}

SameSeries(q, r) ==
    Target(q) = Target(r) /\ req[q].call.series = req[r].call.series
NewerThan(r) ==
    {q \in Requests : req[q].inserted /\ SameSeries(q, r)
                       /\ req[q].created > req[r].created}

\* prune_snapshots keeps what its comment promises, under concurrent ingests
\* that are stored out of created_at order: "the newest `retention_full`
\* snapshots with full file data", "the next `retention_summary`" as a row.
DocumentedRetention ==
    SteadyRetention =>
        \A r \in Requests : req[r].inserted =>
            LET newer == Cardinality(NewerThan(r))
            IN  /\ newer < settings.full => Stored(r) /\ snapshots[r].files
                /\ newer < settings.full + settings.summary => Stored(r)

\* The promise is kept as long as the limits can be read.
RetentionKept == ~Faults => DocumentedRetention

Rows(p, s) == {id \in Requests : InSeries(id, p, s)}
Unpruned(p, s) ==
    {r \in Requests : req[r].inserted /\ ~Succeeded(r)
                       /\ Target(r) = p /\ req[r].call.series = s}

\* Retention bounds a series: beyond the limits there are at most the
\* snapshots whose own ingest has not pruned yet, or never will.
RetentionEnforced ==
    SteadyRetention /\ ~Faults =>
        \A p \in ProjectIds, s \in Series :
            LET pending == Cardinality(Unpruned(p, s))
                full == {id \in Rows(p, s) : snapshots[id].files}
            IN  /\ Cardinality(full) <= settings.full + pending
                /\ Cardinality(Rows(p, s)) <=
                      settings.full + settings.summary + pending

-----------------------------------------------------------------------------
(* What a step may never do *)

AtLeast(new, old) == old # NoFloor => new # NoFloor /\ new >= old

\* Ingest may raise a project's floors but never lower one or clear it, and
\* never turns a ratchet on or off: only the settings page does.
RequestsOnlyRaise ==
    [][\A p \in ProjectIds :
          Exists(p) /\ Exists(p)' /\ req' # req =>
              /\ projects'[p].ratchet = projects[p].ratchet
              /\ \A m \in Metrics :
                    AtLeast(projects'[p].floor[m], projects[p].floor[m])]_vars

\* Closed mode: "a project must be created deliberately before it can receive
\* coverage", also when it is deleted under an ingest that is on its way.
ClosedModeDeliberate ==
    [][~AllowAutocreate =>
          \A p \in ProjectIds : ~Exists(p) /\ Exists(p)' =>
              \E r \in Requests :
                  At(r, "create") /\ Target(r) = p /\ ~IsIngest(r)]_vars

-----------------------------------------------------------------------------
(* The contract of the ratchet, over the same table *)

ReleaseBuilds ==
    {[project |-> c.project, rate |-> c.rate] :
        c \in {d \in Calls : d.op = "ingest" /\ d.branch \in ReleaseLine}}

Contract == INSTANCE RatchetContract WITH
    Releases <- ReleaseBuilds, Forms <- RatchetForms,
    Removable <- Deletable, Start <- InitialProjects

\* Ingest implements the contract: seen through the projects table, every
\* step of every handler is a step the contract allows, or none.
RatchetIsKept == Contract!Spec

-----------------------------------------------------------------------------
(* Liveness *)

\* Every request is answered, unless its client or the server goes away.
EveryRequestAnswered ==
    \A r \in Requests :
        req[r].pc \in InFlight ~> req[r].pc \in {"done", "lost"}
=============================================================================

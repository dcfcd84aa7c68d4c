---------------------------- MODULE IngestProofs ----------------------------
(***************************************************************************)
(* Theorems about Ingest, for every set of requests, projects, series,     *)
(* keys and calls, every initial table and every setting of the switches;  *)
(* and about the coverage ratchet as Ingest keeps it: it implements        *)
(* RatchetContract, its floors have a provenance, requests never lower     *)
(* them, no raise is lost and no regression passes unnoticed; and about    *)
(* pruning: a series keeps what retention promises, and no more than that  *)
(* and what its own ingests have still to prune.                           *)
(***************************************************************************)
EXTENDS Ingest, FoldLemmas, FiniteSetTheorems, TLAPS

-----------------------------------------------------------------------------
(* Type correctness *)

\* A request after a step of its handler: its call and the answers before it
\* stay what they were, and what it stored stays stored.
Later(e, f) ==
    /\ f \in Request
    /\ f.call = e.call
    /\ f.after = e.after
    /\ e.inserted => f.inserted

\* What a handler writes into its locals keeps their type.
LEMMA LocalsType ==
    ASSUME NEW e \in Request, NEW pc \in Pc
    PROVE  /\ Later(e, [e EXCEPT !.pc = pc])
           /\ \A v \in Statuses : Later(e, [e EXCEPT !.pc = pc, !.status = v])
           /\ \A v \in ProjectIds \union {Global, Open} :
                 Later(e, [e EXCEPT !.pc = pc, !.scope = v])
           /\ \A v \in Nat : Later(e, [e EXCEPT !.pc = pc, !.created = v])
           /\ \A v \in SUBSET Metrics :
                 Later(e, [e EXCEPT !.pc = pc, !.warned = v])
           /\ \A v \in Limits : Later(e, [e EXCEPT !.pc = pc, !.limits = v])
           /\ Later(e, [e EXCEPT !.pc = pc, !.inserted = TRUE])
           /\ \A c \in Calls, k \in KeyIds \union {NoKey}, s \in SUBSET Requests :
                 [e EXCEPT !.pc = pc, !.call = c, !.key = k, !.after = s]
                    \in Request
BY DEF Request, Later

\* A request that has been sent names a call of its clients.
LEMMA SentCall ==
    ASSUME TypeOK, NEW r \in Requests, req[r].pc # "idle"
    PROVE  /\ req[r] \in Request
           /\ req[r].call \in Calls
           /\ Target(r) \in ProjectIds
           /\ RateOf(r) \in Rate
           /\ req[r].call.series \in Series
           /\ req[r].call.branch \in Branches \union {NoBranch}
<1>1. req[r] \in Request
  BY DEF TypeOK
<1>2. req[r].call \in Calls
  BY <1>1 DEF TypeOK, Request
<1>3. req[r].call \in Call
  BY <1>2, IngestAssumption
<1>4. QED
  BY <1>1, <1>2, <1>3 DEF Call, Target, RateOf

\* A better floor is a floor, and at least as high as what it improves on.
LEMMA HigherType ==
    ASSUME NEW floor \in Rates \union {NoFloor}, NEW rate \in Rates
    PROVE  /\ Higher(floor, rate) \in Rates
           /\ Higher(floor, rate) \in Nat
           /\ Higher(floor, rate) >= rate
           /\ floor # NoFloor => Higher(floor, rate) >= floor
           /\ Higher(floor, rate) # NoFloor
<1>1. Rates \subseteq Nat /\ 0 \in Rates /\ NoFloor \notin Rates
  BY ConstantsAssumption, SentinelsAssumption
<1>2. QED
  BY <1>1 DEF Higher

LEMMA AdvanceType ==
    ASSUME DbTypeOK, NEW p \in ProjectIds, NEW rate \in Rate,
           AdvanceRatchetFloor(p, rate)
    PROVE  DbTypeOK'
<1> DEFINE row == [projects[p] EXCEPT !.floor =
                     [m \in Metrics |-> Higher(projects[p].floor[m], rate[m])]]
<1>1. ASSUME Exists(p), projects[p].ratchet
      PROVE  row \in Project
  <2>1. projects[p] \in Project
    BY <1>1 DEF DbTypeOK, Exists
  <2>2. \A m \in Metrics : Higher(projects[p].floor[m], rate[m]) \in Rates
    BY <2>1, HigherType DEF Project, Floor, Rate
  <2>3. QED
    BY <2>1, <2>2 DEF Project, Floor
<1>2. projects' \in [ProjectIds -> Project \union {NoProject}]
  <2>1. CASE Exists(p) /\ projects[p].ratchet
    BY <1>1, <2>1 DEF DbTypeOK, AdvanceRatchetFloor
  <2>2. CASE ~(Exists(p) /\ projects[p].ratchet)
    BY <2>2 DEF DbTypeOK, AdvanceRatchetFloor
  <2>3. QED
    BY <2>1, <2>2
<1>3. QED
  BY <1>2 DEF DbTypeOK, AdvanceRatchetFloor

-----------------------------------------------------------------------------
(* What a step of a handler does to the requests *)

\* Request r moves on and no other request notices.
Moves(r) == \E e : Later(req[r], e) /\ req' = [req EXCEPT ![r] = e]

LEMMA GotoMoves ==
    ASSUME TypeOK, NEW r \in Requests, NEW pc \in Pc, Goto(r, pc)
    PROVE  Moves(r)
<1>1. req[r] \in Request
  BY DEF TypeOK
<1>2. Later(req[r], [req[r] EXCEPT !.pc = pc])
  BY <1>1, LocalsType
<1>3. req' = [req EXCEPT ![r] = [req[r] EXCEPT !.pc = pc]]
  BY DEF Goto
<1>4. QED
  BY <1>2, <1>3 DEF Moves

LEMMA ReplyMoves ==
    ASSUME TypeOK, NEW r \in Requests, NEW status \in Statuses,
           Reply(r, status)
    PROVE  Moves(r)
<1>1. req[r] \in Request
  BY DEF TypeOK
<1>2. Later(req[r], [req[r] EXCEPT !.pc = "done", !.status = status])
  BY <1>1, LocalsType DEF Pc
<1>3. req' = [req EXCEPT ![r] =
                 [req[r] EXCEPT !.pc = "done", !.status = status]]
  BY DEF Reply
<1>4. QED
  BY <1>2, <1>3 DEF Moves

\* The limits that prune_snapshots computes are integers.
LEMMA LimitsType ==
    ASSUME NEW s \in Retention
    PROVE  LimitsOf(s) \in Limits
BY ConstantsAssumption DEF LimitsOf, Limits, Retention, Add64

LEMMA StepMoves ==
    ASSUME TypeOK, NEW r \in Requests, Step(r)
    PROVE  Moves(r) /\ req[r].pc \in InFlight
<1> USE DEF At, InFlight, Awaits, Pc
<1>0. req[r] \in Request
  BY DEF TypeOK
<1>1. CASE AnyApiKeysExist(r)
  BY <1>1, GotoMoves DEF AnyApiKeysExist
<1>2. CASE ValidateApiKey(r)
  <2>1. CASE req[r].key # NoKey /\ Live(req[r].key)
    <3> DEFINE scope == api_keys[req[r].key].scope
               e == [req[r] EXCEPT !.pc = "touch", !.scope = scope]
    <3>1. scope \in ProjectIds \union {Global}
      BY <1>0, <2>1 DEF TypeOK, DbTypeOK, Request, Live, ApiKey
    <3>2. Later(req[r], e)
      BY <1>0, <3>1, LocalsType
    <3>3. req' = [req EXCEPT ![r] = e]
      BY <1>2, <2>1 DEF ValidateApiKey
    <3>4. QED
      BY <1>2, <3>2, <3>3 DEF Moves, ValidateApiKey
  <2>2. CASE ~(req[r].key # NoKey /\ Live(req[r].key))
    BY <1>2, <2>2, ReplyMoves DEF ValidateApiKey, Statuses
  <2>3. QED
    BY <2>1, <2>2
<1>3. CASE MarkKeyUsed(r)
  BY <1>3, GotoMoves DEF MarkKeyUsed
<1>4. CASE RefuseBody(r) \/ RefuseScope(r)
  BY <1>4, ReplyMoves DEF RefuseBody, RefuseScope, Statuses
<1>5. CASE ParseIngest(r)
  <2> DEFINE pc == IF AllowAutocreate THEN "lookup" ELSE "known"
             e == [req[r] EXCEPT !.pc = pc, !.created = clock + 1]
  <2>1. pc \in Pc /\ clock + 1 \in Nat
    BY DEF TypeOK
  <2>2. Later(req[r], e)
    BY <1>0, <2>1, LocalsType
  <2>3. req' = [req EXCEPT ![r] = e]
    BY <1>5 DEF ParseIngest
  <2>4. QED
    BY <1>5, <2>2, <2>3 DEF Moves, ParseIngest
<1>6. CASE ParseCreate(r)
  BY <1>6, GotoMoves DEF ParseCreate
<1>7. CASE RequireKnownProject(r) \/ LookupProject(r)
  BY <1>7, GotoMoves, ReplyMoves
     DEF RequireKnownProject, LookupProject, Statuses
<1>8. CASE CreateProject(r)
  BY <1>8, GotoMoves DEF CreateProject
<1>9. CASE CreateConflict(r)
  BY <1>9, ReplyMoves DEF CreateConflict, ErrorStatus, Statuses
<1>10. CASE ReadBackProject(r)
  BY <1>10, GotoMoves, ReplyMoves DEF ReadBackProject, ErrorStatus, Statuses
<1>11. CASE StoreSnapshot(r)
  <2> DEFINE e == [req[r] EXCEPT !.pc = "ratchet", !.inserted = TRUE]
  <2>1. Later(req[r], e)
    BY <1>0, LocalsType
  <2>2. req' = [req EXCEPT ![r] = e]
    BY <1>11 DEF StoreSnapshot
  <2>3. QED
    BY <1>11, <2>1, <2>2 DEF Moves, StoreSnapshot
<1>12. CASE StoreOrphan(r)
  BY <1>12, ReplyMoves DEF StoreOrphan, Statuses
<1>13. CASE CheckRatchet(r)
  <2>1. CASE Exists(Target(r)) /\ projects[Target(r)].ratchet
    <3> DEFINE pc == IF Allows(req[r].call.branch) THEN "advance"
                     ELSE "retention"
               e == [req[r] EXCEPT !.pc = pc, !.warned = Violated(r)]
    <3>1. Violated(r) \in SUBSET Metrics
      BY DEF Violated
    <3>2. Later(req[r], e)
      BY <1>0, <3>1, LocalsType
    <3>3. req' = [req EXCEPT ![r] = e]
      BY <1>13, <2>1 DEF CheckRatchet
    <3>4. QED
      BY <1>13, <3>2, <3>3 DEF Moves, CheckRatchet
  <2>2. CASE ~(Exists(Target(r)) /\ projects[Target(r)].ratchet)
    BY <1>13, <2>2, GotoMoves DEF CheckRatchet
  <2>3. QED
    BY <2>1, <2>2
<1>14. CASE AdvanceRatchet(r)
  BY <1>14, GotoMoves DEF AdvanceRatchet
<1>15. CASE ReadRetention(r)
  <2>1. PICK s \in {settings, DefaultRetention} :
           req' = [req EXCEPT ![r].pc = "strip", ![r].limits = LimitsOf(s)]
    BY <1>15 DEF ReadRetention
  <2> DEFINE e == [req[r] EXCEPT !.pc = "strip", !.limits = LimitsOf(s)]
  <2>2. s \in Retention
    BY ConstantsAssumption DEF TypeOK, DbTypeOK
  <2>3. Later(req[r], e)
    BY <1>0, <2>2, LimitsType, LocalsType
  <2>4. req' = [req EXCEPT ![r] = e]
    BY <2>1
  <2>5. QED
    BY <1>15, <2>3, <2>4 DEF Moves, ReadRetention
<1>16. CASE Strip(r)
  BY <1>16, GotoMoves DEF Strip
<1>17. CASE Delete(r)
  BY <1>17, ReplyMoves DEF Delete, Statuses
<1>18. CASE StatementFails(r)
  BY <1>18, ReplyMoves DEF StatementFails, ErrorStatus, Statuses
<1>19. QED
  BY <1>1, <1>2, <1>3, <1>4, <1>5, <1>6, <1>7, <1>8, <1>9, <1>10, <1>11,
     <1>12, <1>13, <1>14, <1>15, <1>16, <1>17, <1>18 DEF Step

-----------------------------------------------------------------------------
(* The statements keep the types of the tables *)

LEMMA ProjectStatements ==
    ASSUME DbTypeOK, NEW p \in ProjectIds
    PROVE  /\ InsertProject(p) => DbTypeOK'
           /\ DeleteProject(p) => DbTypeOK'
           /\ \A f \in RatchetForm :
                 UpdateRatchet(p, f.enabled, f.floor) => DbTypeOK'
<1>1. NewProject \in Project
  BY DEF NewProject, Project, Floor
<1>2. ASSUME InsertProject(p) PROVE DbTypeOK'
  BY <1>1, <1>2 DEF InsertProject, DbTypeOK
<1>3. ASSUME DeleteProject(p) PROVE DbTypeOK'
  BY <1>3 DEF DeleteProject, DbTypeOK
<1>4. ASSUME NEW f \in RatchetForm, UpdateRatchet(p, f.enabled, f.floor)
      PROVE  DbTypeOK'
  <2>1. [ratchet |-> f.enabled, floor |-> f.floor] \in Project
    BY <1>4 DEF RatchetForm, Project
  <2>2. QED
    BY <1>4, <2>1 DEF UpdateRatchet, DbTypeOK
<1>5. QED
  BY <1>2, <1>3, <1>4

LEMMA SnapshotStatements ==
    ASSUME DbTypeOK, NEW r \in Requests, NEW p \in ProjectIds,
           NEW s \in Series, NEW t \in Nat, NEW n \in Int
    PROVE  /\ InsertSnapshot(r, p, s, t) => DbTypeOK'
           /\ StripFiles(p, s, n) => DbTypeOK'
           /\ DeleteOld(p, s, n) => DbTypeOK'
<1>1. ASSUME InsertSnapshot(r, p, s, t) PROVE DbTypeOK'
  BY <1>1 DEF InsertSnapshot, DbTypeOK, Snapshot
<1>2. ASSUME StripFiles(p, s, n) PROVE DbTypeOK'
  <2>1. \A id \in BeyondOffset(p, s, n) : snapshots[id] \in Snapshot
    BY DEF BeyondOffset, InSeries, Stored, DbTypeOK
  <2>2. \A e \in Snapshot : [e EXCEPT !.files = FALSE] \in Snapshot
    BY DEF Snapshot
  <2>3. \A id \in Requests : snapshots'[id] \in Snapshot \union {NoRow}
    BY <1>2, <2>1, <2>2 DEF StripFiles, DbTypeOK
  <2>4. snapshots' = [id \in Requests |-> snapshots'[id]]
    BY <1>2 DEF StripFiles
  <2>5. QED
    BY <1>2, <2>3, <2>4 DEF StripFiles, DbTypeOK
<1>3. ASSUME DeleteOld(p, s, n) PROVE DbTypeOK'
  BY <1>3 DEF DeleteOld, DbTypeOK
<1>4. QED
  BY <1>1, <1>2, <1>3

LEMMA KeyStatements ==
    ASSUME DbTypeOK, NEW k \in KeyIds, NEW scope \in ProjectIds \union {Global}
    PROVE  /\ InsertApiKey(k, scope) => DbTypeOK'
           /\ DeleteApiKey(k) => DbTypeOK'
           /\ TouchApiKey(k) => DbTypeOK'
<1>1. ASSUME InsertApiKey(k, scope) PROVE DbTypeOK'
  BY <1>1 DEF InsertApiKey, DbTypeOK, ApiKey
<1>2. ASSUME DeleteApiKey(k) PROVE DbTypeOK'
  BY <1>2 DEF DeleteApiKey, DbTypeOK
<1>3. ASSUME TouchApiKey(k) PROVE DbTypeOK'
  <2>1. \A e \in ApiKey : [e EXCEPT !.used = TRUE] \in ApiKey
    BY DEF ApiKey
  <2>2. Live(k) => [api_keys[k] EXCEPT !.used = TRUE] \in ApiKey
    BY <2>1 DEF DbTypeOK, Live
  <2>3. api_keys' = IF Live(k)
                    THEN [api_keys EXCEPT ![k] = [api_keys[k] EXCEPT !.used = TRUE]]
                    ELSE api_keys
    BY <1>3 DEF TouchApiKey
  <2>4. QED
    BY <1>3, <2>2, <2>3 DEF TouchApiKey, DbTypeOK
<1>4. QED
  BY <1>1, <1>2, <1>3

\* What the settings form stores is a pair of integers.
LEMMA SettingsType ==
    ASSUME DbTypeOK, SaveSettings
    PROVE  DbTypeOK'
<1>1. PICK f \in RetentionForms :
         UpdateSettings([
             full |-> Field(f.full, 1, DefaultRetention.full),
             summary |-> Field(f.summary, 0, DefaultRetention.summary)])
  BY DEF SaveSettings
<1>2. /\ f.full \in Int \union {Blank}
      /\ f.summary \in Int \union {Blank}
  BY IngestAssumption DEF RetentionForm
<1>3. DefaultRetention.full \in Int /\ DefaultRetention.summary \in Int
  BY ConstantsAssumption DEF Retention
<1>4. QED
  BY <1>1, <1>2, <1>3 DEF UpdateSettings, DbTypeOK, Retention, Field

LEMMA AdminTables ==
    ASSUME DbTypeOK, Admin
    PROVE  DbTypeOK' /\ UNCHANGED <<req, clock>>
<1>1. CASE SaveSettings
  BY <1>1, SettingsType DEF SaveSettings
<1>2. CASE SaveProjectRatchet
  BY <1>2, ProjectStatements, IngestAssumption DEF SaveProjectRatchet
<1>3. CASE RemoveProject
  BY <1>3, ProjectStatements, IngestAssumption DEF RemoveProject
<1>4. CASE IssueApiKey
  BY <1>4, KeyStatements DEF IssueApiKey
<1>5. CASE RevokeApiKey
  BY <1>5, KeyStatements DEF RevokeApiKey
<1>6. QED
  BY <1>1, <1>2, <1>3, <1>4, <1>5 DEF Admin

LEMMA StepTables ==
    ASSUME TypeOK, NEW r \in Requests, Step(r)
    PROVE  DbTypeOK' /\ clock' \in Nat
<1> USE DEF At
<1>0. DbTypeOK /\ clock \in Nat /\ req[r] \in Request
  BY DEF TypeOK
<1>1. req[r].pc \in InFlight
  BY StepMoves
<1>2. /\ Target(r) \in ProjectIds
      /\ RateOf(r) \in Rate
      /\ req[r].call.series \in Series
  BY <1>1, SentCall DEF InFlight, Awaits
<1>3. CASE UNCHANGED <<db, clock>>
  BY <1>0, <1>3 DEF db, DbTypeOK
<1>4. CASE MarkKeyUsed(r)
  <2>1. CASE req[r].key \in KeyIds
    BY <1>0, <1>4, <2>1, KeyStatements DEF MarkKeyUsed
  <2>2. CASE req[r].key = NoKey
    <3>1. api_keys' \in [KeyIds -> ApiKey \union {Unissued, Revoked}]
      BY <1>0, <1>4, <2>2, IngestAssumption
         DEF MarkKeyUsed, TouchApiKey, DbTypeOK
    <3>2. QED
      BY <1>0, <1>4, <3>1 DEF MarkKeyUsed, TouchApiKey, DbTypeOK
  <2>3. QED
    BY <1>0, <2>1, <2>2 DEF Request
<1>5. CASE ParseIngest(r)
  BY <1>0, <1>5 DEF ParseIngest, db, DbTypeOK
<1>6. CASE CreateProject(r)
  BY <1>0, <1>2, <1>6, ProjectStatements DEF CreateProject
<1>7. CASE StoreSnapshot(r)
  BY <1>0, <1>2, <1>7, SnapshotStatements DEF StoreSnapshot, Request
<1>8. CASE AdvanceRatchet(r)
  BY <1>0, <1>2, <1>8, AdvanceType DEF AdvanceRatchet
<1>9. CASE Strip(r) \/ Delete(r)
  BY <1>0, <1>2, <1>9, SnapshotStatements DEF Strip, Delete, Request, Limits
<1>10. QED
  BY <1>3, <1>4, <1>5, <1>6, <1>7, <1>8, <1>9
     DEF Step, AnyApiKeysExist, ValidateApiKey, RefuseBody, RefuseScope,
         ParseCreate, RequireKnownProject, LookupProject, CreateConflict,
         ReadBackProject, StoreOrphan, CheckRatchet, ReadRetention,
         StatementFails

\* The initial request is a request.
LEMMA IdleType == Idle \in Request
<1>1. /\ "idle" \in Pc
      /\ [full |-> 0, total |-> 0] \in Limits
      /\ 0 \in Statuses
  BY DEF Pc, Limits, Statuses
<1>2. QED
  BY <1>1 DEF Idle, Request

LEMMA TypeInit == Init => TypeOK
<1> SUFFICES ASSUME Init PROVE TypeOK
  OBVIOUS
<1>1. DbTypeOK
  BY IngestAssumption DEF Init, DbTypeOK
<1>2. req \in [Requests -> Request]
  BY IdleType DEF Init
<1>3. \A r \in Requests : req[r].pc = "idle"
  BY DEF Init, Idle
<1>4. QED
  BY <1>1, <1>2, <1>3 DEF Init, TypeOK

\* What the actions outside the handlers do to the requests.
LEMMA ReceiveMoves ==
    ASSUME TypeOK, NEW r \in Requests, Receive(r)
    PROVE  \E e \in Request :
              /\ req' = [req EXCEPT ![r] = e]
              /\ e.pc = IF RequireApiKey THEN "validate" ELSE "keys"
              /\ e.call \in Calls
              /\ e.after = {q \in Requests : Answered(q)}
              /\ e.scope = req[r].scope
              /\ e.inserted = req[r].inserted
<1>1. PICK c \in Calls,
           k \in {k \in KeyIds : api_keys[k] # Unissued} \union {NoKey} :
         req' = [req EXCEPT
                    ![r].pc = IF RequireApiKey THEN "validate" ELSE "keys",
                    ![r].call = c,
                    ![r].key = k,
                    ![r].after = {q \in Requests : Answered(q)}]
  BY DEF Receive
<1> DEFINE pc == IF RequireApiKey THEN "validate" ELSE "keys"
           sent == {q \in Requests : Answered(q)}
           e == [req[r] EXCEPT !.pc = pc, !.call = c, !.key = k, !.after = sent]
<1>2. req[r] \in Request
  BY DEF TypeOK
<1>3. pc \in Pc /\ sent \in SUBSET Requests
  BY DEF Pc, InFlight, Awaits
<1>4. e \in Request
  BY <1>2, <1>3, LocalsType
<1>5. req' = [req EXCEPT ![r] = e]
  BY <1>1
<1>6. /\ e.pc = pc /\ e.call = c /\ e.after = sent
      /\ e.scope = req[r].scope /\ e.inserted = req[r].inserted
  BY <1>2 DEF Request
<1>7. QED
  BY <1>4, <1>5, <1>6

LEMMA RestartMoves ==
    ASSUME TypeOK, Restart
    PROVE  /\ req' \in [Requests -> Request]
           /\ \A r \in Requests :
                 /\ Later(req[r], req'[r])
                 /\ \/ req'[r] = req[r]
                    \/ /\ req'[r] = [req[r] EXCEPT !.pc = "lost"]
                       /\ req[r].pc \in InFlight
<1>1. req' = [r \in Requests |-> IF req[r].pc \in InFlight
                                 THEN [req[r] EXCEPT !.pc = "lost"]
                                 ELSE req[r]]
  BY DEF Restart
<1>2. ASSUME NEW r \in Requests
      PROVE  /\ Later(req[r], req'[r])
             /\ \/ req'[r] = req[r]
                \/ /\ req'[r] = [req[r] EXCEPT !.pc = "lost"]
                   /\ req[r].pc \in InFlight
  <2>1. req[r] \in Request
    BY DEF TypeOK
  <2>2. Later(req[r], req[r])
    BY <2>1 DEF Later
  <2>3. Later(req[r], [req[r] EXCEPT !.pc = "lost"])
    BY <2>1, LocalsType DEF Pc
  <2>4. QED
    BY <1>1, <2>2, <2>3
<1>3. \A r \in Requests : req'[r] \in Request
  BY <1>2 DEF Later
<1>4. QED
  BY <1>1, <1>2, <1>3

LEMMA TypeStep == TypeOK /\ [Next]_vars => TypeOK'
<1> SUFFICES ASSUME TypeOK, [Next]_vars
             PROVE  TypeOK'
  OBVIOUS
<1>1. ASSUME NEW r \in Requests, Receive(r)
      PROVE  TypeOK'
  <2>1. PICK e \in Request : req' = [req EXCEPT ![r] = e] /\ e.call \in Calls
    BY <1>1, ReceiveMoves
  <2>2. e.call # NoCall
    BY <2>1, IngestAssumption
  <2>3. DbTypeOK' /\ clock' \in Nat
    BY <1>1 DEF Receive, db, TypeOK, DbTypeOK
  <2>4. QED
    BY <2>1, <2>2, <2>3 DEF TypeOK
<1>2. ASSUME NEW r \in Requests, Step(r)
      PROVE  TypeOK'
  <2>1. PICK e : Later(req[r], e) /\ req' = [req EXCEPT ![r] = e]
    BY <1>2, StepMoves DEF Moves
  <2>2. req[r].call # NoCall
    BY <1>2, StepMoves DEF TypeOK, InFlight, Awaits
  <2>3. DbTypeOK' /\ clock' \in Nat
    BY <1>2, StepTables
  <2>4. QED
    BY <2>1, <2>2, <2>3 DEF TypeOK, Later
<1>3. ASSUME NEW r \in Requests, HangUp(r)
      PROVE  TypeOK'
  <2>1. Moves(r) /\ req[r].pc # "idle"
    BY <1>3, GotoMoves DEF HangUp, Pc, InFlight, Awaits
  <2>2. PICK e : Later(req[r], e) /\ req' = [req EXCEPT ![r] = e]
    BY <2>1 DEF Moves
  <2>3. DbTypeOK' /\ clock' \in Nat
    BY <1>3 DEF HangUp, db, TypeOK, DbTypeOK
  <2>4. QED
    BY <2>1, <2>2, <2>3 DEF TypeOK, Later
<1>4. CASE Restart
  <2>1. \A r \in Requests : req'[r].pc # "idle" => req[r].pc # "idle"
    BY <1>4, RestartMoves DEF InFlight, Awaits
  <2>2. \A r \in Requests : req'[r].call = req[r].call
    BY <1>4, RestartMoves DEF Later
  <2>3. DbTypeOK' /\ clock' \in Nat
    BY <1>4 DEF Restart, db, TypeOK, DbTypeOK
  <2>4. QED
    BY <1>4, <2>1, <2>2, <2>3, RestartMoves DEF TypeOK
<1>5. CASE Admin
  BY <1>5, AdminTables DEF TypeOK
<1>6. CASE UNCHANGED vars
  BY <1>6 DEF vars, db, TypeOK, DbTypeOK
<1>7. QED
  BY <1>1, <1>2, <1>3, <1>4, <1>5, <1>6 DEF Next

\* Every table and every local of a handler keeps the type that its column or
\* its Rust type gives it (db.rs, schema.sql, routes/coverage.rs).
THEOREM TypeCorrect == Spec => []TypeOK
BY TypeInit, TypeStep, PTL DEF Spec

-----------------------------------------------------------------------------
(* What the statements do to the rows of other tables *)

LEMMA FloorType ==
    ASSUME DbTypeOK, NEW p \in ProjectIds, Exists(p)
    PROVE  /\ projects[p] \in Project
           /\ \A m \in Metrics :
                 /\ projects[p].floor[m] \in Rates \union {NoFloor}
                 /\ AtLeast(projects[p].floor[m], projects[p].floor[m])
<1>1. projects[p] \in Project
  BY DEF DbTypeOK, Exists
<1>2. \A m \in Metrics : projects[p].floor[m] \in Rates \union {NoFloor}
  BY <1>1 DEF Project, Floor
<1>3. \A f \in Rates \union {NoFloor} : AtLeast(f, f)
  <2>1. Rates \subseteq Nat
    BY ConstantsAssumption
  <2>2. QED
    BY <2>1 DEF AtLeast
<1>4. QED
  BY <1>1, <1>2, <1>3

\* A raise creates and deletes no project, turns no ratchet on or off, lowers
\* no floor; the floors of a ratcheted project catch up with the rate.
LEMMA AdvanceEffect ==
    ASSUME DbTypeOK, NEW p \in ProjectIds, NEW rate \in Rate,
           AdvanceRatchetFloor(p, rate), NEW q \in ProjectIds
    PROVE  /\ Exists(q)' <=> Exists(q)
           /\ q # p => projects'[q] = projects[q]
           /\ Exists(q) =>
                /\ projects'[q].ratchet = projects[q].ratchet
                /\ \A m \in Metrics :
                      AtLeast(projects'[q].floor[m], projects[q].floor[m])
           /\ Ratcheted(p) => \A m \in Metrics :
                /\ projects'[p].floor[m] =
                      Higher(projects[p].floor[m], rate[m])
                /\ projects'[p].floor[m] \in Rates
                /\ projects'[p].floor[m] >= rate[m]
<1>1. CASE Ratcheted(p)
  <2> DEFINE new == [m \in Metrics |-> Higher(projects[p].floor[m], rate[m])]
             row == [projects[p] EXCEPT !.floor = new]
  <2>1. projects[p] \in Project
    BY <1>1 DEF DbTypeOK, Exists, Ratcheted
  <2>2. \A m \in Metrics :
          /\ projects[p].floor[m] \in Rates \union {NoFloor}
          /\ rate[m] \in Rates
    BY <2>1 DEF Project, Floor, Rate
  <2>3. projects' = [projects EXCEPT ![p] = row]
    BY <1>1 DEF AdvanceRatchetFloor, Ratcheted
  <2>4. /\ projects'[p] = row
        /\ \A s \in ProjectIds : s # p => projects'[s] = projects[s]
    BY <2>3 DEF DbTypeOK
  <2>5. row.ratchet = projects[p].ratchet /\ row.floor = new
    BY <2>1 DEF Project
  <2>6. row \in Project
    BY <2>1, <2>2, HigherType DEF Project, Floor
  <2>7. row # NoProject
    BY <2>6, SentinelsAssumption
  <2>8. \A m \in Metrics :
          /\ new[m] \in Rates
          /\ new[m] >= rate[m]
          /\ AtLeast(new[m], projects[p].floor[m])
    BY <2>2, HigherType DEF AtLeast
  <2>9. \A s \in ProjectIds : Exists(s) =>
          \A m \in Metrics : AtLeast(projects[s].floor[m], projects[s].floor[m])
    BY FloorType
  <2>10. CASE q = p
    BY <1>1, <2>4, <2>5, <2>7, <2>8, <2>10 DEF Exists, Ratcheted
  <2>11. CASE q # p
    BY <2>4, <2>5, <2>8, <2>9, <2>11 DEF Exists
  <2>12. QED
    BY <2>10, <2>11
<1>2. CASE ~Ratcheted(p)
  <2>1. projects' = projects
    BY <1>2 DEF AdvanceRatchetFloor, Ratcheted
  <2>2. Exists(q) =>
          \A m \in Metrics : AtLeast(projects[q].floor[m], projects[q].floor[m])
    BY FloorType
  <2>3. QED
    BY <1>2, <2>1, <2>2 DEF Exists
<1>3. QED
  BY <1>1, <1>2

\* Creating a project touches no other project.
LEMMA InsertEffect ==
    ASSUME DbTypeOK, NEW p \in ProjectIds, InsertProject(p)
    PROVE  /\ Exists(p)' /\ projects'[p] = NewProject
           /\ \A q \in ProjectIds : q # p => projects'[q] = projects[q]
           /\ \A q \in ProjectIds : Exists(q) => projects'[q] = projects[q]
<1>1. NewProject \in Project
  BY DEF NewProject, Project, Floor
<1>2. QED
  BY <1>1, SentinelsAssumption DEF InsertProject, Exists, DbTypeOK

\* The settings form neither creates nor deletes a project.
LEMMA ConfigureEffect ==
    ASSUME DbTypeOK, NEW p \in ProjectIds, NEW f \in RatchetForm,
           UpdateRatchet(p, f.enabled, f.floor), NEW q \in ProjectIds
    PROVE  Exists(q)' <=> Exists(q)
<1>1. [ratchet |-> f.enabled, floor |-> f.floor] \in Project
  BY DEF RatchetForm, Project
<1>2. QED
  BY <1>1, SentinelsAssumption DEF UpdateRatchet, Exists, DbTypeOK

\* The projects table, seen from a step of a handler: it changes only when
\* the handler creates its project or raises its floors.
LEMMA StepProjects ==
    ASSUME TypeOK, NEW r \in Requests, Step(r)
    PROVE  /\ Target(r) \in ProjectIds
           /\ RateOf(r) \in Rate
           /\ \/ projects' = projects
              \/ CreateProject(r) /\ InsertProject(Target(r))
              \/ AdvanceRatchet(r) /\ AdvanceRatchetFloor(Target(r), RateOf(r))
<1>1. Target(r) \in ProjectIds /\ RateOf(r) \in Rate
  BY StepMoves, SentCall DEF InFlight, Awaits
<1>2. CASE UNCHANGED db
  BY <1>1, <1>2 DEF db
<1>3. QED
  BY <1>1, <1>2
     DEF Step, AnyApiKeysExist, ValidateApiKey, RefuseBody, RefuseScope,
         ParseIngest, ParseCreate, RequireKnownProject, LookupProject,
         CreateConflict, ReadBackProject, StoreOrphan, CheckRatchet,
         ReadRetention, StatementFails, MarkKeyUsed, TouchApiKey,
         CreateProject, StoreSnapshot, InsertSnapshot, AdvanceRatchet,
         Strip, StripFiles, Delete, DeleteOld

-----------------------------------------------------------------------------
(* References *)

KeysResolve ==
    \A k \in KeyIds : Live(k) =>
        api_keys[k].scope \in {Global} \union {p \in ProjectIds : Exists(p)}
RowsResolve == \A id \in Requests : Stored(id) => Exists(snapshots[id].project)

\* As long as no project goes away, untouched rows keep resolving.
LEMMA UntouchedResolve ==
    ASSUME \A p \in ProjectIds : Exists(p) => Exists(p)', DbTypeOK
    PROVE  /\ KeysResolve /\ UNCHANGED api_keys => KeysResolve'
           /\ RowsResolve /\ UNCHANGED snapshots => RowsResolve'
<1>1. ASSUME KeysResolve, UNCHANGED api_keys PROVE KeysResolve'
  BY <1>1 DEF KeysResolve, Live
<1>2. ASSUME RowsResolve, UNCHANGED snapshots PROVE RowsResolve'
  <2>1. \A id \in Requests : Stored(id) => snapshots[id].project \in ProjectIds
    BY DEF DbTypeOK, Stored, Snapshot
  <2>2. QED
    BY <1>2, <2>1 DEF RowsResolve, Stored
<1>3. QED
  BY <1>1, <1>2

\* A handler deletes no project, whatever it does.
LEMMA StepKeepsProjects ==
    ASSUME TypeOK, NEW r \in Requests, Step(r)
    PROVE  \A p \in ProjectIds : Exists(p) => Exists(p)'
<1>1. DbTypeOK
  BY DEF TypeOK
<1>2. CASE projects' = projects
  BY <1>2 DEF Exists
<1>3. CASE InsertProject(Target(r))
  BY <1>1, <1>3, StepProjects, InsertEffect DEF Exists
<1>4. CASE AdvanceRatchetFloor(Target(r), RateOf(r))
  BY <1>1, <1>4, StepProjects, AdvanceEffect
<1>5. QED
  BY <1>2, <1>3, <1>4, StepProjects

LEMMA ReferencesStep == TypeOK /\ ReferencesResolve /\ [Next]_vars => ReferencesResolve'
<1> SUFFICES ASSUME TypeOK, ReferencesResolve, [Next]_vars
             PROVE  KeysResolve' /\ RowsResolve'
  BY DEF ReferencesResolve, KeysResolve, RowsResolve
<1>0. KeysResolve /\ RowsResolve /\ DbTypeOK
  BY DEF ReferencesResolve, KeysResolve, RowsResolve, TypeOK
<1>1. CASE UNCHANGED db
  BY <1>0, <1>1 DEF db, KeysResolve, RowsResolve, Live, Stored, Exists
<1>2. ASSUME NEW r \in Requests, Step(r)
      PROVE  KeysResolve' /\ RowsResolve'
  <2>0. \A p \in ProjectIds : Exists(p) => Exists(p)'
    BY <1>2, StepKeepsProjects
  <2>1. CASE MarkKeyUsed(r)
    <3>1. /\ projects' = projects /\ snapshots' = snapshots
          /\ api_keys' = IF Live(req[r].key)
                         THEN [api_keys EXCEPT ![req[r].key].used = TRUE]
                         ELSE api_keys
      BY <2>1 DEF MarkKeyUsed, TouchApiKey
    <3>2. \A k \in KeyIds : Live(k)' =>
             Live(k) /\ api_keys'[k].scope = api_keys[k].scope
      <4> SUFFICES ASSUME NEW k \in KeyIds, Live(k)'
                   PROVE  Live(k) /\ api_keys'[k].scope = api_keys[k].scope
        OBVIOUS
      <4>1. CASE Live(req[r].key) /\ k = req[r].key
        <5>1. api_keys[k] \in ApiKey
          BY <1>0, <4>1 DEF DbTypeOK, Live
        <5>2. api_keys'[k] = [api_keys[k] EXCEPT !.used = TRUE]
          BY <1>0, <3>1, <4>1 DEF DbTypeOK
        <5>3. QED
          BY <4>1, <5>1, <5>2 DEF ApiKey
      <4>2. CASE ~(Live(req[r].key) /\ k = req[r].key)
        BY <1>0, <3>1, <4>2 DEF DbTypeOK, Live
      <4>3. QED
        BY <4>1, <4>2
    <3>3. QED
      BY <1>0, <2>0, <3>1, <3>2, UntouchedResolve DEF KeysResolve
  <2>2. CASE StoreSnapshot(r)
    <3>1. InsertSnapshot(r, Target(r), req[r].call.series, req[r].created)
      BY <2>2 DEF StoreSnapshot
    <3>2. RowsResolve'
      BY <1>0, <3>1 DEF InsertSnapshot, RowsResolve, Stored, Exists, DbTypeOK
    <3>3. QED
      BY <1>0, <2>0, <3>1, <3>2, UntouchedResolve DEF InsertSnapshot
  <2>3. CASE Strip(r)
    <3> DEFINE old == BeyondOffset(Target(r), req[r].call.series,
                                   req[r].limits.full)
    <3>1. /\ snapshots' = [id \in Requests |->
                             IF id \in old
                             THEN [snapshots[id] EXCEPT !.files = FALSE]
                             ELSE snapshots[id]]
          /\ projects' = projects /\ api_keys' = api_keys
      BY <2>3 DEF Strip, StripFiles
    <3>2. \A id \in old : snapshots[id] \in Snapshot
      BY <1>0 DEF BeyondOffset, InSeries, Stored, DbTypeOK
    <3>3. \A e \in Snapshot : [e EXCEPT !.files = FALSE].project = e.project
      BY DEF Snapshot
    <3>4. \A id \in Requests : Stored(id)' =>
             Stored(id) /\ snapshots'[id].project = snapshots[id].project
      BY <3>1, <3>2, <3>3, SentinelsAssumption DEF Stored
    <3>5. QED
      BY <1>0, <2>0, <3>1, <3>4, UntouchedResolve DEF RowsResolve, Exists
  <2>4. CASE Delete(r)
    <3>1. \A id \in Requests : Stored(id)' =>
             Stored(id) /\ snapshots'[id].project = snapshots[id].project
      BY <2>4 DEF Delete, DeleteOld, Stored
    <3>2. projects' = projects /\ api_keys' = api_keys
      BY <2>4 DEF Delete, DeleteOld
    <3>3. QED
      BY <1>0, <2>0, <3>1, <3>2, UntouchedResolve DEF RowsResolve, Exists
  <2>5. CASE UNCHANGED <<snapshots, api_keys>>
    BY <1>0, <2>0, <2>5, UntouchedResolve
  <2>6. QED
    BY <1>2, <2>1, <2>2, <2>3, <2>4, <2>5
       DEF Step, AnyApiKeysExist, ValidateApiKey, RefuseBody, RefuseScope,
           ParseIngest, ParseCreate, RequireKnownProject, LookupProject,
           CreateProject, CreateConflict, ReadBackProject, StoreOrphan,
           CheckRatchet, AdvanceRatchet, ReadRetention, StatementFails,
           InsertProject, AdvanceRatchetFloor, db
<1>3. CASE SaveProjectRatchet
  <2>1. PICK p \in ProjectIds, f \in RatchetForms :
           UpdateRatchet(p, f.enabled, f.floor)
    BY <1>3 DEF SaveProjectRatchet
  <2>2. \A q \in ProjectIds : Exists(q) => Exists(q)'
    BY <1>0, <2>1, ConfigureEffect, IngestAssumption
  <2>3. QED
    BY <1>0, <2>1, <2>2, UntouchedResolve DEF UpdateRatchet
<1>4. CASE RemoveProject
  <2>1. PICK p \in ProjectIds : DeleteProject(p)
    BY <1>4, IngestAssumption DEF RemoveProject
  <2>2. \A q \in ProjectIds : q # p => projects'[q] = projects[q]
    BY <1>0, <2>1 DEF DeleteProject, DbTypeOK
  <2>3. KeysResolve'
    <3>1. \A k \in KeyIds : Live(k)' =>
             Live(k) /\ api_keys'[k] = api_keys[k] /\ api_keys[k].scope # p
      BY <2>1 DEF DeleteProject, Live
    <3>2. QED
      BY <1>0, <2>2, <3>1 DEF KeysResolve, Exists
  <2>4. RowsResolve'
    <3>1. \A id \in Requests : Stored(id)' =>
             /\ Stored(id) /\ snapshots'[id] = snapshots[id]
             /\ snapshots[id].project # p
      BY <2>1 DEF DeleteProject, Stored
    <3>2. \A id \in Requests : Stored(id) => snapshots[id].project \in ProjectIds
      BY <1>0 DEF DbTypeOK, Stored, Snapshot
    <3>3. QED
      BY <1>0, <2>2, <3>1, <3>2 DEF RowsResolve, Exists
  <2>5. QED
    BY <2>3, <2>4
<1>5. CASE IssueApiKey
  <2>1. PICK k \in KeyIds, scope \in ProjectIds \union {Global} :
           InsertApiKey(k, scope)
    BY <1>5 DEF IssueApiKey
  <2>2. projects' = projects /\ snapshots' = snapshots
    BY <2>1 DEF InsertApiKey
  <2>3. KeysResolve'
    BY <1>0, <2>1, <2>2 DEF InsertApiKey, KeysResolve, Live, Exists, DbTypeOK
  <2>4. QED
    BY <1>0, <2>2, <2>3 DEF RowsResolve, Stored, Exists
<1>6. CASE RevokeApiKey
  <2>1. PICK k \in KeyIds : DeleteApiKey(k)
    BY <1>6 DEF RevokeApiKey
  <2>2. projects' = projects /\ snapshots' = snapshots
    BY <2>1 DEF DeleteApiKey
  <2>3. KeysResolve'
    BY <1>0, <2>1, <2>2 DEF DeleteApiKey, KeysResolve, Live, Exists, DbTypeOK
  <2>4. QED
    BY <1>0, <2>2, <2>3 DEF RowsResolve, Stored, Exists
<1>7. CASE SaveSettings
  BY <1>0, <1>7
     DEF SaveSettings, UpdateSettings, KeysResolve, RowsResolve, Live, Stored,
         Exists
<1>8. QED
  BY <1>1, <1>2, <1>3, <1>4, <1>5, <1>6, <1>7
     DEF Next, Receive, HangUp, Restart, Admin, vars, db

\* No snapshot and no scoped key ever outlives its project, whatever requests
\* are running while it is deleted (delete_project, insert_snapshot).
THEOREM ReferencesCorrect == Spec => []ReferencesResolve
<1>1. Init => ReferencesResolve
  BY DEF Init, ReferencesResolve, Stored, Live
<1>2. QED
  BY <1>1, TypeInit, TypeStep, ReferencesStep, PTL DEF Spec

-----------------------------------------------------------------------------
(* What a handler knows at each await: the part of the inductive invariant *)
(* that is about one request on its own                                    *)

Stages == {"insert", "ratchet", "advance", "retention", "strip", "delete"}

Handled(e) ==
    /\ e.pc \in Stages \union {"known", "lookup"} => e.call.op = "ingest"
    /\ e.pc = "advance" => Allows(e.call.branch)
    /\ e.pc = "create" /\ e.call.op = "ingest" => AllowAutocreate
    /\ e.pc \in Stages \ {"insert"} => e.inserted
    /\ RequireApiKey => e.pc # "keys"
    /\ RequireApiKey /\ e.pc \in InFlight \ {"keys", "validate"} =>
          e.scope # Open
    /\ e.pc \in Stages \union {"known", "lookup", "create", "readback"} =>
          e.scope \in {Open, Global, e.call.project}
    /\ e.inserted =>
          /\ e.pc \in (Stages \ {"insert"}) \union {"done", "lost"}
          /\ e.call.op = "ingest"
          /\ e.scope \in {Open, Global, e.call.project}
          /\ RequireApiKey => e.scope # Open
    /\ e.pc = "done" /\ e.status = 201 /\ e.call.op = "ingest" => e.inserted

HandlersOK == \A r \in Requests : Handled(req[r])

LEMMA HandledGoto ==
    ASSUME TypeOK, NEW r \in Requests, NEW pc \in Pc, Goto(r, pc)
    PROVE  /\ req'[r].pc = pc
           /\ req'[r].call = req[r].call
           /\ req'[r].scope = req[r].scope
           /\ req'[r].inserted = req[r].inserted
           /\ req'[r].warned = req[r].warned
           /\ req'[r].status = req[r].status
<1>1. req[r] \in Request
  BY DEF TypeOK
<1>2. req'[r] = [req[r] EXCEPT !.pc = pc]
  BY DEF Goto, TypeOK
<1>3. QED
  BY <1>1, <1>2 DEF Request

LEMMA HandledReply ==
    ASSUME TypeOK, NEW r \in Requests, NEW status \in Statuses,
           Reply(r, status)
    PROVE  /\ req'[r].pc = "done"
           /\ req'[r].call = req[r].call
           /\ req'[r].scope = req[r].scope
           /\ req'[r].inserted = req[r].inserted
           /\ req'[r].warned = req[r].warned
           /\ req'[r].status = status
<1>1. req[r] \in Request
  BY DEF TypeOK
<1>2. req'[r] = [req[r] EXCEPT !.pc = "done", !.status = status]
  BY DEF Reply, TypeOK
<1>3. QED
  BY <1>1, <1>2 DEF Request

LEMMA HandledStep ==
    ASSUME TypeOK, NEW r \in Requests, Handled(req[r]), Step(r)
    PROVE  Handled(req'[r])
<1> USE DEF At, InFlight, Awaits, Pc, Stages, Handled
<1>0. req[r] \in Request /\ req[r].call # NoCall
  BY StepMoves DEF TypeOK
<1>1. CASE AnyApiKeysExist(r)
  BY <1>1, HandledGoto DEF AnyApiKeysExist
<1>2. CASE ValidateApiKey(r)
  <2>1. CASE req[r].key # NoKey /\ Live(req[r].key)
    <3>1. api_keys[req[r].key].scope \in ProjectIds \union {Global}
      BY <1>0, <2>1 DEF TypeOK, DbTypeOK, Request, Live, ApiKey
    <3>2. req'[r] = [req[r] EXCEPT !.pc = "touch",
                                   !.scope = api_keys[req[r].key].scope]
      BY <1>2, <2>1 DEF ValidateApiKey, TypeOK
    <3>3. QED
      BY <1>0, <1>2, <3>1, <3>2, IngestAssumption DEF ValidateApiKey, Request
  <2>2. CASE ~(req[r].key # NoKey /\ Live(req[r].key))
    BY <1>2, <2>2, HandledReply DEF ValidateApiKey, Statuses
  <2>3. QED
    BY <2>1, <2>2
<1>3. CASE MarkKeyUsed(r)
  BY <1>3, HandledGoto DEF MarkKeyUsed
<1>4. CASE RefuseBody(r) \/ RefuseScope(r)
  BY <1>4, HandledReply DEF RefuseBody, RefuseScope, Statuses
<1>5. CASE ParseIngest(r)
  <2>1. req'[r] = [req[r] EXCEPT
                     !.pc = IF AllowAutocreate THEN "lookup" ELSE "known",
                     !.created = clock + 1]
    BY <1>5 DEF ParseIngest, TypeOK
  <2>2. /\ req'[r].pc \in {"lookup", "known"}
        /\ req'[r].call = req[r].call
        /\ req'[r].scope = req[r].scope
        /\ req'[r].inserted = req[r].inserted
    BY <1>0, <2>1 DEF Request
  <2>3. QED
    BY <1>5, <2>2 DEF ParseIngest, InScope, Target, IsIngest
<1>6. CASE ParseCreate(r)
  BY <1>6, HandledGoto DEF ParseCreate, InScope, Target, IsIngest
<1>7. CASE RequireKnownProject(r)
  <2>1. CASE Goto(r, "lookup")
    BY <1>7, <2>1, HandledGoto DEF RequireKnownProject
  <2>2. CASE Reply(r, 404)
    BY <1>7, <2>2, HandledReply DEF RequireKnownProject, Statuses
  <2>3. QED
    BY <1>7, <2>1, <2>2 DEF RequireKnownProject
<1>8. CASE LookupProject(r)
  <2>1. CASE Goto(r, "insert")
    BY <1>8, <2>1, HandledGoto DEF LookupProject
  <2>2. CASE AllowAutocreate /\ Goto(r, "create")
    BY <1>8, <2>2, HandledGoto DEF LookupProject
  <2>3. CASE Reply(r, 500)
    BY <1>8, <2>3, HandledReply DEF LookupProject, Statuses
  <2>4. QED
    BY <1>8, <2>1, <2>2, <2>3 DEF LookupProject
<1>9. CASE CreateProject(r)
  BY <1>9, HandledGoto DEF CreateProject
<1>10. CASE CreateConflict(r) \/ StatementFails(r)
  <2>1. PICK status \in {409, 500} : Reply(r, status)
    BY <1>10 DEF CreateConflict, StatementFails, ErrorStatus
  <2>2. QED
    BY <1>10, <2>1, HandledReply
       DEF CreateConflict, StatementFails, Statuses
<1>11. CASE ReadBackProject(r)
  <2>1. CASE IsIngest(r) /\ Goto(r, "insert")
    BY <1>11, <2>1, HandledGoto DEF ReadBackProject, IsIngest
  <2>2. CASE ~IsIngest(r) /\ Reply(r, 201)
    BY <1>11, <2>2, HandledReply DEF ReadBackProject, Statuses, IsIngest
  <2>3. CASE \E status \in {409, 500} : Reply(r, status)
    BY <1>11, <2>3, HandledReply DEF ReadBackProject, Statuses
  <2>4. QED
    BY <1>11, <2>1, <2>2, <2>3 DEF ReadBackProject, ErrorStatus
<1>12. CASE StoreSnapshot(r)
  <2>1. req'[r] = [req[r] EXCEPT !.pc = "ratchet", !.inserted = TRUE]
    BY <1>12 DEF StoreSnapshot, TypeOK
  <2>2. /\ req'[r].pc = "ratchet" /\ req'[r].inserted
        /\ req'[r].call = req[r].call
        /\ req'[r].scope = req[r].scope
    BY <1>0, <2>1 DEF Request
  <2>3. QED
    BY <1>12, <2>2 DEF StoreSnapshot
<1>13. CASE StoreOrphan(r)
  BY <1>13, HandledReply DEF StoreOrphan, Statuses
<1>14. CASE CheckRatchet(r)
  <2>1. CASE Exists(Target(r)) /\ projects[Target(r)].ratchet
    <3>1. req'[r] = [req[r] EXCEPT
                       !.pc = IF Allows(req[r].call.branch) THEN "advance"
                              ELSE "retention",
                       !.warned = Violated(r)]
      BY <1>14, <2>1 DEF CheckRatchet, TypeOK
    <3>2. QED
      BY <1>0, <1>14, <3>1 DEF CheckRatchet, Request
  <2>2. CASE ~(Exists(Target(r)) /\ projects[Target(r)].ratchet)
    BY <1>14, <2>2, HandledGoto DEF CheckRatchet
  <2>3. QED
    BY <2>1, <2>2
<1>15. CASE AdvanceRatchet(r)
  BY <1>15, HandledGoto DEF AdvanceRatchet
<1>16. CASE ReadRetention(r)
  <2>1. PICK l : req'[r] = [req[r] EXCEPT !.pc = "strip", !.limits = l]
    BY <1>16 DEF ReadRetention, TypeOK
  <2>2. QED
    BY <1>0, <1>16, <2>1 DEF ReadRetention, Request
<1>17. CASE Strip(r)
  BY <1>17, HandledGoto DEF Strip
<1>18. CASE Delete(r)
  BY <1>18, HandledReply DEF Delete, Statuses
<1>19. QED
  BY <1>1, <1>2, <1>3, <1>4, <1>5, <1>6, <1>7, <1>8, <1>9, <1>10, <1>11,
     <1>12, <1>13, <1>14, <1>15, <1>16, <1>17, <1>18 DEF Step

LEMMA HandlersStep == TypeOK /\ HandlersOK /\ [Next]_vars => HandlersOK'
<1> SUFFICES ASSUME TypeOK, HandlersOK, [Next]_vars, NEW q \in Requests
             PROVE  Handled(req'[q])
  BY DEF HandlersOK
<1>0. Handled(req[q]) /\ req[q] \in Request
  BY DEF HandlersOK, TypeOK
<1>1. ASSUME NEW r \in Requests, Receive(r)
      PROVE  Handled(req'[q])
  <2>1. PICK e \in Request :
           /\ req' = [req EXCEPT ![r] = e]
           /\ e.pc = IF RequireApiKey THEN "validate" ELSE "keys"
           /\ e.inserted = req[r].inserted
    BY <1>1, ReceiveMoves
  <2>2. ~req[r].inserted
    BY <1>1 DEF Receive, At, HandlersOK, Handled, Stages
  <2>3. Handled(e)
    BY <2>1, <2>2 DEF Handled, Stages
  <2>4. QED
    BY <1>0, <2>1, <2>3 DEF TypeOK
<1>2. ASSUME NEW r \in Requests, Step(r)
      PROVE  Handled(req'[q])
  <2>1. CASE q = r
    BY <1>0, <1>2, <2>1, HandledStep
  <2>2. CASE q # r
    <3>1. req'[q] = req[q]
      BY <1>2, <2>2, StepMoves DEF Moves, TypeOK
    <3>2. QED
      BY <1>0, <3>1
  <2>3. QED
    BY <2>1, <2>2
<1>3. ASSUME req'[q] = [req[q] EXCEPT !.pc = "lost"]
      PROVE  Handled(req'[q])
  <2>1. /\ req'[q].pc = "lost"
        /\ req'[q].call = req[q].call
        /\ req'[q].scope = req[q].scope
        /\ req'[q].inserted = req[q].inserted
    BY <1>0, <1>3 DEF Request
  <2>2. QED
    BY <1>0, <2>1 DEF Handled, Stages, InFlight, Awaits
<1>4. ASSUME req'[q] = req[q]
      PROVE  Handled(req'[q])
  BY <1>0, <1>4
<1>5. ASSUME NEW r \in Requests, HangUp(r)
      PROVE  Handled(req'[q])
  BY <1>3, <1>4, <1>5 DEF HangUp, Goto, TypeOK
<1>6. CASE Restart
  BY <1>3, <1>4, <1>6, RestartMoves
<1>7. CASE Admin \/ UNCHANGED vars
  BY <1>4, <1>7, AdminTables DEF vars, TypeOK
<1>8. QED
  BY <1>1, <1>2, <1>5, <1>6, <1>7 DEF Next

LEMMA HandlersInit == Init => HandlersOK
BY DEF Init, Idle, HandlersOK, Handled, Stages, InFlight, Awaits

LEMMA HandlersCorrect == Spec => [](TypeOK /\ HandlersOK)
BY TypeInit, TypeStep, HandlersInit, HandlersStep, PTL DEF Spec

-----------------------------------------------------------------------------
(* Authorisation and closed mode *)

\* Nothing is stored for a call that the instance's key check does not let
\* through, even if keys are issued, revoked or deleted with their project
\* while the call is on its way (authenticate_write, enforce_project_scope).
THEOREM OnlyAuthorisedWrites == Spec => []WritesAuthorised
<1>1. TypeOK /\ HandlersOK => WritesAuthorised
  <2> SUFFICES ASSUME TypeOK, HandlersOK, NEW r \in Requests, req[r].inserted
               PROVE  \/ req[r].scope \in {Global, Target(r)}
                      \/ req[r].scope = Open /\ ~RequireApiKey
    BY DEF WritesAuthorised
  <2>1. QED
    BY DEF HandlersOK, Handled, Target
<1>2. QED
  BY <1>1, HandlersCorrect, PTL

\* With auto-creation off, a project comes into being only through the
\* endpoint that creates projects (ingest_coverage, ingest_snapshot).
THEOREM ClosedModeHolds == Spec => ClosedModeDeliberate
<1> DEFINE Deliberate ==
      ~AllowAutocreate =>
          \A p \in ProjectIds : ~Exists(p) /\ Exists(p)' =>
              \E r \in Requests :
                  At(r, "create") /\ Target(r) = p /\ ~IsIngest(r)
<1>1. TypeOK /\ HandlersOK /\ [Next]_vars => Deliberate
  <2> SUFFICES ASSUME TypeOK, HandlersOK, [Next]_vars, ~AllowAutocreate,
                      NEW p \in ProjectIds, ~Exists(p), Exists(p)'
               PROVE  \E r \in Requests :
                         At(r, "create") /\ Target(r) = p /\ ~IsIngest(r)
    OBVIOUS
  <2>0. DbTypeOK
    BY DEF TypeOK
  <2>1. ASSUME NEW r \in Requests, Step(r)
        PROVE  At(r, "create") /\ Target(r) = p /\ ~IsIngest(r)
    <3>1. CASE projects' = projects
      BY <3>1 DEF Exists
    <3>2. CASE AdvanceRatchetFloor(Target(r), RateOf(r))
      BY <2>0, <2>1, <3>2, StepProjects, AdvanceEffect
    <3>3. CASE CreateProject(r) /\ InsertProject(Target(r))
      <4>1. Target(r) = p
        BY <2>0, <2>1, <3>3, StepProjects, InsertEffect DEF Exists
      <4>2. At(r, "create")
        BY <3>3 DEF CreateProject
      <4>3. ~IsIngest(r)
        BY <4>2 DEF HandlersOK, Handled, At, IsIngest
      <4>4. QED
        BY <4>1, <4>2, <4>3
    <3>4. QED
      BY <2>1, <3>1, <3>2, <3>3, StepProjects
  <2>2. CASE SaveProjectRatchet
    BY <2>0, <2>2, ConfigureEffect, IngestAssumption DEF SaveProjectRatchet
  <2>3. CASE RemoveProject
    BY <2>0, <2>3, IngestAssumption
       DEF RemoveProject, DeleteProject, DbTypeOK, Exists
  <2>4. CASE UNCHANGED projects
    BY <2>4 DEF Exists
  <2>5. QED
    BY <2>1, <2>2, <2>3, <2>4
       DEF Next, Receive, HangUp, Restart, Admin, SaveSettings,
           UpdateSettings, IssueApiKey, InsertApiKey, RevokeApiKey,
           DeleteApiKey, vars, db
<1>2. QED
  BY <1>1, HandlersCorrect, PTL DEF Spec, ClosedModeDeliberate

-----------------------------------------------------------------------------
(* Requests only raise *)

\* Whatever a request does, and whoever else is running, it never lowers or
\* clears a floor and never flips a ratchet (advance_ratchet_floor).
THEOREM OnlyRaises == Spec => RequestsOnlyRaise
<1> DEFINE Raises ==
      \A p \in ProjectIds :
          Exists(p) /\ Exists(p)' /\ req' # req =>
              /\ projects'[p].ratchet = projects[p].ratchet
              /\ \A m \in Metrics :
                    AtLeast(projects'[p].floor[m], projects[p].floor[m])
<1>1. TypeOK /\ [Next]_vars => Raises
  <2> SUFFICES ASSUME TypeOK, [Next]_vars, NEW p \in ProjectIds,
                      Exists(p), Exists(p)', req' # req
               PROVE  /\ projects'[p].ratchet = projects[p].ratchet
                      /\ \A m \in Metrics :
                            AtLeast(projects'[p].floor[m], projects[p].floor[m])
    OBVIOUS
  <2>0. DbTypeOK
    BY DEF TypeOK
  <2>1. CASE projects'[p] = projects[p]
    BY <2>0, <2>1, FloorType
  <2>2. ASSUME NEW r \in Requests, Step(r)
        PROVE  \/ projects'[p] = projects[p]
               \/ AdvanceRatchetFloor(Target(r), RateOf(r))
    BY <2>0, <2>2, StepProjects, InsertEffect
  <2>3. ASSUME NEW r \in Requests, Step(r),
               AdvanceRatchetFloor(Target(r), RateOf(r))
        PROVE  /\ projects'[p].ratchet = projects[p].ratchet
               /\ \A m \in Metrics :
                     AtLeast(projects'[p].floor[m], projects[p].floor[m])
    BY <2>0, <2>3, StepProjects, AdvanceEffect
  <2>4. CASE Admin \/ UNCHANGED vars
    BY <2>0, <2>4, AdminTables DEF vars
  <2>5. QED
    BY <2>1, <2>2, <2>3, <2>4 DEF Next, Receive, HangUp, Restart, db
<1>2. QED
  BY <1>1, TypeCorrect, PTL DEF Spec, RequestsOnlyRaise

-----------------------------------------------------------------------------
(* The contract *)

\* The SQL expression of the floor is the better of floor and rate.
LEMMA HigherIsBest ==
    ASSUME NEW f \in Rates \union {NoFloor}, NEW v \in Rates
    PROVE  Higher(f, v) = Contract!Best(f, v)
<1>1. Rates \subseteq Nat /\ 0 \in Rates
  BY ConstantsAssumption
<1>2. QED
  BY <1>1 DEF Higher, Contract!Best

\* The builds that reach AdvanceRatchet are release builds of their project.
LEMMA AdvancerIsRelease ==
    ASSUME TypeOK, HandlersOK, NEW r \in Requests, At(r, "advance")
    PROVE  /\ IsRelease(r)
           /\ req[r].inserted
           /\ [project |-> Target(r), rate |-> RateOf(r)] \in ReleaseBuilds
<1>1. /\ IsIngest(r) /\ Allows(req[r].call.branch) /\ req[r].inserted
  BY DEF HandlersOK, Handled, At, IsIngest, Stages
<1>2. req[r].call \in Calls
  BY SentCall DEF At
<1>3. req[r].call.branch \in ReleaseLine
  BY <1>1 DEF Allows, ReleaseLine
<1>4. QED
  BY <1>1, <1>2, <1>3 DEF IsRelease, IsIngest, ReleaseBuilds, Target, RateOf

LEMMA RaiseImplements ==
    ASSUME DbTypeOK, NEW p \in ProjectIds, NEW rate \in Rate,
           [project |-> p, rate |-> rate] \in ReleaseBuilds,
           AdvanceRatchetFloor(p, rate)
    PROVE  [Contract!Next]_projects
<1>1. CASE Exists(p) /\ projects[p].ratchet
  <2> DEFINE b == [project |-> p, rate |-> rate]
  <2>1. \A m \in Metrics : Higher(projects[p].floor[m], rate[m])
                             = Contract!Best(projects[p].floor[m], rate[m])
    BY <1>1, FloorType, HigherIsBest DEF Rate
  <2>2. [m \in Metrics |-> Higher(projects[p].floor[m], rate[m])]
           = [m \in Metrics |-> Contract!Best(projects[p].floor[m], rate[m])]
    BY <2>1
  <2>3. projects' = [projects EXCEPT ![p].floor =
           [m \in Metrics |-> Contract!Best(projects[p].floor[m], rate[m])]]
    BY <1>1, <2>2 DEF AdvanceRatchetFloor
  <2>4. Contract!Raise(b)
    BY <1>1, <2>3 DEF Contract!Raise, Exists
  <2>5. QED
    BY <2>4 DEF Contract!Next
<1>2. CASE ~(Exists(p) /\ projects[p].ratchet)
  BY <1>2 DEF AdvanceRatchetFloor
<1>3. QED
  BY <1>1, <1>2

\* Every step of every handler and of every settings page, seen through the
\* projects table, is one the contract allows, or no step at all.
LEMMA NextImplements ==
    ASSUME TypeOK, HandlersOK, [Next]_vars
    PROVE  [Contract!Next]_projects
<1>0. DbTypeOK
  BY DEF TypeOK
<1>1. CASE UNCHANGED projects
  BY <1>1
<1>2. ASSUME NEW r \in Requests, Step(r)
      PROVE  [Contract!Next]_projects
  <2>1. CASE CreateProject(r) /\ InsertProject(Target(r))
    <3>1. Contract!Create(Target(r))
      BY <2>1 DEF InsertProject, Exists, NewProject, Contract!Create,
                  Contract!Fresh
    <3>2. QED
      BY <1>2, <3>1, StepProjects DEF Contract!Next
  <2>2. CASE AdvanceRatchet(r) /\ AdvanceRatchetFloor(Target(r), RateOf(r))
    BY <1>0, <1>2, <2>2, StepProjects, AdvancerIsRelease, RaiseImplements
       DEF AdvanceRatchet
  <2>3. QED
    BY <1>1, <1>2, <2>1, <2>2, StepProjects
<1>3. CASE SaveProjectRatchet
  <2>1. PICK p \in ProjectIds, f \in RatchetForms :
           UpdateRatchet(p, f.enabled, f.floor)
    BY <1>3 DEF SaveProjectRatchet
  <2>2. UNCHANGED projects \/ Contract!Configure(p, f)
    BY <2>1 DEF UpdateRatchet, Exists, Contract!Configure
  <2>3. QED
    BY <2>1, <2>2 DEF Contract!Next
<1>4. CASE RemoveProject
  BY <1>4 DEF RemoveProject, DeleteProject, Contract!Next, Contract!Remove
<1>5. QED
  BY <1>1, <1>2, <1>3, <1>4
     DEF Next, Receive, HangUp, Restart, Admin, SaveSettings, UpdateSettings,
         IssueApiKey, InsertApiKey, RevokeApiKey, DeleteApiKey, vars, db

\* The write path of the dashboard implements the ratchet's contract.
THEOREM IngestKeepsRatchet == Spec => RatchetIsKept
<1>1. Init => Contract!Init
  BY DEF Init, Contract!Init
<1>2. TypeOK /\ HandlersOK /\ [Next]_vars => [Contract!Next]_projects
  BY NextImplements
<1>3. QED
  BY <1>1, <1>2, HandlersCorrect, PTL DEF Spec, RatchetIsKept, Contract!Spec

-----------------------------------------------------------------------------
(* Provenance *)

\* A request that was sent keeps its call, what it stored, and its answer.
LEMMA RequestsStay ==
    ASSUME TypeOK, [Next]_vars, NEW q \in Requests, req[q].pc # "idle"
    PROVE  /\ req'[q].call = req[q].call
           /\ req'[q].after = req[q].after
           /\ req[q].inserted => req'[q].inserted
           /\ Answered(q) => req'[q] = req[q]
<1>1. ASSUME NEW r \in Requests, Receive(r)
      PROVE  req'[q] = req[q]
  <2>1. PICK e : req' = [req EXCEPT ![r] = e]
    BY <1>1, ReceiveMoves
  <2>2. QED
    BY <1>1, <2>1 DEF Receive, At, TypeOK
<1>2. ASSUME NEW r \in Requests, Step(r) \/ HangUp(r)
      PROVE  \/ req'[q] = req[q]
             \/ Later(req[q], req'[q]) /\ ~Answered(q)
  <2>1. Moves(r) /\ req[r].pc \in InFlight
    BY <1>2, StepMoves, GotoMoves DEF HangUp, Pc
  <2>2. PICK e : Later(req[r], e) /\ req' = [req EXCEPT ![r] = e]
    BY <2>1 DEF Moves
  <2>3. QED
    BY <2>1, <2>2 DEF TypeOK, Answered, InFlight, Awaits
<1>3. CASE Restart
  BY <1>3, RestartMoves DEF Later, Answered, InFlight, Awaits
<1>4. CASE Admin \/ UNCHANGED vars
  BY <1>4, AdminTables DEF vars, TypeOK
<1>5. QED
  BY <1>1, <1>2, <1>3, <1>4 DEF Next, Later

\* Where a floor x of metric m of project p may come from.
FromRequest(p, m, x) ==
    \E r \in Requests :
        /\ req[r].inserted
        /\ IsRelease(r)
        /\ Target(r) = p
        /\ RateOf(r)[m] = x
Sourced(p, m, x) ==
    \/ x = NoFloor
    \/ \E f \in RatchetForms : f.floor[m] = x
    \/ \E i \in InitialProjects : i[p] # NoProject /\ i[p].floor[m] = x
    \/ FromRequest(p, m, x)

\* A provenance is never lost.
LEMMA SourcesStay ==
    ASSUME TypeOK, HandlersOK, [Next]_vars, NEW p, NEW m, NEW x,
           Sourced(p, m, x)
    PROVE  Sourced(p, m, x)'
<1>1. CASE FromRequest(p, m, x)
  <2>1. PICK r \in Requests : /\ req[r].inserted
                              /\ IsRelease(r)
                              /\ Target(r) = p
                              /\ RateOf(r)[m] = x
    BY <1>1 DEF FromRequest
  <2>2. req[r].pc # "idle"
    BY <2>1 DEF HandlersOK, Handled, Stages
  <2>3. req'[r].call = req[r].call /\ req'[r].inserted
    BY <2>1, <2>2, RequestsStay
  <2>4. FromRequest(p, m, x)'
    BY <2>1, <2>3 DEF FromRequest, IsRelease, IsIngest, Target, RateOf
  <2>5. QED
    BY <2>4 DEF Sourced
<1>2. QED
  BY <1>1 DEF Sourced

\* The better floor is one of the two.
LEMMA HigherSource ==
    ASSUME NEW f \in Rates \union {NoFloor}, NEW v \in Rates
    PROVE  Higher(f, v) = f \/ Higher(f, v) = v
<1>1. v \in Nat /\ (f # NoFloor => f \in Nat)
  BY ConstantsAssumption
<1>2. QED
  BY <1>1 DEF Higher

LEMMA ProvenanceStep ==
    TypeOK /\ HandlersOK /\ FloorProvenance /\ [Next]_vars => FloorProvenance'
<1> SUFFICES ASSUME TypeOK, HandlersOK, FloorProvenance, [Next]_vars,
                    NEW p \in ProjectIds, Exists(p)', NEW m \in Metrics,
                    NEW x, x = projects'[p].floor[m]
             PROVE  Sourced(p, m, x)'
  BY DEF FloorProvenance, Sourced, FromRequest
<1>0. DbTypeOK
  BY DEF TypeOK
<1>1. CASE Exists(p) /\ x = projects[p].floor[m]
  <2>1. Sourced(p, m, x)
    BY <1>1 DEF FloorProvenance, Sourced, FromRequest
  <2>2. QED
    BY <2>1, SourcesStay
<1>2. CASE projects'[p] = projects[p]
  BY <1>1, <1>2 DEF Exists
<1>3. ASSUME NEW r \in Requests, Step(r)
      PROVE  Sourced(p, m, x)'
  <2>1. CASE CreateProject(r) /\ InsertProject(Target(r))
    <3>1. CASE p = Target(r)
      <4>1. projects'[p] = NewProject
        BY <1>0, <1>3, <2>1, <3>1, StepProjects, InsertEffect
      <4>2. x = NoFloor
        BY <4>1 DEF NewProject
      <4>3. QED
        BY <4>2 DEF Sourced
    <3>2. CASE p # Target(r)
      BY <1>0, <1>2, <1>3, <2>1, <3>2, StepProjects, InsertEffect
    <3>3. QED
      BY <3>1, <3>2
  <2>2. CASE AdvanceRatchet(r) /\ AdvanceRatchetFloor(Target(r), RateOf(r))
    <3>1. CASE p = Target(r) /\ Ratcheted(p)
      <4> DEFINE old == projects[p].floor[m]
                 rate == RateOf(r)[m]
      <4>1. Exists(p) /\ old \in Rates \union {NoFloor} /\ rate \in Rates
        BY <1>0, <1>3, <3>1, FloorType, StepProjects DEF Ratcheted, Rate
      <4>2. x = Higher(old, rate)
        BY <1>0, <1>3, <2>2, <3>1, StepProjects, AdvanceEffect
      <4>3. Higher(old, rate) = old \/ Higher(old, rate) = rate
        BY <4>1, HigherSource
      <4>4. CASE x = old
        BY <1>1, <4>1, <4>4
      <4>5. CASE x = rate
        <5>1. /\ req[r].inserted /\ IsRelease(r)
              /\ Target(r) = p /\ RateOf(r)[m] = x
          BY <2>2, <3>1, <4>5, AdvancerIsRelease DEF AdvanceRatchet
        <5>2. Sourced(p, m, x)
          BY <5>1 DEF Sourced, FromRequest
        <5>3. QED
          BY <5>2, SourcesStay
      <4>6. QED
        BY <4>2, <4>3, <4>4, <4>5
    <3>2. CASE p # Target(r)
      BY <1>0, <1>2, <1>3, <2>2, <3>2, StepProjects, AdvanceEffect
    <3>3. CASE p = Target(r) /\ ~Ratcheted(p)
      BY <1>2, <2>2, <3>3 DEF AdvanceRatchetFloor, Ratcheted
    <3>4. QED
      BY <3>1, <3>2, <3>3
  <2>3. QED
    BY <1>2, <1>3, <2>1, <2>2, StepProjects
<1>4. CASE SaveProjectRatchet
  <2>1. PICK q \in ProjectIds, f \in RatchetForms :
           UpdateRatchet(q, f.enabled, f.floor)
    BY <1>4 DEF SaveProjectRatchet
  <2>2. CASE p = q /\ Exists(q)
    <3>1. projects'[p] = [ratchet |-> f.enabled, floor |-> f.floor]
      BY <1>0, <2>1, <2>2 DEF UpdateRatchet, DbTypeOK
    <3>2. x = f.floor[m]
      BY <3>1
    <3>3. QED
      BY <3>2 DEF Sourced
  <2>3. CASE ~(p = q /\ Exists(q))
    BY <1>0, <1>2, <2>1, <2>3 DEF UpdateRatchet, DbTypeOK
  <2>4. QED
    BY <2>2, <2>3
<1>5. CASE RemoveProject
  <2>1. projects'[p] = projects[p]
    BY <1>0, <1>5, IngestAssumption
       DEF RemoveProject, DeleteProject, DbTypeOK, Exists
  <2>2. QED
    BY <1>2, <2>1
<1>6. CASE UNCHANGED projects
  BY <1>2, <1>6
<1>7. QED
  BY <1>3, <1>4, <1>5, <1>6
     DEF Next, Receive, HangUp, Restart, Admin, SaveSettings, UpdateSettings,
         IssueApiKey, InsertApiKey, RevokeApiKey, DeleteApiKey, vars, db

\* Every floor was there at the start, was entered in the settings form, or
\* was achieved by a stored release build of that very project.
THEOREM FloorsHaveProvenance == Spec => []FloorProvenance
<1>1. Init => FloorProvenance
  BY DEF Init, FloorProvenance, Exists
<1>2. QED
  BY <1>1, ProvenanceStep, HandlersCorrect, PTL DEF Spec

-----------------------------------------------------------------------------
(* No raise is lost.  FloorCaughtUp speaks of answered requests; inductive *)
(* is that the floors have caught up as soon as AdvanceRatchet is over.    *)

Raised(r) ==
    /\ IsRelease(r)
    /\ req[r].pc \in {"retention", "strip", "delete"} \/ Succeeded(r)

CaughtUp(r) ==
    \A m \in Metrics :
        /\ projects[Target(r)].floor[m] \in Rates
        /\ projects[Target(r)].floor[m] >= RateOf(r)[m]

CaughtUpInv ==
    Undisturbed =>
        \A r \in Requests :
            Raised(r) /\ Ratcheted(Target(r)) => CaughtUp(r)

\* Undisturbed, a ratchet that is on was on before, and floors only rise.
LEMMA RatchetsStay ==
    ASSUME TypeOK, HandlersOK, [Next]_vars, Undisturbed,
           NEW p \in ProjectIds, Ratcheted(p)'
    PROVE  /\ Ratcheted(p)
           /\ \A m \in Metrics :
                 AtLeast(projects'[p].floor[m], projects[p].floor[m])
<1>0. DbTypeOK
  BY DEF TypeOK
<1>1. CASE projects'[p] = projects[p]
  <2>1. Ratcheted(p)
    BY <1>1 DEF Ratcheted, Exists
  <2>2. QED
    BY <1>0, <1>1, <2>1, FloorType DEF Ratcheted
<1>2. ASSUME NEW r \in Requests, Step(r), InsertProject(Target(r))
      PROVE  projects'[p] = projects[p]
  <2>1. CASE p = Target(r)
    BY <1>0, <1>2, <2>1, StepProjects, InsertEffect DEF Ratcheted, NewProject
  <2>2. CASE p # Target(r)
    BY <1>0, <1>2, <2>2, StepProjects, InsertEffect
  <2>3. QED
    BY <2>1, <2>2
<1>3. ASSUME NEW r \in Requests, Step(r),
             AdvanceRatchetFloor(Target(r), RateOf(r))
      PROVE  /\ Ratcheted(p)
             /\ \A m \in Metrics :
                   AtLeast(projects'[p].floor[m], projects[p].floor[m])
  BY <1>0, <1>3, StepProjects, AdvanceEffect DEF Ratcheted
<1>4. ASSUME NEW r \in Requests, Step(r)
      PROVE  \/ projects'[p] = projects[p]
             \/ InsertProject(Target(r))
             \/ AdvanceRatchetFloor(Target(r), RateOf(r))
  BY <1>4, StepProjects
<1>5. ~SaveProjectRatchet /\ ~RemoveProject
  BY DEF Undisturbed, SaveProjectRatchet, RemoveProject
<1>6. CASE UNCHANGED projects
  BY <1>1, <1>6
<1>7. QED
  BY <1>1, <1>2, <1>3, <1>4, <1>5, <1>6
     DEF Next, Receive, HangUp, Restart, Admin, SaveSettings, UpdateSettings,
         IssueApiKey, InsertApiKey, RevokeApiKey, DeleteApiKey, vars, db

\* Target and rate of a request that was sent are a project and a rate.
LEMMA SentType ==
    ASSUME TypeOK, NEW r \in Requests, req[r].pc # "idle"
    PROVE  /\ Target(r) \in ProjectIds
           /\ \A m \in Metrics : RateOf(r)[m] \in Rates /\ RateOf(r)[m] \in Nat
<1>1. Target(r) \in ProjectIds /\ RateOf(r) \in Rate
  BY SentCall
<1>2. QED
  BY <1>1, ConstantsAssumption DEF Rate

\* Once caught up, the floors stay caught up.
LEMMA CaughtUpStays ==
    ASSUME TypeOK, HandlersOK, [Next]_vars, Undisturbed,
           NEW r \in Requests, req[r].pc # "idle", Ratcheted(Target(r))',
           CaughtUp(r)
    PROVE  CaughtUp(r)'
<1>1. /\ Target(r)' = Target(r) /\ RateOf(r)' = RateOf(r)
      /\ Target(r) \in ProjectIds
      /\ \A m \in Metrics : RateOf(r)[m] \in Nat
  BY SentType, RequestsStay DEF Target, RateOf
<1> DEFINE p == Target(r)
<1>2. \A m \in Metrics : AtLeast(projects'[p].floor[m], projects[p].floor[m])
  BY <1>1, RatchetsStay DEF Ratcheted, Exists
<1>3. \A m \in Metrics : projects'[p].floor[m] \in Rates \union {NoFloor}
  <2>1. DbTypeOK'
    BY TypeStep DEF TypeOK
  <2>2. projects'[p] \in Project
    BY <1>1, <2>1 DEF DbTypeOK, Ratcheted, Exists
  <2>3. QED
    BY <2>2 DEF Project, Floor
<1>4. Rates \subseteq Nat /\ NoFloor \notin Rates
  BY ConstantsAssumption, SentinelsAssumption
<1>5. \A m \in Metrics :
         /\ projects'[p].floor[m] \in Rates
         /\ projects'[p].floor[m] >= RateOf(r)[m]
  <2> SUFFICES ASSUME NEW m \in Metrics
               PROVE  /\ projects'[p].floor[m] \in Rates
                      /\ projects'[p].floor[m] >= RateOf(r)[m]
    OBVIOUS
  <2>1. projects[p].floor[m] \in Rates /\ projects[p].floor[m] >= RateOf(r)[m]
    BY DEF CaughtUp
  <2>2. /\ projects'[p].floor[m] # NoFloor
        /\ projects'[p].floor[m] >= projects[p].floor[m]
    BY <1>2, <1>4, <2>1 DEF AtLeast
  <2>3. projects'[p].floor[m] \in Rates
    BY <1>3, <2>2
  <2>4. /\ projects[p].floor[m] \in Nat
        /\ projects'[p].floor[m] \in Nat
        /\ RateOf(r)[m] \in Nat
    BY <1>1, <1>4, <2>1, <2>3
  <2>5. QED
    BY <2>1, <2>2, <2>3, <2>4
<1>6. QED
  BY <1>1, <1>5 DEF CaughtUp

\* A release build gets behind AdvanceRatchet only through it, unless its
\* project has no ratchet.
LEMMA RaisedBy ==
    ASSUME TypeOK, HandlersOK, NEW r \in Requests, Step(r), Raised(r)'
    PROVE  \/ Raised(r)
           \/ AdvanceRatchet(r)
           \/ UNCHANGED projects /\ ~Ratcheted(Target(r))
<1>0. /\ req[r] \in Request /\ req'[r] \in Request
      /\ req'[r].call = req[r].call
      /\ req[r].pc \in InFlight
      /\ IsRelease(r)
      /\ req'[r].pc \in {"retention", "strip", "delete"}
         \/ (req'[r].pc = "done" /\ req'[r].status = 201)
  <2>1. PICK e : Later(req[r], e) /\ req' = [req EXCEPT ![r] = e]
    BY StepMoves DEF Moves
  <2>2. req[r] \in Request /\ req'[r] = e
    BY <2>1 DEF TypeOK
  <2>3. req'[r] \in Request /\ req'[r].call = req[r].call
    BY <2>1, <2>2 DEF Later
  <2>4. req[r].pc \in InFlight
    BY StepMoves
  <2>5. IsRelease(r)
    BY <2>3 DEF Raised, IsRelease, IsIngest
  <2>6. req'[r].pc \in {"retention", "strip", "delete"}
        \/ (req'[r].pc = "done" /\ req'[r].status = 201)
    BY DEF Raised, Succeeded, Answered
  <2>7. QED
    BY <2>2, <2>3, <2>4, <2>5, <2>6
<1>1. Allows(req[r].call.branch) /\ IsIngest(r)
  BY <1>0, ConstantsAssumption, SentinelsAssumption
     DEF IsRelease, Allows, ReleaseLine
<1>2. CASE req[r].pc \in {"retention", "strip", "delete"}
  BY <1>0, <1>2 DEF Raised
<1>3. CASE CheckRatchet(r)
  <2>1. CASE Ratcheted(Target(r))
    <3>1. req'[r].pc = "advance"
      BY <1>0, <1>1, <1>3, <2>1 DEF CheckRatchet, Ratcheted, TypeOK, Request
    <3>2. QED
      BY <1>0, <3>1
  <2>2. CASE ~Ratcheted(Target(r))
    BY <1>3, <2>2 DEF CheckRatchet, db
  <2>3. QED
    BY <2>1, <2>2
<1>4. CASE AdvanceRatchet(r)
  BY <1>4
<1>5. ASSUME NEW pc \in Pc \ {"retention", "strip", "delete", "done"},
             Goto(r, pc)
      PROVE  FALSE
  BY <1>0, <1>5, HandledGoto
<1>6. ASSUME NEW status \in Statuses \ {201}, Reply(r, status)
      PROVE  FALSE
  BY <1>0, <1>6, HandledReply
<1>7. CASE ValidateApiKey(r) \/ ParseIngest(r) \/ StoreSnapshot(r)
  <2>1. req'[r].pc \in {"touch", "lookup", "known", "ratchet"}
        \/ Reply(r, 401)
    BY <1>0, <1>7 DEF ValidateApiKey, ParseIngest, StoreSnapshot, TypeOK,
                      Request
  <2>2. QED
    BY <1>0, <1>6, <2>1 DEF Statuses
<1>8. CASE AnyApiKeysExist(r) \/ MarkKeyUsed(r) \/ ParseCreate(r)
           \/ RequireKnownProject(r) \/ LookupProject(r) \/ CreateProject(r)
  <2>1. \/ \E pc \in {"validate", "parse", "create", "lookup", "insert",
                      "readback"} : Goto(r, pc)
        \/ \E status \in {404, 500} : Reply(r, status)
    BY <1>8 DEF AnyApiKeysExist, MarkKeyUsed, ParseCreate,
                RequireKnownProject, LookupProject, CreateProject
  <2>2. QED
    BY <1>5, <1>6, <2>1 DEF Pc, InFlight, Awaits, Statuses
<1>9. CASE RefuseBody(r) \/ RefuseScope(r) \/ StoreOrphan(r)
           \/ CreateConflict(r) \/ StatementFails(r)
  <2>1. \E status \in {400, 403, 409, 500} : Reply(r, status)
    BY <1>9 DEF RefuseBody, RefuseScope, StoreOrphan, CreateConflict,
                StatementFails, ErrorStatus
  <2>2. QED
    BY <1>6, <2>1 DEF Statuses
<1>10. CASE ReadBackProject(r)
  <2>1. Goto(r, "insert") \/ \E status \in {409, 500} : Reply(r, status)
    BY <1>1, <1>10 DEF ReadBackProject, ErrorStatus
  <2>2. QED
    BY <1>5, <1>6, <2>1 DEF Pc, InFlight, Awaits, Statuses
<1>11. CASE ReadRetention(r) \/ Strip(r) \/ Delete(r)
  BY <1>2, <1>11 DEF ReadRetention, Strip, Delete, At
<1>12. QED
  BY <1>3, <1>4, <1>7, <1>8, <1>9, <1>10, <1>11 DEF Step

LEMMA CaughtUpStep ==
    TypeOK /\ HandlersOK /\ CaughtUpInv /\ [Next]_vars => CaughtUpInv'
<1> SUFFICES ASSUME TypeOK, HandlersOK, CaughtUpInv, [Next]_vars, Undisturbed,
                    NEW r \in Requests, Raised(r)', Ratcheted(Target(r))'
             PROVE  CaughtUp(r)'
  BY DEF CaughtUpInv, Undisturbed
<1>1. ASSUME Raised(r)
      PROVE  CaughtUp(r)'
  <2>1. req[r].pc # "idle"
    BY <1>1 DEF Raised, Succeeded, Answered
  <2>2. Target(r) \in ProjectIds /\ Target(r)' = Target(r)
    BY <2>1, SentType, RequestsStay DEF Target
  <2>3. Ratcheted(Target(r))
    BY <2>2, RatchetsStay DEF Ratcheted, Exists
  <2>4. CaughtUp(r)
    BY <1>1, <2>3 DEF CaughtUpInv
  <2>5. QED
    BY <2>1, <2>4, CaughtUpStays
<1>2. CASE Step(r)
  <2>1. /\ Target(r)' = Target(r) /\ RateOf(r)' = RateOf(r)
        /\ Target(r) \in ProjectIds
    BY <1>2, StepMoves, RequestsStay, StepProjects
       DEF Target, RateOf, InFlight, Awaits
  <2>2. CASE AdvanceRatchet(r)
    <3>1. Ratcheted(Target(r))
      BY <2>1, RatchetsStay DEF Ratcheted, Exists
    <3>2. \A m \in Metrics :
             /\ projects'[Target(r)].floor[m] \in Rates
             /\ projects'[Target(r)].floor[m] >= RateOf(r)[m]
      BY <1>2, <2>2, <3>1, StepProjects, AdvanceEffect
         DEF AdvanceRatchet, TypeOK
    <3>3. QED
      BY <2>1, <3>2 DEF CaughtUp
  <2>3. CASE UNCHANGED projects /\ ~Ratcheted(Target(r))
    BY <2>1, <2>3 DEF Ratcheted, Exists
  <2>4. QED
    BY <1>1, <1>2, <2>2, <2>3, RaisedBy
<1>3. CASE req'[r] = req[r]
  BY <1>1, <1>3 DEF Raised, Succeeded, Answered, IsRelease, IsIngest
<1>4. ASSUME NEW q \in Requests, Step(q), q # r
      PROVE  req'[r] = req[r]
  BY <1>4, StepMoves DEF Moves, TypeOK
<1>5. ASSUME NEW q \in Requests, Receive(q) \/ HangUp(q)
      PROVE  \/ req'[r] = req[r]
             \/ req'[r].pc \in {"validate", "keys", "lost"}
  <2>1. CASE Receive(q)
    <3>1. PICK e \in Request :
             /\ req' = [req EXCEPT ![q] = e]
             /\ e.pc = IF RequireApiKey THEN "validate" ELSE "keys"
      BY <2>1, ReceiveMoves
    <3>2. QED
      BY <3>1 DEF TypeOK
  <2>2. CASE HangUp(q)
    <3>1. CASE q = r
      BY <2>2, <3>1, HandledGoto DEF HangUp, Pc
    <3>2. CASE q # r
      BY <2>2, <3>2 DEF HangUp, Goto, TypeOK
    <3>3. QED
      BY <3>1, <3>2
  <2>3. QED
    BY <1>5, <2>1, <2>2
<1>6. CASE Restart
  <2>1. req'[r] = req[r] \/ req'[r].pc = "lost"
    BY <1>6, RestartMoves DEF TypeOK, Request
  <2>2. QED
    BY <1>3, <2>1 DEF Raised, Succeeded, Answered
<1>7. CASE Admin \/ UNCHANGED vars
  BY <1>3, <1>7, AdminTables DEF vars, TypeOK
<1>8. req'[r].pc \notin {"validate", "keys", "lost"}
  BY DEF Raised, Succeeded, Answered
<1>9. QED
  BY <1>2, <1>3, <1>4, <1>5, <1>6, <1>7, <1>8 DEF Next

LEMMA CaughtUpInit == Init => CaughtUpInv
BY DEF Init, Idle, CaughtUpInv, Raised, Succeeded, Answered

LEMMA CaughtUpCorrect == Spec => [](TypeOK /\ HandlersOK /\ CaughtUpInv)
BY HandlersCorrect, CaughtUpInit, CaughtUpStep, PTL DEF Spec

\* No raise is lost, however many builds report at the same time: once a
\* release build was answered with 201, the floors of its ratcheted project
\* are at least its rates (advance_ratchet_floor, ingest_snapshot).
THEOREM NoRaiseIsLost == Spec => []FloorCaughtUp
<1>1. CaughtUpInv => FloorCaughtUp
  <2> SUFFICES ASSUME CaughtUpInv, Undisturbed, NEW r \in Requests,
                      Succeeded(r), IsRelease(r), Ratcheted(Target(r)),
                      NEW m \in Metrics
               PROVE  /\ projects[Target(r)].floor[m] # NoFloor
                      /\ projects[Target(r)].floor[m] >= RateOf(r)[m]
    BY DEF FloorCaughtUp
  <2>1. CaughtUp(r)
    BY DEF CaughtUpInv, Raised
  <2>2. QED
    BY <2>1, SentinelsAssumption DEF CaughtUp
<1>2. QED
  BY <1>1, CaughtUpCorrect, PTL

-----------------------------------------------------------------------------
(* No regression is silent.  Inductive is that the warning is there as     *)
(* soon as CheckRatchet is over, and that "answered before" is for ever.   *)

Judged(r) ==
    \/ req[r].pc \in {"advance", "retention", "strip", "delete"}
    \/ Succeeded(r)

Beaten(r, q, m) ==
    /\ Succeeded(q)
    /\ IsRelease(q)
    /\ Target(q) = Target(r)
    /\ RateOf(r)[m] < RateOf(q)[m]

AfterInv == \A r \in Requests : \A q \in req[r].after : q \in Requests /\ Answered(q)

WarnedInv ==
    Undisturbed =>
        \A r \in Requests : Judged(r) /\ IsIngest(r) /\ Ratcheted(Target(r)) =>
            \A q \in req[r].after, m \in Metrics :
                Beaten(r, q, m) => m \in req[r].warned

LEMMA AfterStep == TypeOK /\ AfterInv /\ [Next]_vars => AfterInv'
<1> SUFFICES ASSUME TypeOK, AfterInv, [Next]_vars, NEW r \in Requests,
                    NEW q \in req'[r].after
             PROVE  q \in Requests /\ Answered(q)'
  BY DEF AfterInv
<1>1. ASSUME q \in Requests, Answered(q)
      PROVE  Answered(q)'
  <2>1. req'[q] = req[q]
    BY <1>1, RequestsStay DEF Answered
  <2>2. QED
    BY <1>1, <2>1 DEF Answered
<1>2. CASE q \in req[r].after
  BY <1>1, <1>2 DEF AfterInv
<1>3. CASE Receive(r)
  <2>1. req'[r].after = {o \in Requests : Answered(o)}
    BY <1>3, ReceiveMoves DEF TypeOK
  <2>2. QED
    BY <1>1, <2>1
<1>4. CASE req'[r].after = req[r].after
  BY <1>2, <1>4
<1>5. ASSUME NEW o \in Requests, Receive(o), o # r
      PROVE  req'[r] = req[r]
  BY <1>5, ReceiveMoves DEF TypeOK
<1>6. ASSUME NEW o \in Requests, Step(o) \/ HangUp(o)
      PROVE  req'[r].after = req[r].after
  <2>1. Moves(o)
    BY <1>6, StepMoves, GotoMoves DEF HangUp, Pc
  <2>2. QED
    BY <2>1 DEF Moves, Later, TypeOK
<1>7. CASE Restart
  BY <1>4, <1>7, RestartMoves DEF Later
<1>8. CASE Admin \/ UNCHANGED vars
  BY <1>4, <1>8, AdminTables DEF vars, TypeOK
<1>9. QED
  BY <1>3, <1>4, <1>5, <1>6, <1>7, <1>8 DEF Next

\* An ingest gets its verdict from CheckRatchet, and keeps it.
LEMMA JudgedBy ==
    ASSUME TypeOK, HandlersOK, NEW r \in Requests, Step(r), Judged(r)',
           IsIngest(r), Ratcheted(Target(r))
    PROVE  \/ Judged(r) /\ req'[r].warned = req[r].warned
           \/ UNCHANGED projects /\ req'[r].warned = Violated(r)
<1>0. /\ req[r] \in Request
      /\ req'[r].pc \in {"advance", "retention", "strip", "delete"}
         \/ (req'[r].pc = "done" /\ req'[r].status = 201)
  BY DEF TypeOK, Judged, Succeeded, Answered
<1>1. CASE CheckRatchet(r)
  BY <1>0, <1>1 DEF CheckRatchet, Ratcheted, TypeOK, Request, db
<1>2. CASE AdvanceRatchet(r) \/ Strip(r)
  BY <1>2, HandledGoto
     DEF AdvanceRatchet, Strip, Judged, At, Pc, InFlight, Awaits
<1>3. CASE Delete(r)
  BY <1>3, HandledReply DEF Delete, Judged, At, Statuses
<1>4. CASE ReadRetention(r)
  <2>1. PICK l : req'[r] = [req[r] EXCEPT !.pc = "strip", !.limits = l]
    BY <1>4 DEF ReadRetention, TypeOK
  <2>2. QED
    BY <1>0, <1>4, <2>1 DEF ReadRetention, Judged, At, Request
<1>5. ASSUME NEW pc \in Pc \ {"advance", "retention", "strip", "delete", "done"},
             Goto(r, pc)
      PROVE  FALSE
  BY <1>0, <1>5, HandledGoto
<1>6. ASSUME NEW status \in Statuses \ {201}, Reply(r, status)
      PROVE  FALSE
  BY <1>0, <1>6, HandledReply
<1>7. CASE ValidateApiKey(r) \/ ParseIngest(r) \/ StoreSnapshot(r)
  <2>1. req'[r].pc \in {"touch", "lookup", "known", "ratchet"}
        \/ Reply(r, 401)
    BY <1>0, <1>7 DEF ValidateApiKey, ParseIngest, StoreSnapshot, TypeOK,
                      Request
  <2>2. QED
    BY <1>0, <1>6, <2>1 DEF Statuses
<1>8. CASE AnyApiKeysExist(r) \/ MarkKeyUsed(r) \/ ParseCreate(r)
           \/ RequireKnownProject(r) \/ LookupProject(r) \/ CreateProject(r)
  <2>1. \/ \E pc \in {"validate", "parse", "create", "lookup", "insert",
                      "readback"} : Goto(r, pc)
        \/ \E status \in {404, 500} : Reply(r, status)
    BY <1>8 DEF AnyApiKeysExist, MarkKeyUsed, ParseCreate,
                RequireKnownProject, LookupProject, CreateProject
  <2>2. QED
    BY <1>5, <1>6, <2>1 DEF Pc, InFlight, Awaits, Statuses
<1>9. CASE RefuseBody(r) \/ RefuseScope(r) \/ StoreOrphan(r)
           \/ CreateConflict(r) \/ StatementFails(r)
  <2>1. \E status \in {400, 403, 409, 500} : Reply(r, status)
    BY <1>9 DEF RefuseBody, RefuseScope, StoreOrphan, CreateConflict,
                StatementFails, ErrorStatus
  <2>2. QED
    BY <1>6, <2>1 DEF Statuses
<1>10. CASE ReadBackProject(r)
  <2>1. Goto(r, "insert") \/ \E status \in {409, 500} : Reply(r, status)
    BY <1>10 DEF ReadBackProject, ErrorStatus
  <2>2. QED
    BY <1>5, <1>6, <2>1 DEF Pc, InFlight, Awaits, Statuses
<1>11. QED
  BY <1>1, <1>2, <1>3, <1>4, <1>7, <1>8, <1>9, <1>10 DEF Step

LEMMA WarnedStep ==
    ASSUME TypeOK, HandlersOK, CaughtUpInv, AfterInv, WarnedInv, [Next]_vars
    PROVE  WarnedInv'
<1> SUFFICES ASSUME Undisturbed, NEW r \in Requests, Judged(r)', IsIngest(r)',
                    Ratcheted(Target(r))', NEW q \in req'[r].after,
                    NEW m \in Metrics, Beaten(r, q, m)'
             PROVE  m \in req'[r].warned
  BY DEF WarnedInv, Undisturbed
<1>1. ASSUME req[r].pc # "idle"
      PROVE  /\ req'[r].call = req[r].call /\ IsIngest(r)
             /\ Target(r) \in ProjectIds /\ Ratcheted(Target(r))
             /\ q \in req[r].after /\ q \in Requests
             /\ req'[q] = req[q] /\ Beaten(r, q, m)
  <2>1. /\ req'[r].call = req[r].call /\ req'[r].after = req[r].after
        /\ Target(r) \in ProjectIds
    BY <1>1, RequestsStay, SentType
  <2>2. IsIngest(r) /\ Target(r)' = Target(r)
    BY <2>1 DEF IsIngest, Target
  <2>3. Ratcheted(Target(r))
    BY <2>1, <2>2, RatchetsStay DEF Ratcheted, Exists
  <2>4. q \in req[r].after /\ q \in Requests /\ Answered(q)
    BY <2>1 DEF AfterInv
  <2>5. req'[q] = req[q]
    BY <2>4, RequestsStay DEF Answered
  <2>6. Beaten(r, q, m)
    BY <2>1, <2>5 DEF Beaten, Succeeded, Answered, IsRelease, IsIngest, Target,
                      RateOf
  <2>7. QED
    BY <2>1, <2>2, <2>3, <2>4, <2>5, <2>6
<1>2. CASE Judged(r) /\ req'[r].warned = req[r].warned
  <2>1. req[r].pc # "idle"
    BY <1>2 DEF Judged, Succeeded, Answered
  <2>2. QED
    BY <1>1, <1>2, <2>1 DEF WarnedInv
<1>3. CASE Step(r)
  <2>0. req[r].pc # "idle"
    BY <1>3, StepMoves DEF InFlight, Awaits
  <2>1. CASE req'[r].warned = Violated(r)
    <3>1. CaughtUp(q)
      BY <1>1, <2>0 DEF Beaten, CaughtUpInv, Raised
    <3>2. /\ projects[Target(r)].floor[m] \in Rates
          /\ projects[Target(r)].floor[m] >= RateOf(q)[m]
      BY <1>1, <2>0, <3>1 DEF CaughtUp, Beaten
    <3>3. RateOf(r)[m] \in Nat /\ RateOf(q)[m] \in Nat
      BY <1>1, <2>0, SentType DEF Beaten, Succeeded, Answered
    <3>4. RateOf(r)[m] < RateOf(q)[m]
      BY <1>1, <2>0 DEF Beaten
    <3>5. /\ projects[Target(r)].floor[m] # NoFloor
          /\ RateOf(r)[m] < projects[Target(r)].floor[m]
      <4>1. /\ projects[Target(r)].floor[m] \in Nat
            /\ projects[Target(r)].floor[m] # NoFloor
        BY <3>2, ConstantsAssumption, SentinelsAssumption
      <4>2. QED
        BY <3>2, <3>3, <3>4, <4>1
    <3>6. QED
      BY <2>1, <3>5 DEF Violated
  <2>2. QED
    BY <1>1, <1>2, <1>3, <2>0, <2>1, JudgedBy
<1>4. CASE req'[r] = req[r]
  BY <1>2, <1>4 DEF Judged, Succeeded, Answered
<1>5. ASSUME NEW o \in Requests, Step(o), o # r
      PROVE  req'[r] = req[r]
  BY <1>5, StepMoves DEF Moves, TypeOK
<1>6. ASSUME NEW o \in Requests, Receive(o) \/ HangUp(o)
      PROVE  \/ req'[r] = req[r]
             \/ req'[r].pc \in {"validate", "keys", "lost"}
  <2>1. CASE Receive(o)
    <3>1. PICK e \in Request :
             /\ req' = [req EXCEPT ![o] = e]
             /\ e.pc = IF RequireApiKey THEN "validate" ELSE "keys"
      BY <2>1, ReceiveMoves
    <3>2. QED
      BY <3>1 DEF TypeOK
  <2>2. CASE HangUp(o)
    <3>1. CASE o = r
      BY <2>2, <3>1, HandledGoto DEF HangUp, Pc
    <3>2. CASE o # r
      BY <2>2, <3>2 DEF HangUp, Goto, TypeOK
    <3>3. QED
      BY <3>1, <3>2
  <2>3. QED
    BY <1>6, <2>1, <2>2
<1>7. CASE Restart
  <2>1. req'[r] = req[r] \/ req'[r].pc = "lost"
    BY <1>7, RestartMoves DEF TypeOK, Request
  <2>2. QED
    BY <1>4, <2>1 DEF Judged, Succeeded, Answered
<1>8. CASE Admin \/ UNCHANGED vars
  BY <1>4, <1>8, AdminTables DEF vars, TypeOK
<1>9. req'[r].pc \notin {"validate", "keys", "lost"}
  BY DEF Judged, Succeeded, Answered
<1>10. QED
  BY <1>3, <1>4, <1>5, <1>6, <1>7, <1>8, <1>9 DEF Next

LEMMA WarnedInit == Init => AfterInv /\ WarnedInv
BY DEF Init, Idle, AfterInv, WarnedInv, Judged, Succeeded, Answered

\* A regression does not pass unnoticed: a build that was sent after a better
\* release build of its ratcheted project had been answered is answered with
\* a warning (ingest_snapshot's verdict on the floors it reads).
THEOREM NoRegressionIsSilent == Spec => []NoSilentRegression
<1>1. WarnedInv => NoSilentRegression
  BY DEF WarnedInv, NoSilentRegression, Judged, Beaten
<1>2. TypeOK /\ HandlersOK /\ CaughtUpInv /\ AfterInv /\ WarnedInv /\ [Next]_vars
         => AfterInv' /\ WarnedInv'
  BY AfterStep, WarnedStep
<1>3. QED
  BY <1>1, <1>2, CaughtUpCorrect, WarnedInit, PTL DEF Spec

-----------------------------------------------------------------------------
(* Counting *)

\* Of rows with distinct stamps at most n have fewer than n newer ones: the
\* oldest of them has all the others behind it.
LEMMA FewAreNew ==
    ASSUME NEW S, IsFiniteSet(S), NEW stamp \in [S -> Nat], NEW n \in Nat,
           \A x, y \in S : stamp[x] = stamp[y] => x = y
    PROVE  LET new == {x \in S : Cardinality({y \in S : stamp[y] > stamp[x]}) < n}
           IN  IsFiniteSet(new) /\ Cardinality(new) <= n
<1> DEFINE Newer(x) == {y \in S : stamp[y] > stamp[x]}
           new == {x \in S : Cardinality(Newer(x)) < n}
<1>1. IsFiniteSet(new)
  <2>1. new \in SUBSET S
    OBVIOUS
  <2> HIDE DEF new
  <2> QED BY <2>1, FS_Subset
<1>2. CASE new = {}
  <2>1. Cardinality(new) = 0
    BY <1>2, FS_EmptySet
  <2> QED BY <1>1, <2>1
<1>3. CASE new # {}
  <2>1. PICK x \in new : \A y \in new : stamp[x] <= stamp[y]
    <3> DEFINE stamps == {stamp[y] : y \in new}
    <3>1. stamps \subseteq Nat /\ stamps # {}
      BY <1>3
    <3>2. PICK m \in stamps : \A k \in stamps : m <= k
      BY <3>1, LeastNumber
    <3>3. PICK x \in new : m = stamp[x]
      BY <3>2
    <3>4. \A y \in new : stamp[y] \in stamps
      OBVIOUS
    <3> HIDE DEF new, stamps
    <3> QED BY <3>2, <3>3, <3>4
  <2>2. new \ {x} \in SUBSET Newer(x)
    <3>1. \A y \in new \ {x} : stamp[x] \in Nat /\ stamp[y] \in Nat
                               /\ stamp[x] <= stamp[y] /\ stamp[x] # stamp[y]
      BY <2>1
    <3>2. \A y \in new \ {x} : stamp[y] > stamp[x]
      BY <3>1
    <3> QED BY <3>2
  <2>3. IsFiniteSet(Newer(x)) /\ Cardinality(Newer(x)) \in Nat
    <3>1. Newer(x) \in SUBSET S
      OBVIOUS
    <3> HIDE DEF Newer, new
    <3> QED BY <3>1, FS_Subset, FS_CardinalityType
  <2>4. Cardinality(new \ {x}) <= Cardinality(Newer(x))
    BY <2>2, <2>3, FS_Subset
  <2>5. Cardinality(new \ {x}) = Cardinality(new) - 1
    BY <1>1, <2>1, FS_RemoveElement
  <2>6. Cardinality(new) \in Nat
    BY <1>1, FS_CardinalityType
  <2>7. Cardinality(Newer(x)) < n
    BY <2>1
  <2>8. Cardinality(new) <= n
    <3> HIDE DEF new, Newer
    <3> QED BY <2>3, <2>4, <2>5, <2>6, <2>7
  <2> QED BY <1>1, <2>8
<1> QED BY <1>2, <1>3

-----------------------------------------------------------------------------
(* What a step does to the locals that pruning depends on *)

\* A snapshot that is on its way has its time.
Stamped(e) ==
    /\ e.inserted => e.created > 0
    /\ e.pc \in {"known", "lookup", "insert"} => e.created > 0
    /\ e.pc \in {"create", "readback"} /\ e.call.op = "ingest" => e.created > 0

\* A handler that prunes has read the limits.
Informed(e) == e.pc \in {"strip", "delete"} => e.limits = LimitsOf(settings)

LEMMA GotoLocals ==
    ASSUME TypeOK, NEW r \in Requests, NEW pc \in Pc, Goto(r, pc)
    PROVE  /\ req'[r].pc = pc
           /\ req'[r].call = req[r].call
           /\ req'[r].created = req[r].created
           /\ req'[r].inserted = req[r].inserted
           /\ req'[r].limits = req[r].limits
           /\ req'[r].status = req[r].status
<1>1. req[r] \in Request
  BY DEF TypeOK
<1>2. req'[r] = [req[r] EXCEPT !.pc = pc]
  BY DEF Goto, TypeOK
<1> QED BY <1>1, <1>2 DEF Request

LEMMA ReplyLocals ==
    ASSUME TypeOK, NEW r \in Requests, NEW status \in Statuses, Reply(r, status)
    PROVE  /\ req'[r].pc = "done"
           /\ req'[r].call = req[r].call
           /\ req'[r].created = req[r].created
           /\ req'[r].inserted = req[r].inserted
           /\ req'[r].limits = req[r].limits
           /\ req'[r].status = status
<1>1. req[r] \in Request
  BY DEF TypeOK
<1>2. req'[r] = [req[r] EXCEPT !.pc = "done", !.status = status]
  BY DEF Reply, TypeOK
<1> QED BY <1>1, <1>2 DEF Request

\* The stage of an ingest whose snapshot is stored, before and after a step.
Stage(r) ==
    \/ Strip(r) /\ req'[r].pc = "delete"
    \/ Delete(r) /\ req'[r].pc = "done" /\ req'[r].status = 201
    \/ /\ req[r].pc \in {"ratchet", "advance", "retention"}
       /\ req'[r].pc \in {"advance", "retention", "strip"}

Locals(r) ==
    /\ Stamped(req'[r])
    /\ req'[r].pc \in {"strip", "delete"} => req'[r].limits = LimitsOf(settings)
    /\ req'[r].call = req[r].call
    /\ \/ req'[r].created = req[r].created /\ clock' = clock
       \/ /\ ~req[r].inserted
          /\ req'[r].created = clock + 1 /\ clock' = clock + 1
    /\ StoreSnapshot(r) => ~req[r].inserted /\ req'[r].inserted /\ req'[r].pc = "ratchet"
    /\ ~StoreSnapshot(r) => req'[r].inserted = req[r].inserted
    /\ req[r].inserted => Stage(r)

\* A step before the snapshot is stored that only moves on, or answers.
LEMMA EarlyLocals ==
    ASSUME TypeOK, NEW r \in Requests, Stamped(req[r]), ~req[r].inserted,
           UNCHANGED clock, ~StoreSnapshot(r),
           \/ \E status \in Statuses : Reply(r, status)
           \/ \E pc \in {"validate", "parse", "create", "lookup", "readback", "insert"} :
                 /\ Goto(r, pc)
                 /\ pc \in {"lookup", "insert"} => req[r].created > 0
                 /\ pc \in {"create", "readback"} /\ IsIngest(r) => req[r].created > 0
    PROVE  Locals(r)
<1>1. CASE \E status \in Statuses : Reply(r, status)
  BY <1>1, ReplyLocals DEF Locals, Stamped
<1>2. ASSUME NEW pc \in {"validate", "parse", "create", "lookup", "readback", "insert"},
             Goto(r, pc),
             pc \in {"lookup", "insert"} => req[r].created > 0,
             pc \in {"create", "readback"} /\ IsIngest(r) => req[r].created > 0
      PROVE  Locals(r)
  <2>1. pc \in Pc
    BY DEF Pc, InFlight, Awaits
  <2> QED BY <1>2, <2>1, GotoLocals DEF Locals, Stamped, IsIngest
<1> QED BY <1>1, <1>2

LEMMA StepLocals ==
    ASSUME TypeOK, NEW r \in Requests, Handled(req[r]), ~Faults, Step(r),
           Stamped(req[r]), Informed(req[r])
    PROVE  Locals(r)
<1>0. req[r] \in Request /\ clock \in Nat
  BY DEF TypeOK
<1> USE DEF At
<1>1. ASSUME req[r].pc \in {"keys", "validate", "touch", "parse", "known", "lookup",
                            "create", "readback", "insert"}
      PROVE  ~req[r].inserted
  BY <1>1 DEF Handled, Stages
<1>2. CASE \/ AnyApiKeysExist(r) \/ MarkKeyUsed(r) \/ RefuseBody(r) \/ RefuseScope(r)
           \/ RequireKnownProject(r) \/ LookupProject(r)
           \/ CreateProject(r) \/ CreateConflict(r) \/ ReadBackProject(r) \/ StoreOrphan(r)
  <2>1. /\ req[r].pc \in {"keys", "touch", "parse", "known", "lookup", "create",
                          "readback", "insert"}
        /\ UNCHANGED clock
    BY <1>2 DEF AnyApiKeysExist, MarkKeyUsed, RefuseBody, RefuseScope, RequireKnownProject,
       LookupProject, CreateProject, CreateConflict, ReadBackProject, StoreOrphan
  <2>2. \/ \E status \in Statuses : Reply(r, status)
        \/ \E pc \in {"validate", "parse", "create", "lookup", "readback", "insert"} :
              /\ Goto(r, pc)
              /\ pc \in {"lookup", "insert"} => req[r].created > 0
              /\ pc \in {"create", "readback"} /\ IsIngest(r) => req[r].created > 0
    BY <1>2 DEF AnyApiKeysExist, MarkKeyUsed, RefuseBody, RefuseScope, RequireKnownProject,
       LookupProject, CreateProject, CreateConflict, ReadBackProject, StoreOrphan,
       Stamped, Statuses, ErrorStatus, IsIngest
  <2>3. ~StoreSnapshot(r)
    BY <1>2 DEF AnyApiKeysExist, MarkKeyUsed, RefuseBody, RefuseScope, RequireKnownProject,
       LookupProject, CreateProject, CreateConflict, ReadBackProject, StoreOrphan,
       StoreSnapshot, InsertSnapshot
  <2> QED BY <1>1, <2>1, <2>2, <2>3, EarlyLocals
<1>3. CASE ParseCreate(r)
  <2>1. Goto(r, "create") /\ ~IsIngest(r) /\ UNCHANGED clock /\ req[r].pc = "parse"
    BY <1>3 DEF ParseCreate
  <2> QED BY <1>1, <2>1, EarlyLocals DEF StoreSnapshot
<1>4. CASE ValidateApiKey(r)
  <2>1. /\ req'[r].pc \in {"touch", "done"} /\ clock' = clock
        /\ req'[r].call = req[r].call /\ req'[r].created = req[r].created
        /\ req'[r].inserted = req[r].inserted
    BY <1>0, <1>4 DEF ValidateApiKey, Reply, TypeOK, Request
  <2> QED BY <1>1, <1>4, <2>1 DEF ValidateApiKey, Locals, Stamped, StoreSnapshot
<1>5. CASE ParseIngest(r)
  <2>1. /\ req'[r].pc \in {"lookup", "known"} /\ req'[r].call = req[r].call
        /\ req'[r].created = clock + 1 /\ req'[r].inserted = req[r].inserted
        /\ clock' = clock + 1 /\ req[r].pc = "parse"
    BY <1>0, <1>5 DEF ParseIngest, TypeOK, Request
  <2> QED BY <1>0, <1>1, <2>1 DEF Locals, Stamped, StoreSnapshot
<1>6. CASE StoreSnapshot(r)
  <2>1. /\ req'[r].pc = "ratchet" /\ req'[r].call = req[r].call
        /\ req'[r].created = req[r].created /\ req'[r].inserted
        /\ clock' = clock /\ req[r].pc = "insert"
    BY <1>0, <1>6 DEF StoreSnapshot, TypeOK, Request
  <2> QED BY <1>1, <1>6, <2>1 DEF Locals, Stamped
<1>7. CASE CheckRatchet(r)
  <2>1. /\ req'[r].pc \in {"advance", "retention"} /\ req'[r].call = req[r].call
        /\ req'[r].created = req[r].created /\ req'[r].inserted = req[r].inserted
        /\ clock' = clock /\ req[r].pc = "ratchet"
    BY <1>0, <1>7 DEF CheckRatchet, Goto, TypeOK, Request
  <2> QED BY <2>1 DEF Locals, Stamped, Stage, StoreSnapshot
<1>8. CASE AdvanceRatchet(r)
  <2>1. Goto(r, "retention") /\ clock' = clock /\ req[r].pc = "advance"
    BY <1>8 DEF AdvanceRatchet
  <2>2. /\ req'[r].pc = "retention" /\ req'[r].call = req[r].call
        /\ req'[r].created = req[r].created /\ req'[r].inserted = req[r].inserted
    BY <2>1, GotoLocals DEF Pc, InFlight, Awaits
  <2> QED BY <2>1, <2>2 DEF Locals, Stamped, Stage, StoreSnapshot
<1>9. CASE ReadRetention(r)
  <2>1. /\ req'[r] = [req[r] EXCEPT !.pc = "strip", !.limits = LimitsOf(settings)]
        /\ clock' = clock /\ req[r].pc = "retention"
    BY <1>9 DEF ReadRetention, TypeOK
  <2>2. /\ req'[r].pc = "strip" /\ req'[r].call = req[r].call
        /\ req'[r].created = req[r].created /\ req'[r].inserted = req[r].inserted
        /\ req'[r].limits = LimitsOf(settings)
    BY <1>0, <2>1 DEF Request
  <2> QED BY <2>1, <2>2 DEF Locals, Stamped, Stage, StoreSnapshot
<1>10. CASE Strip(r)
  <2>1. Goto(r, "delete") /\ clock' = clock /\ req[r].pc = "strip"
    BY <1>10 DEF Strip
  <2>2. /\ req'[r].pc = "delete" /\ req'[r].call = req[r].call
        /\ req'[r].created = req[r].created /\ req'[r].inserted = req[r].inserted
        /\ req'[r].limits = req[r].limits
    BY <2>1, GotoLocals DEF Pc, InFlight, Awaits
  <2> QED BY <1>10, <2>1, <2>2 DEF Locals, Stamped, Stage, StoreSnapshot, Informed
<1>11. CASE Delete(r)
  <2>1. Reply(r, 201) /\ clock' = clock /\ req[r].pc = "delete"
    BY <1>11 DEF Delete
  <2>2. /\ req'[r].pc = "done" /\ req'[r].call = req[r].call /\ req'[r].status = 201
        /\ req'[r].created = req[r].created /\ req'[r].inserted = req[r].inserted
    BY <2>1, ReplyLocals DEF Statuses
  <2> QED BY <1>11, <2>1, <2>2 DEF Locals, Stamped, Stage, StoreSnapshot
<1>12. CASE StatementFails(r)
  BY <1>12 DEF StatementFails
<1> QED BY <1>2, <1>3, <1>4, <1>5, <1>6, <1>7, <1>8, <1>9, <1>10, <1>11, <1>12 DEF Step

-----------------------------------------------------------------------------
(* What a step does to the rows *)

LEMMA StepRows ==
    ASSUME TypeOK, NEW r \in Requests, Step(r)
    PROVE  /\ settings' = settings
           /\ snapshots' = snapshots \/ StoreSnapshot(r) \/ Strip(r) \/ Delete(r)
           /\ \A q \in Requests : q # r => req'[q] = req[q]
<1>1. \A q \in Requests : q # r => req'[q] = req[q]
  BY StepMoves DEF Moves, TypeOK
<1>2. CASE UNCHANGED db
  BY <1>1, <1>2 DEF db
<1>3. CASE MarkKeyUsed(r) \/ CreateProject(r) \/ AdvanceRatchet(r)
  BY <1>1, <1>3 DEF MarkKeyUsed, TouchApiKey, CreateProject, InsertProject,
     AdvanceRatchet, AdvanceRatchetFloor
<1>4. CASE StoreSnapshot(r) \/ Strip(r) \/ Delete(r)
  BY <1>1, <1>4 DEF StoreSnapshot, InsertSnapshot, Strip, StripFiles, Delete, DeleteOld
<1> QED BY <1>2, <1>3, <1>4
     DEF Step, AnyApiKeysExist, ValidateApiKey, RefuseBody, RefuseScope,
         ParseIngest, ParseCreate, RequireKnownProject, LookupProject,
         CreateConflict, ReadBackProject, StoreOrphan, CheckRatchet,
         ReadRetention, StatementFails

\* The locals of a handler that a step outside the handlers leaves alone, or
\* that belong to a request that is being sent or broken off.
Calm(q) ==
    /\ Stamped(req'[q])
    /\ req'[q].inserted = req[q].inserted
    /\ req'[q].created = req[q].created
    /\ req[q].inserted => req'[q].call = req[q].call
    /\ \/ req'[q] = req[q]
       \/ req'[q].pc = "lost"
       \/ ~req[q].inserted /\ req'[q].pc \notin {"strip", "delete"}

Quiet ==
    /\ UNCHANGED <<snapshots, settings, clock>>
    /\ \A q \in Requests : Calm(q)

LEMMA BreakIsCalm ==
    ASSUME TypeOK, NEW q \in Requests, Stamped(req[q]),
           req'[q] = [req[q] EXCEPT !.pc = "lost"]
    PROVE  Calm(q)
<1>1. req[q] \in Request
  BY DEF TypeOK
<1> QED BY <1>1 DEF Calm, Stamped, Request

LEMMA OtherSteps ==
    ASSUME TypeOK, HandlersOK, SteadyRetention, [Next]_vars,
           \A q \in Requests : Stamped(req[q])
    PROVE  Quiet \/ \E r \in Requests : Step(r)
<1>1. \A q \in Requests : req'[q] = req[q] => Calm(q)
  BY DEF Calm
<1>2. ASSUME NEW r \in Requests, Receive(r)
      PROVE  Quiet
  <2>1. PICK c \in Calls,
             k \in {k \in KeyIds : api_keys[k] # Unissued} \union {NoKey} :
           req' = [req EXCEPT
                      ![r].pc = IF RequireApiKey THEN "validate" ELSE "keys",
                      ![r].call = c,
                      ![r].key = k,
                      ![r].after = {q \in Requests : Answered(q)}]
    BY <1>2 DEF Receive
  <2>2. req[r] \in Request /\ req[r].pc = "idle" /\ ~req[r].inserted
    BY <1>2 DEF Receive, At, TypeOK, HandlersOK, Handled, Stages
  <2>3. /\ req'[r].pc = IF RequireApiKey THEN "validate" ELSE "keys"
        /\ req'[r].inserted = req[r].inserted
        /\ req'[r].created = req[r].created
    BY <2>1, <2>2 DEF TypeOK, Request
  <2>4. Calm(r)
    BY <2>2, <2>3 DEF Calm, Stamped
  <2>5. \A q \in Requests : q # r => req'[q] = req[q]
    BY <2>1 DEF TypeOK
  <2> QED BY <1>1, <1>2, <2>4, <2>5 DEF Quiet, Receive, db
<1>3. ASSUME NEW r \in Requests, HangUp(r)
      PROVE  Quiet
  <2>1. req'[r] = [req[r] EXCEPT !.pc = "lost"]
    BY <1>3 DEF HangUp, Goto, TypeOK
  <2>2. \A q \in Requests : q # r => req'[q] = req[q]
    BY <1>3 DEF HangUp, Goto, TypeOK
  <2> QED BY <1>1, <1>3, <2>1, <2>2, BreakIsCalm DEF Quiet, HangUp, db
<1>4. CASE Restart
  <2>1. \A q \in Requests : Calm(q)
    BY <1>1, <1>4, RestartMoves, BreakIsCalm
  <2> QED BY <1>4, <2>1 DEF Quiet, Restart, db
<1>5. CASE Admin
  <2>1. UNCHANGED <<snapshots, settings, req, clock>>
    BY <1>5 DEF Admin, SteadyRetention, SaveSettings, SaveProjectRatchet, UpdateRatchet,
       RemoveProject, IssueApiKey, InsertApiKey, RevokeApiKey, DeleteApiKey
  <2> QED BY <1>1, <2>1 DEF Quiet
<1>6. CASE UNCHANGED vars
  BY <1>1, <1>6 DEF Quiet, vars, db
<1> QED BY <1>2, <1>3, <1>4, <1>5, <1>6 DEF Next

-----------------------------------------------------------------------------
(* The invariant *)

\* A row is that of an ingest that stored it.
Rowed(id) ==
    Stored(id) =>
        /\ req[id].inserted
        /\ InSeries(id, Target(id), req[id].call.series)
        /\ snapshots[id].created = req[id].created

\* No two snapshots have the same time, and none is from the future.
Ordered ==
    \A q \in Requests :
        /\ req[q].created <= clock
        /\ \A o \in Requests :
              req[o].created = req[q].created /\ req[q].created > 0 => o = q

Inserted == {q \in Requests : req[q].inserted}

Ledger ==
    /\ settings \in InitialSettings
    /\ \A q \in Requests : Stamped(req[q]) /\ Informed(req[q]) /\ Rowed(q)
    /\ Ordered
    /\ IsFiniteSet(Inserted)

Kept(r) ==
    LET newer == Cardinality(NewerThan(r))
    IN  /\ newer < settings.full => Stored(r) /\ snapshots[r].files
        /\ newer < settings.full + settings.summary => Stored(r)

FullRows(p, s) == {id \in Rows(p, s) : snapshots[id].files}

\* Those whose first pruning statement is still to come, or never will.
Unstripped(p, s) == {q \in Unpruned(p, s) : req[q].pc # "delete"}

Bounded(p, s) ==
    /\ Cardinality(FullRows(p, s)) <= settings.full + Cardinality(Unstripped(p, s))
    /\ Cardinality(Rows(p, s)) <=
          settings.full + settings.summary + Cardinality(Unpruned(p, s))

RetentionInv ==
    /\ Ledger
    /\ \A r \in Inserted : Kept(r)
    /\ \A p \in ProjectIds, s \in Series : Bounded(p, s)

\* The limits are ones the settings form lets through, and their sum is an i64.
SaneLimits ==
    \A s \in InitialSettings :
        s.full >= 0 /\ s.summary >= 0 /\ s.full + s.summary <= IntMax

-----------------------------------------------------------------------------
(* Rows and how many there are *)

LEMMA LimitsAreSums ==
    ASSUME SaneLimits, settings \in InitialSettings
    PROVE  /\ settings.full \in Nat
           /\ settings.summary \in Nat
           /\ LimitsOf(settings).full = settings.full
           /\ LimitsOf(settings).total = settings.full + settings.summary
<1>1. settings \in Retention
  BY IngestAssumption
<1>2. settings.full \in Int /\ settings.summary \in Int
  BY <1>1 DEF Retention
<1> QED BY <1>2, ConstantsAssumption DEF SaneLimits, LimitsOf, Add64

LEMMA RowSets ==
    ASSUME Ledger, NEW p \in ProjectIds, NEW s \in Series
    PROVE  /\ Rows(p, s) \in SUBSET Inserted /\ IsFiniteSet(Rows(p, s))
           /\ FullRows(p, s) \in SUBSET Rows(p, s) /\ IsFiniteSet(FullRows(p, s))
           /\ Unpruned(p, s) \in SUBSET Inserted /\ IsFiniteSet(Unpruned(p, s))
           /\ Unstripped(p, s) \in SUBSET Unpruned(p, s)
           /\ IsFiniteSet(Unstripped(p, s))
<1>1. /\ Rows(p, s) \in SUBSET Inserted
      /\ FullRows(p, s) \in SUBSET Rows(p, s)
      /\ Unpruned(p, s) \in SUBSET Inserted
      /\ Unstripped(p, s) \in SUBSET Unpruned(p, s)
  BY DEF Ledger, Rowed, Rows, InSeries, FullRows, Unpruned, Unstripped, Inserted
<1>2. IsFiniteSet(Rows(p, s)) /\ IsFiniteSet(Unpruned(p, s))
  BY <1>1, FS_Subset DEF Ledger
<1> QED BY <1>1, <1>2, FS_Subset

\* A pruning statement with limit n leaves at most n rows of the series.
LEMMA FewRemain ==
    ASSUME TypeOK, Ledger, NEW p \in ProjectIds, NEW s \in Series, NEW n \in Nat
    PROVE  /\ IsFiniteSet(Rows(p, s) \ BeyondOffset(p, s, n))
           /\ Cardinality(Rows(p, s) \ BeyondOffset(p, s, n)) <= n
<1> DEFINE S == Rows(p, s)
           stamp == [id \in S |-> snapshots[id].created]
           newer(x) == {y \in S : stamp[y] > stamp[x]}
           new == {x \in S : Cardinality(newer(x)) < n}
<1>1. IsFiniteSet(S)
  BY RowSets
<1>2. \A id \in S : snapshots[id] \in Snapshot /\ id \in Requests
  BY DEF Rows, InSeries, Stored, TypeOK, DbTypeOK
<1>3. stamp \in [S -> Nat]
  BY <1>2 DEF Snapshot
<1>4. \A x, y \in S : stamp[x] = stamp[y] => x = y
  <2>1. \A x \in S : /\ x \in Requests /\ stamp[x] = req[x].created
                     /\ req[x].created > 0
    BY DEF Rows, InSeries, Ledger, Rowed, Stamped
  <2> HIDE DEF S, stamp
  <2> QED BY <2>1 DEF Ledger, Ordered
<1>5. IsFiniteSet(new) /\ Cardinality(new) <= n
  <2> HIDE DEF S, stamp
  <2> QED BY <1>1, <1>3, <1>4, FewAreNew
<1>6. ASSUME NEW x \in S \ BeyondOffset(p, s, n)
      PROVE  x \in new
  <2>1. newer(x) = {o \in Requests :
                       InSeries(o, p, s) /\ snapshots[o].created > snapshots[x].created}
    BY DEF Rows
  <2>2. ~(Cardinality(newer(x)) >= n)
    BY <2>1 DEF BeyondOffset, Rows
  <2>3. Cardinality(newer(x)) \in Nat
    <3>1. newer(x) \in SUBSET S
      OBVIOUS
    <3> HIDE DEF S, newer
    <3> QED BY <1>1, <3>1, FS_Subset, FS_CardinalityType
  <2>4. Cardinality(newer(x)) < n
    <3> HIDE DEF newer
    <3> QED BY <2>2, <2>3
  <2> QED BY <2>4
<1>7. /\ S \ BeyondOffset(p, s, n) \in SUBSET new
      /\ IsFiniteSet(S \ BeyondOffset(p, s, n))
      /\ Cardinality(S \ BeyondOffset(p, s, n)) <= Cardinality(new)
  <2>1. S \ BeyondOffset(p, s, n) \in SUBSET new
    BY <1>6
  <2> HIDE DEF S, new
  <2> QED BY <1>5, <2>1, FS_Subset
<1>8. /\ Cardinality(S \ BeyondOffset(p, s, n)) \in Nat
      /\ Cardinality(new) \in Nat
  <2> HIDE DEF S, new
  <2> QED BY <1>5, <1>7, FS_CardinalityType
<1> HIDE DEF new
<1> QED BY <1>5, <1>7, <1>8

\* A row that a pruning statement with limit n selects has n newer ones.
LEMMA OldHasNewer ==
    ASSUME TypeOK, Ledger, NEW p \in ProjectIds, NEW s \in Series, NEW n \in Int,
           NEW id \in BeyondOffset(p, s, n)
    PROVE  Cardinality(NewerThan(id)) >= n
<1> DEFINE newer == {o \in Requests :
                        InSeries(o, p, s) /\ snapshots[o].created > snapshots[id].created}
<1>1. id \in Requests /\ InSeries(id, p, s) /\ Cardinality(newer) >= n
  BY DEF BeyondOffset
<1>2. \A o \in Requests : InSeries(o, p, s) =>
          /\ req[o].inserted /\ Target(o) = p /\ req[o].call.series = s
          /\ snapshots[o].created = req[o].created
  BY DEF Ledger, Rowed, InSeries
<1>3. newer \in SUBSET NewerThan(id)
  BY <1>1, <1>2 DEF NewerThan, SameSeries
<1>4. IsFiniteSet(NewerThan(id))
  <2>1. NewerThan(id) \in SUBSET Inserted
    BY DEF NewerThan, Inserted
  <2> QED BY <2>1, FS_Subset DEF Ledger
<1>5. /\ IsFiniteSet(newer) /\ Cardinality(newer) <= Cardinality(NewerThan(id))
      /\ Cardinality(newer) \in Nat /\ Cardinality(NewerThan(id)) \in Nat
  <2> HIDE DEF newer
  <2> QED BY <1>3, <1>4, FS_Subset, FS_CardinalityType
<1> HIDE DEF newer
<1> QED BY <1>1, <1>5

-----------------------------------------------------------------------------
(* The statements *)

LEMMA StripEffect ==
    ASSUME TypeOK, NEW p, NEW s, NEW n, StripFiles(p, s, n), NEW id \in Requests
    PROVE  /\ Stored(id)' <=> Stored(id)
           /\ Stored(id) =>
                 /\ snapshots'[id].project = snapshots[id].project
                 /\ snapshots'[id].series = snapshots[id].series
                 /\ snapshots'[id].created = snapshots[id].created
                 /\ snapshots'[id].files <=>
                       snapshots[id].files /\ id \notin BeyondOffset(p, s, n)
<1>1. snapshots[id] \in Snapshot \union {NoRow}
  BY DEF TypeOK, DbTypeOK
<1>2. CASE id \in BeyondOffset(p, s, n)
  <2>1. snapshots[id] \in Snapshot /\ Stored(id)
    BY <1>1, <1>2 DEF BeyondOffset, InSeries, Stored
  <2>2. snapshots'[id] = [snapshots[id] EXCEPT !.files = FALSE]
    BY <1>2 DEF StripFiles
  <2>3. snapshots'[id] \in Snapshot
    BY <2>1, <2>2 DEF Snapshot
  <2> QED BY <1>2, <2>1, <2>2, <2>3, SentinelsAssumption DEF Snapshot, Stored
<1>3. CASE id \notin BeyondOffset(p, s, n)
  <2>1. snapshots'[id] = snapshots[id]
    BY <1>3 DEF StripFiles
  <2> QED BY <1>1, <1>3, <2>1 DEF Stored, Snapshot
<1> QED BY <1>2, <1>3

LEMMA DeleteEffect ==
    ASSUME TypeOK, NEW p, NEW s, NEW n, DeleteOld(p, s, n), NEW id \in Requests
    PROVE  /\ Stored(id)' <=> Stored(id) /\ id \notin BeyondOffset(p, s, n)
           /\ Stored(id)' => snapshots'[id] = snapshots[id]
BY DEF DeleteOld, Stored

LEMMA StoreEffect ==
    ASSUME TypeOK, NEW r \in Requests, StoreSnapshot(r), NEW id \in Requests
    PROVE  /\ id # r => snapshots'[id] = snapshots[id]
           /\ Stored(r)' /\ snapshots'[r].files
           /\ snapshots'[r].project = Target(r)
           /\ snapshots'[r].series = req[r].call.series
           /\ snapshots'[r].created = req[r].created
<1>1. /\ Target(r) \in ProjectIds /\ req[r].call.series \in Series
      /\ req[r].created \in Nat
  <2>1. req[r].pc = "insert"
    BY DEF StoreSnapshot, At
  <2> QED BY <2>1, SentCall DEF TypeOK, Request
<1>2. snapshots' = [snapshots EXCEPT ![r] =
                       [project |-> Target(r), series |-> req[r].call.series,
                        created |-> req[r].created, files |-> TRUE]]
  BY DEF StoreSnapshot, InsertSnapshot
<1>3. snapshots'[r] = [project |-> Target(r), series |-> req[r].call.series,
                       created |-> req[r].created, files |-> TRUE]
  BY <1>2 DEF TypeOK, DbTypeOK
<1>4. snapshots'[r] \in Snapshot
  BY <1>1, <1>3 DEF Snapshot
<1> QED BY <1>2, <1>3, <1>4, SentinelsAssumption DEF Stored, TypeOK, DbTypeOK

\* Rows that a step leaves are the rows they were, at most without their files.
Shrinks ==
    \A id \in Requests : Stored(id)' =>
        /\ Stored(id)
        /\ snapshots'[id].project = snapshots[id].project
        /\ snapshots'[id].series = snapshots[id].series
        /\ snapshots'[id].created = snapshots[id].created
        /\ snapshots'[id].files => snapshots[id].files

LEMMA StepShrinks ==
    ASSUME TypeOK, NEW r \in Requests, Step(r), ~StoreSnapshot(r)
    PROVE  Shrinks
<1>1. CASE snapshots' = snapshots
  BY <1>1 DEF Shrinks, Stored
<1>2. CASE Strip(r)
  <2>1. StripFiles(Target(r), req[r].call.series, req[r].limits.full)
    BY <1>2 DEF Strip
  <2> QED BY <2>1, StripEffect DEF Shrinks
<1>3. CASE Delete(r)
  <2>1. DeleteOld(Target(r), req[r].call.series, req[r].limits.total)
    BY <1>3 DEF Delete
  <2> QED BY <2>1, DeleteEffect DEF Shrinks
<1> QED BY <1>1, <1>2, <1>3, StepRows

-----------------------------------------------------------------------------
(* The ledger: rows, times and limits *)

\* What was stored stays recorded.
Remembered ==
    \A q \in Inserted :
        /\ req'[q].inserted
        /\ req'[q].call = req[q].call
        /\ req'[q].created = req[q].created

LEMMA StepRemembers ==
    ASSUME TypeOK, NEW r \in Requests, Step(r), Locals(r)
    PROVE  Remembered
<1>1. \A q \in Requests : q # r => req'[q] = req[q]
  BY StepRows
<1>2. req[r].inserted => /\ req'[r].inserted /\ req'[r].call = req[r].call
                         /\ req'[r].created = req[r].created
  BY DEF Locals
<1> QED BY <1>1, <1>2 DEF Remembered, Inserted

LEMMA QuietRemembers ==
    ASSUME Quiet
    PROVE  Remembered /\ Inserted' = Inserted
BY DEF Quiet, Calm, Remembered, Inserted

LEMMA StepInserts ==
    ASSUME TypeOK, NEW r \in Requests, Step(r), Locals(r)
    PROVE  Inserted' = IF StoreSnapshot(r) THEN Inserted \union {r} ELSE Inserted
<1>1. \A q \in Requests : q # r => req'[q] = req[q]
  BY StepRows
<1>2. IF StoreSnapshot(r) THEN req'[r].inserted
                          ELSE req'[r].inserted = req[r].inserted
  BY DEF Locals
<1> QED BY <1>1, <1>2 DEF Inserted

LEMMA LedgerStep ==
    ASSUME TypeOK, HandlersOK, SteadyRetention, ~Faults, Ledger, [Next]_vars
    PROVE  Ledger' /\ Remembered
<1>0. \A q \in Requests : Stamped(req[q])
  BY DEF Ledger
<1>1. ASSUME Quiet
      PROVE  Ledger' /\ Remembered
  <2>1. settings' \in InitialSettings
    BY <1>1 DEF Quiet, Ledger
  <2>2. \A q \in Requests : Stamped(req'[q]) /\ Informed(req[q])'
    BY <1>1 DEF Quiet, Calm, Ledger, Informed
  <2>3. \A q \in Requests : Rowed(q)'
    BY <1>1 DEF Quiet, Calm, Ledger, Rowed, Stored, InSeries, Target
  <2>4. Ordered'
    BY <1>1 DEF Quiet, Calm, Ledger, Ordered
  <2>5. Inserted' = Inserted /\ Remembered
    BY <1>1, QuietRemembers
  <2> QED BY <2>1, <2>2, <2>3, <2>4, <2>5 DEF Ledger, Stamped
<1>2. ASSUME NEW r \in Requests, Step(r)
      PROVE  Ledger' /\ Remembered
  <2>1. Locals(r)
    BY <1>2, StepLocals DEF Ledger, HandlersOK
  <2>2. settings' = settings /\ \A q \in Requests : q # r => req'[q] = req[q]
    BY <1>2, StepRows
  <2>3. Remembered
    BY <1>2, <2>1, StepRemembers
  <2>4. \A q \in Requests : Stamped(req'[q])
    BY <1>0, <2>1, <2>2 DEF Locals
  <2>5. \A q \in Requests : Informed(req[q])'
    BY <2>1, <2>2 DEF Locals, Ledger, Informed
  <2>6. ASSUME NEW q \in Requests, Stored(q)'
        PROVE  /\ req'[q].inserted
               /\ InSeries(q, Target(q), req[q].call.series)'
               /\ snapshots'[q].created = req'[q].created
    <3>1. CASE StoreSnapshot(r) /\ q = r
      <4>1. /\ req'[r].inserted /\ req'[r].call = req[r].call
            /\ req'[r].created = req[r].created
        <5>1. req[r] \in Request
          BY DEF TypeOK
        <5>2. req'[r] = [req[r] EXCEPT !.pc = "ratchet", !.inserted = TRUE]
          BY <3>1 DEF StoreSnapshot, TypeOK
        <5> QED BY <5>1, <5>2 DEF Request
      <4> QED BY <2>6, <3>1, <4>1, StoreEffect DEF InSeries, Target
    <3>2. CASE StoreSnapshot(r) /\ q # r
      <4>1. snapshots'[q] = snapshots[q] /\ req'[q] = req[q]
        BY <2>2, <3>2, StoreEffect
      <4> QED BY <2>6, <4>1 DEF Ledger, Rowed, Stored, InSeries, Target
    <3>3. CASE ~StoreSnapshot(r)
      <4>1. /\ Stored(q)
            /\ snapshots'[q].project = snapshots[q].project
            /\ snapshots'[q].series = snapshots[q].series
            /\ snapshots'[q].created = snapshots[q].created
        BY <1>2, <2>6, <3>3, StepShrinks DEF Shrinks
      <4>2. /\ req'[q].inserted /\ req'[q].call = req[q].call
            /\ req'[q].created = req[q].created
        BY <2>3, <4>1 DEF Ledger, Rowed, Remembered, Inserted
      <4> QED BY <2>6, <4>1, <4>2 DEF Ledger, Rowed, InSeries, Target
    <3> QED BY <3>1, <3>2, <3>3
  <2>7. Ordered'
    <3>1. clock \in Nat /\ \A q \in Requests : req[q].created \in Nat
      BY DEF TypeOK, Request
    <3>2. CASE req'[r].created = req[r].created /\ clock' = clock
      BY <2>2, <3>2 DEF Ledger, Ordered
    <3>3. CASE req'[r].created = clock + 1 /\ clock' = clock + 1
      BY <2>2, <3>1, <3>3 DEF Ledger, Ordered
    <3> QED BY <2>1, <3>2, <3>3 DEF Locals
  <2>8. IsFiniteSet(Inserted')
    BY <1>2, <2>1, StepInserts, FS_AddElement DEF Ledger
  <2> QED BY <2>2, <2>3, <2>4, <2>5, <2>6, <2>7, <2>8 DEF Ledger, Rowed, Stamped
<1> QED BY <1>0, <1>1, <1>2, OtherSteps

-----------------------------------------------------------------------------
(* What retention promises is kept *)

LEMMA NewerGrows ==
    ASSUME Ledger, Ledger', Remembered, NEW q \in Inserted
    PROVE  /\ Cardinality(NewerThan(q)) <= Cardinality(NewerThan(q)')
           /\ Cardinality(NewerThan(q)) \in Nat
           /\ Cardinality(NewerThan(q)') \in Nat
<1>1. NewerThan(q) \in SUBSET (NewerThan(q)')
  BY DEF Remembered, Inserted, NewerThan, SameSeries, Target
<1>2. NewerThan(q) \in SUBSET Inserted /\ NewerThan(q)' \in SUBSET (Inserted')
  BY DEF NewerThan, Inserted
<1>3. IsFiniteSet(NewerThan(q)) /\ IsFiniteSet(NewerThan(q)')
  BY <1>2, FS_Subset DEF Ledger
<1> QED BY <1>1, <1>3, FS_Subset, FS_CardinalityType

LEMMA KeptStep ==
    ASSUME TypeOK, HandlersOK, SteadyRetention, ~Faults, SaneLimits,
           Ledger, Ledger', Remembered, [Next]_vars, \A q \in Inserted : Kept(q),
           NEW r \in Inserted'
    PROVE  Kept(r)'
<1>0. /\ settings.full \in Nat /\ settings.summary \in Nat
      /\ LimitsOf(settings).full = settings.full
      /\ LimitsOf(settings).total = settings.full + settings.summary
  BY LimitsAreSums DEF Ledger
<1>1. ASSUME settings' = settings, r \in Inserted,
             /\ Cardinality(NewerThan(r)) < settings.full /\ Stored(r) /\ snapshots[r].files
             => Stored(r)' /\ snapshots'[r].files,
             /\ Cardinality(NewerThan(r)) < settings.full + settings.summary /\ Stored(r)
             => Stored(r)'
      PROVE  Kept(r)'
  BY <1>0, <1>1, NewerGrows DEF Kept
<1>2. CASE Quiet
  <2>1. settings' = settings /\ snapshots' = snapshots /\ r \in Inserted
    BY <1>2, QuietRemembers DEF Quiet
  <2> QED BY <1>1, <2>1 DEF Stored
<1>3. ASSUME NEW q \in Requests, Step(q)
      PROVE  Kept(r)'
  <2>1. Locals(q)
    BY <1>3, StepLocals DEF Ledger, HandlersOK
  <2>2. settings' = settings
    BY <1>3, StepRows
  <2>3. CASE StoreSnapshot(q)
    <3>1. CASE r = q
      BY <2>3, <3>1, StoreEffect DEF Kept
    <3>2. CASE r # q
      <4>1. r \in Inserted
        BY <1>3, <2>1, <3>2, StepInserts
      <4>2. snapshots'[r] = snapshots[r]
        BY <2>3, <3>2, <4>1, StoreEffect DEF Inserted
      <4> QED BY <1>1, <2>2, <4>1, <4>2 DEF Stored
    <3> QED BY <3>1, <3>2
  <2>4. ASSUME ~StoreSnapshot(q)
        PROVE  r \in Inserted
    BY <1>3, <2>1, <2>4, StepInserts
  <2>5. CASE Strip(q)
    <3> DEFINE old == BeyondOffset(Target(q), req[q].call.series, settings.full)
    <3>1. /\ req[q].limits.full = settings.full
          /\ req[q].pc = "strip" /\ ~StoreSnapshot(q)
      BY <1>0, <2>5 DEF Strip, At, Ledger, Informed, StoreSnapshot
    <3>2. Target(q) \in ProjectIds /\ req[q].call.series \in Series
      BY <3>1, SentCall
    <3>3. StripFiles(Target(q), req[q].call.series, settings.full)
      BY <2>5, <3>1 DEF Strip
    <3>4. r \in Inserted /\ r \in Requests
      BY <2>4, <3>1 DEF Inserted
    <3>5. r \in old => ~(Cardinality(NewerThan(r)) < settings.full)
      BY <1>0, <3>2, <3>4, OldHasNewer, NewerGrows
    <3> QED BY <1>1, <2>2, <3>3, <3>4, <3>5, StripEffect
  <2>6. CASE Delete(q)
    <3> DEFINE total == settings.full + settings.summary
               old == BeyondOffset(Target(q), req[q].call.series, total)
    <3>1. /\ req[q].limits.total = total
          /\ req[q].pc = "delete" /\ ~StoreSnapshot(q)
      BY <1>0, <2>6 DEF Delete, At, Ledger, Informed, StoreSnapshot
    <3>2. Target(q) \in ProjectIds /\ req[q].call.series \in Series
      BY <3>1, SentCall
    <3>3. DeleteOld(Target(q), req[q].call.series, total)
      BY <2>6, <3>1 DEF Delete
    <3>4. r \in Inserted /\ r \in Requests
      BY <2>4, <3>1 DEF Inserted
    <3>5. r \in old => ~(Cardinality(NewerThan(r)) < total)
      BY <1>0, <3>2, <3>4, OldHasNewer, NewerGrows
    <3>6. Cardinality(NewerThan(r)) < settings.full => Cardinality(NewerThan(r)) < total
      BY <1>0, <3>4, NewerGrows
    <3> QED BY <1>1, <2>2, <3>3, <3>4, <3>5, <3>6, DeleteEffect
  <2>7. CASE snapshots' = snapshots /\ ~StoreSnapshot(q)
    BY <1>1, <2>2, <2>4, <2>7 DEF Stored
  <2> QED BY <1>3, <2>3, <2>5, <2>6, <2>7, StepRows
<1> QED BY <1>2, <1>3, OtherSteps DEF Ledger

-----------------------------------------------------------------------------
(* What retention bounds stays bounded *)

LEMMA CountGrows ==
    ASSUME NEW S, NEW P, NEW S2, NEW P2, NEW n \in Nat,
           IsFiniteSet(S), IsFiniteSet(P2), Cardinality(S) <= n + Cardinality(P),
           S2 \in SUBSET S, P \in SUBSET P2
    PROVE  Cardinality(S2) <= n + Cardinality(P2)
<1>1. /\ IsFiniteSet(S2) /\ Cardinality(S2) <= Cardinality(S)
      /\ IsFiniteSet(P) /\ Cardinality(P) <= Cardinality(P2)
  BY FS_Subset
<1>2. /\ Cardinality(S) \in Nat /\ Cardinality(S2) \in Nat
      /\ Cardinality(P) \in Nat /\ Cardinality(P2) \in Nat
  BY <1>1, FS_CardinalityType
<1> QED BY <1>1, <1>2

LEMMA CountAdds ==
    ASSUME NEW S, NEW P, NEW S2, NEW P2, NEW n \in Nat, NEW x,
           IsFiniteSet(S), IsFiniteSet(P2), Cardinality(S) <= n + Cardinality(P),
           S2 \in SUBSET (S \union {x}), P \union {x} \in SUBSET P2, x \notin P
    PROVE  Cardinality(S2) <= n + Cardinality(P2)
<1>1. P \in SUBSET P2
  OBVIOUS
<1>2. IsFiniteSet(P)
  BY <1>1, FS_Subset
<1>3. /\ IsFiniteSet(S \union {x}) /\ Cardinality(S \union {x}) <= Cardinality(S) + 1
      /\ Cardinality(P \union {x}) = Cardinality(P) + 1
      /\ Cardinality(S) \in Nat /\ Cardinality(P) \in Nat
  <2>1. Cardinality(S) \in Nat /\ Cardinality(P) \in Nat
    BY <1>2, FS_CardinalityType
  <2>2. /\ IsFiniteSet(S \union {x})
        /\ Cardinality(S \union {x}) = IF x \in S THEN Cardinality(S) ELSE Cardinality(S) + 1
    BY FS_AddElement
  <2>3. Cardinality(P \union {x}) = Cardinality(P) + 1
    BY <1>2, FS_AddElement
  <2> QED BY <2>1, <2>2, <2>3
<1>4. Cardinality(S2) <= Cardinality(S \union {x}) /\ IsFiniteSet(S2)
  BY <1>3, FS_Subset
<1>5. Cardinality(P \union {x}) <= Cardinality(P2)
  BY FS_Subset
<1>6. /\ Cardinality(S2) \in Nat /\ Cardinality(P2) \in Nat
      /\ Cardinality(S \union {x}) \in Nat
  BY <1>3, <1>4, FS_CardinalityType
<1> QED BY <1>3, <1>4, <1>5, <1>6

LEMMA QuietPending ==
    ASSUME Quiet, NEW p \in ProjectIds, NEW s \in Series
    PROVE  /\ Unpruned(p, s) \in SUBSET (Unpruned(p, s)')
           /\ Unstripped(p, s) \in SUBSET (Unstripped(p, s)')
<1>1. ASSUME NEW q \in Unpruned(p, s)
      PROVE  /\ q \in Unpruned(p, s)'
             /\ req[q].pc # "delete" => req'[q].pc # "delete"
  <2>1. /\ q \in Requests /\ req[q].inserted /\ ~Succeeded(q)
        /\ Target(q) = p /\ req[q].call.series = s
    BY DEF Unpruned
  <2>2. req'[q].inserted /\ req'[q].call = req[q].call
    BY <1>1, <2>1 DEF Quiet, Calm
  <2>3. req'[q] = req[q] \/ req'[q].pc = "lost"
    BY <1>1, <2>1 DEF Quiet, Calm
  <2> QED BY <2>1, <2>2, <2>3 DEF Unpruned, Succeeded, Answered, Target
<1> QED BY <1>1 DEF Unstripped

\* Whether r has the last word on the series.
Serves(r, p, s) == Target(r) = p /\ req[r].call.series = s

LEMMA StepPending ==
    ASSUME TypeOK, NEW r \in Requests, Step(r), Locals(r),
           NEW p \in ProjectIds, NEW s \in Series
    PROVE  /\ \/ Delete(r) /\ Serves(r, p, s)
              \/ Unpruned(p, s) \in SUBSET (Unpruned(p, s)')
           /\ \/ Strip(r) /\ Serves(r, p, s)
              \/ Unstripped(p, s) \in SUBSET (Unstripped(p, s)')
<1>1. \A q \in Requests : q # r => req'[q] = req[q]
  BY StepRows
<1>2. ASSUME NEW q \in Unpruned(p, s), q # r
      PROVE  /\ q \in Unpruned(p, s)'
             /\ req[q].pc # "delete" => req'[q].pc # "delete"
  <2>1. q \in Requests /\ req'[q] = req[q]
    BY <1>1, <1>2 DEF Unpruned
  <2> QED BY <1>2, <2>1 DEF Unpruned, Succeeded, Answered, Target
<1>3. ASSUME r \in Unpruned(p, s)
      PROVE  /\ Delete(r) \/ r \in Unpruned(p, s)'
             /\ \/ Strip(r)
                \/ req[r].pc = "delete"
                \/ r \in Unpruned(p, s)' /\ req'[r].pc # "delete"
             /\ Serves(r, p, s)
  <2>1. req[r].inserted /\ Target(r) = p /\ req[r].call.series = s
    BY <1>3 DEF Unpruned
  <2>2. req'[r].inserted /\ req'[r].call = req[r].call /\ Stage(r)
    BY <2>1 DEF Locals
  <2>3. Delete(r) => req[r].pc = "delete"
    BY DEF Delete, At
  <2>4. req'[r].pc # "done" => r \in Unpruned(p, s)'
    BY <2>1, <2>2 DEF Unpruned, Succeeded, Answered, Target
  <2> QED BY <2>1, <2>2, <2>3, <2>4 DEF Stage, Serves
<1> QED BY <1>2, <1>3 DEF Unstripped

LEMMA BoundedStep ==
    ASSUME TypeOK, HandlersOK, SteadyRetention, ~Faults, SaneLimits,
           Ledger, Ledger', [Next]_vars,
           NEW p \in ProjectIds, NEW s \in Series, Bounded(p, s)
    PROVE  Bounded(p, s)'
<1> DEFINE full == settings.full
           total == settings.full + settings.summary
<1>0. /\ full \in Nat /\ total \in Nat
      /\ LimitsOf(settings).full = full /\ LimitsOf(settings).total = total
  BY LimitsAreSums DEF Ledger
<1>1. /\ IsFiniteSet(Rows(p, s)) /\ IsFiniteSet(FullRows(p, s))
      /\ IsFiniteSet(Unpruned(p, s)') /\ IsFiniteSet(Unstripped(p, s)')
  <2>1. /\ Unpruned(p, s)' \in SUBSET (Inserted')
        /\ Unstripped(p, s)' \in SUBSET (Inserted')
    BY DEF Unpruned, Unstripped, Inserted
  <2>2. IsFiniteSet(Inserted')
    BY DEF Ledger
  <2>3. IsFiniteSet(Unpruned(p, s)') /\ IsFiniteSet(Unstripped(p, s)')
    BY <2>1, <2>2, FS_Subset
  <2> QED BY <2>3, RowSets
<1>2. /\ Cardinality(FullRows(p, s)) <= full + Cardinality(Unstripped(p, s))
      /\ Cardinality(Rows(p, s)) <= total + Cardinality(Unpruned(p, s))
  BY DEF Bounded
<1>3. /\ Cardinality(Unpruned(p, s)') \in Nat
      /\ Cardinality(Unstripped(p, s)') \in Nat
  BY <1>1, FS_CardinalityType
<1>4. ASSUME Shrinks
      PROVE  /\ Rows(p, s)' \in SUBSET Rows(p, s)
             /\ FullRows(p, s)' \in SUBSET FullRows(p, s)
  BY <1>4 DEF Shrinks, Rows, FullRows, InSeries
<1>5. SUFFICES /\ Cardinality(FullRows(p, s)') <= full + Cardinality(Unstripped(p, s)')
               /\ Cardinality(Rows(p, s)') <= total + Cardinality(Unpruned(p, s)')
  <2>1. settings' = settings
    BY OtherSteps, StepRows DEF Quiet, Ledger
  <2> QED BY <2>1 DEF Bounded
<1> HIDE DEF full, total
<1>6. CASE Quiet
  <2>1. Shrinks
    BY <1>6 DEF Quiet, Shrinks, Stored
  <2>2. /\ Unpruned(p, s) \in SUBSET (Unpruned(p, s)')
        /\ Unstripped(p, s) \in SUBSET (Unstripped(p, s)')
    BY <1>6, QuietPending
  <2> QED BY <1>0, <1>1, <1>2, <1>4, <2>1, <2>2, CountGrows
<1>7. ASSUME NEW r \in Requests, Step(r), ~StoreSnapshot(r)
      PROVE  /\ Cardinality(FullRows(p, s)') <= full + Cardinality(Unstripped(p, s)')
             /\ Cardinality(Rows(p, s)') <= total + Cardinality(Unpruned(p, s)')
  <2>1. Locals(r) /\ Shrinks
    BY <1>7, StepLocals, StepShrinks DEF Ledger, HandlersOK
  <2>2. CASE Strip(r) /\ Serves(r, p, s)
    <3>1. StripFiles(p, s, full)
      BY <1>0, <2>2 DEF Strip, Serves, At, Ledger, Informed
    <3>2. FullRows(p, s)' \in SUBSET (Rows(p, s) \ BeyondOffset(p, s, full))
      <4>1. ASSUME NEW id \in FullRows(p, s)'
            PROVE  id \in Rows(p, s) /\ id \notin BeyondOffset(p, s, full)
        <5>1. id \in Requests /\ Stored(id)' /\ snapshots'[id].files
          BY <4>1 DEF FullRows, Rows, InSeries
        <5>2. id \in Rows(p, s)
          BY <1>4, <2>1, <4>1 DEF FullRows
        <5> QED BY <3>1, <5>1, <5>2, StripEffect
      <4> QED BY <4>1
    <3>3. Cardinality(FullRows(p, s)') <= full /\ Cardinality(FullRows(p, s)') \in Nat
      <4>1. /\ IsFiniteSet(Rows(p, s) \ BeyondOffset(p, s, full))
            /\ Cardinality(Rows(p, s) \ BeyondOffset(p, s, full)) <= full
        BY <1>0, FewRemain
      <4>2. /\ IsFiniteSet(FullRows(p, s)')
            /\ Cardinality(FullRows(p, s)')
                  <= Cardinality(Rows(p, s) \ BeyondOffset(p, s, full))
        BY <3>2, <4>1, FS_Subset
      <4> QED BY <1>0, <4>1, <4>2, FS_CardinalityType
    <3>4. Unpruned(p, s) \in SUBSET (Unpruned(p, s)')
      <4>1. ~Delete(r)
        BY <2>2 DEF Strip, Delete, At
      <4> QED BY <1>7, <2>1, <4>1, StepPending
    <3> QED BY <1>0, <1>1, <1>2, <1>3, <1>4, <2>1, <3>3, <3>4, CountGrows
  <2>3. CASE Delete(r) /\ Serves(r, p, s)
    <3>1. DeleteOld(p, s, total)
      BY <1>0, <2>3 DEF Delete, Serves, At, Ledger, Informed
    <3>2. Rows(p, s)' \in SUBSET (Rows(p, s) \ BeyondOffset(p, s, total))
      <4>1. ASSUME NEW id \in Rows(p, s)'
            PROVE  id \in Rows(p, s) /\ id \notin BeyondOffset(p, s, total)
        <5>1. id \in Requests /\ Stored(id)'
          BY <4>1 DEF Rows, InSeries
        <5>2. id \in Rows(p, s)
          BY <1>4, <2>1, <4>1
        <5> QED BY <3>1, <5>1, <5>2, DeleteEffect
      <4> QED BY <4>1
    <3>3. Cardinality(Rows(p, s)') <= total /\ Cardinality(Rows(p, s)') \in Nat
      <4>1. /\ IsFiniteSet(Rows(p, s) \ BeyondOffset(p, s, total))
            /\ Cardinality(Rows(p, s) \ BeyondOffset(p, s, total)) <= total
        BY <1>0, FewRemain
      <4>2. /\ IsFiniteSet(Rows(p, s)')
            /\ Cardinality(Rows(p, s)')
                  <= Cardinality(Rows(p, s) \ BeyondOffset(p, s, total))
        BY <3>2, <4>1, FS_Subset
      <4> QED BY <1>0, <4>1, <4>2, FS_CardinalityType
    <3>4. Unstripped(p, s) \in SUBSET (Unstripped(p, s)')
      <4>1. ~Strip(r)
        BY <2>3 DEF Strip, Delete, At
      <4> QED BY <1>7, <2>1, <4>1, StepPending
    <3> QED BY <1>0, <1>1, <1>2, <1>3, <1>4, <2>1, <3>3, <3>4, CountGrows
  <2>4. CASE /\ ~(Strip(r) /\ Serves(r, p, s))
             /\ ~(Delete(r) /\ Serves(r, p, s))
    <3>1. /\ Unpruned(p, s) \in SUBSET (Unpruned(p, s)')
          /\ Unstripped(p, s) \in SUBSET (Unstripped(p, s)')
      BY <1>7, <2>1, <2>4, StepPending
    <3> QED BY <1>0, <1>1, <1>2, <1>4, <2>1, <3>1, CountGrows
  <2> QED BY <2>2, <2>3, <2>4
<1>8. ASSUME NEW r \in Requests, Step(r), StoreSnapshot(r)
      PROVE  /\ Cardinality(FullRows(p, s)') <= full + Cardinality(Unstripped(p, s)')
             /\ Cardinality(Rows(p, s)') <= total + Cardinality(Unpruned(p, s)')
  <2>1. Locals(r)
    BY <1>8, StepLocals DEF Ledger, HandlersOK
  <2>2. ~req[r].inserted /\ req'[r].inserted /\ req'[r].pc = "ratchet"
        /\ req'[r].call = req[r].call
    BY <1>8, <2>1 DEF Locals
  <2>3. /\ Unpruned(p, s) \in SUBSET (Unpruned(p, s)')
        /\ Unstripped(p, s) \in SUBSET (Unstripped(p, s)')
    <3>1. req[r].pc = "insert"
      BY <1>8 DEF StoreSnapshot, At
    <3> QED BY <1>8, <2>1, <3>1, StepPending DEF Strip, Delete, At
  <2>4. r \notin Unpruned(p, s) /\ r \notin Unstripped(p, s)
    BY <2>2 DEF Unpruned, Unstripped
  <2>5. \A id \in Requests : id # r => snapshots'[id] = snapshots[id]
    BY <1>8, StoreEffect
  <2>6. CASE Serves(r, p, s)
    <3>1. r \in Unpruned(p, s)' /\ r \in Unstripped(p, s)'
      BY <2>2, <2>6 DEF Unpruned, Unstripped, Serves, Succeeded, Answered, Target
    <3>2. /\ Rows(p, s)' \in SUBSET (Rows(p, s) \union {r})
          /\ FullRows(p, s)' \in SUBSET (FullRows(p, s) \union {r})
      BY <2>5 DEF Rows, FullRows, InSeries, Stored
    <3>3. /\ Unpruned(p, s) \union {r} \in SUBSET (Unpruned(p, s)')
          /\ Unstripped(p, s) \union {r} \in SUBSET (Unstripped(p, s)')
      BY <2>3, <3>1
    <3> QED BY <1>0, <1>1, <1>2, <2>4, <3>2, <3>3, CountAdds
  <2>7. CASE ~Serves(r, p, s)
    <3>1. ~InSeries(r, p, s)'
      BY <1>8, <2>7, StoreEffect DEF InSeries, Serves
    <3>2. /\ Rows(p, s)' \in SUBSET Rows(p, s)
          /\ FullRows(p, s)' \in SUBSET FullRows(p, s)
      BY <2>5, <3>1 DEF Rows, FullRows, InSeries, Stored
    <3> QED BY <1>0, <1>1, <1>2, <2>3, <3>2, CountGrows
  <2> QED BY <2>6, <2>7
<1> QED BY <1>6, <1>7, <1>8, OtherSteps DEF Ledger

-----------------------------------------------------------------------------
(* The theorems *)

LEMMA RetentionInit ==
    ASSUME Init, SaneLimits
    PROVE  RetentionInv
<1>1. /\ settings \in InitialSettings /\ clock = 0
      /\ \A q \in Requests : req[q] = Idle /\ ~Stored(q)
  BY DEF Init, Stored
<1>2. Inserted = {}
  BY <1>1 DEF Inserted, Idle
<1>3. Ledger
  BY <1>1, <1>2, FS_EmptySet DEF Ledger, Stamped, Informed, Rowed, Ordered, Idle
<1>4. \A r \in Inserted : Kept(r)
  BY <1>2
<1>5. ASSUME NEW p \in ProjectIds, NEW s \in Series
      PROVE  Bounded(p, s)
  <2>1. Rows(p, s) = {} /\ FullRows(p, s) = {}
    BY <1>1 DEF Rows, InSeries, FullRows
  <2>2. Unpruned(p, s) = {} /\ Unstripped(p, s) = {}
    BY <1>1 DEF Unpruned, Unstripped, Idle
  <2>3. settings.full \in Nat /\ settings.summary \in Nat
    BY <1>1, LimitsAreSums
  <2> QED BY <2>1, <2>2, <2>3, FS_EmptySet DEF Bounded
<1> QED BY <1>3, <1>4, <1>5 DEF RetentionInv

LEMMA RetentionCorrect ==
    ASSUME SaneLimits
    PROVE  Spec => [](TypeOK /\ HandlersOK /\ (SteadyRetention /\ ~Faults => RetentionInv))
<1> DEFINE Inv == SteadyRetention /\ ~Faults => RetentionInv
<1>1. Init => Inv
  BY RetentionInit
<1>2. TypeOK /\ HandlersOK /\ Inv /\ [Next]_vars => Inv'
  <2> SUFFICES ASSUME TypeOK, HandlersOK, Inv, [Next]_vars, SteadyRetention, ~Faults
               PROVE  RetentionInv'
    BY DEF SteadyRetention
  <2>1. Ledger /\ (\A r \in Inserted : Kept(r))
        /\ \A p \in ProjectIds, s \in Series : Bounded(p, s)
    BY DEF RetentionInv
  <2>2. Ledger' /\ Remembered
    BY <2>1, LedgerStep
  <2>3. \A r \in Inserted' : Kept(r)'
    BY <2>1, <2>2, KeptStep
  <2>4. \A p \in ProjectIds, s \in Series : Bounded(p, s)'
    BY <2>1, <2>2, BoundedStep
  <2> QED BY <2>2, <2>3, <2>4 DEF RetentionInv
<1> HIDE DEF Inv
<1> QED BY <1>1, <1>2, HandlersCorrect, TypeInit, TypeStep, PTL DEF Inv, Spec

\* Pruning never takes too much: with limits the settings form lets through,
\* the newest `full` snapshots of a series keep their files and the next
\* `summary` keep their row, however many ingests store and prune at once,
\* out of order or broken off (prune_snapshots).
THEOREM RetentionIsKept ==
    ASSUME SaneLimits
    PROVE  Spec => []RetentionKept
<1>1. (SteadyRetention /\ ~Faults => RetentionInv) => RetentionKept
  BY DEF RetentionInv, Inserted, Kept, RetentionKept, DocumentedRetention
<1> QED BY <1>1, RetentionCorrect, PTL

\* Pruning takes enough: a series is never longer than its limits and the
\* ingests whose own pruning is still to come or was broken off
\* (prune_snapshots).
THEOREM RetentionIsEnforced ==
    ASSUME SaneLimits
    PROVE  Spec => []RetentionEnforced
<1>1. TypeOK /\ (SteadyRetention /\ ~Faults => RetentionInv) => RetentionEnforced
  <2> SUFFICES ASSUME RetentionInv, SaneLimits, NEW p \in ProjectIds, NEW s \in Series
               PROVE  /\ Cardinality(FullRows(p, s))
                            <= settings.full + Cardinality(Unpruned(p, s))
                      /\ Cardinality(Rows(p, s))
                            <= settings.full + settings.summary
                               + Cardinality(Unpruned(p, s))
    BY DEF RetentionEnforced, FullRows
  <2>1. Ledger /\ Bounded(p, s)
    BY DEF RetentionInv
  <2>2. settings.full \in Nat
    BY <2>1, LimitsAreSums DEF Ledger
  <2>3. /\ IsFiniteSet(FullRows(p, s)) /\ IsFiniteSet(Unpruned(p, s))
        /\ Unstripped(p, s) \in SUBSET Unpruned(p, s)
    BY <2>1, RowSets
  <2>4. Cardinality(FullRows(p, s)) <= settings.full + Cardinality(Unstripped(p, s))
    BY <2>1 DEF Bounded
  <2>5. Cardinality(FullRows(p, s)) <= settings.full + Cardinality(Unpruned(p, s))
    BY <2>2, <2>3, <2>4, CountGrows
  <2> QED BY <2>1, <2>5 DEF Bounded
<1> QED BY <1>1, RetentionCorrect, PTL
=============================================================================

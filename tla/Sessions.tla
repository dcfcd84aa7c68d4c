------------------------------ MODULE Sessions ------------------------------
(***************************************************************************)
(* Login and permissions (routes/auth.rs) over the tables sessions and     *)
(* permission_cache (storage/db.rs), with the housekeeping loop that       *)
(* empties them (maintenance.rs) and the key that session tokens are       *)
(* sealed with (crypto.rs).  One repository and one project, which may be  *)
(* linked to it.  GitHub is external: it answers, or the call fails.       *)
(*                                                                         *)
(* A request is one of                                                     *)
(*   callback  the end of a login: exchange the code, store a session      *)
(*   logout    delete the session                                          *)
(*   view      extract_user, what every page gate asks                     *)
(*   write     require_project_write, in front of the settings pages       *)
(* and req[r].pc is the await at which its handler is suspended.  A tick   *)
(* does not pass between an answer from GitHub and the statement that      *)
(* caches it.                                                              *)
(***************************************************************************)
EXTENDS Clock, Integers, FiniteSets

CONSTANTS
    Users, Browsers, Requests,
    Admins,        \* OMNIVORE_ADMIN_USERS; empty: OMNIVORE_GITHUB_ORG decides
    Secrets,       \* values of OMNIVORE_SECRET_KEY the server is started with
    NoSecret,      \* ... and without one
    MaxSessions,   \* bound: sessions ever created
    SessionTTL,    \* create_session: seven days
    PermTTL,       \* cache_permission: five minutes
    Nobody, NoSession

ASSUME SessionsAssumption ==
    /\ Admins \subseteq Users
    /\ NoSecret \notin Secrets
    /\ {MaxSessions, SessionTTL, PermTTL} \subseteq Nat \ {0}
    /\ Nobody \notin Users
    /\ NoSession \notin Nat
    /\ Browsers # {}

Ids == 1..MaxSessions

VARIABLES
    secret,     \* OMNIVORE_SECRET_KEY of the running process
    sessions,   \* table sessions, by id
    perms,      \* table permission_cache, by user
    access,     \* GitHub: may the user write to the repository?
    browser,    \* the cookies of each browser
    req,        \* the requests and the locals of their handlers
    sweeper,    \* where the housekeeping loop is
    born,       \* auxiliary: when a session was created, and
    ended,      \* auxiliary: those that were deleted by a logout
    able,       \* auxiliary: when the user last had access, and
    unable      \* auxiliary: when they last had not, or a lookup failed

svars == <<secret, sessions, perms, access, browser, req, sweeper,
           born, ended, able, unable>>
sessionvars == <<now, svars>>

Session == [user: Users, seal: Secrets \union {NoSecret}, expires: Nat]
Cached == [may: BOOLEAN, expires: Nat]
ASSUME RowsAssumption == NoSession \notin Session /\ Nobody \notin Cached

Cookies == [login: BOOLEAN, session: Ids \union {NoSession}]
Kinds == {"callback", "logout", "view", "write"}
Suspended == {"exchange", "create", "prune", "delete", "session", "owner",
              "project", "cached", "fetch", "cache"}
Request == [
    pc: Suspended \union {"idle", "done"},
    kind: Kinds,
    browser: Browsers,
    cookie: Ids \union {NoSession},    \* the session cookie it was sent with
    user: Users \union {Nobody},
    may: BOOLEAN,                      \* the permission GitHub answered
    answer: {"none", "yes", "no", "login"},
    looked: BOOLEAN,                   \* auxiliary: the permission decided
    over: BOOLEAN]                     \* auxiliary: sent after the logout

SessionsTypeOK ==
    /\ now \in Nat
    /\ secret \in Secrets \union {NoSecret}
    /\ sessions \in [Ids -> Session \union {NoSession}]
    /\ perms \in [Users -> Cached \union {Nobody}]
    /\ access \in [Users -> BOOLEAN]
    /\ browser \in [Browsers -> Cookies]
    /\ req \in [Requests -> Request]
    /\ sweeper \in {"sleep", "sessions", "permissions"}
    /\ born \in [Ids -> Int]
    /\ ended \subseteq Ids
    /\ able \in [Users -> Int]
    /\ unable \in [Users -> Int]

AnyBrowser == CHOOSE b \in Browsers : TRUE
Quiet == [pc |-> "idle", kind |-> "view", browser |-> AnyBrowser,
          cookie |-> NoSession, user |-> Nobody, may |-> FALSE,
          answer |-> "none", looked |-> FALSE, over |-> FALSE]

Never == 0 - (SessionTTL + PermTTL)

SessionsInit ==
    /\ now = 0
    /\ secret \in Secrets \union {NoSecret}
    /\ sessions = [i \in Ids |-> NoSession]
    /\ perms = [u \in Users |-> Nobody]
    /\ access \in [Users -> BOOLEAN]
    /\ browser = [b \in Browsers |-> [login |-> FALSE, session |-> NoSession]]
    /\ req = [r \in Requests |-> Quiet]
    /\ sweeper = "sleep"
    /\ born = [i \in Ids |-> Never]
    /\ ended = {}
    /\ able = [u \in Users |-> IF access[u] THEN now ELSE Never]
    /\ unable = [u \in Users |-> IF access[u] THEN Never ELSE now]

-----------------------------------------------------------------------------
(* Tables *)

Fresh == {i \in Ids : born[i] = Never}

\* Mutant of SessionEnd: the sign is lost.
SessionEndBefore == now - SessionTTL

SessionEnd == now + SessionTTL

\* crypto::encrypt: sealed with the key there is, or stored as it is.
InsertSession(u) ==
    /\ Fresh # {}
    /\ LET i == CHOOSE i \in Fresh : \A j \in Fresh : i <= j IN
       /\ sessions' = [sessions EXCEPT ![i] =
                         [user |-> u, seal |-> secret, expires |-> SessionEnd]]
       /\ born' = [born EXCEPT ![i] = now]

\* Mutant of Live: expiry is left to the sweep.
LiveUntilSwept(i) == sessions[i] # NoSession

\* WHERE id = ? AND expires_at > now
Live(i) == sessions[i] # NoSession /\ sessions[i].expires > now

\* crypto::decrypt: a token without the prefix is returned as it is.
Readable(i) == sessions[i].seal \in {NoSecret, secret}

\* get_session, extract_user
UserOf(i) ==
    IF i # NoSession /\ Live(i) /\ Readable(i) THEN sessions[i].user ELSE Nobody

\* Mutant of Expired: the comparison is turned around.
ExpiredNot(i) == sessions[i].expires > now

\* prune_expired_sessions
Expired(i) == sessions[i].expires <= now
PruneSessions ==
    sessions' = [i \in Ids |-> IF sessions[i] # NoSession /\ Expired(i)
                               THEN NoSession ELSE sessions[i]]

\* Mutant of CacheOf: expiry is left to the sweep.
CacheOfAnyAge(u) == perms[u]

\* get_cached_permission: WHERE ... AND expires_at > now
CacheOf(u) == IF perms[u] # Nobody /\ perms[u].expires > now
              THEN perms[u] ELSE Nobody

\* Mutant of CachePermission: an entry for a refusal outlives the others.
CachePermissionLonger(u, may) ==
    perms' = [perms EXCEPT ![u] =
                [may |-> may, expires |-> now + IF may THEN PermTTL ELSE SessionTTL]]

CachePermission(u, may) ==
    perms' = [perms EXCEPT ![u] = [may |-> may, expires |-> now + PermTTL]]
PrunePermissions ==
    perms' = [u \in Users |-> IF perms[u] # Nobody /\ perms[u].expires <= now
                              THEN Nobody ELSE perms[u]]

-----------------------------------------------------------------------------
(* The browser *)

At(r, pc) == req[r].pc = pc
Goto(r, pc) == req' = [req EXCEPT ![r].pc = pc]
Answer(r, answer) ==
    req' = [req EXCEPT ![r].pc = "done", ![r].answer = answer]

\* login: a state token in a cookie, and off to GitHub.
Login(b) ==
    /\ browser' = [browser EXCEPT ![b].login = TRUE]
    /\ UNCHANGED <<secret, sessions, perms, access, req, sweeper, born, ended,
                   able, unable>>

First == [callback |-> "exchange", logout |-> "delete", view |-> "session",
          write |-> "session"]

\* A request leaves with the cookies of the moment.  A callback whose state is
\* not the one in the cookie is answered 400 and changes nothing.
Send(r, b, kind) ==
    /\ At(r, "idle")
    /\ kind = "callback" => browser[b].login /\ Fresh # {}
    /\ kind = "logout" => browser[b].session # NoSession
    /\ req' = [req EXCEPT ![r] =
                 [Quiet EXCEPT !.pc = First[kind], !.kind = kind, !.browser = b,
                               !.cookie = browser[b].session,
                               !.over = browser[b].session \in ended]]
    /\ UNCHANGED <<secret, sessions, perms, access, browser, sweeper, born, ended,
                   able, unable>>

\* The answer arrives and its cookies are set, or it is lost.  Only the answer
\* of a login that succeeded takes the state cookie away, and sets a session.
Arrive(r) ==
    /\ At(r, "done")
    /\ \/ UNCHANGED browser
       \/ /\ req[r].kind = "callback" /\ req[r].answer = "yes"
          /\ browser' = [browser EXCEPT ![req[r].browser] =
                            [login |-> FALSE, session |-> req[r].cookie]]
       \/ /\ req[r].kind = "logout"
          /\ browser' = [browser EXCEPT ![req[r].browser].session = NoSession]
    /\ req' = [req EXCEPT ![r] = Quiet]
    /\ UNCHANGED <<secret, sessions, perms, access, sweeper, born, ended, able,
                   unable>>

-----------------------------------------------------------------------------
(* callback and logout *)

\* The code for a token, the token for a user; any error is a 502.
Exchange(r) ==
    /\ At(r, "exchange")
    /\ \/ Answer(r, "no")
       \/ \E u \in Users :
             req' = [req EXCEPT ![r].pc = "create", ![r].user = u]
    /\ UNCHANGED <<secret, sessions, perms, access, browser, sweeper, born, ended,
                   able, unable>>

\* create_session; an error is a 500.  (cookie: the one the answer will set)
Create(r) ==
    /\ At(r, "create")
    /\ \/ Answer(r, "no") /\ UNCHANGED <<sessions, born>>
       \/ /\ InsertSession(req[r].user)
          /\ req' = [req EXCEPT ![r].pc = "prune",
                       ![r].cookie = CHOOSE i \in Ids : born'[i] # born[i]]
    /\ UNCHANGED <<secret, perms, access, browser, sweeper, ended, able, unable>>

\* A failed pruning is ignored.
Prune(r) ==
    /\ At(r, "prune")
    /\ PruneSessions \/ UNCHANGED sessions
    /\ Answer(r, "yes")
    /\ UNCHANGED <<secret, perms, access, browser, sweeper, born, ended, able,
                   unable>>

\* logout: a failed deletion is ignored too.
Delete(r) ==
    /\ At(r, "delete")
    /\ \/ UNCHANGED <<sessions, ended>>
       \/ /\ sessions' = [sessions EXCEPT ![req[r].cookie] = NoSession]
          /\ ended' = ended \union {req[r].cookie}
    /\ Answer(r, "yes")
    /\ UNCHANGED <<secret, perms, access, browser, sweeper, born, able, unable>>

-----------------------------------------------------------------------------
(* extract_user and the guards *)

\* Nobody is sent to the login page, or told 401; a failed read is nobody.
ExtractUser(r) ==
    /\ At(r, "session")
    /\ LET user == UserOf(req[r].cookie) IN
       \/ Answer(r, "login")
       \/ /\ user # Nobody
          /\ req' = [req EXCEPT ![r].user = user,
                       ![r].pc = IF req[r].kind = "view" \/ user \in Admins
                                 THEN "done"
                                 ELSE IF Admins = {} THEN "owner" ELSE "project",
                       ![r].answer = IF req[r].kind = "view" \/ user \in Admins
                                     THEN "yes" ELSE "none"]
    /\ UNCHANGED <<secret, sessions, perms, access, browser, sweeper, born, ended,
                   able, unable>>

\* is_dashboard_admin without a list of names: the owners of the organisation.
CheckOrgOwner(r) ==
    /\ At(r, "owner")
    /\ Answer(r, "yes") \/ Goto(r, "project")
    /\ UNCHANGED <<secret, sessions, perms, access, browser, sweeper, born, ended,
                   able, unable>>

\* The project's repository; without one (or if the read fails) it is no.
ReadProject(r) ==
    /\ At(r, "project")
    /\ Answer(r, "no") \/ Goto(r, "cached")
    /\ UNCHANGED <<secret, sessions, perms, access, browser, sweeper, born, ended,
                   able, unable>>

Decide(r, may) ==
    req' = [req EXCEPT ![r].pc = "done", ![r].looked = TRUE,
                       ![r].answer = IF may THEN "yes" ELSE "no"]

\* check_repo_permission: the cache first; GitHub if it has none or fails.
ReadPermission(r) ==
    /\ At(r, "cached")
    /\ LET cached == CacheOf(req[r].user) IN
       IF cached # Nobody THEN Decide(r, cached.may) \/ Goto(r, "fetch")
       ELSE Goto(r, "fetch")
    /\ UNCHANGED <<secret, sessions, perms, access, browser, sweeper, born, ended,
                   able, unable>>

\* fetch_repo_permission; any failure is taken for "none".
FetchPermission(r) ==
    /\ At(r, "fetch")
    /\ \/ /\ req' = [req EXCEPT ![r].pc = "cache", ![r].may = access[req[r].user]]
          /\ UNCHANGED unable
       \/ /\ req' = [req EXCEPT ![r].pc = "cache", ![r].may = FALSE]
          /\ unable' = [unable EXCEPT ![req[r].user] = now]
    /\ UNCHANGED <<secret, sessions, perms, access, browser, sweeper, born, ended,
                   able>>

\* What GitHub said is cached, for a refusal as for a permission.
StorePermission(r) ==
    /\ At(r, "cache")
    /\ CachePermission(req[r].user, req[r].may) \/ UNCHANGED perms
    /\ Decide(r, req[r].may)
    /\ UNCHANGED <<secret, sessions, access, browser, sweeper, born, ended, able,
                   unable>>

-----------------------------------------------------------------------------
(* Housekeeping and the surroundings *)

\* Mutant of Wake: nobody spawns the loop.
WakeNever == FALSE

Wake == sweeper = "sleep"

\* maintenance::sweep, one statement at a time; errors are swallowed.
StartSweep ==
    /\ Wake
    /\ sweeper' = "sessions"
    /\ UNCHANGED <<secret, sessions, perms, access, browser, req, born, ended,
                   able, unable>>

SweepSessions(good) ==
    /\ sweeper = "sessions"
    /\ sweeper' = "permissions"
    /\ IF good THEN PruneSessions ELSE UNCHANGED sessions
    /\ UNCHANGED <<secret, perms, access, browser, req, born, ended, able, unable>>

SweepPermissions ==
    /\ sweeper = "permissions"
    /\ sweeper' = "sleep"
    /\ PrunePermissions \/ UNCHANGED perms
    /\ UNCHANGED <<secret, sessions, access, browser, req, born, ended, able,
                   unable>>

\* The repository's owners give a user access, or take it away.
ChangeAccess(u) ==
    /\ access' = [access EXCEPT ![u] = ~@]
    /\ able' = [able EXCEPT ![u] = IF access[u] \/ access'[u] THEN now ELSE @]
    /\ unable' = [unable EXCEPT ![u] = now]
    /\ UNCHANGED <<secret, sessions, perms, browser, req, sweeper, born, ended>>

\* The server is stopped, and started with this key or none.
Restart(k) ==
    /\ secret' = k
    /\ req' = [r \in Requests |-> Quiet]
    /\ sweeper' = "sleep"
    /\ UNCHANGED <<sessions, perms, access, browser, born, ended, able, unable>>

\* Longer ago than a cached permission lives is as good as never.
Aged(t) == IF now' - t >= PermTTL THEN Never ELSE t

SessionTick ==
    /\ \A r \in Requests : ~At(r, "cache")
    /\ Passes
    /\ able' = [u \in Users |-> IF access[u] THEN now' ELSE Aged(able[u])]
    /\ unable' = [u \in Users |-> IF access[u] THEN Aged(unable[u]) ELSE now']
    /\ UNCHANGED <<secret, sessions, perms, access, browser, req, sweeper, born,
                   ended>>

Handle(r) ==
    \/ Exchange(r) \/ Create(r) \/ Prune(r) \/ Delete(r)
    \/ ExtractUser(r) \/ CheckOrgOwner(r) \/ ReadProject(r)
    \/ ReadPermission(r) \/ FetchPermission(r) \/ StorePermission(r)

SessionsStep ==
    \/ \E b \in Browsers : Login(b)
    \/ \E r \in Requests :
          \/ \E b \in Browsers, kind \in Kinds : Send(r, b, kind)
          \/ Handle(r) \/ Arrive(r)
    \/ StartSweep \/ SweepPermissions
    \/ \E good \in BOOLEAN : SweepSessions(good)
    \/ \E u \in Users : ChangeAccess(u)
    \/ \E k \in Secrets \union {NoSecret} : Restart(k)

SessionsNext == (SessionsStep /\ UNCHANGED now) \/ SessionTick

\* The loop runs, and not every one of its deletions fails.
SweepFairness ==
    /\ WF_sessionvars(StartSweep /\ UNCHANGED now)
    /\ WF_sessionvars(SweepPermissions /\ UNCHANGED now)
    /\ SF_sessionvars(SweepSessions(TRUE) /\ UNCHANGED now)

SessionsSpec == SessionsInit /\ [][SessionsNext]_sessionvars /\ SweepFairness

-----------------------------------------------------------------------------
(* Properties *)

\* Whoever is let in logged in less than a session's life ago, had not logged
\* out before the request was sent, and did so under the present key or
\* without one, however long the sweep is overdue.
OnlyLiveSessions ==
    [][\A r \in Requests :
          At(r, "session") /\ req'[r].user # Nobody =>
              /\ now < born[req[r].cookie] + SessionTTL
              /\ ~req[r].over
              /\ sessions[req[r].cookie].seal \in {NoSecret, secret}]_sessionvars

\* A browser's login lasts: neither the prunings at other users' logins nor
\* the sweep end it before its time.
SessionsLast ==
    \A b \in Browsers : LET i == browser[b].session IN
        i # NoSession /\ i \notin ended /\ now < born[i] + SessionTTL =>
            sessions[i] # NoSession

\* A permission that was taken away is honoured for less than the cache's
\* five minutes, whatever requests are under way when it goes.
GrantsAreRecent ==
    [][\A r \in Requests :
          ~At(r, "done") /\ req'[r].pc = "done" /\ req'[r].looked
              /\ req'[r].answer = "yes" =>
              now - able[req[r].user] < PermTTL]_sessionvars

\* A refusal has a cause as recent: no access, or a lookup that failed.
RefusalsAreRecent ==
    [][\A r \in Requests :
          ~At(r, "done") /\ req'[r].pc = "done" /\ req'[r].looked
              /\ req'[r].answer = "no" =>
              now - unable[req[r].user] < PermTTL]_sessionvars

\* A session whose time is over is deleted, though nobody logs in any more.
ExpiredGoesAway ==
    \A i \in Ids :
        (sessions[i] # NoSession /\ sessions[i].expires <= now)
            ~> sessions[i] = NoSession
=============================================================================

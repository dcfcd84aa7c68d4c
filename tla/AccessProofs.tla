---------------------------- MODULE AccessProofs ----------------------------
(***************************************************************************)
(* Proofs about who may do what: the sessions and permissions (Sessions),  *)
(* the settings forms (Csrf), the source pane (SourceView) and the         *)
(* instance that checks them together (MCAccess).  For any number of       *)
(* users, browsers, requests and sessions, who is let in is logged in,     *)
(* sessions last, and a permission or a refusal is no older than the cache *)
(* allows; for any number of tabs, restarts and tokens, a form is refused  *)
(* only for a changed key or a race of first pages; for any repositories,  *)
(* viewers, histories and lifetimes of the two caches, what is shown was   *)
(* the head within the lifetime of a text, and what is missed is missed    *)
(* for a reason within that of a listing.                                  *)
(***************************************************************************)
EXTENDS MCAccess, FoldLemmas

-----------------------------------------------------------------------------
(* Sessions *)

\* What a handler knows at the await it is suspended at.
Sound(r) ==
    /\ req[r].pc \in {"create", "owner", "project", "cached", "fetch", "cache"} =>
          req[r].user \in Users
    /\ req[r].pc = "session" => req[r].user = Nobody
    /\ req[r].pc = "session" /\ req[r].over => req[r].cookie \in ended
    /\ req[r].pc = "delete" => req[r].cookie # NoSession
    /\ req[r].looked => req[r].pc = "done"

\* A cookie names a session that was created.
Created(i) == i # NoSession => born[i] # Never

\* A row has its time, and is there until its time is over or it is deleted.
Row(i) ==
    /\ born[i] # Never => born[i] \in 0..now
    /\ sessions[i] # NoSession => /\ born[i] # Never
                                 /\ sessions[i].expires = born[i] + SessionTTL
    /\ i \in ended => sessions[i] = NoSession /\ born[i] # Never
    /\ born[i] # Never /\ i \notin ended /\ now < born[i] + SessionTTL =>
          sessions[i] # NoSession

\* What the cache says of a user was so less than its life ago, and what a
\* handler is about to cache is so at this tick.
Recent(u) ==
    /\ able[u] <= now /\ unable[u] <= now
    /\ access[u] => able[u] = now
    /\ ~access[u] => unable[u] = now
    /\ perms[u] # Nobody /\ perms[u].expires > now =>
          IF perms[u].may THEN perms[u].expires <= able[u] + PermTTL
          ELSE perms[u].expires <= unable[u] + PermTTL

Told(r) ==
    req[r].pc = "cache" =>
        IF req[r].may THEN able[req[r].user] = now ELSE unable[req[r].user] = now

SessionsInv ==
    /\ SessionsTypeOK
    /\ \A r \in Requests : Sound(r) /\ Created(req[r].cookie) /\ Told(r)
    /\ \A b \in Browsers : Created(browser[b].session)
    /\ \A i \in Ids : Row(i)
    /\ \A u \in Users : Recent(u)

-----------------------------------------------------------------------------
LEMMA Times ==
    /\ SessionTTL \in Nat \ {0} /\ PermTTL \in Nat \ {0}
    /\ Never \in Int /\ Never < 0 /\ Never + SessionTTL < 0 /\ Never + PermTTL < 0
BY SessionsAssumption DEF Never

LEMMA QuietIsRequest == Quiet \in Request
BY SessionsAssumption DEF Quiet, Request, AnyBrowser, Suspended, Kinds

\* A new session gets the least number that is free.
LEMMA LeastFresh ==
    Fresh # {} => \E i \in Fresh : \A j \in Fresh : i <= j
<1>1. Fresh \subseteq Nat
  BY SessionsAssumption DEF Fresh, Ids
<1> QED BY <1>1, LeastNumber

LEMMA Inserted ==
    ASSUME SessionsTypeOK, NEW u \in Users, InsertSession(u)
    PROVE  \E i \in Ids :
              /\ born[i] = Never
              /\ born' = [born EXCEPT ![i] = now]
              /\ sessions' = [sessions EXCEPT ![i] =
                    [user |-> u, seal |-> secret, expires |-> now + SessionTTL]]
BY LeastFresh DEF InsertSession, SessionEnd, Fresh

LEMMA InitSessions == SessionsInit => SessionsInv
<1> SUFFICES ASSUME SessionsInit PROVE SessionsInv
  OBVIOUS
<1> USE Times, QuietIsRequest, SessionsAssumption, RowsAssumption DEF SessionsInit
<1>1. SessionsTypeOK
  BY DEF SessionsTypeOK, Cookies
<1>2. \A r \in Requests : Sound(r) /\ Created(req[r].cookie) /\ Told(r)
  BY DEF Sound, Created, Told, Quiet
<1>3. \A b \in Browsers : Created(browser[b].session)
  BY DEF Created
<1>4. \A i \in Ids : Row(i)
  BY DEF Row
<1>5. \A u \in Users : Recent(u)
  BY DEF Recent
<1> QED BY <1>1, <1>2, <1>3, <1>4, <1>5 DEF SessionsInv

\* The handlers' updates, and that they keep to the type.
Handlers == req \in [Requests -> Request]
Becomes(r, x) == /\ Handlers'
                 /\ req'[r] = x
                 /\ \A q \in Requests \ {r} : req'[q] = req[q]

LEMMA Replaced ==
    ASSUME Handlers, NEW r \in Requests, NEW x \in Request,
           req' = [req EXCEPT ![r] = x]
    PROVE  Becomes(r, x)
BY DEF Handlers, Becomes

LEMMA Answered ==
    ASSUME Handlers, NEW r \in Requests, NEW a \in {"yes", "no", "login"}, Answer(r, a)
    PROVE  Becomes(r, [req[r] EXCEPT !.pc = "done", !.answer = a])
<1>1. req[r] \in Request
  BY DEF Handlers
<1>2. [req[r] EXCEPT !.pc = "done", !.answer = a] \in Request
  BY <1>1 DEF Request
<1>3. req' = [req EXCEPT ![r] = [req[r] EXCEPT !.pc = "done", !.answer = a]]
  BY DEF Answer, Handlers
<1> QED BY <1>2, <1>3, Replaced

LEMMA Gone ==
    ASSUME Handlers, NEW r \in Requests, NEW pc \in Suspended, Goto(r, pc)
    PROVE  Becomes(r, [req[r] EXCEPT !.pc = pc])
<1>1. req[r] \in Request
  BY DEF Handlers
<1>2. [req[r] EXCEPT !.pc = pc] \in Request
  BY <1>1 DEF Request
<1>3. req' = [req EXCEPT ![r] = [req[r] EXCEPT !.pc = pc]]
  BY DEF Goto, Handlers
<1> QED BY <1>2, <1>3, Replaced

LEMMA Decided ==
    ASSUME Handlers, NEW r \in Requests, NEW may \in BOOLEAN, Decide(r, may)
    PROVE  Becomes(r, [req[r] EXCEPT !.pc = "done", !.looked = TRUE,
                                     !.answer = IF may THEN "yes" ELSE "no"])
<1>1. req[r] \in Request
  BY DEF Handlers
<1> DEFINE a == IF may THEN "yes" ELSE "no"
<1>2. a \in {"none", "yes", "no", "login"}
  OBVIOUS
<1>3. req' = [req EXCEPT ![r] = [req[r] EXCEPT !.pc = "done", !.looked = TRUE,
                                              !.answer = a]]
  BY DEF Decide, Handlers
<1> HIDE DEF a
<1>4. [req[r] EXCEPT !.pc = "done", !.looked = TRUE, !.answer = a] \in Request
  BY <1>1, <1>2 DEF Request
<1>5. Becomes(r, [req[r] EXCEPT !.pc = "done", !.looked = TRUE, !.answer = a])
  BY <1>3, <1>4, Replaced
<1> QED BY <1>5 DEF a

\* Sessions are not created twice, nor come back.
Keeps == /\ \A i \in Ids : born[i] # Never => born'[i] = born[i]
         /\ ended \subseteq ended'
AllSound == \A q \in Requests : Sound(q) /\ Created(req[q].cookie)

\* The handlers a step leaves alone know what they knew.
LEMMA OthersSound ==
    ASSUME Handlers, AllSound, Keeps, NEW r \in Requests, NEW x, Becomes(r, x),
           Sound(r)', Created(req[r].cookie)'
    PROVE  Handlers' /\ AllSound'
<1>1. \A q \in Requests \ {r} : req'[q] = req[q] /\ req[q] \in Request
  BY DEF Becomes, Handlers
<1>2. \A q \in Requests \ {r} : Sound(q)'
  BY <1>1 DEF AllSound, Sound, Keeps
<1>3. \A q \in Requests \ {r} : Created(req[q].cookie)'
  BY <1>1 DEF AllSound, Created, Keeps, Request
<1> QED BY <1>2, <1>3 DEF AllSound, Becomes

LEMMA SameSound ==
    ASSUME Handlers, AllSound, Keeps, UNCHANGED req
    PROVE  Handlers' /\ AllSound'
<1>1. \A q \in Requests : req'[q] = req[q] /\ req[q] \in Request
  BY DEF Handlers
<1>2. \A q \in Requests : Sound(q)'
  BY <1>1 DEF AllSound, Sound, Keeps
<1>3. \A q \in Requests : Created(req[q].cookie)'
  BY <1>1 DEF AllSound, Created, Keeps, Request
<1> QED BY <1>2, <1>3 DEF AllSound, Handlers

\* An answered handler knows nothing more.
LEMMA AnswerSound ==
    ASSUME Handlers, AllSound, Keeps, NEW r \in Requests,
           NEW a \in {"yes", "no", "login"}, Answer(r, a)
    PROVE  Handlers' /\ AllSound'
<1>1. Becomes(r, [req[r] EXCEPT !.pc = "done", !.answer = a])
  BY Answered
<1>2. req[r] \in Request /\ Sound(r) /\ Created(req[r].cookie)
  BY DEF Handlers, AllSound
<1>3. req'[r].pc = "done" /\ req'[r].cookie = req[r].cookie
  BY <1>1, <1>2 DEF Becomes, Request
<1>4. Sound(r)' /\ Created(req[r].cookie)'
  BY <1>2, <1>3 DEF Sound, Created, Keeps, Request
<1> QED BY <1>1, <1>4, OthersSound

LEMMA DecideSound ==
    ASSUME Handlers, AllSound, Keeps, NEW r \in Requests,
           NEW may \in BOOLEAN, Decide(r, may)
    PROVE  Handlers' /\ AllSound'
<1>1. Becomes(r, [req[r] EXCEPT !.pc = "done", !.looked = TRUE,
                                !.answer = IF may THEN "yes" ELSE "no"])
  BY Decided
<1>2. req[r] \in Request /\ Created(req[r].cookie)
  BY DEF Handlers, AllSound
<1>3. req'[r].pc = "done" /\ req'[r].cookie = req[r].cookie
  BY <1>1, <1>2 DEF Becomes, Request
<1>4. Sound(r)' /\ Created(req[r].cookie)'
  BY <1>2, <1>3 DEF Sound, Created, Keeps, Request
<1> QED BY <1>1, <1>4, OthersSound

\* A handler that knows its user goes on to another await.
LEMMA GoSound ==
    ASSUME Handlers, AllSound, Keeps, NEW r \in Requests,
           NEW pc \in {"project", "cached", "fetch"}, req[r].user \in Users,
           ~req[r].looked, Goto(r, pc)
    PROVE  Handlers' /\ AllSound'
<1>1. Becomes(r, [req[r] EXCEPT !.pc = pc])
  BY Gone DEF Suspended
<1>2. req[r] \in Request /\ Created(req[r].cookie)
  BY DEF Handlers, AllSound
<1>3. /\ req'[r].pc = pc /\ req'[r].cookie = req[r].cookie
      /\ req'[r].user = req[r].user /\ ~req'[r].looked
  BY <1>1, <1>2 DEF Becomes, Request
<1>4. Sound(r)' /\ Created(req[r].cookie)'
  BY <1>2, <1>3 DEF Sound, Created, Keeps, Request
<1> QED BY <1>1, <1>4, OthersSound

LEMMA QuietSound ==
    ASSUME Handlers, AllSound, Keeps, NEW r \in Requests,
           req' = [req EXCEPT ![r] = Quiet]
    PROVE  Handlers' /\ AllSound'
<1>1. Becomes(r, Quiet)
  BY QuietIsRequest, Replaced
<1>2. Sound(r)' /\ Created(req[r].cookie)'
  BY <1>1 DEF Becomes, Sound, Created, Quiet
<1> QED BY <1>1, <1>2, OthersSound

\* What handlers know stays true.
LEMMA SoundStep ==
    SessionsInv /\ [SessionsNext]_sessionvars =>
        Handlers' /\ AllSound'
<1> SUFFICES ASSUME SessionsInv, [SessionsNext]_sessionvars
             PROVE  Handlers' /\ AllSound'
  OBVIOUS
<1>0. Handlers /\ AllSound
  BY DEF SessionsInv, SessionsTypeOK, Handlers, AllSound
<1> USE <1>0 DEF SessionsInv, SessionsTypeOK
<1>1. ASSUME NEW b \in Browsers, Login(b), UNCHANGED now
      PROVE  Handlers' /\ AllSound'
  <2>1. Keeps
    BY <1>1 DEF Login, Keeps
  <2> QED BY <1>1, <2>1, SameSound DEF Login
<1>2. ASSUME NEW r \in Requests, NEW b \in Browsers, NEW kind \in Kinds,
             Send(r, b, kind), UNCHANGED now
      PROVE  Handlers' /\ AllSound'
  <2>1. Keeps
    BY <1>2 DEF Send, Keeps
  <2> DEFINE i == browser[b].session
             over == i \in ended
             pc == First[kind]
             x == [Quiet EXCEPT !.pc = pc, !.kind = kind, !.browser = b,
                                !.cookie = i, !.over = over]
  <2>2. i \in Ids \union {NoSession} /\ Created(i)
    BY DEF Cookies
  <2>3. over \in BOOLEAN /\ (over => i \in ended)
    OBVIOUS
  <2>4. /\ pc \in {"exchange", "delete", "session"}
        /\ pc = "delete" => i # NoSession
    BY <1>2 DEF Send, First, Kinds
  <2>5. req' = [req EXCEPT ![r] = x]
    BY <1>2 DEF Send
  <2> HIDE DEF i, over, pc
  <2>6. x \in Request
    BY <2>2, <2>3, <2>4, QuietIsRequest DEF Request, Suspended
  <2>7. x.pc = pc /\ x.cookie = i /\ x.over = over /\ x.user = Nobody /\ ~x.looked
    BY DEF Quiet
  <2> HIDE DEF x
  <2>8. Becomes(r, x)
    BY <2>5, <2>6, Replaced
  <2>9. Sound(r)' /\ Created(req[r].cookie)'
    BY <2>1, <2>2, <2>3, <2>4, <2>7, <2>8 DEF Becomes, Sound, Created, Keeps
  <2> QED BY <2>1, <2>8, <2>9, OthersSound
<1>3. ASSUME NEW r \in Requests, Exchange(r), UNCHANGED now
      PROVE  Handlers' /\ AllSound'
  <2>1. Keeps
    BY <1>3 DEF Exchange, Keeps
  <2>2. CASE Answer(r, "no")
    BY <2>1, <2>2, AnswerSound
  <2>3. ASSUME NEW u \in Users, req' = [req EXCEPT ![r].pc = "create", ![r].user = u]
        PROVE  Handlers' /\ AllSound'
    <3>1. req[r] \in Request /\ req[r].pc = "exchange" /\ Sound(r) /\ Created(req[r].cookie)
      BY <1>3 DEF Exchange, At, Handlers, AllSound
    <3>2. [req[r] EXCEPT !.pc = "create", !.user = u] \in Request
      BY <3>1 DEF Request, Suspended
    <3>3. Becomes(r, [req[r] EXCEPT !.pc = "create", !.user = u])
      <4>1. req' = [req EXCEPT ![r] = [req[r] EXCEPT !.pc = "create", !.user = u]]
        BY <2>3 DEF Handlers
      <4> QED BY <3>2, <4>1, Replaced
    <3>4. /\ req'[r].pc = "create" /\ req'[r].user = u
          /\ req'[r].cookie = req[r].cookie /\ req'[r].looked = req[r].looked
      BY <3>1, <3>3 DEF Becomes, Request
    <3>5. Sound(r)' /\ Created(req[r].cookie)'
      BY <2>1, <3>1, <3>4 DEF Sound, Created, Keeps, Request
    <3> QED BY <2>1, <3>3, <3>5, OthersSound
  <2> QED BY <1>3, <2>2, <2>3 DEF Exchange
<1>4. ASSUME NEW r \in Requests, Create(r), UNCHANGED now
      PROVE  Handlers' /\ AllSound'
  <2>1. req[r] \in Request /\ Sound(r) /\ Created(req[r].cookie) /\ req[r].pc = "create"
    BY <1>4 DEF Create, At, Handlers, AllSound
  <2>2. CASE Answer(r, "no") /\ UNCHANGED <<sessions, born>>
    <3>1. Keeps
      BY <1>4, <2>2 DEF Create, Keeps
    <3> QED BY <2>2, <3>1, AnswerSound
  <2>3. CASE /\ InsertSession(req[r].user)
             /\ req' = [req EXCEPT ![r].pc = "prune",
                          ![r].cookie = CHOOSE i \in Ids : born'[i] # born[i]]
    <3>1. req[r].user \in Users
      BY <2>1 DEF Sound
    <3>2. PICK i \in Ids : born[i] = Never /\ born' = [born EXCEPT ![i] = now]
      BY <2>3, <3>1, Inserted
    <3>3. Keeps
      BY <1>4, <3>2 DEF Create, Keeps
    <3>4. born'[i] # born[i] /\ \A j \in Ids : born'[j] # born[j] => j = i
      BY <3>2, Times
    <3> DEFINE chosen == CHOOSE j \in Ids : born'[j] # born[j]
    <3>5. chosen = i
      BY <3>4
    <3>6. req' = [req EXCEPT ![r] = [req[r] EXCEPT !.pc = "prune", !.cookie = i]]
      <4>1. req' = [req EXCEPT ![r].pc = "prune", ![r].cookie = chosen]
        BY <2>3
      <4> HIDE DEF chosen
      <4> QED BY <3>5, <4>1 DEF Handlers
    <3>7. [req[r] EXCEPT !.pc = "prune", !.cookie = i] \in Request
      BY <2>1 DEF Request, Suspended
    <3>8. Becomes(r, [req[r] EXCEPT !.pc = "prune", !.cookie = i])
      BY <3>6, <3>7, Replaced
    <3>9. /\ req'[r].pc = "prune" /\ req'[r].cookie = i
          /\ req'[r].looked = req[r].looked
      BY <2>1, <3>8 DEF Becomes, Request
    <3>10. Sound(r)' /\ Created(req[r].cookie)'
      BY <2>1, <3>2, <3>4, <3>9 DEF Sound, Created, Request
    <3> QED BY <3>3, <3>8, <3>10, OthersSound
  <2> QED BY <1>4, <2>2, <2>3 DEF Create
<1>5. ASSUME NEW r \in Requests, Prune(r), UNCHANGED now
      PROVE  Handlers' /\ AllSound'
  <2>1. Keeps
    BY <1>5 DEF Prune, Keeps
  <2> QED BY <1>5, <2>1, AnswerSound DEF Prune
<1>6. ASSUME NEW r \in Requests, Delete(r), UNCHANGED now
      PROVE  Handlers' /\ AllSound'
  <2>1. Keeps
    BY <1>6 DEF Delete, Keeps
  <2> QED BY <1>6, <2>1, AnswerSound DEF Delete
<1>7. ASSUME NEW r \in Requests, ExtractUser(r), UNCHANGED now
      PROVE  Handlers' /\ AllSound'
  <2>1. Keeps
    BY <1>7 DEF ExtractUser, Keeps
  <2>2. CASE Answer(r, "login")
    BY <2>1, <2>2, AnswerSound
  <2> DEFINE user == UserOf(req[r].cookie)
             in == req[r].kind = "view" \/ user \in Admins
             pc == IF in THEN "done" ELSE IF Admins = {} THEN "owner" ELSE "project"
             answer == IF in THEN "yes" ELSE "none"
  <2>3. CASE /\ user # Nobody
             /\ req' = [req EXCEPT ![r].user = user, ![r].pc = pc,
                                   ![r].answer = answer]
    <3>1. /\ req[r] \in Request /\ Sound(r) /\ Created(req[r].cookie)
          /\ req[r].pc = "session"
      BY <1>7 DEF ExtractUser, At, Handlers, AllSound
    <3>2. user \in Users
      BY <2>3, <3>1 DEF UserOf, Live, Session, Request
    <3>3. pc \in {"done", "owner", "project"} /\ answer \in {"yes", "none"}
      OBVIOUS
    <3>4. req' = [req EXCEPT ![r] = [req[r] EXCEPT !.user = user, !.pc = pc,
                                                   !.answer = answer]]
      BY <2>3 DEF Handlers
    <3> HIDE DEF user, pc, answer
    <3>5. [req[r] EXCEPT !.user = user, !.pc = pc, !.answer = answer] \in Request
      BY <3>1, <3>2, <3>3 DEF Request, Suspended
    <3>6. Becomes(r, [req[r] EXCEPT !.user = user, !.pc = pc, !.answer = answer])
      BY <3>4, <3>5, Replaced
    <3>7. /\ req'[r].pc = pc /\ req'[r].user = user
          /\ req'[r].cookie = req[r].cookie /\ req'[r].looked = req[r].looked
      BY <3>1, <3>6 DEF Becomes, Request
    <3>8. Sound(r)' /\ Created(req[r].cookie)'
      BY <2>1, <3>1, <3>2, <3>3, <3>7 DEF Sound, Created, Keeps, Request
    <3> QED BY <2>1, <3>6, <3>8, OthersSound
  <2> QED BY <1>7, <2>2, <2>3 DEF ExtractUser
<1>8. ASSUME NEW r \in Requests, CheckOrgOwner(r), UNCHANGED now
      PROVE  Handlers' /\ AllSound'
  <2>1. Keeps
    BY <1>8 DEF CheckOrgOwner, Keeps
  <2>2. req[r].user \in Users /\ ~req[r].looked
    BY <1>8 DEF CheckOrgOwner, At, AllSound, Sound
  <2> QED BY <1>8, <2>1, <2>2, AnswerSound, GoSound DEF CheckOrgOwner
<1>9. ASSUME NEW r \in Requests, ReadProject(r), UNCHANGED now
      PROVE  Handlers' /\ AllSound'
  <2>1. Keeps
    BY <1>9 DEF ReadProject, Keeps
  <2>2. req[r].user \in Users /\ ~req[r].looked
    BY <1>9 DEF ReadProject, At, AllSound, Sound
  <2> QED BY <1>9, <2>1, <2>2, AnswerSound, GoSound DEF ReadProject
<1>10. ASSUME NEW r \in Requests, ReadPermission(r), UNCHANGED now
       PROVE  Handlers' /\ AllSound'
  <2>1. Keeps
    BY <1>10 DEF ReadPermission, Keeps
  <2>2. req[r].user \in Users /\ ~req[r].looked
    BY <1>10 DEF ReadPermission, At, AllSound, Sound
  <2>3. CASE Goto(r, "fetch")
    BY <2>1, <2>2, <2>3, GoSound
  <2>4. CASE /\ CacheOf(req[r].user) # Nobody
             /\ Decide(r, CacheOf(req[r].user).may)
    <3>1. CacheOf(req[r].user).may \in BOOLEAN
      BY <2>2, <2>4 DEF CacheOf, Cached
    <3> QED BY <2>1, <2>4, <3>1, DecideSound
  <2> QED BY <1>10, <2>3, <2>4 DEF ReadPermission
<1>11. ASSUME NEW r \in Requests, FetchPermission(r), UNCHANGED now
       PROVE  Handlers' /\ AllSound'
  <2>1. Keeps
    BY <1>11 DEF FetchPermission, Keeps
  <2>2. /\ req[r] \in Request /\ Created(req[r].cookie)
        /\ req[r].user \in Users /\ ~req[r].looked
    BY <1>11 DEF FetchPermission, At, Handlers, AllSound, Sound
  <2>3. PICK may \in BOOLEAN : req' = [req EXCEPT ![r].pc = "cache", ![r].may = may]
    BY <1>11, <2>2 DEF FetchPermission
  <2>4. [req[r] EXCEPT !.pc = "cache", !.may = may] \in Request
    BY <2>2 DEF Request, Suspended
  <2>5. Becomes(r, [req[r] EXCEPT !.pc = "cache", !.may = may])
    <3>1. req' = [req EXCEPT ![r] = [req[r] EXCEPT !.pc = "cache", !.may = may]]
      BY <2>3 DEF Handlers
    <3> QED BY <2>4, <3>1, Replaced
  <2>6. /\ req'[r].pc = "cache" /\ req'[r].user = req[r].user
        /\ req'[r].cookie = req[r].cookie /\ ~req'[r].looked
    BY <2>2, <2>5 DEF Becomes, Request
  <2>7. Sound(r)' /\ Created(req[r].cookie)'
    BY <2>1, <2>2, <2>6 DEF Sound, Created, Keeps, Request
  <2> QED BY <2>1, <2>5, <2>7, OthersSound
<1>12. ASSUME NEW r \in Requests, StorePermission(r), UNCHANGED now
       PROVE  Handlers' /\ AllSound'
  <2>1. Keeps
    BY <1>12 DEF StorePermission, Keeps
  <2>2. req[r].may \in BOOLEAN
    BY DEF Handlers, Request
  <2> QED BY <1>12, <2>1, <2>2, DecideSound DEF StorePermission
<1>13. ASSUME NEW r \in Requests, Arrive(r), UNCHANGED now
       PROVE  Handlers' /\ AllSound'
  <2>1. Keeps
    BY <1>13 DEF Arrive, Keeps
  <2> QED BY <1>13, <2>1, QuietSound DEF Arrive
<1>14. ASSUME StartSweep, UNCHANGED now PROVE Handlers' /\ AllSound'
  <2>1. Keeps
    BY <1>14 DEF StartSweep, Keeps
  <2> QED BY <1>14, <2>1, SameSound DEF StartSweep
<1>15. ASSUME SweepPermissions, UNCHANGED now PROVE Handlers' /\ AllSound'
  <2>1. Keeps
    BY <1>15 DEF SweepPermissions, Keeps
  <2> QED BY <1>15, <2>1, SameSound DEF SweepPermissions
<1>16. ASSUME NEW good \in BOOLEAN, SweepSessions(good), UNCHANGED now
       PROVE  Handlers' /\ AllSound'
  <2>1. Keeps
    BY <1>16 DEF SweepSessions, Keeps
  <2> QED BY <1>16, <2>1, SameSound DEF SweepSessions
<1>17. ASSUME NEW u \in Users, ChangeAccess(u), UNCHANGED now
       PROVE  Handlers' /\ AllSound'
  <2>1. Keeps
    BY <1>17 DEF ChangeAccess, Keeps
  <2> QED BY <1>17, <2>1, SameSound DEF ChangeAccess
<1>18. ASSUME NEW k \in Secrets \union {NoSecret}, Restart(k), UNCHANGED now
       PROVE  Handlers' /\ AllSound'
  <2>1. \A q \in Requests : req'[q] = Quiet
    BY <1>18 DEF Restart
  <2>2. Handlers'
    BY <1>18, QuietIsRequest DEF Restart, Handlers
  <2> QED BY <2>1, <2>2 DEF AllSound, Sound, Created, Quiet
<1>19. CASE SessionTick
  <2>1. Keeps
    BY <1>19 DEF SessionTick, Keeps
  <2> QED BY <1>19, <2>1, SameSound DEF SessionTick
<1>20. CASE UNCHANGED sessionvars
  <2>1. Keeps
    BY <1>20 DEF sessionvars, svars, Keeps
  <2> QED BY <1>20, <2>1, SameSound DEF sessionvars, svars
<1> QED BY <1>1, <1>2, <1>3, <1>4, <1>5, <1>6, <1>7, <1>8, <1>9, <1>10, <1>11,
       <1>12, <1>13, <1>14, <1>15, <1>16, <1>17, <1>18, <1>19, <1>20
     DEF SessionsNext, SessionsStep, Handle, sessionvars

\* The cookies after an answer: those there were, or the answer's own.
LEMMA ArriveCookies ==
    ASSUME SessionsInv, NEW r \in Requests, Arrive(r)
    PROVE  /\ browser' \in [Browsers -> Cookies]
           /\ \A c \in Browsers : browser'[c].session \in
                {browser[c].session, NoSession, req[r].cookie}
           /\ Created(req[r].cookie)
<1> USE DEF SessionsInv, SessionsTypeOK
<1>1. req[r] \in Request /\ Created(req[r].cookie)
  OBVIOUS
<1>2. req[r].cookie \in Ids \union {NoSession}
  BY <1>1 DEF Request
<1> HIDE DEF SessionsInv
<1>3. CASE UNCHANGED browser
  BY <1>1, <1>3 DEF SessionsInv, Cookies
<1>4. CASE browser' = [browser EXCEPT ![req[r].browser] =
                          [login |-> FALSE, session |-> req[r].cookie]]
  BY <1>1, <1>2, <1>4 DEF SessionsInv, Cookies
<1>5. CASE browser' = [browser EXCEPT ![req[r].browser].session = NoSession]
  BY <1>1, <1>5 DEF SessionsInv, Cookies
<1> QED BY <1>3, <1>4, <1>5 DEF Arrive

LEMMA RecentLater ==
    ASSUME SessionsTypeOK, NEW v \in Users, Recent(v), UNCHANGED <<now, perms>>,
           able'[v] \in {able[v], now}, unable'[v] \in {unable[v], now},
           access'[v] => able'[v] = now, ~access'[v] => unable'[v] = now
    PROVE  Recent(v)'
<1>1. now \in Nat /\ able[v] \in Int /\ unable[v] \in Int
      /\ (perms[v] # Nobody => perms[v].expires \in Nat)
  BY DEF SessionsTypeOK, Cached
<1>2. able[v] <= able'[v] /\ unable[v] <= unable'[v] /\ able'[v] <= now /\ unable'[v] <= now
  BY <1>1 DEF Recent
<1>3. able'[v] \in Int /\ unable'[v] \in Int
  BY <1>1
<1> QED BY <1>1, <1>2, <1>3, Times DEF Recent

\* Every step keeps to the types.
LEMMA TypeStep == SessionsInv /\ [SessionsNext]_sessionvars => SessionsTypeOK'
<1> SUFFICES ASSUME SessionsInv, [SessionsNext]_sessionvars
             PROVE  SessionsTypeOK'
  OBVIOUS
<1>0. req' \in [Requests -> Request]
  BY SoundStep DEF Handlers
<1> USE <1>0 DEF SessionsInv, SessionsTypeOK
<1>1. ASSUME NEW b \in Browsers, Login(b), UNCHANGED now PROVE SessionsTypeOK'
  BY <1>1 DEF Login, Cookies
<1>2. ASSUME NEW r \in Requests, NEW b \in Browsers, NEW kind \in Kinds,
             Send(r, b, kind), UNCHANGED now
      PROVE  SessionsTypeOK'
  BY <1>2 DEF Send
<1>3. ASSUME NEW r \in Requests, Exchange(r), UNCHANGED now
      PROVE  SessionsTypeOK'
  BY <1>3 DEF Exchange
<1>4. ASSUME NEW r \in Requests, Create(r), UNCHANGED now PROVE SessionsTypeOK'
  <2>1. req[r].user \in Users
    BY <1>4 DEF Create, At, Sound
  <2>2. sessions' \in [Ids -> Session \union {NoSession}] /\ born' \in [Ids -> Int]
    BY <1>4, <2>1, Inserted, Times DEF Create, Session
  <2> QED BY <1>4, <2>2 DEF Create
<1>5. ASSUME NEW r \in Requests, Prune(r), UNCHANGED now PROVE SessionsTypeOK'
  BY <1>5 DEF Prune, PruneSessions
<1>6. ASSUME NEW r \in Requests, Delete(r), UNCHANGED now PROVE SessionsTypeOK'
  <2>1. req[r].cookie \in Ids
    BY <1>6 DEF Delete, At, Sound, Request
  <2> QED BY <1>6, <2>1 DEF Delete
<1>7. ASSUME NEW r \in Requests, ExtractUser(r), UNCHANGED now
      PROVE  SessionsTypeOK'
  BY <1>7 DEF ExtractUser
<1>8. ASSUME NEW r \in Requests, CheckOrgOwner(r), UNCHANGED now
      PROVE  SessionsTypeOK'
  BY <1>8 DEF CheckOrgOwner
<1>9. ASSUME NEW r \in Requests, ReadProject(r), UNCHANGED now
      PROVE  SessionsTypeOK'
  BY <1>9 DEF ReadProject
<1>10. ASSUME NEW r \in Requests, ReadPermission(r), UNCHANGED now
       PROVE  SessionsTypeOK'
  BY <1>10 DEF ReadPermission
<1>11. ASSUME NEW r \in Requests, FetchPermission(r), UNCHANGED now
       PROVE  SessionsTypeOK'
  <2>1. req[r].user \in Users
    BY <1>11 DEF FetchPermission, At, Sound
  <2> QED BY <1>11, <2>1 DEF FetchPermission
<1>12. ASSUME NEW r \in Requests, StorePermission(r), UNCHANGED now
       PROVE  SessionsTypeOK'
  <2>1. req[r].user \in Users /\ req[r].may \in BOOLEAN
    BY <1>12 DEF StorePermission, At, Sound, Request
  <2>2. perms' \in [Users -> Cached \union {Nobody}]
    BY <1>12, <2>1, Times DEF StorePermission, CachePermission, Cached
  <2> QED BY <1>12, <2>2 DEF StorePermission
<1>13. ASSUME NEW r \in Requests, Arrive(r), UNCHANGED now PROVE SessionsTypeOK'
  <2>1. browser' \in [Browsers -> Cookies]
    BY <1>13, ArriveCookies DEF Cookies
  <2> QED BY <1>13, <2>1 DEF Arrive
<1>14. ASSUME StartSweep, UNCHANGED now PROVE SessionsTypeOK'
  BY <1>14 DEF StartSweep
<1>15. ASSUME SweepPermissions, UNCHANGED now PROVE SessionsTypeOK'
  BY <1>15 DEF SweepPermissions, PrunePermissions
<1>16. ASSUME NEW good \in BOOLEAN, SweepSessions(good), UNCHANGED now
       PROVE  SessionsTypeOK'
  BY <1>16 DEF SweepSessions, PruneSessions
<1>17. ASSUME NEW u \in Users, ChangeAccess(u), UNCHANGED now
       PROVE  SessionsTypeOK'
  BY <1>17 DEF ChangeAccess
<1>18. ASSUME NEW k \in Secrets \union {NoSecret}, Restart(k), UNCHANGED now
       PROVE  SessionsTypeOK'
  BY <1>18 DEF Restart
<1>19. CASE SessionTick
  BY <1>19, Times DEF SessionTick, Passes, Aged
<1>20. CASE UNCHANGED sessionvars
  BY <1>20 DEF sessionvars, svars
<1> QED BY <1>1, <1>2, <1>3, <1>4, <1>5, <1>6, <1>7, <1>8, <1>9, <1>10, <1>11,
       <1>12, <1>13, <1>14, <1>15, <1>16, <1>17, <1>18, <1>19, <1>20
     DEF SessionsNext, SessionsStep, Handle, sessionvars

\* A browser's cookie names a session that was created.
LEMMA CookieStep ==
    SessionsInv /\ [SessionsNext]_sessionvars =>
        \A c \in Browsers : Created(browser[c].session)'
<1> SUFFICES ASSUME SessionsInv, [SessionsNext]_sessionvars
             PROVE  \A c \in Browsers : Created(browser[c].session)'
  OBVIOUS
<1> USE DEF SessionsInv, SessionsTypeOK
<1>1. ASSUME NEW b \in Browsers, Login(b), UNCHANGED now
      PROVE  \A c \in Browsers : Created(browser[c].session)'
  BY <1>1 DEF Login, Cookies, Created
<1>2. ASSUME NEW r \in Requests, NEW b \in Browsers, NEW kind \in Kinds,
             Send(r, b, kind), UNCHANGED now
      PROVE  \A c \in Browsers : Created(browser[c].session)'
  BY <1>2 DEF Send, Cookies, Created
<1>3. ASSUME NEW r \in Requests, Exchange(r), UNCHANGED now
      PROVE  \A c \in Browsers : Created(browser[c].session)'
  BY <1>3 DEF Exchange, Cookies, Created
<1>4. ASSUME NEW r \in Requests, Create(r), UNCHANGED now
      PROVE  \A c \in Browsers : Created(browser[c].session)'
  <2>1. req[r].user \in Users
    BY <1>4 DEF Create, At, Sound
  <2>2. \A i \in Ids : born[i] # Never => born'[i] = born[i]
    BY <1>4, <2>1, Inserted DEF Create
  <2> QED BY <1>4, <2>2 DEF Create, Cookies, Created
<1>5. ASSUME NEW r \in Requests, Prune(r), UNCHANGED now
      PROVE  \A c \in Browsers : Created(browser[c].session)'
  BY <1>5 DEF Prune, Cookies, Created
<1>6. ASSUME NEW r \in Requests, Delete(r), UNCHANGED now
      PROVE  \A c \in Browsers : Created(browser[c].session)'
  BY <1>6 DEF Delete, Cookies, Created
<1>7. ASSUME NEW r \in Requests, ExtractUser(r), UNCHANGED now
      PROVE  \A c \in Browsers : Created(browser[c].session)'
  BY <1>7 DEF ExtractUser, Cookies, Created
<1>8. ASSUME NEW r \in Requests, CheckOrgOwner(r), UNCHANGED now
      PROVE  \A c \in Browsers : Created(browser[c].session)'
  BY <1>8 DEF CheckOrgOwner, Cookies, Created
<1>9. ASSUME NEW r \in Requests, ReadProject(r), UNCHANGED now
      PROVE  \A c \in Browsers : Created(browser[c].session)'
  BY <1>9 DEF ReadProject, Cookies, Created
<1>10. ASSUME NEW r \in Requests, ReadPermission(r), UNCHANGED now
       PROVE  \A c \in Browsers : Created(browser[c].session)'
  BY <1>10 DEF ReadPermission, Cookies, Created
<1>11. ASSUME NEW r \in Requests, FetchPermission(r), UNCHANGED now
       PROVE  \A c \in Browsers : Created(browser[c].session)'
  BY <1>11 DEF FetchPermission, Cookies, Created
<1>12. ASSUME NEW r \in Requests, StorePermission(r), UNCHANGED now
       PROVE  \A c \in Browsers : Created(browser[c].session)'
  BY <1>12 DEF StorePermission, Cookies, Created
<1>13. ASSUME NEW r \in Requests, Arrive(r), UNCHANGED now
       PROVE  \A c \in Browsers : Created(browser[c].session)'
  <2>1. born' = born
    BY <1>13 DEF Arrive
  <2> QED BY <1>13, <2>1, ArriveCookies DEF Created
<1>14. ASSUME StartSweep, UNCHANGED now
       PROVE  \A c \in Browsers : Created(browser[c].session)'
  BY <1>14 DEF StartSweep, Cookies, Created
<1>15. ASSUME SweepPermissions, UNCHANGED now
       PROVE  \A c \in Browsers : Created(browser[c].session)'
  BY <1>15 DEF SweepPermissions, Cookies, Created
<1>16. ASSUME NEW good \in BOOLEAN, SweepSessions(good), UNCHANGED now
       PROVE  \A c \in Browsers : Created(browser[c].session)'
  BY <1>16 DEF SweepSessions, Cookies, Created
<1>17. ASSUME NEW u \in Users, ChangeAccess(u), UNCHANGED now
       PROVE  \A c \in Browsers : Created(browser[c].session)'
  BY <1>17 DEF ChangeAccess, Cookies, Created
<1>18. ASSUME NEW k \in Secrets \union {NoSecret}, Restart(k), UNCHANGED now
       PROVE  \A c \in Browsers : Created(browser[c].session)'
  BY <1>18 DEF Restart, Cookies, Created
<1>19. CASE SessionTick
  BY <1>19 DEF SessionTick, Cookies, Created
<1>20. CASE UNCHANGED sessionvars
  BY <1>20 DEF sessionvars, svars, Created
<1> QED BY <1>1, <1>2, <1>3, <1>4, <1>5, <1>6, <1>7, <1>8, <1>9, <1>10, <1>11,
       <1>12, <1>13, <1>14, <1>15, <1>16, <1>17, <1>18, <1>19, <1>20
     DEF SessionsNext, SessionsStep, Handle, sessionvars

\* A session is there for its time.
LEMMA RowStep ==
    SessionsInv /\ [SessionsNext]_sessionvars =>
        \A j \in Ids : Row(j)'
<1> SUFFICES ASSUME SessionsInv, [SessionsNext]_sessionvars
             PROVE  \A j \in Ids : Row(j)'
  OBVIOUS
<1> USE DEF SessionsInv, SessionsTypeOK
<1>1. ASSUME NEW b \in Browsers, Login(b), UNCHANGED now
      PROVE  \A j \in Ids : Row(j)'
  <2>1. UNCHANGED <<now, sessions, born, ended>>
    BY <1>1 DEF Login
  <2> QED BY <2>1 DEF Row
<1>2. ASSUME NEW r \in Requests, NEW b \in Browsers, NEW kind \in Kinds,
             Send(r, b, kind), UNCHANGED now
      PROVE  \A j \in Ids : Row(j)'
  <2>1. UNCHANGED <<now, sessions, born, ended>>
    BY <1>2 DEF Send
  <2> QED BY <2>1 DEF Row
<1>3. ASSUME NEW r \in Requests, Exchange(r), UNCHANGED now
      PROVE  \A j \in Ids : Row(j)'
  <2>1. UNCHANGED <<now, sessions, born, ended>>
    BY <1>3 DEF Exchange
  <2> QED BY <2>1 DEF Row
<1>4. ASSUME NEW r \in Requests, Create(r), UNCHANGED now
      PROVE  \A j \in Ids : Row(j)'
  <2>1. CASE UNCHANGED <<sessions, born>>
    BY <1>4, <2>1 DEF Create, Row
  <2>2. CASE InsertSession(req[r].user)
    <3>1. req[r].user \in Users
      BY <1>4 DEF Create, At, Sound
    <3>2. PICK i \in Ids :
             /\ born[i] = Never
             /\ born' = [born EXCEPT ![i] = now]
             /\ sessions' = [sessions EXCEPT ![i] = [user |-> req[r].user,
                               seal |-> secret, expires |-> now + SessionTTL]]
      BY <2>2, <3>1, Inserted
    <3>3. i \notin ended
      BY <3>2 DEF Row
    <3>4. \A j \in Ids \ {i} : Row(j)'
      BY <1>4, <3>2 DEF Create, Row
    <3>5. [user |-> req[r].user, seal |-> secret, expires |-> now + SessionTTL] # NoSession
      BY <3>1, Times, RowsAssumption DEF Session
    <3>6. Row(i)'
      BY <1>4, <3>2, <3>3, <3>5, Times DEF Create, Row
    <3> QED BY <3>4, <3>6
  <2> QED BY <1>4, <2>1, <2>2 DEF Create
<1>5. ASSUME NEW r \in Requests, Prune(r), UNCHANGED now
      PROVE  \A j \in Ids : Row(j)'
  BY <1>5 DEF Prune, PruneSessions, Expired, Row, Session
<1>6. ASSUME NEW r \in Requests, Delete(r), UNCHANGED now
      PROVE  \A j \in Ids : Row(j)'
  <2>1. req[r].cookie \in Ids /\ born[req[r].cookie] # Never
    BY <1>6 DEF Delete, At, Sound, Created, Request
  <2> QED BY <1>6, <2>1 DEF Delete, Row
<1>7. ASSUME NEW r \in Requests, ExtractUser(r), UNCHANGED now
      PROVE  \A j \in Ids : Row(j)'
  <2>1. UNCHANGED <<now, sessions, born, ended>>
    BY <1>7 DEF ExtractUser
  <2> QED BY <2>1 DEF Row
<1>8. ASSUME NEW r \in Requests, CheckOrgOwner(r), UNCHANGED now
      PROVE  \A j \in Ids : Row(j)'
  <2>1. UNCHANGED <<now, sessions, born, ended>>
    BY <1>8 DEF CheckOrgOwner
  <2> QED BY <2>1 DEF Row
<1>9. ASSUME NEW r \in Requests, ReadProject(r), UNCHANGED now
      PROVE  \A j \in Ids : Row(j)'
  <2>1. UNCHANGED <<now, sessions, born, ended>>
    BY <1>9 DEF ReadProject
  <2> QED BY <2>1 DEF Row
<1>10. ASSUME NEW r \in Requests, ReadPermission(r), UNCHANGED now
       PROVE  \A j \in Ids : Row(j)'
  <2>1. UNCHANGED <<now, sessions, born, ended>>
    BY <1>10 DEF ReadPermission
  <2> QED BY <2>1 DEF Row
<1>11. ASSUME NEW r \in Requests, FetchPermission(r), UNCHANGED now
       PROVE  \A j \in Ids : Row(j)'
  <2>1. UNCHANGED <<now, sessions, born, ended>>
    BY <1>11 DEF FetchPermission
  <2> QED BY <2>1 DEF Row
<1>12. ASSUME NEW r \in Requests, StorePermission(r), UNCHANGED now
       PROVE  \A j \in Ids : Row(j)'
  <2>1. UNCHANGED <<now, sessions, born, ended>>
    BY <1>12 DEF StorePermission
  <2> QED BY <2>1 DEF Row
<1>13. ASSUME NEW r \in Requests, Arrive(r), UNCHANGED now
       PROVE  \A j \in Ids : Row(j)'
  <2>1. UNCHANGED <<now, sessions, born, ended>>
    BY <1>13 DEF Arrive
  <2> QED BY <2>1 DEF Row
<1>14. ASSUME StartSweep, UNCHANGED now PROVE \A j \in Ids : Row(j)'
  <2>1. UNCHANGED <<now, sessions, born, ended>>
    BY <1>14 DEF StartSweep
  <2> QED BY <2>1 DEF Row
<1>15. ASSUME SweepPermissions, UNCHANGED now PROVE \A j \in Ids : Row(j)'
  <2>1. UNCHANGED <<now, sessions, born, ended>>
    BY <1>15 DEF SweepPermissions
  <2> QED BY <2>1 DEF Row
<1>16. ASSUME NEW good \in BOOLEAN, SweepSessions(good), UNCHANGED now
       PROVE  \A j \in Ids : Row(j)'
  BY <1>16 DEF SweepSessions, PruneSessions, Expired, Row, Session
<1>17. ASSUME NEW u \in Users, ChangeAccess(u), UNCHANGED now
       PROVE  \A j \in Ids : Row(j)'
  <2>1. UNCHANGED <<now, sessions, born, ended>>
    BY <1>17 DEF ChangeAccess
  <2> QED BY <2>1 DEF Row
<1>18. ASSUME NEW k \in Secrets \union {NoSecret}, Restart(k), UNCHANGED now
       PROVE  \A j \in Ids : Row(j)'
  <2>1. UNCHANGED <<now, sessions, born, ended>>
    BY <1>18 DEF Restart
  <2> QED BY <2>1 DEF Row
<1>19. CASE SessionTick
  BY <1>19, Times DEF SessionTick, Passes, Row
<1>20. CASE UNCHANGED sessionvars
  <2>1. UNCHANGED <<now, sessions, born, ended>>
    BY <1>20 DEF sessionvars, svars
  <2> QED BY <2>1 DEF Row
<1> QED BY <1>1, <1>2, <1>3, <1>4, <1>5, <1>6, <1>7, <1>8, <1>9, <1>10, <1>11,
       <1>12, <1>13, <1>14, <1>15, <1>16, <1>17, <1>18, <1>19, <1>20
     DEF SessionsNext, SessionsStep, Handle, sessionvars

\* What the cache says was so less than its life ago.
LEMMA RecentStep ==
    SessionsInv /\ [SessionsNext]_sessionvars =>
        \A v \in Users : Recent(v)'
<1> SUFFICES ASSUME SessionsInv, [SessionsNext]_sessionvars
             PROVE  \A v \in Users : Recent(v)'
  OBVIOUS
<1> USE DEF SessionsInv, SessionsTypeOK
<1>1. ASSUME NEW b \in Browsers, Login(b), UNCHANGED now
      PROVE  \A v \in Users : Recent(v)'
  <2>1. UNCHANGED <<now, perms, access, able, unable>>
    BY <1>1 DEF Login
  <2> QED BY <2>1 DEF Recent
<1>2. ASSUME NEW r \in Requests, NEW b \in Browsers, NEW kind \in Kinds,
             Send(r, b, kind), UNCHANGED now
      PROVE  \A v \in Users : Recent(v)'
  <2>1. UNCHANGED <<now, perms, access, able, unable>>
    BY <1>2 DEF Send
  <2> QED BY <2>1 DEF Recent
<1>3. ASSUME NEW r \in Requests, Exchange(r), UNCHANGED now
      PROVE  \A v \in Users : Recent(v)'
  <2>1. UNCHANGED <<now, perms, access, able, unable>>
    BY <1>3 DEF Exchange
  <2> QED BY <2>1 DEF Recent
<1>4. ASSUME NEW r \in Requests, Create(r), UNCHANGED now
      PROVE  \A v \in Users : Recent(v)'
  <2>1. UNCHANGED <<now, perms, access, able, unable>>
    BY <1>4 DEF Create
  <2> QED BY <2>1 DEF Recent
<1>5. ASSUME NEW r \in Requests, Prune(r), UNCHANGED now
      PROVE  \A v \in Users : Recent(v)'
  <2>1. UNCHANGED <<now, perms, access, able, unable>>
    BY <1>5 DEF Prune
  <2> QED BY <2>1 DEF Recent
<1>6. ASSUME NEW r \in Requests, Delete(r), UNCHANGED now
      PROVE  \A v \in Users : Recent(v)'
  <2>1. UNCHANGED <<now, perms, access, able, unable>>
    BY <1>6 DEF Delete
  <2> QED BY <2>1 DEF Recent
<1>7. ASSUME NEW r \in Requests, ExtractUser(r), UNCHANGED now
      PROVE  \A v \in Users : Recent(v)'
  <2>1. UNCHANGED <<now, perms, access, able, unable>>
    BY <1>7 DEF ExtractUser
  <2> QED BY <2>1 DEF Recent
<1>8. ASSUME NEW r \in Requests, CheckOrgOwner(r), UNCHANGED now
      PROVE  \A v \in Users : Recent(v)'
  <2>1. UNCHANGED <<now, perms, access, able, unable>>
    BY <1>8 DEF CheckOrgOwner
  <2> QED BY <2>1 DEF Recent
<1>9. ASSUME NEW r \in Requests, ReadProject(r), UNCHANGED now
      PROVE  \A v \in Users : Recent(v)'
  <2>1. UNCHANGED <<now, perms, access, able, unable>>
    BY <1>9 DEF ReadProject
  <2> QED BY <2>1 DEF Recent
<1>10. ASSUME NEW r \in Requests, ReadPermission(r), UNCHANGED now
       PROVE  \A v \in Users : Recent(v)'
  <2>1. UNCHANGED <<now, perms, access, able, unable>>
    BY <1>10 DEF ReadPermission
  <2> QED BY <2>1 DEF Recent
<1>11. ASSUME NEW r \in Requests, FetchPermission(r), UNCHANGED now
       PROVE  \A v \in Users : Recent(v)'
  <2>1. req[r].user \in Users
    BY <1>11 DEF FetchPermission, At, Sound
  <2>2. \A v \in Users : able'[v] = able[v] /\ unable'[v] \in {unable[v], now}
    BY <1>11, <2>1 DEF FetchPermission
  <2>3. \A v \in Users : /\ access'[v] => able'[v] = now
                         /\ ~access'[v] => unable'[v] = now
    BY <1>11, <2>2 DEF FetchPermission, Recent
  <2> QED BY <1>11, <2>2, <2>3, RecentLater DEF FetchPermission
<1>12. ASSUME NEW r \in Requests, StorePermission(r), UNCHANGED now
       PROVE  \A v \in Users : Recent(v)'
  <2>1. /\ req[r].user \in Users /\ req[r].may \in BOOLEAN
        /\ IF req[r].may THEN able[req[r].user] = now ELSE unable[req[r].user] = now
    BY <1>12 DEF StorePermission, At, Sound, Told, Request
  <2> QED BY <1>12, <2>1, Times DEF StorePermission, CachePermission, Recent
<1>13. ASSUME NEW r \in Requests, Arrive(r), UNCHANGED now
       PROVE  \A v \in Users : Recent(v)'
  <2>1. UNCHANGED <<now, perms, access, able, unable>>
    BY <1>13 DEF Arrive
  <2> QED BY <2>1 DEF Recent
<1>14. ASSUME StartSweep, UNCHANGED now PROVE \A v \in Users : Recent(v)'
  <2>1. UNCHANGED <<now, perms, access, able, unable>>
    BY <1>14 DEF StartSweep
  <2> QED BY <2>1 DEF Recent
<1>15. ASSUME SweepPermissions, UNCHANGED now PROVE \A v \in Users : Recent(v)'
  BY <1>15 DEF SweepPermissions, PrunePermissions, Recent
<1>16. ASSUME NEW good \in BOOLEAN, SweepSessions(good), UNCHANGED now
       PROVE  \A v \in Users : Recent(v)'
  <2>1. UNCHANGED <<now, perms, access, able, unable>>
    BY <1>16 DEF SweepSessions
  <2> QED BY <2>1 DEF Recent
<1>17. ASSUME NEW u \in Users, ChangeAccess(u), UNCHANGED now
       PROVE  \A v \in Users : Recent(v)'
  <2>1. \A v \in Users :
           /\ able'[v] \in {able[v], now} /\ unable'[v] \in {unable[v], now}
           /\ access'[v] => able'[v] = now
           /\ ~access'[v] => unable'[v] = now
    BY <1>17 DEF ChangeAccess, Recent
  <2> QED BY <1>17, <2>1, RecentLater DEF ChangeAccess
<1>18. ASSUME NEW k \in Secrets \union {NoSecret}, Restart(k), UNCHANGED now
       PROVE  \A v \in Users : Recent(v)'
  <2>1. UNCHANGED <<now, perms, access, able, unable>>
    BY <1>18 DEF Restart
  <2> QED BY <2>1 DEF Recent
<1>19. CASE SessionTick
  BY <1>19, Times DEF SessionTick, Passes, Aged, Recent, Cached
<1>20. CASE UNCHANGED sessionvars
  <2>1. UNCHANGED <<now, perms, access, able, unable>>
    BY <1>20 DEF sessionvars, svars
  <2> QED BY <2>1 DEF Recent
<1> QED BY <1>1, <1>2, <1>3, <1>4, <1>5, <1>6, <1>7, <1>8, <1>9, <1>10, <1>11,
       <1>12, <1>13, <1>14, <1>15, <1>16, <1>17, <1>18, <1>19, <1>20
     DEF SessionsNext, SessionsStep, Handle, sessionvars

\* extract_user goes on knowing no permission.
LEMMA Extracted ==
    ASSUME Handlers, NEW r \in Requests, ExtractUser(r)
    PROVE  req'[r].pc # "cache" /\ req'[r].looked = req[r].looked
<1> DEFINE user == UserOf(req[r].cookie)
           in == req[r].kind = "view" \/ user \in Admins
           pc == IF in THEN "done" ELSE IF Admins = {} THEN "owner" ELSE "project"
           answer == IF in THEN "yes" ELSE "none"
<1>1. req[r] \in Request
  BY DEF Handlers
<1>2. CASE Answer(r, "login")
  BY <1>1, <1>2 DEF Answer, Handlers, Request
<1>3. CASE req' = [req EXCEPT ![r].user = user, ![r].pc = pc, ![r].answer = answer]
  <2>1. pc # "cache"
    OBVIOUS
  <2> HIDE DEF user, pc, answer
  <2> QED BY <1>1, <1>3, <2>1 DEF Handlers, Request
<1> QED BY <1>2, <1>3 DEF ExtractUser

LEMMA ToldLater ==
    ASSUME SessionsTypeOK, NEW q \in Requests, Sound(q), Told(q), UNCHANGED now,
           req'[q] = req[q] \/ req'[q].pc # "cache",
           \A v \in Users : able'[v] \in {able[v], now} /\ unable'[v] \in {unable[v], now}
    PROVE  Told(q)'
BY DEF Told, Sound

\* What a handler is about to cache is so at this tick.
LEMMA ToldStep ==
    SessionsInv /\ [SessionsNext]_sessionvars =>
        \A q \in Requests : Told(q)'
<1> SUFFICES ASSUME SessionsInv, [SessionsNext]_sessionvars
             PROVE  \A q \in Requests : Told(q)'
  OBVIOUS
<1> USE DEF SessionsInv, SessionsTypeOK
<1>1. ASSUME NEW b \in Browsers, Login(b), UNCHANGED now
      PROVE  \A q \in Requests : Told(q)'
  BY <1>1, ToldLater DEF Login
<1>2. ASSUME NEW r \in Requests, NEW b \in Browsers, NEW kind \in Kinds,
             Send(r, b, kind), UNCHANGED now
      PROVE  \A q \in Requests : Told(q)'
  <2>1. req'[r].pc # "cache"
    BY <1>2 DEF Send, First, Kinds, Quiet
  <2>2. \A q \in Requests \ {r} : req'[q] = req[q]
    BY <1>2 DEF Send, First, Kinds, Quiet
  <2> QED BY <1>2, <2>1, <2>2, ToldLater DEF Send
<1>3. ASSUME NEW r \in Requests, Exchange(r), UNCHANGED now
      PROVE  \A q \in Requests : Told(q)'
  <2>1. req'[r].pc # "cache"
    BY <1>3 DEF Exchange, Answer, Goto, Request
  <2>2. \A q \in Requests \ {r} : req'[q] = req[q]
    BY <1>3 DEF Exchange, Answer, Goto, Request
  <2> QED BY <1>3, <2>1, <2>2, ToldLater DEF Exchange
<1>4. ASSUME NEW r \in Requests, Create(r), UNCHANGED now
      PROVE  \A q \in Requests : Told(q)'
  <2>1. req'[r].pc # "cache"
    BY <1>4 DEF Create, Answer, Goto, Request
  <2>2. \A q \in Requests \ {r} : req'[q] = req[q]
    BY <1>4 DEF Create, Answer, Goto, Request
  <2> QED BY <1>4, <2>1, <2>2, ToldLater DEF Create
<1>5. ASSUME NEW r \in Requests, Prune(r), UNCHANGED now
      PROVE  \A q \in Requests : Told(q)'
  <2>1. req'[r].pc # "cache"
    BY <1>5 DEF Prune, Answer, Goto, Request
  <2>2. \A q \in Requests \ {r} : req'[q] = req[q]
    BY <1>5 DEF Prune, Answer, Goto, Request
  <2> QED BY <1>5, <2>1, <2>2, ToldLater DEF Prune
<1>6. ASSUME NEW r \in Requests, Delete(r), UNCHANGED now
      PROVE  \A q \in Requests : Told(q)'
  <2>1. req'[r].pc # "cache"
    BY <1>6 DEF Delete, Answer, Goto, Request
  <2>2. \A q \in Requests \ {r} : req'[q] = req[q]
    BY <1>6 DEF Delete, Answer, Goto, Request
  <2> QED BY <1>6, <2>1, <2>2, ToldLater DEF Delete
<1>7. ASSUME NEW r \in Requests, ExtractUser(r), UNCHANGED now
      PROVE  \A q \in Requests : Told(q)'
  <2>1. req'[r].pc # "cache"
    BY <1>7, Extracted DEF Handlers
  <2>2. \A q \in Requests \ {r} : req'[q] = req[q]
    BY <1>7 DEF ExtractUser, Answer, Goto, Request
  <2> QED BY <1>7, <2>1, <2>2, ToldLater DEF ExtractUser
<1>8. ASSUME NEW r \in Requests, CheckOrgOwner(r), UNCHANGED now
      PROVE  \A q \in Requests : Told(q)'
  <2>1. req'[r].pc # "cache"
    BY <1>8 DEF CheckOrgOwner, Answer, Goto, Request
  <2>2. \A q \in Requests \ {r} : req'[q] = req[q]
    BY <1>8 DEF CheckOrgOwner, Answer, Goto, Request
  <2> QED BY <1>8, <2>1, <2>2, ToldLater DEF CheckOrgOwner
<1>9. ASSUME NEW r \in Requests, ReadProject(r), UNCHANGED now
      PROVE  \A q \in Requests : Told(q)'
  <2>1. req'[r].pc # "cache"
    BY <1>9 DEF ReadProject, Answer, Goto, Request
  <2>2. \A q \in Requests \ {r} : req'[q] = req[q]
    BY <1>9 DEF ReadProject, Answer, Goto, Request
  <2> QED BY <1>9, <2>1, <2>2, ToldLater DEF ReadProject
<1>10. ASSUME NEW r \in Requests, ReadPermission(r), UNCHANGED now
       PROVE  \A q \in Requests : Told(q)'
  <2>1. req'[r].pc # "cache"
    BY <1>10 DEF ReadPermission, Decide, Goto, Request
  <2>2. \A q \in Requests \ {r} : req'[q] = req[q]
    BY <1>10 DEF ReadPermission, Decide, Goto, Request
  <2> QED BY <1>10, <2>1, <2>2, ToldLater DEF ReadPermission
<1>11. ASSUME NEW r \in Requests, FetchPermission(r), UNCHANGED now
       PROVE  \A q \in Requests : Told(q)'
  <2>1. req[r].user \in Users
    BY <1>11 DEF FetchPermission, At, Sound
  <2>2. \A q \in Requests \ {r} : Told(q)'
    <3>1. \A v \in Users : able'[v] = able[v] /\ unable'[v] \in {unable[v], now}
      BY <1>11, <2>1 DEF FetchPermission
    <3>2. \A q \in Requests \ {r} : req'[q] = req[q]
      BY <1>11 DEF FetchPermission
    <3> QED BY <1>11, <3>1, <3>2, ToldLater
  <2>3. Told(r)'
    <3>1. CASE /\ req' = [req EXCEPT ![r].pc = "cache", ![r].may = access[req[r].user]]
               /\ UNCHANGED unable
      <4>1. req'[r].user = req[r].user /\ req'[r].may = access[req[r].user]
        BY <3>1 DEF Request
      <4>2. able' = able /\ Recent(req[r].user)
        BY <1>11, <2>1 DEF FetchPermission
      <4> QED BY <1>11, <2>1, <3>1, <4>1, <4>2 DEF Told, Recent
    <3>2. CASE /\ req' = [req EXCEPT ![r].pc = "cache", ![r].may = FALSE]
               /\ unable' = [unable EXCEPT ![req[r].user] = now]
      <4>1. req'[r].user = req[r].user /\ req'[r].may = FALSE
        BY <3>2 DEF Request
      <4> QED BY <1>11, <2>1, <3>2, <4>1 DEF Told
    <3> QED BY <1>11, <3>1, <3>2 DEF FetchPermission
  <2> QED BY <2>2, <2>3
<1>12. ASSUME NEW r \in Requests, StorePermission(r), UNCHANGED now
       PROVE  \A q \in Requests : Told(q)'
  <2>1. req'[r].pc # "cache"
    BY <1>12 DEF StorePermission, Decide
  <2>2. \A q \in Requests \ {r} : req'[q] = req[q]
    BY <1>12 DEF StorePermission, Decide
  <2> QED BY <1>12, <2>1, <2>2, ToldLater DEF StorePermission
<1>13. ASSUME NEW r \in Requests, Arrive(r), UNCHANGED now
       PROVE  \A q \in Requests : Told(q)'
  <2>1. req'[r].pc # "cache"
    BY <1>13 DEF Arrive, Quiet
  <2>2. \A q \in Requests \ {r} : req'[q] = req[q]
    BY <1>13 DEF Arrive, Quiet
  <2> QED BY <1>13, <2>1, <2>2, ToldLater DEF Arrive
<1>14. ASSUME StartSweep, UNCHANGED now PROVE \A q \in Requests : Told(q)'
  BY <1>14, ToldLater DEF StartSweep
<1>15. ASSUME SweepPermissions, UNCHANGED now PROVE \A q \in Requests : Told(q)'
  BY <1>15, ToldLater DEF SweepPermissions
<1>16. ASSUME NEW good \in BOOLEAN, SweepSessions(good), UNCHANGED now
       PROVE  \A q \in Requests : Told(q)'
  BY <1>16, ToldLater DEF SweepSessions
<1>17. ASSUME NEW u \in Users, ChangeAccess(u), UNCHANGED now
       PROVE  \A q \in Requests : Told(q)'
  <2>1. \A v \in Users : able'[v] \in {able[v], now} /\ unable'[v] \in {unable[v], now}
    BY <1>17 DEF ChangeAccess
  <2> QED BY <1>17, <2>1, ToldLater DEF ChangeAccess
<1>18. ASSUME NEW k \in Secrets \union {NoSecret}, Restart(k), UNCHANGED now
       PROVE  \A q \in Requests : Told(q)'
  BY <1>18 DEF Restart, Quiet, Told
<1>19. CASE SessionTick
  BY <1>19 DEF SessionTick, At, Told
<1>20. CASE UNCHANGED sessionvars
  BY <1>20 DEF sessionvars, svars, Told
<1> QED BY <1>1, <1>2, <1>3, <1>4, <1>5, <1>6, <1>7, <1>8, <1>9, <1>10, <1>11,
       <1>12, <1>13, <1>14, <1>15, <1>16, <1>17, <1>18, <1>19, <1>20
     DEF SessionsNext, SessionsStep, Handle, sessionvars

\* The invariant is inductive.
LEMMA SessionsInductive ==
    SessionsInv /\ [SessionsNext]_sessionvars =>
        SessionsInv'
BY SoundStep, TypeStep, CookieStep, RowStep, RecentStep, ToldStep DEF SessionsInv, AllSound

-----------------------------------------------------------------------------
\* Every variable of sessions and permissions keeps to its type.
THEOREM SessionsTypes == SessionsSpec => []SessionsTypeOK
<1>1. SessionsInv => SessionsTypeOK
  BY DEF SessionsInv
<1> QED BY <1>1, InitSessions, SessionsInductive, PTL DEF SessionsSpec

\* Browsers keep their sessions until their time, with any number of users
\* logging in and out around them.
THEOREM LoginsLast == SessionsSpec => []SessionsLast
<1>1. SessionsInv => SessionsLast
  <2> SUFFICES ASSUME SessionsInv, NEW b \in Browsers,
                      browser[b].session # NoSession, browser[b].session \notin ended,
                      now < born[browser[b].session] + SessionTTL
               PROVE  sessions[browser[b].session] # NoSession
    BY DEF SessionsLast
  <2>1. browser[b].session \in Ids
    BY DEF SessionsInv, SessionsTypeOK, Cookies
  <2> QED BY <2>1 DEF SessionsInv, Row, Created
<1> QED BY <1>1, InitSessions, SessionsInductive, PTL DEF SessionsSpec

\* The step that lets a request in.
LEMMA LetIn ==
    ASSUME SessionsInv, [SessionsNext]_sessionvars, NEW r \in Requests,
           At(r, "session"), req'[r].user # Nobody
    PROVE  UserOf(req[r].cookie) # Nobody
<1> USE DEF SessionsInv, SessionsTypeOK
<1>1. req[r].user = Nobody /\ req[r].pc = "session"
  BY DEF Sound, At
<1>2. req'[r] # req[r] /\ req'[r] # Quiet
  BY <1>1 DEF Quiet
<1>3. ~ UNCHANGED req
  BY <1>2
<1>4. PICK q \in Requests : (Handle(q) \/ Arrive(q)
                              \/ \E b \in Browsers, kind \in Kinds : Send(q, b, kind))
  BY <1>2, <1>3 DEF SessionsNext, SessionsStep, SessionTick, sessionvars, svars, Login,
     StartSweep, SweepPermissions, SweepSessions, ChangeAccess, Restart
<1>5. \A p \in Requests \ {q} : req'[p] = req[p]
  BY <1>4 DEF Handle, Exchange, Create, Prune, Delete, ExtractUser, CheckOrgOwner,
     ReadProject, ReadPermission, FetchPermission, StorePermission, Arrive, Send,
     Answer, Goto, Decide
<1>6. q = r
  BY <1>2, <1>5
<1>7. ExtractUser(r)
  BY <1>1, <1>4, <1>6 DEF Handle, Exchange, Create, Prune, Delete, CheckOrgOwner,
     ReadProject, ReadPermission, FetchPermission, StorePermission, Arrive, Send, At
<1>8. ~Answer(r, "login")
  BY <1>1 DEF Answer, Request
<1> QED BY <1>7, <1>8 DEF ExtractUser

\* Whoever is let in has a live, readable session that nobody ended before.
THEOREM OnlyLiveAreLetIn == SessionsSpec => OnlyLiveSessions
<1>1. ASSUME SessionsInv, [SessionsNext]_sessionvars, NEW r \in Requests,
             At(r, "session"), req'[r].user # Nobody
      PROVE  /\ now < born[req[r].cookie] + SessionTTL
             /\ ~req[r].over
             /\ sessions[req[r].cookie].seal \in {NoSecret, secret}
  <2>1. /\ req[r].cookie # NoSession /\ Live(req[r].cookie)
        /\ Readable(req[r].cookie)
    BY <1>1, LetIn DEF UserOf
  <2>2. req[r].cookie \in Ids /\ Row(req[r].cookie)
    BY <1>1, <2>1 DEF SessionsInv, SessionsTypeOK, Request
  <2>3. ~req[r].over
    BY <1>1, <2>1, <2>2 DEF SessionsInv, Sound, At, Row, Live
  <2> QED BY <2>1, <2>2, <2>3 DEF Live, Readable, Row
<1>2. SessionsInv /\ [SessionsNext]_sessionvars =>
        [\A r \in Requests :
          At(r, "session") /\ req'[r].user # Nobody =>
              /\ now < born[req[r].cookie] + SessionTTL
              /\ ~req[r].over
              /\ sessions[req[r].cookie].seal \in {NoSecret, secret}]_sessionvars
  BY <1>1
<1> QED BY <1>2, InitSessions, SessionsInductive, PTL DEF SessionsSpec, OnlyLiveSessions

\* The step that decides by a permission, and what it knows.
LEMMA Verdict ==
    ASSUME SessionsInv, [SessionsNext]_sessionvars, NEW r \in Requests,
           ~At(r, "done"), req'[r].pc = "done", req'[r].looked
    PROVE  /\ req'[r].answer = "yes" => now - able[req[r].user] < PermTTL
           /\ req'[r].answer = "no" => now - unable[req[r].user] < PermTTL
<1> USE DEF SessionsInv, SessionsTypeOK
<1>1. req[r] \in Request /\ ~req[r].looked /\ req[r].pc # "done"
  BY DEF Sound, At
<1>2. req'[r] # req[r] /\ req'[r] # Quiet
  BY <1>1 DEF Quiet
<1>3. PICK q \in Requests : (Handle(q) \/ Arrive(q)
                              \/ \E b \in Browsers, kind \in Kinds : Send(q, b, kind))
  BY <1>2 DEF SessionsNext, SessionsStep, SessionTick, sessionvars, svars, Login,
     StartSweep, SweepPermissions, SweepSessions, ChangeAccess, Restart
<1>4. \A p \in Requests \ {q} : req'[p] = req[p]
  BY <1>3 DEF Handle, Exchange, Create, Prune, Delete, ExtractUser, CheckOrgOwner,
     ReadProject, ReadPermission, FetchPermission, StorePermission, Arrive, Send,
     Answer, Goto, Decide
<1>5. q = r
  BY <1>2, <1>4
<1>6. ASSUME NEW b \in Browsers, NEW kind \in Kinds, Send(r, b, kind)
      PROVE  FALSE
  BY <1>6 DEF Send, First, Kinds, Quiet
<1>7. ASSUME NEW a, Answer(r, a) PROVE FALSE
  BY <1>1, <1>7 DEF Answer, Request
<1>8. ASSUME NEW pc \in Suspended, Goto(r, pc) PROVE FALSE
  BY <1>1, <1>8 DEF Goto, Request, Suspended
<1>9. ASSUME Exchange(r) \/ Create(r) \/ FetchPermission(r) PROVE FALSE
  BY <1>1, <1>7, <1>9 DEF Exchange, Create, FetchPermission, Request
<1>10. ASSUME ExtractUser(r) PROVE FALSE
  BY <1>1, <1>10, Extracted DEF Handlers
<1>11. ReadPermission(r) \/ StorePermission(r)
  BY <1>1, <1>3, <1>5, <1>6, <1>7, <1>8, <1>9, <1>10
  DEF Handle, Prune, Delete, CheckOrgOwner, ReadProject, Arrive, At, Suspended
<1>12. req[r].user \in Users /\ Recent(req[r].user)
  BY <1>11 DEF ReadPermission, StorePermission, At, Sound
<1>13. ASSUME NEW may \in BOOLEAN, Decide(r, may)
       PROVE  req'[r].answer = IF may THEN "yes" ELSE "no"
  BY <1>1, <1>13 DEF Decide, Request
<1>14. CASE ReadPermission(r)
  <2>1. CacheOf(req[r].user) # Nobody /\ Decide(r, CacheOf(req[r].user).may)
    BY <1>8, <1>14 DEF ReadPermission, Suspended
  <2> DEFINE c == perms[req[r].user]
  <2>2. c \in Cached /\ c.expires > now /\ c = CacheOf(req[r].user) /\ c # Nobody
    BY <1>12, <2>1 DEF CacheOf
  <2>3. c.may \in BOOLEAN /\ c.expires \in Nat
    BY <2>2 DEF Cached
  <2>4. req'[r].answer = IF c.may THEN "yes" ELSE "no"
    BY <1>13, <2>1, <2>2, <2>3
  <2>5. IF c.may THEN c.expires <= able[req[r].user] + PermTTL
        ELSE c.expires <= unable[req[r].user] + PermTTL
    BY <1>12, <2>2 DEF Recent
  <2> QED BY <1>12, <2>2, <2>3, <2>4, <2>5, Times
<1>15. CASE StorePermission(r)
  <2>1. /\ req[r].may \in BOOLEAN /\ Decide(r, req[r].may)
        /\ IF req[r].may THEN able[req[r].user] = now ELSE unable[req[r].user] = now
    BY <1>1, <1>15 DEF StorePermission, At, Told, Request
  <2>2. req'[r].answer = IF req[r].may THEN "yes" ELSE "no"
    BY <1>13, <2>1
  <2> QED BY <1>12, <2>1, <2>2, Times
<1> QED BY <1>11, <1>14, <1>15

\* No permission is honoured longer than the cache keeps one, whatever
\* requests are under way when it is taken away.
THEOREM GrantsStayRecent == SessionsSpec => GrantsAreRecent
<1>1. SessionsInv /\ [SessionsNext]_sessionvars =>
        [\A r \in Requests :
          ~At(r, "done") /\ req'[r].pc = "done" /\ req'[r].looked
              /\ req'[r].answer = "yes" =>
              now - able[req[r].user] < PermTTL]_sessionvars
  BY Verdict
<1> QED BY <1>1, InitSessions, SessionsInductive, PTL DEF SessionsSpec, GrantsAreRecent

\* No refusal either.
THEOREM RefusalsStayRecent == SessionsSpec => RefusalsAreRecent
<1>1. SessionsInv /\ [SessionsNext]_sessionvars =>
        [\A r \in Requests :
          ~At(r, "done") /\ req'[r].pc = "done" /\ req'[r].looked
              /\ req'[r].answer = "no" =>
              now - unable[req[r].user] < PermTTL]_sessionvars
  BY Verdict
<1> QED BY <1>1, InitSessions, SessionsInductive, PTL DEF SessionsSpec, RefusalsAreRecent

-----------------------------------------------------------------------------
(* Forms *)

\* The tokens there are were signed by the running process or one before it.
Past(token) == token # NoToken => token[2] <= boot

PastKeys ==
    /\ Past(cookie)
    /\ \A t \in Tabs : Past(tab[t].sent) /\ Past(tab[t].form)

\* No other page under way is to bring a new cookie.
Alone(t) == \A u \in Tabs \ {t} : ~Bare(u)

\* While page t is under way: what it was issued is valid, a valid cookie is
\* reused and stays valid, and it is still the browser's if t did not race.
Underway(t) ==
    tab[t].state \in {"loading", "issued"} =>
        /\ Signed(tab[t].sent) => Signed(cookie)
        /\ tab[t].state = "issued" =>
             /\ Signed(tab[t].form)
             /\ Signed(tab[t].sent) => tab[t].form = tab[t].sent
        /\ ~tab[t].raced => /\ Alone(t)
                            /\ Signed(tab[t].sent) => cookie = tab[t].sent

\* Once it is open, a valid form has the browser's cookie until it is posted
\* with it.
Settled(t) ==
    Signed(tab[t].form) =>
        /\ tab[t].state = "open" =>
             /\ Signed(cookie)
             /\ ~tab[t].raced => Alone(t) /\ cookie = tab[t].form
        /\ tab[t].state = "posted" /\ ~tab[t].raced => tab[t].sent = tab[t].form
        /\ tab[t].state = "rejected" => tab[t].raced

FormsInv ==
    /\ CsrfTypeOK
    /\ PastKeys
    /\ \A t \in Tabs : Underway(t) /\ Settled(t)

-----------------------------------------------------------------------------
LEMMA KeyRange == CsrfTypeOK => SigningKey \in 0..MaxBoots /\ SigningKey <= boot
BY CsrfAssumption DEF CsrfTypeOK, SigningKey

LEMMA TokenParts ==
    \A token \in Token \union {NoToken} :
        token # NoToken => token[1] \in 1..MaxTokens /\ token[2] \in 0..MaxBoots
BY DEF Token

LEMMA InitForms == CsrfInit => FormsInv
BY CsrfAssumption
DEF CsrfInit, FormsInv, CsrfTypeOK, PastKeys, Past, Underway, Settled, Closed, Tab, Signed

\* Every step keeps to the types.
LEMMA FormTypeStep == CsrfTypeOK /\ [CsrfNext]_csrfvars => CsrfTypeOK'
<1> SUFFICES ASSUME CsrfTypeOK, [CsrfNext]_csrfvars PROVE CsrfTypeOK'
  OBVIOUS
<1> USE DEF CsrfTypeOK
<1>1. ASSUME NEW t \in Tabs, Load(t) PROVE CsrfTypeOK'
  <2>1. \A u \in Tabs : tab'[u] \in Tab
    BY <1>1 DEF Load, Closed, Tab
  <2> QED BY <1>1, <2>1 DEF Load
<1>2. ASSUME NEW t \in Tabs, Issue(t) PROVE CsrfTypeOK'
  <2>1. CASE /\ Reuses(tab[t].sent)
             /\ tab' = [tab EXCEPT ![t].state = "issued", ![t].form = tab[t].sent]
             /\ UNCHANGED minted
    BY <1>2, <2>1 DEF Issue, Tab
  <2>2. CASE /\ minted < MaxTokens
             /\ minted' = minted + 1
             /\ tab' = [tab EXCEPT ![t].state = "issued",
                                   ![t].form = <<minted + 1, SigningKey>>]
    <3>1. <<minted + 1, SigningKey>> \in Token
      BY <2>2, KeyRange, CsrfAssumption DEF Token
    <3> QED BY <1>2, <2>2, <3>1, CsrfAssumption DEF Issue, Tab
  <2> QED BY <1>2, <2>1, <2>2 DEF Issue
<1>3. ASSUME NEW t \in Tabs, Render(t) PROVE CsrfTypeOK'
  BY <1>3 DEF Render, Tab
<1>4. ASSUME NEW t \in Tabs, Submit(t) PROVE CsrfTypeOK'
  BY <1>4 DEF Submit, Tab
<1>5. ASSUME NEW t \in Tabs, Verify(t) PROVE CsrfTypeOK'
  BY <1>5 DEF Verify, Tab
<1>6. ASSUME NEW t \in Tabs, Close(t) PROVE CsrfTypeOK'
  BY <1>6 DEF Close, Closed, Tab
<1>7. CASE Reboot
  BY <1>7, CsrfAssumption DEF Reboot, Closed, Tab
<1>8. CASE UNCHANGED csrfvars
  BY <1>8 DEF csrfvars
<1> QED BY <1>1, <1>2, <1>3, <1>4, <1>5, <1>6, <1>7, <1>8 DEF CsrfNext

\* A token of the past stays one.
LEMMA PastStep == FormsInv /\ [CsrfNext]_csrfvars => PastKeys'
<1> SUFFICES ASSUME FormsInv, [CsrfNext]_csrfvars PROVE PastKeys'
  OBVIOUS
<1> USE DEF FormsInv, CsrfTypeOK, PastKeys, Past
<1>1. ASSUME NEW t \in Tabs, Load(t) PROVE PastKeys'
  BY <1>1 DEF Load, Closed, Tab
<1>2. ASSUME NEW t \in Tabs, Issue(t) PROVE PastKeys'
  <2>1. SigningKey <= boot
    BY KeyRange
  <2>2. CASE tab' = [tab EXCEPT ![t].state = "issued", ![t].form = tab[t].sent]
    BY <1>2, <2>2 DEF Issue, Tab
  <2>3. CASE tab' = [tab EXCEPT ![t].state = "issued",
                                ![t].form = <<minted + 1, SigningKey>>]
    BY <1>2, <2>1, <2>3 DEF Issue, Tab
  <2> QED BY <1>2, <2>2, <2>3 DEF Issue
<1>3. ASSUME NEW t \in Tabs, Render(t) PROVE PastKeys'
  BY <1>3 DEF Render, Tab
<1>4. ASSUME NEW t \in Tabs, Submit(t) PROVE PastKeys'
  BY <1>4 DEF Submit, Tab
<1>5. ASSUME NEW t \in Tabs, Verify(t) PROVE PastKeys'
  BY <1>5 DEF Verify, Tab
<1>6. ASSUME NEW t \in Tabs, Close(t) PROVE PastKeys'
  BY <1>6 DEF Close, Closed, Tab
<1>7. CASE Reboot
  <2>1. \A token \in Token \union {NoToken} : Past(token) => Past(token)'
    BY <1>7, TokenParts DEF Reboot
  <2>2. cookie' = cookie /\ \A t \in Tabs : tab'[t] \in {tab[t], Closed}
    BY <1>7 DEF Reboot
  <2> QED BY <2>1, <2>2 DEF Closed, Tab
<1>8. CASE UNCHANGED csrfvars
  BY <1>8 DEF csrfvars
<1> QED BY <1>1, <1>2, <1>3, <1>4, <1>5, <1>6, <1>7, <1>8 DEF CsrfNext

LEMMA LoadStep ==
    ASSUME FormsInv, NEW t \in Tabs, Load(t)
    PROVE  \A u \in Tabs : Underway(u)' /\ Settled(u)'
<1> USE DEF FormsInv, CsrfTypeOK
<1>1. /\ cookie' = cookie /\ boot' = boot
      /\ \A token : Signed(token)' <=> Signed(token)
  BY DEF Load, Signed, SigningKey
<1>2. /\ tab[t].state \in {"closed", "open"}
      /\ tab'[t].state = "loading" /\ tab'[t].sent = cookie /\ tab'[t].form = NoToken
      /\ tab'[t].raced = \E v \in Tabs \ {t} : Bare(v)
  BY DEF Load, Closed
<1>3. ASSUME NEW u \in Tabs, u # t
      PROVE  /\ tab'[u].state = tab[u].state /\ tab'[u].sent = tab[u].sent
             /\ tab'[u].form = tab[u].form
             /\ tab'[u].raced = (tab[u].raced \/ (Bare(u) /\ ~Signed(cookie)))
  BY <1>3 DEF Load, Tab
<1>4. Bare(t)' <=> ~Signed(cookie)
  BY <1>1, <1>2 DEF Bare
<1>5. \A u \in Tabs \ {t} : Bare(u)' <=> Bare(u)
  BY <1>1, <1>3 DEF Bare
<1>6. Underway(t)' /\ Settled(t)'
  BY <1>1, <1>2, <1>5 DEF Underway, Settled, Alone, Signed
<1>7. ASSUME NEW u \in Tabs, u # t PROVE Underway(u)' /\ Settled(u)'
  <2>1. Underway(u) /\ Settled(u)
    OBVIOUS
  <2>2. Underway(u)'
    BY <1>1, <1>3, <1>4, <1>5, <1>7, <2>1 DEF Underway, Alone, Bare
  <2>3. Settled(u)'
    BY <1>1, <1>3, <1>4, <1>5, <1>7, <2>1 DEF Settled, Alone, Bare
  <2> QED BY <2>2, <2>3
<1> QED BY <1>6, <1>7

LEMMA IssueStep ==
    ASSUME FormsInv, NEW t \in Tabs, Issue(t)
    PROVE  \A u \in Tabs : Underway(u)' /\ Settled(u)'
<1> USE DEF FormsInv, CsrfTypeOK
<1>1. /\ cookie' = cookie /\ boot' = boot
      /\ \A token : Signed(token)' <=> Signed(token)
  BY DEF Issue, Signed, SigningKey
<1>2. /\ tab[t].state = "loading" /\ tab'[t].state = "issued"
      /\ tab'[t].sent = tab[t].sent /\ tab'[t].raced = tab[t].raced
  BY DEF Issue, Tab
<1>3. Signed(tab'[t].form) /\ (Signed(tab[t].sent) => tab'[t].form = tab[t].sent)
  <2>1. Signed(<<minted + 1, SigningKey>>)
    BY KeyRange, CsrfAssumption DEF Signed
  <2> QED BY <2>1 DEF Issue, Reuses, Tab
<1>4. \A u \in Tabs \ {t} : tab'[u] = tab[u]
  BY DEF Issue
<1>5. \A u \in Tabs : Bare(u)' <=> Bare(u)
  BY <1>1, <1>2, <1>4 DEF Bare
<1>6. Underway(t)' /\ Settled(t)'
  BY <1>1, <1>2, <1>3, <1>5 DEF Underway, Settled, Alone
<1>7. ASSUME NEW u \in Tabs, u # t PROVE Underway(u)' /\ Settled(u)'
  BY <1>1, <1>4, <1>5, <1>7 DEF Underway, Settled, Alone
<1> QED BY <1>6, <1>7

LEMMA RenderStep ==
    ASSUME FormsInv, NEW t \in Tabs, Render(t)
    PROVE  \A u \in Tabs : Underway(u)' /\ Settled(u)'
<1> USE DEF FormsInv, CsrfTypeOK
<1>1. boot' = boot /\ \A token : Signed(token)' <=> Signed(token)
  BY DEF Render, Signed, SigningKey
<1>2. /\ tab[t].state = "issued" /\ tab'[t].state = "open"
      /\ tab'[t].sent = tab[t].sent /\ tab'[t].raced = tab[t].raced
      /\ tab'[t].form = tab[t].form
      /\ cookie' = IF tab[t].form = tab[t].sent THEN cookie ELSE tab[t].form
  BY DEF Render, Tab
<1>3. \A u \in Tabs \ {t} : tab'[u] = tab[u]
  BY DEF Render
<1>4. Underway(t)
  OBVIOUS
<1>5. Signed(cookie)'
  BY <1>1, <1>2, <1>4 DEF Underway
<1>6. \A u \in Tabs : Bare(u)' => Bare(u)
  BY <1>1, <1>2, <1>3 DEF Bare
<1>7. cookie' # cookie => Bare(t)
  BY <1>2, <1>4 DEF Underway, Bare
<1>8. Underway(t)' /\ Settled(t)'
  <2>1. ~tab[t].raced => Alone(t)' /\ cookie' = tab[t].form
    BY <1>2, <1>4, <1>6 DEF Underway, Alone
  <2> QED BY <1>1, <1>2, <1>5, <2>1 DEF Underway, Settled
<1>9. ASSUME NEW u \in Tabs, u # t PROVE Underway(u)' /\ Settled(u)'
  <2>1. Underway(u) /\ Settled(u) /\ tab'[u] = tab[u]
    BY <1>3, <1>9
  <2>2. Alone(u) => Alone(u)' /\ cookie' = cookie
    BY <1>6, <1>7, <1>9 DEF Alone
  <2>3. Underway(u)'
    BY <1>1, <1>5, <2>1, <2>2 DEF Underway
  <2>4. Settled(u)'
    BY <1>1, <1>5, <2>1, <2>2 DEF Settled
  <2> QED BY <2>3, <2>4
<1> QED BY <1>8, <1>9

\* Posting, checking and closing a form concern its tab alone.
LEMMA FormStep ==
    ASSUME FormsInv, NEW t \in Tabs, Submit(t) \/ Verify(t) \/ Close(t)
    PROVE  \A u \in Tabs : Underway(u)' /\ Settled(u)'
<1> USE DEF FormsInv, CsrfTypeOK
<1>1. /\ cookie' = cookie /\ boot' = boot
      /\ \A token : Signed(token)' <=> Signed(token)
  BY DEF Submit, Verify, Close, Signed, SigningKey
<1>2. \A u \in Tabs \ {t} : tab'[u] = tab[u]
  BY DEF Submit, Verify, Close
<1>3. ~Bare(t)'
  BY DEF Submit, Verify, Close, Closed, Bare, Tab
<1>4. \A u \in Tabs : Bare(u)' => Bare(u)
  BY <1>1, <1>2, <1>3 DEF Bare
<1>5. ASSUME NEW u \in Tabs, u # t PROVE Underway(u)' /\ Settled(u)'
  BY <1>1, <1>2, <1>4, <1>5 DEF Underway, Settled, Alone
<1>6. Settled(t)
  OBVIOUS
<1>7. ASSUME Submit(t) PROVE Underway(t)' /\ Settled(t)'
  BY <1>1, <1>6, <1>7 DEF Submit, Underway, Settled, Tab
<1>8. ASSUME Verify(t) PROVE Underway(t)' /\ Settled(t)'
  BY <1>1, <1>6, <1>8 DEF Verify, Underway, Settled, Tab
<1>9. ASSUME Close(t) PROVE Underway(t)' /\ Settled(t)'
  BY <1>9 DEF Close, Closed, Underway, Settled, Signed
<1>10. Underway(t)' /\ Settled(t)'
  BY <1>7, <1>8, <1>9
<1> QED BY <1>5, <1>10

\* A restart either keeps the key or makes every token of the past invalid.
LEMMA RebootStep ==
    ASSUME FormsInv, Reboot
    PROVE  \A u \in Tabs : Underway(u)' /\ Settled(u)'
<1> USE DEF FormsInv, CsrfTypeOK
<1>1. boot' = boot + 1 /\ cookie' = cookie
  BY DEF Reboot
<1>2. \A token \in Token \union {NoToken} : Past(token) /\ Signed(token)' => Signed(token)
  BY <1>1, TokenParts DEF Signed, SigningKey, Past
<1>3. \A token \in Token \union {NoToken} : Past(token) /\ Signed(token)' => KeyConfigured
  BY <1>1, TokenParts DEF Signed, SigningKey, Past
<1>4. KeyConfigured => \A token : Signed(token)' <=> Signed(token)
  BY DEF Signed, SigningKey
<1>5. ASSUME NEW u \in Tabs
      PROVE  \/ tab[u].state = "open" /\ tab'[u] = tab[u]
             \/ tab'[u] = Closed
  BY DEF Reboot
<1>6. \A u \in Tabs : ~Bare(u)'
  BY <1>5 DEF Closed, Bare
<1>7. ASSUME NEW u \in Tabs PROVE Underway(u)' /\ Settled(u)'
  <2>1. CASE tab'[u] = Closed
    BY <2>1 DEF Closed, Underway, Settled, Signed
  <2>2. CASE tab[u].state = "open" /\ tab'[u] = tab[u]
    <3>1. tab[u].form \in Token \union {NoToken} /\ Past(tab[u].form)
      BY DEF PastKeys, Tab
    <3>2. Signed(tab[u].form)' => KeyConfigured /\ Signed(tab[u].form)
      BY <1>2, <1>3, <3>1, <2>2
    <3>3. Settled(u)'
      BY <1>1, <1>4, <1>6, <2>2, <3>2 DEF Settled, Alone, Signed
    <3> QED BY <2>2, <3>3 DEF Underway
  <2> QED BY <1>5, <2>1, <2>2
<1> QED BY <1>7

\* The invariant is inductive.
LEMMA FormsInductive == FormsInv /\ [CsrfNext]_csrfvars => FormsInv'
<1> SUFFICES ASSUME FormsInv, [CsrfNext]_csrfvars PROVE FormsInv'
  OBVIOUS
<1>1. CsrfTypeOK' /\ PastKeys'
  BY FormTypeStep, PastStep DEF FormsInv
<1>2. \A u \in Tabs : Underway(u)' /\ Settled(u)'
  <2>1. CASE CsrfNext
    BY <2>1, LoadStep, IssueStep, RenderStep, FormStep, RebootStep DEF CsrfNext
  <2>2. CASE UNCHANGED csrfvars
    BY <2>2 DEF csrfvars, FormsInv, Underway, Settled, Alone, Bare, Signed, SigningKey
  <2> QED BY <2>1, <2>2
<1> QED BY <1>1, <1>2 DEF FormsInv

\* Tokens and tabs keep to their types.
THEOREM CsrfTypes == CsrfSpec => []CsrfTypeOK
<1>1. CsrfInit => CsrfTypeOK
  BY InitForms DEF FormsInv
<1> QED BY <1>1, FormTypeStep, PTL DEF CsrfSpec

\* A form that was filled in is refused only if the key changed or its page
\* raced with another that had no cookie either, with any number of tabs.
THEOREM FormsHold == CsrfSpec => []FormsStayGood
<1>1. FormsInv => FormsStayGood
  BY DEF FormsInv, FormsStayGood, Settled
<1> QED BY <1>1, InitForms, FormsInductive, PTL DEF CsrfSpec

-----------------------------------------------------------------------------
(* The source pane *)

TextRow == [at: Nat, text: Text]
TreeRow == [at: Nat, version: Versions]

\* A version was the head at a time or later, in a repository.
Since(r, v, t) == seen[r][v] >= t

\* A row or a listing dates from when its version was the head, or earlier.
Dated ==
    /\ \A r \in Repos : /\ seen[r][head[r]] = now
                        /\ \A v \in Versions : seen[r][v] <= now
    /\ \A r \in Repos : cached[r] # NoText =>
          Since(r, cached[r].text.version, cached[r].at)
    /\ \A r \in DOMAIN trees : Since(r, trees[r].version, trees[r].at)

\* A listing that is fresh resolves the file to this path.
Listed(r, p) ==
    \E v \in Versions : /\ now - seen[r][v] < TreeTTL
                        /\ p \in Resolve(History[v])

Missed(r) ==
    \E v, h \in Versions :
        /\ now - seen[r][v] < TreeTTL
        /\ seen[r][h] = now
        /\ \/ Resolve(History[v]) = {}
           \/ ~(Resolve(History[v]) \subseteq History[h])

\* What a request has found out, at each point of its handler.
Knows(w) ==
    LET r == view[w].repo IN
    /\ ~Viewing(w, "idle") => r \in Repos
    /\ view[w].pc \in {"idle", "cached", "tree", "raw"} =>
          view[w].text = NoText /\ ~view[w].failed
    /\ Viewing(w, "raw") => Listed(r, view[w].path)
    /\ Viewing(w, "store") => /\ view[w].text \in Text
                              /\ seen[r][view[w].text.version] = now
    /\ Viewing(w, "done") /\ view[w].text # NoText =>
          /\ view[w].text \in Text
          /\ now - seen[r][view[w].text.version] < FloatTTL
    /\ Viewing(w, "done") /\ view[w].text = NoText /\ ~view[w].failed => Missed(r)

SourceShape ==
    /\ now \in Nat
    /\ head \in [Repos -> Versions]
    /\ DOMAIN cached = Repos
    /\ \A r \in Repos : cached[r] # NoText => cached[r] \in TextRow
    /\ DOMAIN trees \subseteq Repos
    /\ \A r \in DOMAIN trees : trees[r] \in TreeRow
    /\ view \in [Views -> View]
    /\ seen \in [Repos -> [Versions -> Nat]]

SourceInv ==
    /\ SourceShape
    /\ Dated
    /\ \A w \in Views : Knows(w)
-----------------------------------------------------------------------------
(* What the steps share *)

LEMMA SourceConstants ==
    /\ FloatTTL \in Nat \ {0} /\ TreeTTL \in Nat \ {0}
    /\ Len(History) \in Nat \ {0} /\ 1 \in Versions
    /\ \A v \in Versions : v \in Nat
    /\ NoText \notin Text /\ NoRepo \notin Repos
BY SourceAssumption DEF Versions

\* A path is resolved to one of the listing.
LEMMA ResolveInTree == \A v \in Versions : Resolve(History[v]) \subseteq Paths
BY DEF Resolve, Shortest, Paths

LEMMA InitSource == SourceInit => SourceInv
<1> SUFFICES ASSUME SourceInit PROVE SourceInv
  OBVIOUS
<1>1. SourceShape
  BY SourceConstants DEF SourceInit, SourceShape, View, Blank, Fetching
<1>2. Dated
  BY SourceConstants DEF SourceInit, Dated
<1>3. ASSUME NEW w \in Views PROVE Knows(w)
  BY DEF SourceInit, Knows, Viewing, Blank
<1> QED BY <1>1, <1>2, <1>3 DEF SourceInv

\* A request that does not move keeps what it knows while time stands still.
LEMMA Stays ==
    ASSUME SourceInv, NEW u \in Views, view'[u] = view[u], UNCHANGED <<now, seen>>
    PROVE  Knows(u)'
BY DEF SourceInv, Knows, Viewing, Missed, Listed

\* Resolving over a version that was the head a short time ago.
LEMMA AskStep ==
    ASSUME SourceInv, NEW w \in Views, view[w].pc \in {"cached", "tree"},
           NEW v \in Versions, now - seen[view[w].repo][v] < TreeTTL,
           UNCHANGED <<now, seen>>, Ask(w, v)
    PROVE  /\ view' \in [Views -> View]
           /\ \A u \in Views : Knows(u)'
<1> DEFINE r == view[w].repo
<1>1. /\ view \in [Views -> View] /\ r \in Repos
      /\ view[w].text = NoText /\ ~view[w].failed
      /\ head[r] \in Versions /\ seen[r][head[r]] = now
  BY DEF SourceInv, SourceShape, Dated, Knows, Viewing
<1>2. CASE Resolve(History[v]) = {}
  <2>1. view' = [view EXCEPT ![w].pc = "done"]
    BY <1>2 DEF Ask
  <2>2. view' \in [Views -> View]
    BY <1>1, <2>1 DEF View
  <2>3. Missed(r)'
    <3>1. view'[w].repo = r
      BY <1>1, <2>1
    <3> QED BY <1>1, <1>2, <3>1 DEF Missed
  <2>4. Knows(w)'
    BY <1>1, <2>1, <2>3 DEF Knows, Viewing, View
  <2> QED BY <1>1, <2>1, <2>2, <2>4, Stays
<1>3. CASE Resolve(History[v]) # {}
  <2>1. PICK p \in Resolve(History[v]) :
             view' = [view EXCEPT ![w].pc = "raw", ![w].path = p]
    BY <1>3 DEF Ask
  <2>2. view' \in [Views -> View]
    <3>1. p \in Paths
      BY ResolveInTree
    <3>2. [view[w] EXCEPT !.pc = "raw", !.path = p] \in View
      BY <1>1, <3>1 DEF View, Fetching
    <3> QED BY <1>1, <2>1, <3>2
  <2>3. Listed(r, p)'
    <3>1. view'[w].repo = r
      BY <1>1, <2>1
    <3> QED BY <3>1 DEF Listed
  <2>4. Knows(w)'
    BY <1>1, <2>1, <2>3 DEF Knows, Viewing, View
  <2> QED BY <1>1, <2>1, <2>2, <2>4, Stays
<1> QED BY <1>2, <1>3

-----------------------------------------------------------------------------
(* The steps *)

LEMMA OpenStep ==
    ASSUME SourceInv, NEW w \in Views, NEW r \in Repos, Open(w, r), UNCHANGED now
    PROVE  SourceInv'
<1>1. view' \in [Views -> View]
  <2>1. [view[w] EXCEPT !.pc = "cached", !.repo = r] \in View
    BY DEF SourceInv, SourceShape, View, Fetching
  <2> QED BY <2>1 DEF SourceInv, SourceShape, Open
<1>2. Knows(w)'
  BY DEF SourceInv, SourceShape, Open, Knows, Viewing, View
<1>3. \A u \in Views : Knows(u)'
  BY <1>2, Stays DEF SourceInv, SourceShape, Open
<1> QED BY <1>1, <1>3 DEF SourceInv, SourceShape, Dated, Since, Open

LEMMA LookUpStep ==
    ASSUME SourceInv, NEW w \in Views, LookUp(w), UNCHANGED now
    PROVE  SourceInv'
<1> DEFINE r == view[w].repo
<1>1. /\ view \in [Views -> View] /\ r \in Repos /\ Viewing(w, "cached")
      /\ now \in Nat /\ seen \in [Repos -> [Versions -> Nat]]
      /\ UNCHANGED <<head, cached, seen>> /\ DOMAIN trees \subseteq Repos
  BY DEF SourceInv, SourceShape, Knows, Viewing, LookUp
<1>2. CASE /\ cached[r] # NoText
           /\ TextFresh(cached[r])
           /\ view' = [view EXCEPT ![w].pc = "done", ![w].text = cached[r].text]
           /\ UNCHANGED trees
  <2>1. /\ cached[r].text \in Text /\ cached[r].at \in Nat
        /\ seen[r][cached[r].text.version] >= cached[r].at
    BY <1>1, <1>2 DEF SourceInv, SourceShape, Dated, Since, TextRow
  <2>2. view' \in [Views -> View]
    <3>1. [view[w] EXCEPT !.pc = "done", !.text = cached[r].text] \in View
      BY <1>1, <2>1 DEF View
    <3> QED BY <1>1, <1>2, <3>1
  <2>3. now - seen[r][cached[r].text.version] < FloatTTL
    <3>1. cached[r].text.version \in Versions
      BY <2>1 DEF Text
    <3>2. seen[r][cached[r].text.version] \in Nat
      BY <1>1, <3>1
    <3>3. now - cached[r].at < FloatTTL
      BY <1>2 DEF TextFresh
    <3>4. FloatTTL \in Nat
      BY SourceConstants
    <3> HIDE DEF r
    <3> QED BY <1>1, <2>1, <3>2, <3>3, <3>4
  <2>4. Knows(w)'
    BY <1>1, <1>2, <2>1, <2>3, SourceConstants DEF Knows, Viewing, View
  <2>5. \A u \in Views : Knows(u)'
    BY <1>1, <1>2, <2>4, Stays
  <2> QED BY <1>1, <1>2, <2>2, <2>5 DEF SourceInv, SourceShape, Dated, Since
<1>3. CASE /\ trees' = FreshTrees
           /\ IF r \in DOMAIN FreshTrees
              THEN Ask(w, FreshTrees[r].version)
              ELSE view' = [view EXCEPT ![w].pc = "tree"]
  <2>1. /\ DOMAIN FreshTrees \subseteq DOMAIN trees
        /\ \A q \in DOMAIN FreshTrees : FreshTrees[q] = trees[q] /\ TreeFresh(trees[q])
    BY DEF FreshTrees
  <2>2. view' \in [Views -> View] /\ \A u \in Views : Knows(u)'
    <3>1. CASE r \in DOMAIN FreshTrees
      <4>1. /\ trees[r].version \in Versions /\ trees[r].at \in Nat
            /\ seen[r][trees[r].version] >= trees[r].at
            /\ now - trees[r].at < TreeTTL
        BY <2>1, <3>1 DEF SourceInv, SourceShape, Dated, Since, TreeRow, TreeFresh
      <4>2. now - seen[r][trees[r].version] < TreeTTL
        <5>1. seen[r][trees[r].version] \in Nat
          BY <1>1, <4>1
        <5> QED BY <1>1, <4>1, <5>1, SourceConstants
      <4>3. Ask(w, trees[r].version)
        BY <1>3, <2>1, <3>1
      <4> QED BY <1>1, <4>1, <4>2, <4>3, AskStep DEF Viewing
    <3>2. CASE r \notin DOMAIN FreshTrees
      <4>1. view' = [view EXCEPT ![w].pc = "tree"]
        BY <1>3, <3>2
      <4>2. view' \in [Views -> View]
        <5>1. view \in [Views -> View] /\ view[w] \in View
          BY <1>1
        <5>2. [view[w] EXCEPT !.pc = "tree"] \in View
          BY <5>1 DEF View, Fetching
        <5>3. view' = [view EXCEPT ![w] = [view[w] EXCEPT !.pc = "tree"]]
          BY <4>1, <5>1
        <5> QED BY <5>1, <5>2, <5>3
      <4>3. Knows(w)'
        BY <1>1, <4>1 DEF SourceInv, Knows, Viewing, View
      <4> QED BY <1>1, <4>1, <4>2, <4>3, Stays
    <3> QED BY <3>1, <3>2
  <2> QED BY <1>1, <1>3, <2>1, <2>2 DEF SourceInv, SourceShape, Dated, Since
<1> QED BY <1>2, <1>3 DEF LookUp, Repo

LEMMA FailStep ==
    ASSUME SourceInv, NEW w \in Views, ~Viewing(w, "idle"), view[w].text = NoText,
           Fails(w), UNCHANGED <<now, seen>>
    PROVE  view' \in [Views -> View] /\ \A u \in Views : Knows(u)'
<1>1. view' \in [Views -> View]
  <2>1. view \in [Views -> View] /\ view[w] \in View
    BY DEF SourceInv, SourceShape
  <2>2. [view[w] EXCEPT !.pc = "done", !.failed = TRUE] \in View
    BY <2>1 DEF View
  <2> QED BY <2>1, <2>2 DEF Fails
<1>2. Knows(w)'
  BY DEF SourceInv, SourceShape, Fails, Knows, Viewing, View
<1> QED BY <1>1, <1>2, Stays DEF SourceInv, SourceShape, Fails

\* The listing that is fetched is that of the head.
LEMMA InsertStep ==
    ASSUME SourceInv, NEW r \in Repos, InsertTree(r), UNCHANGED <<now, seen>>
    PROVE  /\ DOMAIN trees' \subseteq Repos
           /\ \A q \in DOMAIN trees' :
                 /\ trees'[q] \in TreeRow
                 /\ seen[q][trees'[q].version] >= trees'[q].at
<1>1. PICK evicted : trees' = [q \in (DOMAIN trees \ evicted) \union {r} |->
                                IF q = r THEN [at |-> now, version |-> head[r]]
                                ELSE trees[q]]
  BY DEF InsertTree
<1>2. /\ now \in Nat /\ head[r] \in Versions /\ seen[r][head[r]] = now
      /\ DOMAIN trees \subseteq Repos
      /\ \A q \in DOMAIN trees : /\ trees[q] \in TreeRow
                                  /\ seen[q][trees[q].version] >= trees[q].at
  BY DEF SourceInv, SourceShape, Dated, Since
<1>3. ASSUME NEW q \in DOMAIN trees'
      PROVE  trees'[q] \in TreeRow /\ seen[q][trees'[q].version] >= trees'[q].at
  <2>1. CASE q = r
    <3>1. trees'[q] = [at |-> now, version |-> head[r]]
      BY <1>1, <1>3, <2>1
    <3> QED BY <1>2, <2>1, <3>1 DEF TreeRow
  <2>2. CASE q # r
    <3>1. q \in DOMAIN trees /\ trees'[q] = trees[q]
      BY <1>1, <1>3, <2>2
    <3> QED BY <1>2, <3>1
  <2> QED BY <2>1, <2>2
<1> QED BY <1>1, <1>2, <1>3

LEMMA FetchTreeStep ==
    ASSUME SourceInv, NEW w \in Views, FetchTree(w), UNCHANGED now
    PROVE  SourceInv'
<1> DEFINE r == view[w].repo
<1>1. /\ view \in [Views -> View] /\ r \in Repos /\ Viewing(w, "tree")
      /\ view[w].text = NoText /\ ~Viewing(w, "idle")
      /\ now \in Nat /\ head[r] \in Versions /\ seen[r][head[r]] = now
      /\ UNCHANGED <<head, cached, seen>>
  BY DEF SourceInv, SourceShape, Dated, Knows, Viewing, FetchTree
<1>2. CASE Fails(w) /\ UNCHANGED trees
  <2>1. view' \in [Views -> View] /\ \A u \in Views : Knows(u)'
    BY <1>1, <1>2, FailStep
  <2> QED BY <1>1, <1>2, <2>1 DEF SourceInv, SourceShape, Dated, Since
<1>3. CASE InsertTree(r) /\ Ask(w, head[r])
  <2>1. now - seen[r][head[r]] < TreeTTL
    BY <1>1, SourceConstants
  <2>2. view' \in [Views -> View] /\ \A u \in Views : Knows(u)'
    BY <1>1, <1>3, <2>1, AskStep DEF Viewing
  <2>3. /\ DOMAIN trees' \subseteq Repos
        /\ \A q \in DOMAIN trees' : /\ trees'[q] \in TreeRow
                                     /\ seen[q][trees'[q].version] >= trees'[q].at
    BY <1>1, <1>3, InsertStep
  <2> QED BY <1>1, <2>2, <2>3 DEF SourceInv, SourceShape, Dated, Since
<1> QED BY <1>2, <1>3 DEF FetchTree, Repo

LEMMA FetchRawStep ==
    ASSUME SourceInv, NEW w \in Views, FetchRaw(w), UNCHANGED now
    PROVE  SourceInv'
<1> DEFINE r == view[w].repo
           v == head[r]
           text == [version |-> v, path |-> view[w].path]
<1>1. /\ view \in [Views -> View] /\ r \in Repos /\ Viewing(w, "raw")
      /\ view[w].text = NoText /\ ~view[w].failed /\ ~Viewing(w, "idle")
      /\ now \in Nat /\ v \in Versions /\ seen[r][v] = now
      /\ UNCHANGED <<head, cached, trees, seen>>
      /\ Listed(r, view[w].path)
  BY DEF SourceInv, SourceShape, Dated, Knows, Viewing, FetchRaw
<1>2. view' \in [Views -> View] /\ \A u \in Views : Knows(u)'
  <2>1. CASE Fails(w)
    BY <1>1, <2>1, FailStep
  <2>2. CASE /\ view[w].path \in History[v]
             /\ view' = [view EXCEPT ![w].pc = "store", ![w].text = text]
    <3>1. text \in Text
      BY <1>1, <2>2 DEF Text, Paths
    <3>2. view' \in [Views -> View]
      <4>1. view[w] \in View
        BY <1>1
      <4> HIDE DEF text
      <4>2. [view[w] EXCEPT !.pc = "store", !.text = text] \in View
        BY <3>1, <4>1 DEF View, Fetching
      <4> QED BY <1>1, <2>2, <4>2
    <3>3. Knows(w)'
      BY <1>1, <2>2, <3>1 DEF Knows, Viewing, View
    <3> QED BY <1>1, <2>2, <3>2, <3>3, Stays
  <2>3. CASE view[w].path \notin History[v] /\ view' = [view EXCEPT ![w].pc = "done"]
    <3>1. view' \in [Views -> View]
      BY <1>1, <2>3 DEF View
    <3>2. Missed(r)'
      BY <1>1, <2>3 DEF Missed, Listed
    <3>3. Knows(w)'
      BY <1>1, <2>3, <3>2 DEF Knows, Viewing, View
    <3> QED BY <1>1, <2>3, <3>1, <3>3, Stays
  <2> QED BY <2>1, <2>2, <2>3 DEF FetchRaw, Repo
<1> QED BY <1>1, <1>2 DEF SourceInv, SourceShape, Dated, Since

LEMMA StoreStep ==
    ASSUME SourceInv, NEW w \in Views, StoreText(w), UNCHANGED now
    PROVE  SourceInv'
<1> DEFINE r == view[w].repo
           text == view[w].text
<1>1. /\ view \in [Views -> View] /\ r \in Repos /\ now \in Nat
      /\ text \in Text /\ seen[r][text.version] = now
      /\ UNCHANGED <<head, trees, seen>>
      /\ view' = [view EXCEPT ![w].pc = "done"]
  BY DEF SourceInv, SourceShape, Knows, Viewing, StoreText
<1>2. view' \in [Views -> View]
  BY <1>1 DEF View
<1>3. Knows(w)'
  BY <1>1, SourceConstants DEF Knows, Viewing, View
<1>4. \A u \in Views : Knows(u)'
  BY <1>1, <1>3, Stays
<1>5. /\ DOMAIN cached' = Repos
      /\ \A q \in Repos : cached'[q] # NoText =>
            cached'[q] \in TextRow /\ seen[q][cached'[q].text.version] >= cached'[q].at
  <2>1. CASE UNCHANGED cached
    BY <2>1 DEF SourceInv, SourceShape, Dated, Since
  <2>2. CASE cached' = [cached EXCEPT ![r] = [at |-> now, text |-> text]]
    <3>1. [at |-> now, text |-> text] \in TextRow
      BY <1>1 DEF TextRow
    <3>2. ASSUME NEW q \in Repos, cached'[q] # NoText
          PROVE  cached'[q] \in TextRow /\ seen[q][cached'[q].text.version] >= cached'[q].at
      <4>1. CASE q = r
        BY <1>1, <2>2, <3>1, <4>1 DEF SourceInv, SourceShape
      <4>2. CASE q # r
        BY <1>1, <2>2, <3>2, <4>2 DEF SourceInv, SourceShape, Dated, Since
      <4> QED BY <4>1, <4>2
    <3> QED BY <2>2, <3>2 DEF SourceInv, SourceShape
  <2> QED BY <2>1, <2>2 DEF StoreText, Repo
<1> QED BY <1>1, <1>2, <1>4, <1>5 DEF SourceInv, SourceShape, Dated, Since

LEMMA ShowStep ==
    ASSUME SourceInv, NEW w \in Views, Show(w), UNCHANGED now
    PROVE  SourceInv'
<1>1. view' \in [Views -> View]
  BY DEF SourceInv, SourceShape, Show, View, Blank, Fetching
<1>2. Knows(w)'
  BY DEF SourceInv, SourceShape, Show, Knows, Viewing, Blank
<1>3. \A u \in Views : Knows(u)'
  BY <1>2, Stays DEF SourceInv, SourceShape, Show
<1> QED BY <1>1, <1>3 DEF SourceInv, SourceShape, Dated, Since, Show

\* What is seen to be the head now only adds to what was seen.
LEMMA PushStep ==
    ASSUME SourceInv, NEW r \in Repos, Push(r), UNCHANGED now
    PROVE  SourceInv'
<1>1. /\ now \in Nat /\ head \in [Repos -> Versions]
      /\ seen \in [Repos -> [Versions -> Nat]]
      /\ head[r] \in Nat /\ head[r] + 1 \in Versions
      /\ head' = [head EXCEPT ![r] = head[r] + 1]
      /\ seen' = [seen EXCEPT ![r] = [seen[r] EXCEPT ![head[r]] = now,
                                                    ![head[r] + 1] = now]]
      /\ UNCHANGED <<cached, trees, view>>
  BY SourceConstants DEF SourceInv, SourceShape, Push, Versions
<1>2. /\ head' \in [Repos -> Versions]
      /\ seen' \in [Repos -> [Versions -> Nat]]
  BY <1>1
<1>3. ASSUME NEW q \in Repos
      PROVE  /\ seen'[q][head'[q]] = now
             /\ \A v \in Versions : /\ seen'[q][v] \in {seen[q][v], now}
                                     /\ seen[q][v] \in Nat /\ seen[q][v] <= now
                                     /\ seen'[q][v] >= seen[q][v] /\ seen'[q][v] <= now
  <2>1. \A v \in Versions : seen'[q][v] \in {seen[q][v], now}
    BY <1>1
  <2>2. \A v \in Versions : seen[q][v] \in Nat /\ seen[q][v] <= now
    BY <1>1 DEF SourceInv, Dated
  <2>3. seen'[q][head'[q]] = now
    BY <1>1 DEF SourceInv, Dated
  <2> QED BY <1>1, <2>1, <2>2, <2>3
<1>4. Dated'
  <2>1. ASSUME NEW q \in Repos, cached[q] # NoText
        PROVE  seen'[q][cached[q].text.version] >= cached[q].at
    <3>1. /\ cached[q].at \in Nat /\ cached[q].text.version \in Versions
          /\ seen[q][cached[q].text.version] >= cached[q].at
      BY <2>1 DEF SourceInv, SourceShape, Dated, Since, TextRow, Text
    <3> QED BY <1>1, <1>3, <3>1
  <2>2. ASSUME NEW q \in DOMAIN trees
        PROVE  seen'[q][trees[q].version] >= trees[q].at
    <3>1. /\ q \in Repos /\ trees[q].at \in Nat /\ trees[q].version \in Versions
          /\ seen[q][trees[q].version] >= trees[q].at
      BY <2>2 DEF SourceInv, SourceShape, Dated, Since, TreeRow
    <3> QED BY <1>1, <1>3, <3>1
  <2> QED BY <1>1, <1>3, <2>1, <2>2 DEF Dated, Since
<1>5. ASSUME NEW w \in Views PROVE Knows(w)'
  <2>1. Knows(w) /\ view' = view
    BY <1>1 DEF SourceInv
  <2> DEFINE q == view[w].repo
  <2>2. CASE Viewing(w, "idle")
    BY <2>1, <2>2 DEF Knows, Viewing
  <2>3. CASE ~Viewing(w, "idle")
    <3>1. q \in Repos
      BY <2>1, <2>3 DEF Knows
    <3>2. \A v \in Versions : seen[q][v] = now => seen'[q][v] = now
      BY <1>1, <1>3, <3>1
    <3>3. \A v \in Versions, ttl \in Nat : now - seen[q][v] < ttl =>
                                              now - seen'[q][v] < ttl
      BY <1>1, <1>2, <1>3, <3>1
    <3>4. \A p : Listed(q, p) => Listed(q, p)'
      BY <1>1, <3>3, SourceConstants DEF Listed
    <3>5. Missed(q) => Missed(q)'
      BY <1>1, <3>2, <3>3, SourceConstants DEF Missed
    <3>6. \A text \in Text : text.version \in Versions
      BY DEF Text
    <3> QED BY <2>1, <2>3, <3>1, <3>2, <3>3, <3>4, <3>5, <3>6, SourceConstants
            DEF Knows, Viewing
  <2> QED BY <2>2, <2>3
<1> QED BY <1>1, <1>2, <1>4, <1>5 DEF SourceInv, SourceShape

LEMMA SweepStep ==
    ASSUME SourceInv, SweepTexts, UNCHANGED now
    PROVE  SourceInv'
<1>1. /\ DOMAIN cached' = Repos
      /\ \A q \in Repos : cached'[q] \in {NoText, cached[q]}
  BY DEF SweepTexts
<1>2. \A u \in Views : Knows(u)'
  BY Stays DEF SweepTexts
<1> QED BY <1>1, <1>2 DEF SourceInv, SourceShape, Dated, Since, SweepTexts

\* Time passes only while no request is between an answer and its use.
LEMMA SourceTickStep ==
    ASSUME SourceInv, SourceTick
    PROVE  SourceInv'
<1>1. /\ now \in Nat /\ now' = now + 1 /\ head \in [Repos -> Versions]
      /\ seen \in [Repos -> [Versions -> Nat]]
      /\ seen' = [r \in Repos |-> [seen[r] EXCEPT ![head[r]] = now + 1]]
      /\ UNCHANGED <<head, cached, trees, view>>
      /\ \A w \in Views : view[w].pc \notin {"raw", "store", "done"}
  BY DEF SourceInv, SourceShape, SourceTick, Passes
<1>2. seen' \in [Repos -> [Versions -> Nat]]
  BY <1>1
<1>3. ASSUME NEW q \in Repos
      PROVE  /\ seen'[q][head[q]] = now'
             /\ \A v \in Versions : /\ seen[q][v] \in Nat /\ seen'[q][v] \in Nat
                                     /\ seen'[q][v] >= seen[q][v]
                                     /\ seen'[q][v] <= now'
  <2>1. \A v \in Versions : seen'[q][v] \in {seen[q][v], now + 1}
    BY <1>1
  <2>2. \A v \in Versions : seen[q][v] \in Nat /\ seen[q][v] <= now
    BY <1>1 DEF SourceInv, Dated
  <2>3. seen'[q][head[q]] = now'
    BY <1>1
  <2> QED BY <1>1, <1>2, <2>1, <2>2, <2>3
<1>4. Dated'
  <2>1. ASSUME NEW q \in Repos, cached[q] # NoText
        PROVE  seen'[q][cached[q].text.version] >= cached[q].at
    <3>1. /\ cached[q].at \in Nat /\ cached[q].text.version \in Versions
          /\ seen[q][cached[q].text.version] >= cached[q].at
      BY <2>1 DEF SourceInv, SourceShape, Dated, Since, TextRow, Text
    <3> QED BY <1>1, <1>3, <3>1
  <2>2. ASSUME NEW q \in DOMAIN trees
        PROVE  seen'[q][trees[q].version] >= trees[q].at
    <3>1. /\ q \in Repos /\ trees[q].at \in Nat /\ trees[q].version \in Versions
          /\ seen[q][trees[q].version] >= trees[q].at
      BY <2>2 DEF SourceInv, SourceShape, Dated, Since, TreeRow
    <3> QED BY <1>1, <1>3, <3>1
  <2> QED BY <1>1, <1>3, <2>1, <2>2 DEF Dated, Since
<1>5. ASSUME NEW w \in Views PROVE Knows(w)'
  BY <1>1 DEF SourceInv, Knows, Viewing
<1> QED BY <1>1, <1>2, <1>4, <1>5 DEF SourceInv, SourceShape

LEMMA SourceStep == SourceInv /\ [SourceNext]_<<now, sourcevars>> => SourceInv'
<1> SUFFICES ASSUME SourceInv, [SourceNext]_<<now, sourcevars>> PROVE SourceInv'
  OBVIOUS
<1>1. CASE UNCHANGED <<now, sourcevars>>
  <2>1. \A u \in Views : Knows(u)'
    BY <1>1, Stays DEF sourcevars
  <2> QED BY <1>1, <2>1 DEF SourceInv, SourceShape, Dated, Since, sourcevars
<1>2. CASE SourceNext
  BY <1>2, OpenStep, LookUpStep, FetchTreeStep, FetchRawStep, StoreStep, ShowStep,
     PushStep, SweepStep, SourceTickStep DEF SourceNext
<1> QED BY <1>1, <1>2

-----------------------------------------------------------------------------
(* Theorems about the source pane *)

\* Every reachable state of the source pane and its caches is well typed: a row
\* holds a text of the repository, a listing one of its versions.
THEOREM SourceTypes == SourceSpec => []SourceTypeOK
<1>1. SourceInv => SourceTypeOK
  BY DEF SourceInv, SourceShape, SourceTypeOK, TextRow, TreeRow
<1> QED BY <1>1, InitSource, SourceStep, PTL DEF SourceSpec

\* A text that is shown was the head within the lifetime of a cached text,
\* whoever stored it and however the repository moved meanwhile.
THEOREM SourceStaysRecent == SourceSpec => []SourceIsRecent
<1>1. SourceInv => SourceIsRecent
  BY DEF SourceInv, Knows, SourceIsRecent
<1> QED BY <1>1, InitSource, SourceStep, PTL DEF SourceSpec

\* A file is missed only if a version as recent as a listing may be has it not,
\* or elsewhere than the head has it.
THEOREM MissesHaveCause == SourceSpec => []MissHasCause
<1>1. SourceInv => MissHasCause
  BY DEF SourceInv, Knows, Missed, MissHasCause
<1> QED BY <1>1, InitSource, SourceStep, PTL DEF SourceSpec

-----------------------------------------------------------------------------
(* The instance *)

\* The component in focus keeps its invariant; the others keep their state.
AccessInv ==
    /\ SessionsTypeOK /\ SourceTypeOK /\ FormsInv
    /\ focus \in {"login", "write"} => SessionsInv
    /\ focus = "source" => SourceInv

LEMMA InitAccess == MCInit => AccessInv
BY InitSessions, InitSource, InitForms
   DEF MCInit, AccessInv, SessionsInv, SourceInv, SourceShape, SourceTypeOK, TextRow, TreeRow

LEMMA AccessStep ==
    AccessInv /\ [MCNext]_<<sessionvars, sourcevars, csrfvars, focus>> => AccessInv'
<1> SUFFICES ASSUME AccessInv, [MCNext]_<<sessionvars, sourcevars, csrfvars, focus>>
             PROVE  AccessInv'
  OBVIOUS
<1>1. UNCHANGED csrfvars => FormsInv'
  BY FormsInductive DEF AccessInv
<1>2. UNCHANGED sourcevars => SourceTypeOK'
  BY DEF AccessInv, SourceTypeOK, sourcevars
<1>3. UNCHANGED <<svars>> /\ now' \in Nat => SessionsTypeOK'
  BY DEF AccessInv, SessionsTypeOK, svars
<1>4. SourceInv' => SourceTypeOK' /\ now' \in Nat
  BY DEF SourceInv, SourceShape, SourceTypeOK, TextRow, TreeRow
<1>5. now \in Nat
  BY DEF AccessInv, SessionsTypeOK
<1>6. CASE /\ focus \in {"login", "write"} /\ UNCHANGED focus
           /\ SessionsNext
           /\ UNCHANGED <<sourcevars, csrfvars>>
  <2>1. SessionsInv'
    BY <1>6, SessionsInductive DEF AccessInv
  <2> QED BY <1>1, <1>2, <1>6, <2>1 DEF AccessInv, SessionsInv
<1>7. CASE /\ focus = "source" /\ UNCHANGED focus
           /\ SourceNext
           /\ UNCHANGED <<svars, csrfvars>>
  <2>1. SourceInv'
    BY <1>7, SourceStep DEF AccessInv
  <2> QED BY <1>1, <1>3, <1>4, <1>7, <2>1 DEF AccessInv
<1>8. CASE /\ focus = "csrf" /\ UNCHANGED focus
           /\ CsrfNext
           /\ UNCHANGED <<sessionvars, sourcevars>>
  <2>1. FormsInv'
    BY <1>8, FormsInductive DEF AccessInv
  <2> QED BY <1>2, <1>3, <1>5, <1>8, <2>1 DEF AccessInv, sessionvars
<1>9. CASE UNCHANGED <<sessionvars, sourcevars, csrfvars, focus>>
  <2>1. focus \in {"login", "write"} => SessionsInv'
    BY <1>9, SessionsInductive DEF AccessInv
  <2>2. focus = "source" => SourceInv'
    BY <1>9, SourceStep DEF AccessInv, sessionvars
  <2> QED BY <1>1, <1>2, <1>3, <1>5, <1>9, <2>1, <2>2 DEF AccessInv, sessionvars
<1> QED BY <1>6, <1>7, <1>8, <1>9 DEF MCNext

\* Every reachable state of the instance is well typed, whichever component
\* its behaviour is about.
THEOREM AccessTypes == MCSpec => []AccessTypeOK
<1>1. AccessInv => AccessTypeOK
  BY DEF AccessInv, FormsInv, AccessTypeOK
<1> QED BY <1>1, InitAccess, AccessStep, PTL DEF MCSpec
=============================================================================

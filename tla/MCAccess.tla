------------------------------ MODULE MCAccess ------------------------------
(***************************************************************************)
(* Instances for TLC of what guards the dashboard and of the source pane.  *)
(* The components share no state but the clock, so each behaviour takes    *)
(* the steps of one of them: their product would add no new ones.          *)
(***************************************************************************)
EXTENDS Sessions, SourceView, Csrf

VARIABLE focus

\* Sessions: logins, logouts and restarts; or, for a session of the first
\* tick, permissions that come and go.
LoginOnly ==
    /\ \A r \in Requests : req[r].kind # "write"
    /\ access = [u \in Users |-> TRUE]
WriteOnly ==
    /\ \A r \in Requests :
          req[r] = Quiet \/ req[r].kind = IF now = 0 THEN "callback" ELSE "write"
    /\ secret = NoSecret
    /\ now = 0 => sweeper = "sleep"
Focused ==
    /\ focus = "login" => LoginOnly
    /\ focus = "write" => WriteOnly

\* The file is deleted, which leaves others of its name; then it is back, with
\* a copy under src/main.
Moves ==
    << {<<"a", "F">>},
       {<<"b", "F">>, <<"c", "b", "F">>},
       {<<"a", "F">>, <<"src", "main", "a", "F">>, <<"b", "F">>, <<"c", "b", "F">>} >>
ReportedFile == <<"a", "F">>
SrcMain == <<"src", "main">>

MCInit ==
    /\ focus \in {"login", "write", "source", "csrf"}
    /\ SessionsInit /\ SourceInit /\ CsrfInit
    /\ focus \in {"source", "csrf"} => secret = NoSecret /\ \A u \in Users : access[u]
    /\ Focused

MCNext ==
    /\ \/ /\ focus \in {"login", "write"}
          /\ SessionsNext
          /\ UNCHANGED <<sourcevars, csrfvars>>
       \/ /\ focus = "source"
          /\ SourceNext
          /\ UNCHANGED <<svars, csrfvars>>
       \/ /\ focus = "csrf"
          /\ CsrfNext
          /\ UNCHANGED <<sessionvars, sourcevars>>
    /\ UNCHANGED focus
    /\ Focused'

MCSpec == MCInit /\ [][MCNext]_<<sessionvars, sourcevars, csrfvars, focus>>
                 /\ SweepFairness

\* Every variable keeps to its type.
AccessTypeOK == SessionsTypeOK /\ SourceTypeOK /\ CsrfTypeOK
=============================================================================

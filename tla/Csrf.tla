-------------------------------- MODULE Csrf --------------------------------
(***************************************************************************)
(* The tokens of the settings forms (routes/csrf.rs), with OAuth enabled:  *)
(* a page carries a signed token in its form and, if the request brought   *)
(* no valid one, in a new cookie; a form is accepted if its token is the   *)
(* cookie's and its signature is valid under the server's key.  One        *)
(* browser with several tabs, whose requests overlap.                      *)
(***************************************************************************)
EXTENDS Naturals

CONSTANTS
    Tabs,
    KeyConfigured,   \* is OMNIVORE_SECRET_KEY set?  else a key per process
    MaxTokens,       \* bound: tokens ever minted
    MaxBoots,        \* bound: starts of the server
    NoToken

ASSUME CsrfAssumption ==
    /\ KeyConfigured \in BOOLEAN
    /\ MaxTokens \in Nat
    /\ MaxBoots \in Nat \ {0}
    /\ NoToken \notin Nat \X Nat

VARIABLES
    boot,     \* the running process
    minted,   \* tokens so far
    cookie,   \* the browser's cookie
    tab       \* the tabs and the request each has under way

csrfvars == <<boot, minted, cookie, tab>>

\* A token is its random half and the key its signature was made with.
Token == (1..MaxTokens) \X (0..MaxBoots)
Tab == [state: {"closed", "loading", "issued", "open", "posted", "accepted",
                "rejected"},
        sent: Token \union {NoToken},    \* the cookie the request was sent with
        form: Token \union {NoToken},    \* the token in the form
        raced: BOOLEAN]   \* auxiliary: another page was loading without a cookie

CsrfTypeOK ==
    /\ boot \in 1..MaxBoots
    /\ minted \in 0..MaxTokens
    /\ cookie \in Token \union {NoToken}
    /\ tab \in [Tabs -> Tab]

Closed == [state |-> "closed", sent |-> NoToken, form |-> NoToken, raced |-> FALSE]

CsrfInit ==
    /\ boot = 1
    /\ minted = 0
    /\ cookie = NoToken
    /\ tab = [t \in Tabs |-> Closed]

SigningKey == IF KeyConfigured THEN 0 ELSE boot
Signed(token) == token # NoToken /\ token[2] = SigningKey

\* A page under way whose request brought no valid token.
Bare(t) == tab[t].state \in {"loading", "issued"} /\ ~Signed(tab[t].sent)

\* The browser asks for a settings page.
Load(t) ==
    /\ tab[t].state \in {"closed", "open"}
    /\ tab' = [u \in Tabs |->
                 IF u = t
                 THEN [Closed EXCEPT !.state = "loading", !.sent = cookie,
                                     !.raced = \E v \in Tabs \ {t} : Bare(v)]
                 ELSE [tab[u] EXCEPT !.raced = @ \/ (Bare(u) /\ ~Signed(cookie))]]
    /\ UNCHANGED <<boot, minted, cookie>>

\* Mutant of Reuses: every page has a token of its own.
ReusesNever(token) == FALSE

\* A valid token is handed out again, so that tabs agree.
Reuses(token) == Signed(token)

\* issue
Issue(t) ==
    /\ tab[t].state = "loading"
    /\ \/ /\ Reuses(tab[t].sent)
          /\ tab' = [tab EXCEPT ![t].state = "issued", ![t].form = tab[t].sent]
          /\ UNCHANGED minted
       \/ /\ ~Reuses(tab[t].sent)
          /\ minted < MaxTokens
          /\ minted' = minted + 1
          /\ tab' = [tab EXCEPT ![t].state = "issued",
                                ![t].form = <<minted + 1, SigningKey>>]
    /\ UNCHANGED <<boot, cookie>>

\* The page arrives; only a new token comes with a cookie.
Render(t) ==
    /\ tab[t].state = "issued"
    /\ cookie' = IF tab[t].form = tab[t].sent THEN cookie ELSE tab[t].form
    /\ tab' = [tab EXCEPT ![t].state = "open"]
    /\ UNCHANGED <<boot, minted>>

Submit(t) ==
    /\ tab[t].state = "open"
    /\ tab' = [tab EXCEPT ![t].state = "posted", ![t].sent = cookie]
    /\ UNCHANGED <<boot, minted, cookie>>

\* verify
Verify(t) ==
    /\ tab[t].state = "posted"
    /\ tab' = [tab EXCEPT ![t].state =
                 IF Signed(tab[t].sent) /\ tab[t].sent = tab[t].form
                 THEN "accepted" ELSE "rejected"]
    /\ UNCHANGED <<boot, minted, cookie>>

Close(t) ==
    /\ tab[t].state \in {"accepted", "rejected"}
    /\ tab' = [tab EXCEPT ![t] = Closed]
    /\ UNCHANGED <<boot, minted, cookie>>

\* The server starts again; requests under way are lost.
Reboot ==
    /\ boot < MaxBoots
    /\ boot' = boot + 1
    /\ tab' = [t \in Tabs |-> IF tab[t].state = "open" THEN tab[t] ELSE Closed]
    /\ UNCHANGED <<minted, cookie>>

CsrfNext ==
    \/ \E t \in Tabs :
          Load(t) \/ Issue(t) \/ Render(t) \/ Submit(t) \/ Verify(t) \/ Close(t)
    \/ Reboot

CsrfSpec == CsrfInit /\ [][CsrfNext]_csrfvars

\* A form that a user filled in is accepted, whatever other tabs were opened,
\* unless the key changed since its page was made (a restart without a
\* configured key) or it was loaded while
\* another page was, whose request had no valid cookie yet.
FormsStayGood ==
    \A t \in Tabs : tab[t].state = "rejected" =>
        tab[t].raced \/ ~Signed(tab[t].form)
=============================================================================

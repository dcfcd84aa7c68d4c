---------------------------- MODULE RateLimiter ----------------------------
(***************************************************************************)
(* The limiter in front of ingest (routes/rate_limit.rs): one fixed-window *)
(* counter per client in a table that is held in memory under a mutex, so  *)
(* a check is one step.  Time is counted in ticks.                         *)
(***************************************************************************)
EXTENDS Naturals, FiniteSets

CONSTANTS
    Clients,      \* what client_key tells apart: addresses
    Limits,       \* the values of OMNIVORE_INGEST_RATE_LIMIT considered
    Window,       \* WINDOW, in ticks
    MaxTracked,   \* MAX_TRACKED_CLIENTS
    Horizon,      \* bound: the last tick
    MaxRecent     \* bound: requests of a window

ASSUME LimiterAssumption ==
    /\ Limits \subseteq Nat
    /\ Window \in Nat \ {0}
    /\ MaxTracked \in Nat
    /\ Horizon \in Nat
    /\ MaxRecent \in Nat

VARIABLES
    now,       \* Instant::now()
    limit,     \* max_requests(), fixed for the life of the process
    buckets,   \* BUCKETS: client -> window_started, count
    recent     \* auxiliary: the requests of the last Window ticks

limiter == <<now, limit, buckets, recent>>

Verdicts == {"counted", "untracked", "unlimited", "refused"}
Bucket == [started: Nat, count: Nat]
\* nth: how many its client sent within a window, this one included.
Request == [client: Clients, at: Nat, nth: Nat, verdict: Verdicts]

LimiterTypeOK ==
    /\ now \in Nat
    /\ limit \in Limits
    /\ DOMAIN buckets \subseteq Clients
    /\ \A c \in DOMAIN buckets : buckets[c] \in Bucket
    /\ recent \subseteq Request

NoBuckets == [c \in {} |-> [started |-> 0, count |-> 0]]

LimiterInit ==
    /\ now = 0
    /\ limit \in Limits
    /\ buckets = NoBuckets
    /\ recent = {}

-----------------------------------------------------------------------------
Fresh(b) == now - b.started < Window

\* buckets.retain
Retained ==
    [c \in {c \in DOMAIN buckets : Fresh(buckets[c])} |-> buckets[c]]

\* Mutant of Full: one client too many.
FullTooLate(c) ==
    /\ Cardinality(DOMAIN Retained) > MaxTracked
    /\ c \notin DOMAIN Retained

\* The table is at its limit and does not hold this client.
Full(c) ==
    /\ Cardinality(DOMAIN Retained) >= MaxTracked
    /\ c \notin DOMAIN Retained

\* Mutant of CountOf: an entry is replaced where it should be found.
CountOfNew(c) == 1

\* entry().or_insert, then count += 1.  After the retain no entry is old, so
\* the reset that follows the insertion in the code never applies.
CountOf(c) == IF c \in DOMAIN Retained THEN Retained[c].count + 1 ELSE 1

\* Mutant of StartOf: the start of a window is moved back.
StartOfEarlier(c) == IF c \in DOMAIN Retained THEN Retained[c].started ELSE now - 1

StartOf(c) == IF c \in DOMAIN Retained THEN Retained[c].started ELSE now

Sent(c) == {e \in recent : e.client = c}

Record(c, verdict) ==
    /\ Cardinality(recent) < MaxRecent
    /\ recent' = recent \union {[client |-> c, at |-> now,
                                 nth |-> Cardinality(Sent(c)) + 1, verdict |-> verdict]}

\* check(client) lets the request pass with this verdict, or refuses it.
Check(c, verdict) ==
    /\ \/ /\ limit = 0
          /\ verdict = "unlimited"
          /\ UNCHANGED <<buckets, recent>>
       \/ /\ limit > 0
          /\ Full(c)
          /\ verdict = "untracked"
          /\ buckets' = Retained
          /\ Record(c, verdict)
       \/ /\ limit > 0
          /\ ~Full(c)
          /\ verdict = IF CountOf(c) > limit THEN "refused" ELSE "counted"
          /\ buckets' = [d \in DOMAIN Retained \union {c} |->
                           IF d = c
                           THEN [started |-> StartOf(c), count |-> CountOf(c)]
                           ELSE Retained[d]]
          /\ Record(c, verdict)
    /\ UNCHANGED <<now, limit>>

\* Time passes, as far as a limit makes it matter; the auxiliary set forgets
\* what left the window.
Tick ==
    /\ limit > 0
    /\ now < Horizon
    /\ now' = now + 1
    /\ recent' = {e \in recent : e.at + Window > now'}
    /\ UNCHANGED <<limit, buckets>>

\* The table lives in the process.
LimiterRestart ==
    /\ buckets' = NoBuckets
    /\ recent' = {}
    /\ UNCHANGED <<now, limit>>

-----------------------------------------------------------------------------
Counted(c) == {e \in Sent(c) : e.verdict = "counted"}

\* A client that is tracked gets at most twice the limit through in any
\* stretch of one window (the end of a counter and the start of the next).
AtMostTwice == \A c \in Clients : Cardinality(Counted(c)) <= 2 * limit

\* Whoever is refused did send more than the limit within one window: a
\* window that ended, or other clients, never use up a client's share.
RefusedForCause == \A e \in recent : e.verdict = "refused" => e.nth > limit

\* The limit binds: never more than two quotas in one window, and nobody is
\* turned away before using up one (RateLimiter::check).
QuotaKept == AtMostTwice /\ RefusedForCause

\* However many clients there are, the table stays within its cap.
TrackedBounded == Cardinality(DOMAIN buckets) <= MaxTracked
=============================================================================

----------------------------- MODULE MCDelivery -----------------------------
(* Instance of Delivery for TLC. *)
EXTENDS Delivery

CONSTANTS push, again, build, runner, other, main, feature

\* A pull request's job, the same for its next push, and a build of the base
\* branch by the Gradle task; the first two share a runner's address.
DeliveryPlan ==
    [j \in Jobs |->
       CASE j = push  -> [kind |-> "action", files |-> 2, branch |-> feature,
                          base |-> main, address |-> runner,
                          comments |-> TRUE, token |-> TRUE, runs |-> 1]
         [] j = again -> [kind |-> "action", files |-> 1, branch |-> feature,
                          base |-> main, address |-> runner,
                          comments |-> TRUE, token |-> FALSE, runs |-> 2]
         [] j = build -> [kind |-> "gradle", files |-> 2, branch |-> main,
                          base |-> main, address |-> other,
                          comments |-> FALSE, token |-> FALSE, runs |-> 1]]

\* The second file of a job is another tool's report.
DeliverySeries == [u \in Uploads |-> IF u[3] = 2 THEN "kover" ELSE "agent"]

\* What has nothing to do with each other is kept apart: the limiter from jobs
\* that comment (they meet in the answer 429 alone), and what disturbs comments
\* (a second file, other people's) from what disturbs the base branch's builds.
Apart ==
    /\ limit > 0 => \A j \in Jobs : Plan[j].comments => job[j].run = 0
    /\ IF job[build].run = 0 THEN \A u \in Uploads : gone[u] # "deleted"
       ELSE job[push].run = 0 /\ \A k \in DOMAIN comments : Marked(k)
MCNext == Next /\ Apart'
MCSpec == Init /\ [][MCNext]_vars /\ Fairness
=============================================================================

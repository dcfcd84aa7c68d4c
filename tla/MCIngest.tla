------------------------------ MODULE MCIngest ------------------------------
(* Instances of Ingest for TLC. *)
EXTENDS Ingest, TLC

CONSTANTS p1, p2, s1, s2, main, feature

Sym == Permutations(Requests)

On(line, branch) ==
    [ratchet |-> TRUE, floor |-> [line |-> line, branch |-> branch]]
Upload(p, s, b, line, branch) ==
    [op |-> "ingest", project |-> p, series |-> s, branch |-> b,
     rate |-> [line |-> line, branch |-> branch]]
Declare(p) ==
    [op |-> "create", project |-> p, series |-> s1, branch |-> NoBranch,
     rate |-> [line |-> 0, branch |-> 0]]

OneFull == [full |-> 1, summary |-> 1]
NoForms == {}
SomeRetention == {OneFull}

\* Ratchet: two release builds each better than the other in one metric, a
\* release build no better than any, a feature build worst and best.
RatchetCalls ==
    {Upload(p1, s1, main, 2, 0), Upload(p1, s1, main, 1, 1),
     Upload(p1, s1, NoBranch, 0, 0), Upload(p1, s1, feature, 0, 2)}
RatchetProjects == {[p \in ProjectIds |-> On(NoFloor, 0)]}

\* Administrators: a project that is ratcheted, deleted and created again.
AdminCalls ==
    {Upload(p1, s1, main, 1, 1), Upload(p1, s1, feature, 2, 2), Declare(p1)}
AdminProjects == {[p \in ProjectIds |-> On(2, NoFloor)]}
AdminForms ==
    {[enabled |-> TRUE, floor |-> [line |-> 0, branch |-> NoFloor]],
     [enabled |-> FALSE, floor |-> [line |-> NoFloor, branch |-> NoFloor]]}
AdminRetention == {[full |-> Blank, summary |-> -1]}

\* Closed mode.
ClosedCalls == {Upload(p1, s1, main, 1, 1), Declare(p1)}
ClosedProjects ==
    {[p \in ProjectIds |-> NewProject], [p \in ProjectIds |-> NoProject]}

\* Retention: two series of one project.
RetentionCalls == {Upload(p1, s1, main, 1, 1), Upload(p1, s2, main, 1, 1)}
RetentionProjects == {[p \in ProjectIds |-> NewProject]}
RetentionLimits ==
    {[full |-> 1, summary |-> 1], [full |-> 1, summary |-> 0],
     [full |-> 2, summary |-> 1]}
\* An administrator asked to keep everything.
KeepEverything == {[full |-> IntMax, summary |-> 1]}
\* An administrator keeps more full snapshots than the default.
WideRetention == {[full |-> 2, summary |-> 1]}
=============================================================================

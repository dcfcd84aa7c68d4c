--------------------------- MODULE RatchetContract ---------------------------
(***************************************************************************)
(* What the coverage ratchet promises, with no request, no await and no    *)
(* database in sight: a project's floors change when its settings form is  *)
(* saved, and else only by a build of the release line, which takes both   *)
(* floors up to the better of what they were and what it achieved.  Ingest *)
(* implements this specification.                                          *)
(***************************************************************************)
EXTENDS Integers

CONSTANTS
    ProjectIds, Metrics,
    NoProject, NoFloor,
    Releases,       \* builds that may raise a floor: [project, rate]
    Forms,          \* what the settings form may hold
    Removable,      \* projects that may be deleted
    Start           \* the initial values of projects

VARIABLE projects   \* projects[p]: NoProject or [ratchet, floor]

Init == projects \in Start

Fresh == [ratchet |-> FALSE, floor |-> [m \in Metrics |-> NoFloor]]

Create(p) ==
    /\ projects[p] = NoProject
    /\ projects' = [projects EXCEPT ![p] = Fresh]

Remove(p) == projects' = [projects EXCEPT ![p] = NoProject]

Configure(p, f) ==
    /\ projects[p] # NoProject
    /\ projects' = [projects EXCEPT ![p] =
                        [ratchet |-> f.enabled, floor |-> f.floor]]

\* The better of a floor, where an unset one counts as 0, and a rate.
Best(floor, rate) ==
    LET base == IF floor = NoFloor THEN 0 ELSE floor
    IN  IF base >= rate THEN base ELSE rate

Raise(b) ==
    /\ projects[b.project] # NoProject
    /\ projects[b.project].ratchet
    /\ projects' = [projects EXCEPT ![b.project].floor =
          [m \in Metrics |->
             Best(projects[b.project].floor[m], b.rate[m])]]

Next ==
    \/ \E p \in ProjectIds : Create(p)
    \/ \E p \in Removable : Remove(p)
    \/ \E p \in ProjectIds, f \in Forms : Configure(p, f)
    \/ \E b \in Releases : Raise(b)

Spec == Init /\ [][Next]_projects
=============================================================================

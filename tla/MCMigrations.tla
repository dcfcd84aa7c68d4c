----------------------------- MODULE MCMigrations -----------------------------
(* Instances of Migrations for TLC. *)
EXTENDS Migrations, TLC

Sym == Permutations(Servers)

ColumnsUpTo(gs) == UNION {ColumnsOf(Migrations[g]) : g \in gs}

\* A fresh file; a release that had some of the guards' columns, any of them;
\* and the release the regression test of the repository builds.
Fresh == [tables |-> {}, columns |-> {}]
Legacy == [tables |-> AllTables, columns |-> {"github_repo", "source_root"}]
First == [tables |-> AllTables, columns |-> {}]
Previous == [tables |-> AllTables, columns |-> ColumnsUpTo(1..9)]
NoSettings ==
    [tables |-> {"projects", "coverage_snapshots"}, columns |-> ColumnsUpTo(2..5)]

SomeReleases == {Fresh, Legacy, First, Previous, NoSettings}
AnyRelease ==
    {[tables |-> AllTables, columns |-> ColumnsUpTo(gs)] :
        gs \in SUBSET (DOMAIN Migrations)}
=============================================================================

-------------------------- MODULE MigrationsProofs --------------------------
(***************************************************************************)
(* Proofs about Migrations: for any number of servers and any database an  *)
(* older release can have left, a startup that nothing cuts short leaves   *)
(* the schema complete, and never every server down.                       *)
(***************************************************************************)
EXTENDS Migrations, TLAPS

Guards == 1..10
Size(n) == Len(Migrations[n].columns)
Col(n, k) == Migrations[n].columns[k]

\* What the steps use of the list of guards.
LEMMA GuardList ==
    /\ DOMAIN Migrations = Guards
    /\ Len(Migrations) = 10
    /\ \A n \in Guards : /\ Size(n) \in 1..3
                         /\ DOMAIN Migrations[n].columns = 1..Size(n)
                         /\ Migrations[n].table \in AllTables
<1>1. DOMAIN Migrations = Guards /\ Len(Migrations) = 10
  BY DEF Migrations, Guards
<1>2. ASSUME NEW n \in Guards
      PROVE  /\ Size(n) \in 1..3
             /\ DOMAIN Migrations[n].columns = 1..Size(n)
             /\ Migrations[n].table \in {"projects", "coverage_snapshots", "settings"}
  BY DEF Migrations, Guards, Size
<1>3. AllTables = {"projects", "coverage_snapshots", "settings"}
  BY DEF AllTables, SchemaTables
<1> QED BY <1>1, <1>2, <1>3

\* No column is added twice.
LEMMA Distinct ==
    \A n, m \in Guards : \A k \in 1..Size(n), j \in 1..Size(m) :
        Col(n, k) = Col(m, j) => n = m /\ k = j
<1> DEFINE Number(c) ==
             CASE c = "dependencies_json" -> 11 [] c = "source" -> 21
               [] c = "github_repo" -> 31 [] c = "source_root" -> 41
               [] c = "line_threshold" -> 51 [] c = "branch_threshold" -> 52
               [] c = "line_warn_threshold" -> 61 [] c = "branch_warn_threshold" -> 62
               [] c = "default_line_warn_threshold" -> 71
               [] c = "default_branch_warn_threshold" -> 72
               [] c = "retention_full" -> 81 [] c = "retention_summary" -> 82
               [] c = "tags" -> 91 [] c = "ratchet_enabled" -> 101
               [] c = "ratchet_line_floor" -> 102 [] c = "ratchet_branch_floor" -> 103
<1>1. ASSUME NEW n \in Guards, NEW k \in 1..Size(n)
      PROVE  Number(Col(n, k)) = 10 * n + k
  <2>1. n \in 1..10 /\ k \in 1..Size(n)
    BY DEF Guards
  <2>2. CASE n = 1
    <3>1. Migrations[1].columns = <<"dependencies_json">>
      BY DEF Migrations
    <3> QED BY <2>1, <2>2, <3>1 DEF Size, Col
  <2>3. CASE n = 2
    <3>1. Migrations[2].columns = <<"source">>
      BY DEF Migrations
    <3> QED BY <2>1, <2>3, <3>1 DEF Size, Col
  <2>4. CASE n = 3
    <3>1. Migrations[3].columns = <<"github_repo">>
      BY DEF Migrations
    <3> QED BY <2>1, <2>4, <3>1 DEF Size, Col
  <2>5. CASE n = 4
    <3>1. Migrations[4].columns = <<"source_root">>
      BY DEF Migrations
    <3> QED BY <2>1, <2>5, <3>1 DEF Size, Col
  <2>6. CASE n = 5
    <3>1. Migrations[5].columns = <<"line_threshold", "branch_threshold">>
      BY DEF Migrations
    <3> QED BY <2>1, <2>6, <3>1 DEF Size, Col
  <2>7. CASE n = 6
    <3>1. Migrations[6].columns = <<"line_warn_threshold", "branch_warn_threshold">>
      BY DEF Migrations
    <3> QED BY <2>1, <2>7, <3>1 DEF Size, Col
  <2>8. CASE n = 7
    <3>1. Migrations[7].columns = <<"default_line_warn_threshold", "default_branch_warn_threshold">>
      BY DEF Migrations
    <3> QED BY <2>1, <2>8, <3>1 DEF Size, Col
  <2>9. CASE n = 8
    <3>1. Migrations[8].columns = <<"retention_full", "retention_summary">>
      BY DEF Migrations
    <3> QED BY <2>1, <2>9, <3>1 DEF Size, Col
  <2>10. CASE n = 9
    <3>1. Migrations[9].columns = <<"tags">>
      BY DEF Migrations
    <3> QED BY <2>1, <2>10, <3>1 DEF Size, Col
  <2>11. CASE n = 10
    <3>1. Migrations[10].columns = <<"ratchet_enabled", "ratchet_line_floor", "ratchet_branch_floor">>
      BY DEF Migrations
    <3> QED BY <2>1, <2>11, <3>1 DEF Size, Col
  <2> HIDE DEF Number
  <2> QED BY <2>1, <2>2, <2>3, <2>4, <2>5, <2>6, <2>7, <2>8, <2>9, <2>10, <2>11
<1> HIDE DEF Number
<1> SUFFICES ASSUME NEW n \in Guards, NEW m \in Guards,
                    NEW k \in 1..Size(n), NEW j \in 1..Size(m), Col(n, k) = Col(m, j)
             PROVE  n = m /\ k = j
  OBVIOUS
<1>2. 10 * n + k = 10 * m + j
  BY <1>1
<1>3. k \in 1..3 /\ j \in 1..3
  BY GuardList
<1> QED BY <1>2, <1>3 DEF Guards

LEMMA IndexList ==
    /\ DOMAIN Indexes = 1..2 /\ Len(Indexes) = 2
    /\ Indexes[1] = {} /\ Indexes[2] = {Col(2, 1)}
BY DEF Indexes, Col, Migrations

LEMMA TableList ==
    /\ Len(SchemaTables) = 3
    /\ AllTables = {SchemaTables[i] : i \in 1..3}
BY DEF SchemaTables, AllTables

\* The columns, as the places they have in the list; a table's late columns
\* are those of whole guards.
LEMMA ColumnSets ==
    /\ \A c : c \in AllColumns <=> \E n \in Guards : \E k \in 1..Size(n) : c = Col(n, k)
    /\ \A n \in Guards : \A c : c \in ColumnsOf(Migrations[n])
                                <=> \E k \in 1..Size(n) : c = Col(n, k)
    /\ \A n \in Guards : \A k \in 1..Size(n) : \A t :
          Col(n, k) \in LateColumns(t) <=> Migrations[n].table = t
    /\ \A t : LateColumns(t) \subseteq AllColumns
<1>1. \A n \in Guards : \A c : c \in ColumnsOf(Migrations[n])
                              <=> \E k \in 1..Size(n) : c = Col(n, k)
  BY GuardList DEF ColumnsOf, Col
<1>2. \A c : c \in AllColumns <=> \E n \in Guards : c \in ColumnsOf(Migrations[n])
  BY GuardList DEF AllColumns
<1>3. \A t : \A c : c \in LateColumns(t)
                    <=> \E n \in Guards : /\ Migrations[n].table = t
                                         /\ c \in ColumnsOf(Migrations[n])
  BY GuardList DEF LateColumns
<1>4. ASSUME NEW n \in Guards, NEW k \in 1..Size(n), NEW t
      PROVE  Col(n, k) \in LateColumns(t) <=> Migrations[n].table = t
  BY <1>1, <1>3, Distinct
<1> QED BY <1>1, <1>2, <1>3, <1>4

LEMMA FollowingPhases ==
    /\ Following("tables") = "seed" /\ Following("seed") = "check"
    /\ Following("check") = "indexes" /\ Following("indexes") = "ready"
BY DEF Following

-----------------------------------------------------------------------------
(* The inductive invariant *)

\* A server is at a statement there is.
Placed(s) ==
    /\ In(s, "tables") => server[s].n \in 1..3
    /\ server[s].phase \in {"check", "alter"} => server[s].n \in Guards
    /\ In(s, "alter") => server[s].column \in 1..Size(server[s].n)
    /\ In(s, "indexes") => server[s].n \in 1..2

\* What the statements behind a server did is there.
Done(s) ==
    /\ In(s, "tables") => \A i \in 1..3 : i < server[s].n => SchemaTables[i] \in tables
    /\ server[s].phase \in {"seed", "check", "alter", "indexes", "ready"} => tables = AllTables
    /\ server[s].phase \in {"check", "alter", "indexes", "ready"} => seeded
    /\ In(s, "indexes") => \A i \in 1..2 : i < server[s].n => i \in indexes
    /\ In(s, "ready") => indexes = 1..2

Passed(s, g) ==
    \/ server[s].phase \in {"indexes", "ready"}
    \/ server[s].phase \in {"check", "alter"} /\ g < server[s].n

\* A guard behind a server has its first column, and so have the columns
\* before the one it adds.
Checked(s) ==
    /\ \A g \in Guards : Passed(s, g) => Col(g, 1) \in columns
    /\ In(s, "alter") => \A j \in 1..3 :
          j < server[s].column => Col(server[s].n, j) \in columns

\* The columns of a guard come in its order.
Ordered ==
    \A g \in Guards : \A j, k \in 1..Size(g) :
        j < k /\ Col(g, k) \in columns => Col(g, j) \in columns

At(s, g, k) == In(s, "alter") /\ server[s].n = g /\ server[s].column = k

\* Where a guard's columns stop short, a server is about to add the next.
Taken ==
    \A g \in Guards : \A k \in 1..Size(g) :
        k < Size(g) /\ Col(g, k) \in columns /\ Col(g, k + 1) \notin columns =>
            \E s \in Servers : At(s, g, k + 1)

\* A server that has not lost a race, and is not about to lose one.
Ahead(s) ==
    /\ ~In(s, "failed")
    /\ In(s, "alter") => Col(server[s].n, server[s].column) \notin columns

StartupInv ==
    /\ TypeOK
    /\ \A s \in Servers : Placed(s) /\ Done(s) /\ Checked(s)
    /\ Ordered
    /\ stops = 0 => Taken /\ \E s \in Servers : Ahead(s)

-----------------------------------------------------------------------------
LEMMA InitStartup == Init => StartupInv
<1> SUFFICES ASSUME Init PROVE StartupInv
  OBVIOUS
<1> PICK old \in OldDatabases : /\ tables = old.tables /\ columns = old.columns
                               /\ seeded = ("settings" \in old.tables)
  BY DEF Init
<1>1. /\ old \in [tables : SUBSET AllTables, columns : SUBSET AllColumns]
      /\ Release(old)
  BY MigrationsAssumption
<1>2. server = [s \in Servers |-> [phase |-> "down", n |-> 1, column |-> 1]]
      /\ indexes = {} /\ stops = 0
  BY DEF Init
<1>3. TypeOK
  <2>1. tables \subseteq AllTables /\ columns \subseteq UNION {LateColumns(t) : t \in tables}
    BY <1>1 DEF Release
  <2>2. server \in [Servers -> Position]
    BY <1>2, GuardList DEF Position, Phases, Counts
  <2>3. seeded => "settings" \in tables
    OBVIOUS
  <2>4. indexes \subseteq DOMAIN Indexes
    BY <1>2
  <2>5. stops \in 0..MaxStops
    BY <1>2, MigrationsAssumption
  <2> QED BY <2>1, <2>2, <2>3, <2>4, <2>5 DEF TypeOK
<1>4. ASSUME NEW g \in Guards, NEW j \in 1..Size(g), NEW k \in 1..Size(g),
             Col(g, k) \in columns
      PROVE  Col(g, j) \in columns
  <2>1. \/ ColumnsOf(Migrations[g]) \subseteq columns
        \/ ColumnsOf(Migrations[g]) \cap columns = {}
    BY <1>1, GuardList DEF Release
  <2>2. Col(g, k) \in ColumnsOf(Migrations[g]) /\ Col(g, j) \in ColumnsOf(Migrations[g])
    BY ColumnSets
  <2> QED BY <1>4, <2>1, <2>2
<1>5. Ordered
  BY <1>4 DEF Ordered
<1>6. Taken
  <2> SUFFICES ASSUME NEW g \in Guards, NEW k \in 1..Size(g), k < Size(g),
                      Col(g, k) \in columns
               PROVE  Col(g, k + 1) \in columns
    BY DEF Taken
  <2>1. k + 1 \in 1..Size(g)
    BY GuardList
  <2> QED BY <1>4, <2>1
<1>7. \A s \in Servers : Placed(s) /\ Done(s) /\ Checked(s) /\ Ahead(s)
  BY <1>2 DEF Placed, Done, Checked, Ahead, Passed, In
<1> QED BY <1>3, <1>5, <1>6, <1>7, MigrationsAssumption DEF StartupInv

\* A server that stays where it is keeps what it relies on while the others
\* only add to the schema.
LEMMA OthersStay ==
    ASSUME StartupInv, TypeOK', NEW u \in Servers, server'[u] = server[u],
           tables \subseteq tables', columns \subseteq columns',
           indexes \subseteq indexes', seeded => seeded'
    PROVE  Placed(u)' /\ Done(u)' /\ Checked(u)'
<1>1. Placed(u) /\ Done(u) /\ Checked(u)
  BY DEF StartupInv
<1>2. tables' \subseteq AllTables /\ indexes' \subseteq 1..2
  BY IndexList DEF TypeOK
<1>3. Placed(u)'
  BY <1>1 DEF Placed, In
<1>4. Done(u)'
  BY <1>1, <1>2 DEF Done, In
<1>5. Checked(u)'
  BY <1>1 DEF Checked, Passed, In
<1> QED BY <1>3, <1>4, <1>5

\* A step of s that leaves it ahead, adds nothing to a guard that is begun, and
\* was not s altering a table.
LEMMA Quiet ==
    ASSUME StartupInv, NEW s \in Servers, ~In(s, "alter"),
           columns' = columns, stops' = stops, Ahead(s)',
           \A u \in Servers \ {s} : server'[u] = server[u]
    PROVE  Ordered' /\ (stops' = 0 => Taken' /\ \E u \in Servers : Ahead(u)')
<1>1. Ordered'
  BY DEF StartupInv, Ordered
<1>2. ASSUME stops = 0 PROVE Taken'
  BY <1>2 DEF StartupInv, Taken, At, In
<1> QED BY <1>1, <1>2

\* Where Enter and Advance take a server.
LEMMA Moves ==
    ASSUME StartupInv, NEW s \in Servers, NEW phase \in Phases, NEW n \in Counts,
           Enter(s, phase, n)
    PROVE  /\ server' \in [Servers -> Position]
           /\ server'[s] = [phase |-> phase, n |-> n, column |-> 1]
           /\ \A u \in Servers \ {s} : server'[u] = server[u]
<1>1. server \in [Servers -> Position]
  BY DEF StartupInv, TypeOK
<1>2. [phase |-> phase, n |-> n, column |-> 1] \in Position
  BY GuardList DEF Position, Counts
<1> QED BY <1>1, <1>2 DEF Enter

LEMMA Places ==
    ASSUME StartupInv, NEW s \in Servers
    PROVE  server[s].phase \in Phases /\ server[s].n \in Counts /\ server[s].column \in Counts
BY DEF StartupInv, TypeOK, Position

\* What a step has to leave, for the invariant to hold again: the types, the
\* order of the columns, and the place of the server that took it.
LEMMA Together ==
    ASSUME StartupInv, TypeOK', Ordered', NEW s \in Servers,
           \A u \in Servers \ {s} : server'[u] = server[u],
           tables \subseteq tables', columns \subseteq columns',
           indexes \subseteq indexes', seeded => seeded',
           Placed(s)' /\ Done(s)' /\ Checked(s)',
           stops' = 0 => Taken' /\ \E u \in Servers : Ahead(u)'
    PROVE  StartupInv'
<1>1. \A u \in Servers \ {s} : Placed(u)' /\ Done(u)' /\ Checked(u)'
  BY OthersStay
<1> QED BY <1>1 DEF StartupInv

LEMMA StartStep == ASSUME StartupInv, NEW s \in Servers, Start(s) PROVE StartupInv'
<1>1. /\ ~In(s, "alter") /\ Enter(s, "tables", 1)
      /\ tables' = tables /\ columns' = columns /\ seeded' = seeded
      /\ indexes' = indexes /\ stops' = stops
  BY DEF Start, In
<1>2. "tables" \in Phases /\ 1 \in Counts
  BY GuardList DEF Phases, Counts
<1>3. /\ server' \in [Servers -> Position]
      /\ server'[s] = [phase |-> "tables", n |-> 1, column |-> 1]
      /\ \A u \in Servers \ {s} : server'[u] = server[u]
  BY <1>1, <1>2, Moves
<1>4. TypeOK'
  BY <1>1, <1>3 DEF StartupInv, TypeOK
<1>5. Placed(s)' /\ Done(s)' /\ Checked(s)' /\ Ahead(s)'
  BY <1>3 DEF Placed, Done, Checked, Passed, Ahead, In
<1>6. Ordered' /\ (stops' = 0 => Taken' /\ \E u \in Servers : Ahead(u)')
  BY <1>1, <1>3, <1>5, Quiet
<1> QED BY <1>1, <1>3, <1>4, <1>5, <1>6, Together

LEMMA SeedStep == ASSUME StartupInv, NEW s \in Servers, SeedSettings(s) PROVE StartupInv'
<1>1. /\ In(s, "seed") /\ ~In(s, "alter") /\ seeded' = TRUE
      /\ tables' = tables /\ columns' = columns /\ indexes' = indexes /\ stops' = stops
  BY DEF SeedSettings, In
<1>2. "check" \in Phases /\ 1 \in Counts
  BY GuardList DEF Phases, Counts
<1>3. Enter(s, "check", 1)
  BY Places, GuardList, FollowingPhases DEF SeedSettings, Advance, Counts
<1>4. /\ server' \in [Servers -> Position]
      /\ server'[s] = [phase |-> "check", n |-> 1, column |-> 1]
      /\ \A u \in Servers \ {s} : server'[u] = server[u]
  BY <1>2, <1>3, Moves
<1>5. tables = AllTables
  BY <1>1 DEF StartupInv, Done, In
<1>6. "settings" \in AllTables
  BY DEF AllTables, SchemaTables
<1>7. TypeOK'
  BY <1>1, <1>4, <1>5, <1>6 DEF StartupInv, TypeOK
<1>8. Placed(s)' /\ Done(s)' /\ Checked(s)' /\ Ahead(s)'
  BY <1>1, <1>4, <1>5 DEF Placed, Done, Checked, Passed, Ahead, In, Guards
<1>9. Ordered' /\ (stops' = 0 => Taken' /\ \E u \in Servers : Ahead(u)')
  BY <1>1, <1>4, <1>8, Quiet
<1> QED BY <1>1, <1>4, <1>7, <1>8, <1>9, Together

LEMMA GuardStep == ASSUME StartupInv, NEW s \in Servers, CheckGuard(s) PROVE StartupInv'
<1>1. /\ In(s, "check") /\ ~In(s, "alter") /\ tables' = tables /\ columns' = columns
      /\ seeded' = seeded /\ indexes' = indexes /\ stops' = stops
  BY DEF CheckGuard, In
<1> DEFINE n == server[s].n
<1>2. n \in Guards /\ Done(s) /\ Checked(s)
  BY <1>1 DEF StartupInv, Placed, In
<1>3. n \in Counts /\ n + 1 \in Counts /\ 1 \in Counts
  BY <1>2, GuardList DEF Counts, Guards
<1>4. tables = AllTables /\ seeded
  BY <1>1, <1>2 DEF Done, In
<1> SUFFICES /\ server' \in [Servers -> Position]
             /\ \A u \in Servers \ {s} : server'[u] = server[u]
             /\ Placed(s)' /\ Done(s)' /\ Checked(s)' /\ Ahead(s)'
  <2>1. TypeOK'
    BY <1>1 DEF StartupInv, TypeOK
  <2>2. Ordered' /\ (stops' = 0 => Taken' /\ \E u \in Servers : Ahead(u)')
    BY <1>1, Quiet
  <2> QED BY <1>1, <2>1, <2>2, Together
<1>5. CASE Missing(Migrations[n].columns[1])
  <2>1. Enter(s, "alter", n)
    BY <1>5 DEF CheckGuard
  <2>2. /\ server' \in [Servers -> Position]
        /\ server'[s] = [phase |-> "alter", n |-> n, column |-> 1]
        /\ \A u \in Servers \ {s} : server'[u] = server[u]
    BY <1>3, <2>1, Moves DEF Phases
  <2>3. 1 \in 1..Size(n)
    BY <1>2, GuardList
  <2>4. Placed(s)' /\ Done(s)' /\ Ahead(s)'
    BY <1>1, <1>2, <1>4, <1>5, <2>2, <2>3 DEF Placed, Done, Ahead, In, Missing, Col
  <2>5. Checked(s)'
    BY <1>1, <1>2, <2>2 DEF Checked, Passed, In
  <2> QED BY <2>2, <2>4, <2>5
<1>6. CASE ~Missing(Migrations[n].columns[1])
  <2>1. Col(n, 1) \in columns
    BY <1>6 DEF Missing, Col
  <2>2. \/ n < 10 /\ Enter(s, "check", n + 1)
        \/ n = 10 /\ Enter(s, "indexes", 1)
    BY <1>2, <1>6, GuardList, FollowingPhases DEF CheckGuard, Advance, Guards
  <2>3. CASE n < 10 /\ Enter(s, "check", n + 1)
    <3>1. /\ server' \in [Servers -> Position]
          /\ server'[s] = [phase |-> "check", n |-> n + 1, column |-> 1]
          /\ \A u \in Servers \ {s} : server'[u] = server[u]
      BY <1>3, <2>3, Moves DEF Phases
    <3>2. Placed(s)' /\ Done(s)' /\ Ahead(s)'
      BY <1>1, <1>2, <1>4, <2>3, <3>1 DEF Placed, Done, Ahead, In, Guards
    <3>3. Checked(s)'
      BY <1>1, <1>2, <2>1, <3>1 DEF Checked, Passed, In, Guards
    <3> QED BY <3>1, <3>2, <3>3
  <2>4. CASE n = 10 /\ Enter(s, "indexes", 1)
    <3>1. /\ server' \in [Servers -> Position]
          /\ server'[s] = [phase |-> "indexes", n |-> 1, column |-> 1]
          /\ \A u \in Servers \ {s} : server'[u] = server[u]
      BY <1>3, <2>4, Moves DEF Phases
    <3>2. Placed(s)' /\ Done(s)' /\ Ahead(s)'
      BY <1>1, <1>4, <3>1 DEF Placed, Done, Ahead, In
    <3>3. Checked(s)'
      BY <1>1, <1>2, <2>1, <2>4, <3>1 DEF Checked, Passed, In, Guards
    <3> QED BY <3>1, <3>2, <3>3
  <2> QED BY <2>2, <2>3, <2>4
<1> QED BY <1>5, <1>6

\* A table that is created has all its late columns, or it was there.
LEMMA CreateStep == ASSUME StartupInv, NEW s \in Servers, CreateTable(s) PROVE StartupInv'
<1> DEFINE n == server[s].n
           t == SchemaTables[n]
<1>1. /\ In(s, "tables") /\ ~In(s, "alter") /\ tables' = tables \union {t}
      /\ columns' = (IF t \in tables THEN columns ELSE columns \union LateColumns(t))
      /\ seeded' = seeded /\ indexes' = indexes /\ stops' = stops
  BY DEF CreateTable, In
<1>2. n \in 1..3 /\ Done(s) /\ Checked(s)
  BY <1>1 DEF StartupInv, Placed, In
<1>3. t \in AllTables
  BY <1>2, TableList
<1>4. TypeOK
  BY DEF StartupInv
<1>5. /\ tables' \subseteq AllTables
      /\ columns' \subseteq UNION {LateColumns(v) : v \in tables'}
  BY <1>1, <1>3, <1>4 DEF TypeOK
<1>6. \/ n < 3 /\ Enter(s, "tables", n + 1)
      \/ n = 3 /\ Enter(s, "seed", 1)
  BY <1>2, TableList, FollowingPhases DEF CreateTable, Advance
<1>7. n + 1 \in Counts /\ 1 \in Counts /\ {"tables", "seed"} \subseteq Phases
  BY <1>2, GuardList DEF Counts, Phases
<1>8. /\ server' \in [Servers -> Position]
      /\ \A u \in Servers \ {s} : server'[u] = server[u]
      /\ Placed(s)' /\ Done(s)' /\ Checked(s)' /\ Ahead(s)'
  <2>1. CASE n < 3 /\ Enter(s, "tables", n + 1)
    <3>1. /\ server' \in [Servers -> Position]
          /\ server'[s] = [phase |-> "tables", n |-> n + 1, column |-> 1]
          /\ \A u \in Servers \ {s} : server'[u] = server[u]
      BY <1>7, <2>1, Moves
    <3>2. Done(s)'
      BY <1>1, <1>2, <3>1 DEF Done, In
    <3>3. Placed(s)' /\ Checked(s)' /\ Ahead(s)'
      BY <1>2, <2>1, <3>1 DEF Placed, Checked, Passed, Ahead, In
    <3> QED BY <3>1, <3>2, <3>3
  <2>2. CASE n = 3 /\ Enter(s, "seed", 1)
    <3>1. /\ server' \in [Servers -> Position]
          /\ server'[s] = [phase |-> "seed", n |-> 1, column |-> 1]
          /\ \A u \in Servers \ {s} : server'[u] = server[u]
      BY <1>7, <2>2, Moves
    <3>2. tables' = AllTables
      BY <1>1, <1>2, <1>5, <2>2, TableList DEF Done, In
    <3>3. Placed(s)' /\ Done(s)' /\ Checked(s)' /\ Ahead(s)'
      BY <3>1, <3>2 DEF Placed, Done, Checked, Passed, Ahead, In
    <3> QED BY <3>1, <3>3
  <2> QED BY <1>6, <2>1, <2>2
<1>9. TypeOK'
  BY <1>1, <1>4, <1>5, <1>8 DEF TypeOK
<1>10. ASSUME NEW g \in Guards, NEW j \in 1..Size(g), NEW k \in 1..Size(g)
       PROVE  \/ Col(g, j) \in columns' /\ Col(g, k) \in columns'
              \/ /\ Col(g, j) \in columns' <=> Col(g, j) \in columns
                 /\ Col(g, k) \in columns' <=> Col(g, k) \in columns
  <2>1. Col(g, j) \in LateColumns(t) <=> Col(g, k) \in LateColumns(t)
    BY ColumnSets
  <2> QED BY <1>1, <2>1
<1>11. Ordered'
  BY <1>10 DEF StartupInv, Ordered
<1>12. ASSUME stops = 0 PROVE Taken'
  <2> SUFFICES ASSUME NEW g \in Guards, NEW k \in 1..Size(g), k < Size(g),
                      Col(g, k) \in columns', Col(g, k + 1) \notin columns'
               PROVE  \E u \in Servers : At(u, g, k + 1)'
    BY DEF Taken
  <2>1. k + 1 \in 1..Size(g)
    BY GuardList
  <2>2. Col(g, k) \in columns /\ Col(g, k + 1) \notin columns
    BY <1>10, <2>1
  <2>3. PICK u \in Servers : At(u, g, k + 1)
    BY <1>12, <2>2 DEF StartupInv, Taken
  <2>4. server'[u] = server[u]
    BY <1>1, <1>8, <2>3 DEF At
  <2> QED BY <2>3, <2>4 DEF At, In
<1>13. stops' = 0 => Taken' /\ \E u \in Servers : Ahead(u)'
  BY <1>1, <1>8, <1>12
<1>14. tables \subseteq tables' /\ columns \subseteq columns'
  BY <1>1
<1> QED BY <1>1, <1>8, <1>9, <1>11, <1>13, <1>14, Together

\* No server finds a column of an index missing: it has passed every guard.
LEMMA IndexStep == ASSUME StartupInv, NEW s \in Servers, CreateIndex(s) PROVE StartupInv'
<1> DEFINE n == server[s].n
<1>1. /\ In(s, "indexes") /\ ~In(s, "alter") /\ tables' = tables /\ columns' = columns
      /\ seeded' = seeded /\ stops' = stops
  BY DEF CreateIndex, In
<1>2. n \in 1..2 /\ Done(s) /\ Checked(s)
  BY <1>1 DEF StartupInv, Placed, In
<1>3. Col(2, 1) \in columns
  BY <1>1, <1>2 DEF Checked, Passed, In, Guards
<1>4. Indexes[n] \subseteq columns
  BY <1>2, <1>3, IndexList
<1>5. indexes' = indexes \union {n}
  BY <1>4 DEF CreateIndex
<1>6. \/ n < 2 /\ Enter(s, "indexes", n + 1)
      \/ n = 2 /\ Enter(s, "ready", 1)
  BY <1>2, <1>4, IndexList, FollowingPhases DEF CreateIndex, Advance
<1>7. n + 1 \in Counts /\ 1 \in Counts /\ {"indexes", "ready"} \subseteq Phases
  BY <1>2, GuardList DEF Counts, Phases
<1>8. indexes \subseteq 1..2
  BY IndexList DEF StartupInv, TypeOK
<1>9. tables = AllTables /\ seeded
  BY <1>1, <1>2 DEF Done, In
<1>10. /\ server' \in [Servers -> Position]
       /\ \A u \in Servers \ {s} : server'[u] = server[u]
       /\ Placed(s)' /\ Done(s)' /\ Checked(s)' /\ Ahead(s)'
  <2>1. CASE n < 2 /\ Enter(s, "indexes", n + 1)
    <3>1. /\ server' \in [Servers -> Position]
          /\ server'[s] = [phase |-> "indexes", n |-> n + 1, column |-> 1]
          /\ \A u \in Servers \ {s} : server'[u] = server[u]
      BY <1>7, <2>1, Moves
    <3>2. Done(s)'
      BY <1>1, <1>2, <1>5, <1>9, <3>1 DEF Done, In
    <3>3. Placed(s)' /\ Checked(s)' /\ Ahead(s)'
      BY <1>1, <1>2, <2>1, <3>1 DEF Placed, Checked, Passed, Ahead, In
    <3> QED BY <3>1, <3>2, <3>3
  <2>2. CASE n = 2 /\ Enter(s, "ready", 1)
    <3>1. /\ server' \in [Servers -> Position]
          /\ server'[s] = [phase |-> "ready", n |-> 1, column |-> 1]
          /\ \A u \in Servers \ {s} : server'[u] = server[u]
      BY <1>7, <2>2, Moves
    <3>2. indexes' = 1..2
      <4>1. 1 \in indexes
        BY <1>1, <1>2, <2>2 DEF Done, In
      <4>2. 1..2 \subseteq {1, n}
        BY <2>2
      <4> QED BY <1>2, <1>5, <1>8, <4>1, <4>2
    <3>3. Placed(s)' /\ Done(s)' /\ Ahead(s)'
      BY <1>1, <1>9, <3>1, <3>2 DEF Placed, Done, Ahead, In
    <3>4. Checked(s)'
      BY <1>1, <1>2, <3>1 DEF Checked, Passed, In
    <3> QED BY <3>1, <3>3, <3>4
  <2> QED BY <1>6, <2>1, <2>2
<1>11. TypeOK'
  BY <1>1, <1>2, <1>5, <1>10, IndexList DEF StartupInv, TypeOK
<1>12. Ordered' /\ (stops' = 0 => Taken' /\ \E u \in Servers : Ahead(u)')
  BY <1>1, <1>10, Quiet
<1> QED BY <1>1, <1>5, <1>10, <1>11, <1>12, Together

LEMMA AddStep == ASSUME StartupInv, NEW s \in Servers, AddColumn(s) PROVE StartupInv'
<1> DEFINE n == server[s].n
           k == server[s].column
           c == Col(n, k)
<1>1. /\ In(s, "alter") /\ tables' = tables
      /\ seeded' = seeded /\ indexes' = indexes /\ stops' = stops
  BY DEF AddColumn
<1>2. n \in Guards /\ k \in 1..Size(n) /\ Done(s) /\ Checked(s)
  BY <1>1 DEF StartupInv, Placed, In
<1>3. TypeOK /\ Ordered
  BY DEF StartupInv
<1>4. tables = AllTables /\ seeded
  BY <1>1, <1>2 DEF Done, In
<1>5. Size(n) \in 1..3 /\ k \in 1..3
  BY <1>2, GuardList
<1>6. {n, n + 1, k + 1, 1} \subseteq Counts /\ {"check", "indexes", "failed"} \subseteq Phases
  BY <1>2, <1>5, GuardList DEF Counts, Guards, Phases
<1>7. CASE c \in columns
  <2>1. Enter(s, "failed", 1) /\ columns' = columns
    BY <1>7 DEF AddColumn, Col
  <2>2. /\ server' \in [Servers -> Position]
        /\ server'[s] = [phase |-> "failed", n |-> 1, column |-> 1]
        /\ \A u \in Servers \ {s} : server'[u] = server[u]
    BY <1>6, <2>1, Moves
  <2>3. TypeOK' /\ Ordered'
    BY <1>1, <1>3, <2>1, <2>2 DEF TypeOK, Ordered
  <2>4. Placed(s)' /\ Done(s)' /\ Checked(s)'
    BY <2>2 DEF Placed, Done, Checked, Passed, In
  <2>5. ASSUME stops = 0 PROVE Taken'
    <3> SUFFICES ASSUME NEW g \in Guards, NEW i \in 1..Size(g), i < Size(g),
                        Col(g, i) \in columns, Col(g, i + 1) \notin columns
                 PROVE  \E u \in Servers : At(u, g, i + 1)'
      BY <2>1 DEF Taken
    <3>1. PICK u \in Servers : At(u, g, i + 1)
      BY <2>5 DEF StartupInv, Taken
    <3>2. u # s
      BY <1>7, <3>1 DEF At
    <3> QED BY <2>2, <3>1, <3>2 DEF At, In
  <2>6. ASSUME stops = 0 PROVE \E u \in Servers : Ahead(u)'
    <3>1. PICK u \in Servers : Ahead(u)
      BY <2>6 DEF StartupInv
    <3>2. u # s
      BY <1>1, <1>7, <3>1 DEF Ahead
    <3> QED BY <2>1, <2>2, <3>1, <3>2 DEF Ahead, In
  <2> QED BY <1>1, <2>1, <2>2, <2>3, <2>4, <2>5, <2>6, Together
<1>8. CASE c \notin columns
  <2>1. columns' = columns \union {c} /\ AfterColumn(s)
    BY <1>8 DEF AddColumn, Col
  <2>2. \A j \in 1..3 : j < k => Col(n, j) \in columns
    BY <1>1, <1>2 DEF Checked
  <2>3. Col(n, 1) \in columns'
    BY <1>5, <2>1, <2>2
  <2>4. /\ server' \in [Servers -> Position]
        /\ \A u \in Servers \ {s} : server'[u] = server[u]
        /\ Placed(s)' /\ Done(s)' /\ Checked(s)' /\ Ahead(s)'
        /\ k < Size(n) => server'[s] = [phase |-> "alter", n |-> n, column |-> k + 1]
    <3>1. CASE k < Size(n)
      <4>1. /\ server' \in [Servers -> Position]
            /\ server'[s] = [phase |-> "alter", n |-> n, column |-> k + 1]
            /\ \A u \in Servers \ {s} : server'[u] = server[u]
        BY <1>1, <1>3, <1>6, <2>1, <3>1 DEF AfterColumn, TypeOK, Position, In, Size
      <4>2. Col(n, k + 1) \notin columns'
        <5>1. k + 1 \in 1..Size(n)
          BY <1>5, <3>1
        <5>2. Col(n, k + 1) \notin columns
          BY <1>2, <1>3, <1>5, <1>8, <5>1 DEF Ordered
        <5>3. Col(n, k + 1) # c
          BY <1>2, <1>5, <5>1, Distinct
        <5> QED BY <2>1, <5>2, <5>3
      <4>3. Placed(s)' /\ Done(s)' /\ Ahead(s)'
        BY <1>1, <1>2, <1>4, <1>5, <3>1, <4>1, <4>2 DEF Placed, Done, Ahead, In
      <4>4. Checked(s)'
        BY <1>1, <1>2, <1>5, <2>1, <2>2, <4>1 DEF Checked, Passed, In
      <4> QED BY <4>1, <4>3, <4>4
    <3>2. CASE ~(k < Size(n)) /\ n < 10
      <4>1. Enter(s, "check", n + 1)
        BY <2>1, <3>2, GuardList DEF AfterColumn, Advance, Size
      <4>2. /\ server' \in [Servers -> Position]
            /\ server'[s] = [phase |-> "check", n |-> n + 1, column |-> 1]
            /\ \A u \in Servers \ {s} : server'[u] = server[u]
        BY <1>6, <4>1, Moves
      <4>3. Placed(s)' /\ Done(s)' /\ Ahead(s)'
        BY <1>1, <1>2, <1>4, <3>2, <4>2 DEF Placed, Done, Ahead, In, Guards
      <4>4. Checked(s)'
        BY <1>1, <1>2, <2>1, <2>3, <4>2 DEF Checked, Passed, In, Guards
      <4> QED BY <3>2, <4>2, <4>3, <4>4
    <3>3. CASE ~(k < Size(n)) /\ n = 10
      <4>1. Enter(s, "indexes", 1)
        BY <2>1, <3>3, GuardList, FollowingPhases DEF AfterColumn, Advance, Size
      <4>2. /\ server' \in [Servers -> Position]
            /\ server'[s] = [phase |-> "indexes", n |-> 1, column |-> 1]
            /\ \A u \in Servers \ {s} : server'[u] = server[u]
        BY <1>6, <4>1, Moves
      <4>3. Placed(s)' /\ Done(s)' /\ Ahead(s)'
        BY <1>1, <1>4, <4>2 DEF Placed, Done, Ahead, In
      <4>4. Checked(s)'
        BY <1>1, <1>2, <2>1, <2>3, <3>3, <4>2 DEF Checked, Passed, In, Guards
      <4> QED BY <3>3, <4>2, <4>3, <4>4
    <3> QED BY <1>2, <3>1, <3>2, <3>3 DEF Guards
  <2>5. TypeOK'
    <3>1. c \in UNION {LateColumns(t) : t \in tables}
      BY <1>2, <1>4, GuardList, ColumnSets
    <3> QED BY <1>1, <1>3, <2>1, <2>4, <3>1 DEF TypeOK
  <2>6. Ordered'
    <3> SUFFICES ASSUME NEW g \in Guards, NEW j \in 1..Size(g), NEW i \in 1..Size(g),
                        j < i, Col(g, i) \in columns'
                 PROVE  Col(g, j) \in columns'
      BY DEF Ordered
    <3>1. CASE Col(g, i) \in columns
      BY <1>3, <2>1, <3>1 DEF Ordered
    <3>2. CASE Col(g, i) = c
      <4>1. g = n /\ i = k
        BY <1>2, <3>2, Distinct
      <4> QED BY <1>5, <2>1, <2>2, <4>1
    <3> QED BY <2>1, <3>1, <3>2
  <2>7. ASSUME stops = 0 PROVE Taken'
    <3> SUFFICES ASSUME NEW g \in Guards, NEW i \in 1..Size(g), i < Size(g),
                        Col(g, i) \in columns', Col(g, i + 1) \notin columns'
                 PROVE  \E u \in Servers : At(u, g, i + 1)'
      BY DEF Taken
    <3>1. CASE Col(g, i) \in columns
      <4>1. PICK u \in Servers : At(u, g, i + 1)
        BY <2>1, <2>7, <3>1 DEF StartupInv, Taken
      <4>2. u # s
        BY <2>1, <4>1 DEF At
      <4> QED BY <2>4, <4>1, <4>2 DEF At, In
    <3>2. CASE Col(g, i) = c
      <4>1. g = n /\ i = k
        BY <1>2, <3>2, Distinct
      <4> QED BY <2>4, <4>1 DEF At, In
    <3> QED BY <2>1, <3>1, <3>2
  <2> QED BY <1>1, <2>1, <2>4, <2>5, <2>6, <2>7, Together
<1> QED BY <1>7, <1>8

\* A stop or an unreadable guard: from there on only the schema counts.
LEMMA StopStep ==
    ASSUME StartupInv, NEW s \in Servers, Stop(s) \/ GuardUnread(s)
    PROVE  StartupInv'
<1>1. /\ stops < MaxStops /\ stops' = stops + 1 /\ tables' = tables
      /\ columns' = columns /\ seeded' = seeded /\ indexes' = indexes
  BY DEF Stop, GuardUnread
<1>2. TypeOK /\ Ordered /\ Placed(s) /\ Done(s) /\ Checked(s)
  BY DEF StartupInv
<1>3. stops' \in 0..MaxStops /\ stops' # 0
  BY <1>1, <1>2, MigrationsAssumption DEF TypeOK
<1>4. Ordered'
  BY <1>1, <1>2 DEF Ordered
<1>5. 1 \in Counts /\ server[s].n \in Counts /\ {"down", "alter"} \subseteq Phases
  BY Places, GuardList DEF Counts, Phases
<1>6. CASE Stop(s)
  <2>1. Enter(s, "down", 1)
    BY <1>6 DEF Stop
  <2>2. /\ server' \in [Servers -> Position]
        /\ server'[s] = [phase |-> "down", n |-> 1, column |-> 1]
        /\ \A u \in Servers \ {s} : server'[u] = server[u]
    BY <1>5, <2>1, Moves
  <2>3. TypeOK' /\ Placed(s)' /\ Done(s)' /\ Checked(s)'
    BY <1>1, <1>2, <1>3, <2>2 DEF TypeOK, Placed, Done, Checked, Passed, In
  <2> QED BY <1>1, <1>3, <1>4, <2>2, <2>3, Together
<1>7. CASE GuardUnread(s)
  <2>1. In(s, "check") /\ Enter(s, "alter", server[s].n)
    BY <1>7 DEF GuardUnread
  <2>2. /\ server' \in [Servers -> Position]
        /\ server'[s] = [phase |-> "alter", n |-> server[s].n, column |-> 1]
        /\ \A u \in Servers \ {s} : server'[u] = server[u]
    BY <1>5, <2>1, Moves
  <2>3. server[s].n \in Guards /\ 1 \in 1..Size(server[s].n)
    BY <1>2, <2>1, GuardList DEF Placed, In
  <2>4. TypeOK' /\ Placed(s)' /\ Done(s)'
    BY <1>1, <1>2, <1>3, <2>1, <2>2, <2>3 DEF TypeOK, Placed, Done, In
  <2>5. Checked(s)'
    BY <1>1, <1>2, <2>1, <2>2 DEF Checked, Passed, In
  <2> QED BY <1>1, <1>3, <1>4, <2>2, <2>4, <2>5, Together
<1> QED BY <1>6, <1>7

LEMMA StartupInductive == StartupInv /\ [Next]_vars => StartupInv'
<1> SUFFICES ASSUME StartupInv, [Next]_vars PROVE StartupInv'
  OBVIOUS
<1>1. CASE UNCHANGED vars
  <2>1. ASSUME NEW s \in Servers
        PROVE  /\ Placed(s)' <=> Placed(s)
               /\ Done(s)' <=> Done(s)
               /\ Checked(s)' <=> Checked(s)
               /\ Ahead(s)' <=> Ahead(s)
    BY <1>1 DEF vars, Placed, Done, Checked, Passed, Ahead, In
  <2>2. (TypeOK' <=> TypeOK) /\ (Ordered' <=> Ordered) /\ (Taken' <=> Taken) /\ stops' = stops
    BY <1>1 DEF vars, TypeOK, Ordered, Taken, At, In
  <2> QED BY <2>1, <2>2 DEF StartupInv
<1>2. CASE Next
  BY <1>2, StartStep, CreateStep, SeedStep, GuardStep, AddStep, IndexStep, StopStep
  DEF Next, Step
<1> QED BY <1>1, <1>2

LEMMA StartupHolds == Spec => []StartupInv
BY InitStartup, StartupInductive, PTL DEF Spec

\* The schema, its guards' positions and the servers keep to their types.
THEOREM StartupTypes == Spec => []TypeOK
BY StartupHolds, PTL DEF StartupInv

\* Servers that open one database of an older release together never all fail
\* on one another's columns: the last to have added one goes on.
THEOREM SomeServerStands == Spec => []OneServerStands
<1>1. StartupInv => OneServerStands
  BY DEF StartupInv, OneServerStands, Ahead
<1> QED BY <1>1, StartupHolds, PTL

\* When all servers are up and nothing stopped, the schema is that of
\* schema.sql: no guard is left with some of its columns.
THEOREM UpgradesComplete == Spec => []UpgradeComplete
<1>1. ASSUME StartupInv, stops = 0, AllReady PROVE SchemaComplete
  <2>1. PICK s \in Servers : Done(s) /\ Checked(s) /\ In(s, "ready")
    BY <1>1, MigrationsAssumption DEF StartupInv, AllReady
  <2>2. \A g \in Guards : Col(g, 1) \in columns
    BY <2>1 DEF Checked, Passed, In
  <2>3. \A g \in Guards : \A k \in 1..Size(g) :
           k < Size(g) /\ Col(g, k) \in columns => Col(g, k + 1) \in columns
    BY <1>1 DEF StartupInv, Taken, At, AllReady, In
  <2>4. ASSUME NEW g \in Guards, NEW k \in 1..Size(g) PROVE Col(g, k) \in columns
    <3>1. Size(g) \in 1..3 /\ k \in {1, 2, 3}
      BY GuardList
    <3>2. CASE k = 1
      BY <2>2, <3>2
    <3>3. Size(g) > 1 => Col(g, 2) \in columns
      <4>1. Size(g) > 1 => 1 \in 1..Size(g) /\ 1 < Size(g) /\ 1 + 1 = 2
        BY <3>1
      <4> QED BY <2>2, <2>3, <4>1
    <3>4. Size(g) > 2 => Col(g, 3) \in columns
      <4>1. Size(g) > 2 => 2 \in 1..Size(g) /\ 2 < Size(g) /\ 2 + 1 = 3 /\ Size(g) > 1
        BY <3>1
      <4> QED BY <2>3, <3>3, <4>1
    <3> QED BY <3>1, <3>2, <3>3, <3>4
  <2>5. columns \subseteq AllColumns
    BY <1>1, ColumnSets DEF StartupInv, TypeOK
  <2>6. columns = AllColumns
    <3>1. ASSUME NEW c \in AllColumns PROVE c \in columns
      <4>1. PICK g \in Guards : \E k \in 1..Size(g) : c = Col(g, k)
        BY ColumnSets
      <4> QED BY <2>4, <4>1
    <3> QED BY <2>5, <3>1
  <2>7. tables = AllTables /\ seeded /\ indexes = DOMAIN Indexes
    BY <2>1, IndexList DEF Done, In
  <2> QED BY <2>6, <2>7 DEF SchemaComplete
<1>2. StartupInv => UpgradeComplete
  BY <1>1 DEF UpgradeComplete
<1> QED BY <1>2, StartupHolds, PTL
=============================================================================

------------------------------ MODULE Reports ------------------------------
(***************************************************************************)
(* From uploaded reports to what readers are shown: snapshots of one       *)
(* project, and the handlers that read them one query at a time            *)
(*  - "page": the project page (pages/project_detail.rs, pages/mod.rs),    *)
(*  - "export": the exported report (export.rs, report.rs),                *)
(*  - "latest": /latest and /trend (coverage.rs), "badge" (badge.rs) and   *)
(*    "embed" (embed.rs), which answer with one series                     *)
(* while uploads, retention and deletions go on between the queries.  An   *)
(* upload is dated when its body is parsed; it inserts its snapshot and    *)
(* prunes its series awaits later, and others may come in between.         *)
(*                                                                         *)
(* created_at is a place in the order of parsing; no two are the same, so  *)
(* it also stands for a snapshot's id.  Thresholds, colours, rates and     *)
(* deltas between two rates are left out: what is modelled is which        *)
(* snapshots a number comes from and which lines it counts.                *)
(***************************************************************************)
EXTENDS Formats

CONSTANTS
    Readers,
    Docs,         \* documents that are uploaded
    FullKept,     \* retention_full
    SummaryKept,  \* retention_summary
    MaxUploads,   \* bound: uploads
    MaxFailures   \* bound: queries that fail

ASSUME ReportsAssumption ==
    /\ {FullKept, SummaryKept, MaxUploads, MaxFailures} \subseteq Nat
    /\ FullKept > 0   \* the settings form accepts no less
    /\ Docs \subseteq Documents

VARIABLES
    rows,      \* coverage_snapshots of the project
    ingests,   \* uploads that were parsed and are not done: see Receive
    clock,     \* uploads so far
    req,       \* the readers' requests
    failures   \* queries that failed so far

reportvars == <<rows, ingests, clock, req, failures>>

AnyTarget == "any"
Root == <<"">>       \* the empty string, as a path
SeriesKinds == {"latest", "badge", "embed"}

\* A request as it arrives; current and baseline are snapshots an export
\* names (0: none).
Quiet == [kind |-> "none", pc |-> "idle", target |-> AnyTarget, current |-> 0,
          baseline |-> 0, todo |-> << >>, got |-> << >>, base |-> << >>,
          calls |-> << >>, dirs |-> << >>, shown |-> << >>, since |-> 0, clean |-> TRUE]

ReportsInit ==
    /\ rows = {}
    /\ ingests = {}
    /\ clock = 0
    /\ req = [r \in Readers |-> Quiet]
    /\ failures = 0

-----------------------------------------------------------------------------
(* Uploads *)

\* The target and the source a snapshot is filed under.
Series(d, format) ==
    CASE format = "lcov"   -> <<"LCOV", "lcov">>
      [] format = "go"     -> <<"GO_COVER", "go">>
      [] format = "llvm"   -> <<"RUST_LLVM_COV", "llvm-cov">>
      [] format = "python" -> <<"PYTHON_COVERAGE", "python-coverage">>
      [] format = "omnivore" -> <<d.target, "omnivore-agent">>
      [] format \in XmlFormats -> <<d.target, format>>

SameSeries(a, b) == a.target = b.target /\ a.source = b.source

\* ?format= names the document's format, or it is detected.  The snapshot is
\* made and dated (from_report); a handler that gets no further stays here.
Receive(d, format) ==
    LET report == Parse([d EXCEPT !.format = format])
        series == Series(d, format)
        row == [at |-> clock + 1, target |-> series[1], source |-> series[2],
                files |-> report.files, count |-> Len(report.files),
                sum |-> report.sum, doc |-> d]
    IN  /\ clock < MaxUploads
        /\ format \in {d.format, Detect(d)} \ {"none"}
        /\ report # NoReport
        /\ ingests' = ingests \union {[pc |-> "insert", row |-> row]}
        /\ clock' = clock + 1
        /\ UNCHANGED <<rows, req, failures>>

Proceed(u, pc) == ingests' = (ingests \ {u}) \union {[u EXCEPT !.pc = pc]}

\* insert_snapshot; the project is created first if it is not there.
Insert(u) ==
    /\ u.pc = "insert"
    /\ rows' = rows \union {u.row}
    /\ Proceed(u, "strip")
    /\ UNCHANGED <<clock, req, failures>>

\* The rows of the upload's series beyond the newest k.
Beyond(u, k) ==
    LET series == {x \in rows : SameSeries(x, u.row)} IN
    {x \in series : Cardinality({y \in series : y.at > x.at}) >= k}

\* prune_snapshots: first the older snapshots lose their files ...
Strip(u) ==
    /\ u.pc = "strip"
    /\ rows' = (rows \ Beyond(u, FullKept))
                  \union {[x EXCEPT !.files = << >>] : x \in Beyond(u, FullKept)}
    /\ Proceed(u, "trim")
    /\ UNCHANGED <<clock, req, failures>>

\* ... and then the oldest are deleted.
Trim(u) ==
    /\ u.pc = "trim"
    /\ rows' = rows \ Beyond(u, FullKept + SummaryKept)
    /\ ingests' = ingests \ {u}
    /\ UNCHANGED <<clock, req, failures>>

\* The project is deleted, its snapshots with it; an ingest that comes later
\* creates it again.  since: see NeverOlder.
Delete ==
    /\ rows # {}
    /\ rows' = {}
    /\ req' = LET coming == {u.row.at : u \in {v \in ingests : v.pc = "insert"}}
              IN  [r \in Readers |->
                     [req[r] EXCEPT !.since = Min({@} \union coming)]]
    /\ UNCHANGED <<ingests, clock, failures>>

-----------------------------------------------------------------------------
(* Queries *)

\* No snapshot was created at 0.
NoRow == [at |-> 0]
Latest(found) ==
    IF found = {} THEN NoRow ELSE CHOOSE x \in found : \A y \in found : x.at >= y.at
OfTarget(t) == {x \in rows : x.target = t}
OfSeries(s) == {x \in rows : <<x.target, x.source>> = s}
AllSeries == {<<x.target, x.source>> : x \in rows}
Targets == {x.target : x \in rows}
Matching(q) == {s \in AllSeries : q.target \in {AnyTarget, s[1]}}
Closest(t, at) ==
    LET Distance(x) == IF x.at < at THEN at - x.at ELSE x.at - at IN
    {x \in OfTarget(t) : \A y \in OfTarget(t) : Distance(x) <= Distance(y)}
Known(at) == \E x \in rows : x.at = at

\* A query of r's handler is answered (ok) or fails.
Query(ok) ==
    /\ ok \/ failures < MaxFailures
    /\ failures' = IF ok THEN failures ELSE failures + 1
    /\ UNCHANGED <<rows, ingests, clock>>
Continue(r, ok, q) == req' = [req EXCEPT ![r] = [q EXCEPT !.clean = @ /\ ok]]
Answer(q) == [q EXCEPT !.pc = "answered", !.todo = << >>, !.shown = << >>]
Found(q, row) == IF row = NoRow THEN q ELSE [q EXCEPT !.got = Append(@, row)]

\* A request arrives.  The pages offer an export only snapshots that exist.
Ask(r, kind, target, current, baseline) ==
    /\ req[r].pc = "idle"
    /\ rows # {}
    /\ \A at \in {current, baseline} : at = 0 \/ (kind = "export" /\ Known(at))
    /\ target = AnyTarget \/ (kind \in SeriesKinds /\ target \in Targets)
    /\ LET q == [Quiet EXCEPT !.kind = kind, !.target = target,
                              !.current = current, !.baseline = baseline]
           matching == {x \in rows : <<x.target, x.source>> \in Matching(q)}
       IN  req' = [req EXCEPT ![r] = [q EXCEPT !.pc = "list",
                     !.since = IF kind \in SeriesKinds
                               THEN Max({x.at : x \in matching}) ELSE 0]]
    /\ UNCHANGED <<rows, ingests, clock, failures>>

-----------------------------------------------------------------------------
(* One series: /latest, the badge, the embedded trend *)

\* resolve_series: the one series that matches.  With several, only the
\* embed goes on: it lists them again and compares.
ListSeries(r, ok) ==
    LET q == req[r] IN
    /\ q.kind \in SeriesKinds /\ q.pc = "list"
    /\ Query(ok)
    /\ Continue(r, ok,
         IF ok /\ Cardinality(Matching(q)) = 1
         THEN [q EXCEPT !.pc = "show", !.todo = SetToSeq(Matching(q))]
         ELSE IF ok /\ Cardinality(Matching(q)) > 1 /\ q.kind = "embed"
         THEN [q EXCEPT !.pc = "relist"]
         ELSE Answer(q))

RelistSeries(r, ok) ==
    LET q == req[r] IN
    /\ q.pc = "relist"
    /\ Query(ok)
    /\ Continue(r, ok, IF ok THEN [q EXCEPT !.pc = "compare",
                                            !.todo = SetToSeq(Matching(q))]
                       ELSE Answer(q))

\* Mutant: the first series listed.
NewestFirst(q) ==
    IF q.got = << >> THEN Answer(q)
    ELSE [q EXCEPT !.pc = "show", !.got = << >>,
                   !.todo = << <<q.got[1].target, q.got[1].source>> >>]

\* The newest of the snapshots compared.
Newest(q) ==
    IF q.got = << >> THEN Answer(q)
    ELSE LET best == CHOOSE x \in Range(q.got) : \A y \in Range(q.got) : x.at >= y.at
         IN  [q EXCEPT !.pc = "show", !.got = << >>,
                       !.todo = << <<best.target, best.source>> >>]

CompareSeries(r, ok) ==
    LET q == req[r] IN
    /\ q.pc = "compare"
    /\ IF q.todo = << >>
       THEN Query(TRUE) /\ Continue(r, TRUE, Newest(q))
       ELSE /\ Query(ok)
            /\ Continue(r, ok, Found([q EXCEPT !.todo = Tail(@)],
                                     IF ok THEN Latest(OfSeries(Head(q.todo))) ELSE NoRow))

ShowSeries(r, ok) ==
    LET q == req[r] IN
    /\ q.pc = "show"
    /\ Query(ok)
    /\ Continue(r, ok, Answer(Found(q, IF ok THEN Latest(OfSeries(Head(q.todo)))
                                       ELSE NoRow)))

-----------------------------------------------------------------------------
(* The exported report *)

ListTargets(r, ok) ==
    LET q == req[r] IN
    /\ q.kind = "export" /\ q.pc = "list"
    /\ Query(ok)
    /\ Continue(r, ok,
         IF ok THEN [q EXCEPT !.pc = IF q.current = 0 THEN "current" ELSE "picked",
                              !.todo = SetToSeq(Targets), !.shown = SetToSeq(Targets)]
         ELSE Answer(q))

\* get_snapshot_by_id: the picked snapshot only gives the date.
Pick(r, ok) ==
    LET q == req[r] IN
    /\ q.pc = "picked"
    /\ Query(ok)
    /\ Continue(r, ok, [q EXCEPT !.pc = IF ok /\ Known(q.current)
                                        THEN "around" ELSE "current"])

\* The snapshot of each target closest to that date; if there is none at all,
\* the latest of each.
ReadAround(r, ok) ==
    LET q == req[r] IN
    /\ q.pc = "around"
    /\ IF q.todo = << >>
       THEN /\ Query(TRUE)
            /\ Continue(r, TRUE,
                 IF q.got = << >> THEN [q EXCEPT !.pc = "current", !.todo = q.shown]
                 ELSE [q EXCEPT !.pc = "baseline"])
       ELSE /\ Query(ok)
            /\ LET near == Closest(Head(q.todo), q.current)
                   rest == [q EXCEPT !.todo = Tail(@)]
               IN  IF ok /\ near # {}
                   THEN \E x \in near : Continue(r, ok, Found(rest, x))
                   ELSE Continue(r, ok, rest)

ReadCurrent(r, ok) ==
    LET q == req[r] IN
    /\ q.pc = "current"
    /\ IF q.todo = << >>
       THEN /\ Query(TRUE)
            /\ Continue(r, TRUE, IF q.got = << >> THEN Answer(q)
                                 ELSE [q EXCEPT !.pc = "baseline"])
       ELSE /\ Query(ok)
            /\ Continue(r, ok, Found([q EXCEPT !.todo = Tail(@)],
                                     IF ok THEN Latest(OfTarget(Head(q.todo))) ELSE NoRow))

PickBaseline(r, ok) ==
    LET q == req[r] IN
    /\ q.pc = "baseline"
    /\ Query(ok)
    /\ Continue(r, ok, IF ok /\ q.baseline # 0 /\ Known(q.baseline)
                       THEN [q EXCEPT !.pc = "before", !.todo = q.shown]
                       ELSE Answer(q))

\* One baseline per target listed, none where it would be a snapshot shown.
\* Mutant: a snapshot may be compared with itself.
BaselineAny(q, x) == x
Baseline(q, x) == IF \E i \in DOMAIN q.got : q.got[i].at = x.at THEN NoRow ELSE x
ReadBaseline(r, ok) ==
    LET q == req[r] IN
    /\ q.pc = "before"
    /\ IF q.todo = << >>
       THEN Query(TRUE) /\ Continue(r, TRUE, Answer(q))
       ELSE /\ Query(ok)
            /\ LET near == Closest(Head(q.todo), q.baseline)
                   With(x) == [q EXCEPT !.todo = Tail(@), !.base = Append(@, x)]
               IN  IF ok /\ near # {}
                   THEN \E x \in near : Continue(r, ok, With(Baseline(q, x)))
                   ELSE Continue(r, ok, With(NoRow))

\* build_export_report: the i-th current snapshot against the i-th baseline.
Deltas(q) == {<<q.got[i], q.base[i]>> : i \in {j \in DOMAIN q.got :
                                                /\ j \in DOMAIN q.base
                                                /\ q.base[j] # NoRow}}

-----------------------------------------------------------------------------
(* The project page *)

Paths(row) == {row.files[i].path : i \in DOMAIN row.files}

\* build_file_tree and build_dir_node: a call has the files of one directory.
\* full_dir and prefix are the strings of the code: a directory whose parent
\* is the empty string is named without it.
Call(name, parent, files) == [name |-> name, parent |-> parent, files |-> files]
FullDir(c) == IF c.parent = Root THEN c.name ELSE c.parent \o c.name
Below(c, p) == IF Len(p) > Len(FullDir(c)) /\ IsPrefix(FullDir(c), p)
               THEN SubSeq(p, Len(FullDir(c)) + 1, Len(p)) ELSE p
SubDirs(c) == {Below(c, p)[1] : p \in {f \in c.files : Len(Below(c, f)) > 1}}
Leaves(c) == {p \in c.files : Len(Below(c, p)) = 1}
InSubDir(c, d) == {p \in c.files : Len(Below(c, p)) > 1 /\ Below(c, p)[1] = d}
TopCalls(paths) ==
    LET top == Call(<< >>, Root, paths) IN
    SetToSeq({Call(<<d>>, Root, InSubDir(top, d)) : d \in SubDirs(top)})

ListPage(r, ok) ==
    LET q == req[r] IN
    /\ q.kind = "page" /\ q.pc = "list"
    /\ Query(ok)
    /\ Continue(r, ok, [q EXCEPT !.pc = "read",
                                 !.todo = IF ok THEN SetToSeq(AllSeries) ELSE << >>])

\* from_snapshot begins to build the tree of the snapshot just read.
ReadPage(r, ok) ==
    LET q == req[r] IN
    /\ q.pc = "read" /\ q.todo # << >> /\ q.calls = << >>
    /\ Query(ok)
    /\ LET row == IF ok THEN Latest(OfSeries(Head(q.todo))) ELSE NoRow IN
       Continue(r, ok,
         Found([q EXCEPT !.todo = Tail(@),
                         !.dirs = IF row = NoRow THEN @ ELSE Append(@, {}),
                         !.calls = IF row = NoRow THEN @ ELSE TopCalls(Paths(row))],
               row))

\* Mutant: a directory is joined to its only subdirectory, files or not.
BuildDirJoined(r) ==
    LET q == req[r]
        c == Head(q.calls)
        only == CHOOSE d \in SubDirs(c) : TRUE
    IN  /\ q.calls # << >>
        /\ Query(TRUE)
        /\ Continue(r, TRUE,
             IF Cardinality(SubDirs(c)) = 1
             THEN [q EXCEPT !.calls = <<Call(c.name \o <<only>>, c.parent,
                                             InSubDir(c, only))>> \o Tail(@)]
             ELSE [q EXCEPT !.calls =
                     SetToSeq({Call(<<d>>, FullDir(c), InSubDir(c, d)) : d \in SubDirs(c)})
                     \o Tail(@),
                            !.dirs[Len(q.dirs)] = @ \union {[dir |-> FullDir(c),
                                                             files |-> c.files]}])

\* A directory of one directory is shown joined to it.
BuildDir(r) ==
    LET q == req[r]
        c == Head(q.calls)
        only == CHOOSE d \in SubDirs(c) : TRUE
    IN  /\ q.calls # << >>
        /\ Query(TRUE)
        /\ Continue(r, TRUE,
             IF Cardinality(SubDirs(c)) = 1 /\ Leaves(c) = {}
             THEN [q EXCEPT !.calls = <<Call(c.name \o <<only>>, c.parent, c.files)>>
                                      \o Tail(@)]
             ELSE [q EXCEPT !.calls =
                     SetToSeq({Call(<<d>>, FullDir(c), InSubDir(c, d)) : d \in SubDirs(c)})
                     \o Tail(@),
                            !.dirs[Len(q.dirs)] = @ \union {[dir |-> FullDir(c),
                                                             files |-> c.files]}])

\* compute_composite
HasLines(row) == \E i \in DOMAIN row.files : row.files[i].lines # << >>
\* Mutant: the last target wins.
EnterLast(union, path, l) ==
    [x \in DOMAIN union \union {<<path, l.n>>} |->
       IF x = <<path, l.n>> THEN l.c > 0 ELSE union[x]]

\* The union: whether each <<path, line>> was executed.
Enter(union, path, l) ==
    [x \in DOMAIN union \union {<<path, l.n>>} |->
       IF x = <<path, l.n>> THEN l.c > 0 \/ (x \in DOMAIN union /\ union[x]) ELSE union[x]]
EnterFile(union, f) == FoldLeft(LAMBDA u, l : Enter(u, f.path, l), union, f.lines)
EnterRow(union, row) ==
    IF HasLines(row) THEN FoldLeft(EnterFile, union, row.files) ELSE union

Composite(got) ==
    LET union == FoldLeft(EnterRow, << >>, got)
        with == {i \in DOMAIN got : HasLines(got[i])}
        Without(numbers) == Total([i \in DOMAIN got |-> IF i \in with THEN 0 ELSE numbers[i]])
    IN  [lc |-> Cardinality({x \in DOMAIN union : union[x]})
                  + Without([i \in DOMAIN got |-> got[i].sum.lc]),
         lt |-> Cardinality(DOMAIN union) + Without([i \in DOMAIN got |-> got[i].sum.lt]),
         files |-> Cardinality(UNION {Paths(got[i]) : i \in with})
                     + Without([i \in DOMAIN got |-> got[i].count]),
         bc |-> Total([i \in DOMAIN got |-> got[i].sum.bc]),
         bt |-> Total([i \in DOMAIN got |-> got[i].sum.bt])]

ShowPage(r) ==
    LET q == req[r] IN
    /\ q.pc = "read" /\ q.todo = << >> /\ q.calls = << >>
    /\ Query(TRUE)
    /\ Continue(r, TRUE, [Answer(q) EXCEPT !.shown = IF Len(q.got) < 2 THEN << >>
                                                     ELSE <<Composite(q.got)>>])

-----------------------------------------------------------------------------
Handle(r, ok) ==
    \/ ListSeries(r, ok) \/ RelistSeries(r, ok) \/ CompareSeries(r, ok)
    \/ ShowSeries(r, ok)
    \/ ListTargets(r, ok) \/ Pick(r, ok) \/ ReadAround(r, ok) \/ ReadCurrent(r, ok)
    \/ PickBaseline(r, ok) \/ ReadBaseline(r, ok)
    \/ ListPage(r, ok) \/ ReadPage(r, ok)

ReportsNext ==
    \/ \E d \in Docs : \E format \in {d.format, Detect(d)} : Receive(d, format)
    \/ \E u \in ingests : Insert(u) \/ Strip(u) \/ Trim(u)
    \/ Delete
    \/ \E r \in Readers :
         \/ \E kind \in SeriesKinds, target \in Targets \union {AnyTarget} :
              Ask(r, kind, target, 0, 0)
         \/ Ask(r, "page", AnyTarget, 0, 0)
         \/ \E current, baseline \in 0..clock : Ask(r, "export", AnyTarget, current, baseline)
         \/ \E ok \in BOOLEAN : Handle(r, ok)
         \/ BuildDir(r)
         \/ ShowPage(r)

ReportsSpec == ReportsInit /\ [][ReportsNext]_reportvars

-----------------------------------------------------------------------------
(* Properties *)

\* What a document says: <<path, line>> of its lines, and of those executed.
\* An lcov record is about the SF before it, unless a record has ended since.
SourceOf(recs, i) ==
    {j \in 1..(i - 1) : /\ recs[j].k = "SF"
                        /\ \A k \in (j + 1)..(i - 1) : recs[k].k \notin {"SF", "end"}}
LcovSaid(d) ==
    UNION {{[line |-> <<d.recs[j].p, d.recs[i].n>>, hit |-> d.recs[i].c > 0] :
              j \in SourceOf(d.recs, i)} :
             i \in {x \in DOMAIN d.recs : d.recs[x].k = "DA"}}
GoSaid(d) ==
    LET paths == {d.recs[i].p : i \in Blocks(d)} IN
    UNION {{[line |-> <<Relative(d.recs[i].p, paths), n>>, hit |-> d.recs[i].c > 0] :
              n \in d.recs[i].a..d.recs[i].b} : i \in Blocks(d)}
FilesSaid(d) ==
    UNION {{[line |-> <<d.files[i].p, r.n>>, hit |-> r.c > 0] :
              r \in {x \in Range(d.files[i].recs) : x.has}} : i \in DOMAIN d.files}
Said(d) == CASE d.format = "lcov" -> LcovSaid(d)
             [] d.format = "go" -> GoSaid(d)
             [] OTHER -> FilesSaid(d)
\* Line numbers of an llvm-cov export that no i32 holds come out as others.
Readable(d) == \A s \in Said(d) : s.line[2] <= Int32

\* The same of a stored snapshot, and the places of its lines.
Stored(row) ==
    UNION {{[line |-> <<f.path, l.n>>, hit |-> l.c > 0] : l \in Range(f.lines)} :
             f \in Range(row.files)}
Places(row) ==
    UNION {{<<i, j>> : j \in DOMAIN row.files[i].lines} : i \in DOMAIN row.files}

AsReported(row) ==
    LET said == {s \in Said(row.doc) : Plausible(s.line[2])}
        stored == Stored(row)
        Lines(S) == {s.line : s \in S}
        Hits(S) == {s.line : s \in {e \in S : e.hit}}
    IN  row.files # << >> /\ Readable(row.doc) =>
          /\ Lines(stored) = Lines(said)
          /\ Hits(stored) = Hits(said)
          /\ said # Said(row.doc) =>
               /\ row.sum.lt = Cardinality(Places(row))
               /\ row.sum.lc = Cardinality({p \in Places(row) :
                                             row.files[p[1]].lines[p[2]].c > 0})

\* A stored snapshot has the lines its document reports and could have, each
\* executed if and only if some record says so; and when a record was dropped
\* the totals are those of the lines that are left.  Records overlap and are
\* incomplete, differently in each format (parsers, drop_implausible_lines).
StoredAsReported == \A x \in rows : AsReported(x)

\* The row "all targets" of the page counts each line of each path once, as
\* executed if the snapshot shown of any series has it executed, and adds the
\* totals of the snapshots that lost their lines (compute_composite).
CompositeIsUnion ==
    \A r \in Readers :
        LET q == req[r]
            all == UNION {Stored(q.got[i]) : i \in DOMAIN q.got}
            without == {i \in DOMAIN q.got : Stored(q.got[i]) = {}}
        IN  q.kind = "page" /\ q.pc = "answered" /\ q.shown # << >> =>
              /\ q.shown[1].lt = Cardinality({e.line : e \in all})
                   + SumFunctionOnSet([i \in DOMAIN q.got |-> q.got[i].sum.lt], without)
              /\ q.shown[1].lc = Cardinality({e.line : e \in {x \in all : x.hit}})
                   + SumFunctionOnSet([i \in DOMAIN q.got |-> q.got[i].sum.lc], without)

\* An exported report compares each target with a snapshot of that target
\* which is none of those it shows, whatever is uploaded or deleted between
\* its queries, as long as none of them fails (export_report pushes a baseline
\* for every target listed, a current snapshot only for those found).
OwnBaseline ==
    \A r \in Readers :
        LET q == req[r] IN
        q.kind = "export" /\ q.pc = "answered" /\ q.clean =>
            \A d \in Deltas(q) : /\ d[1].target = d[2].target
                                 /\ \A i \in DOMAIN q.got : q.got[i].at # d[2].at

\* /latest, the badge and the embed, which list the series first and read one
\* of them later, never answer with a snapshot older than one that matched
\* when they were asked, whatever is inserted late or pruned; nor, if the
\* project was deleted since, than the oldest upload that was still to be
\* inserted then (resolve_series, resolve_series_or_newest,
\* resolve_badge_snapshot).
NeverOlder ==
    \A r \in Readers :
        LET q == req[r] IN
        q.kind \in SeriesKinds /\ q.clean /\ q.got # << >> /\ q.pc = "answered" =>
            Last(q.got).at >= q.since

\* The trees of a page have every file below each of its directories that is
\* shown, no two directories with the same files, and a directory for every
\* file that is in one (build_file_tree, build_dir_node).
TreeComplete ==
    \A r \in Readers :
        LET q == req[r] IN
        q.kind = "page" /\ q.calls = << >> =>
            \A i \in DOMAIN q.dirs :
                LET paths == Paths(q.got[i]) IN
                /\ \A d \in q.dirs[i] :
                      d.files = {p \in paths : IsPrefix(d.dir, p) /\ p # d.dir}
                /\ \A d, e \in q.dirs[i] : d.files = e.files => d = e
                /\ \A p \in paths : Len(p) > 1 =>
                      \E d \in q.dirs[i] : p \in d.files /\ \A e \in q.dirs[i] :
                          p \in e.files => Len(e.dir) <= Len(d.dir)

\* "Nested file tree with directory-level aggregates" (docs/features.md:12):
\* each call goes down into the paths of its files, so that the tree ends.
TreeDescends ==
    \A r \in Readers : \A i \in DOMAIN req[r].calls :
        LET c == req[r].calls[i] IN
        \A p \in c.files : Len(FullDir(c)) < Len(p)
=============================================================================

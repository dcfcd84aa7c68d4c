------------------------------ MODULE Formats ------------------------------
(***************************************************************************)
(* What the dashboard makes of an uploaded report: the six parsers         *)
(* (omnivore-core/src/parsers) and the snapshot they hand to storage       *)
(* (CoverageSnapshot::from_report).  Everything here is an operator on     *)
(* documents; Reports uploads them.                                        *)
(*                                                                         *)
(* A document is what its text says, record by record:                     *)
(*  - "lcov" and "go" are sequences of records, one per line of text;      *)
(*  - the others are files with one record per line of source, the totals  *)
(*    the producer adds (or NoTotals), and for llvm-cov one record per     *)
(*    segment, for coverage.py c = 1 for executed_lines.                   *)
(* A path is the sequence of its components; << >> is no path.             *)
(* Rates are quotients of the counts and are left out, and so is the order *)
(* of files; coverage of all but the first "data" entry of an llvm-cov     *)
(* export, which llvm-cov never writes, is ignored by the code too.        *)
(***************************************************************************)
EXTENDS Integers, SequencesExt

CONSTANTS
    MaxLine,    \* MAX_LINE_NUMBER
    MaxTotal,   \* MAX_TOTAL_LINES
    Int32,      \* the largest i32
    NoTotals,
    NoReport    \* the parser returned an error

ASSUME FormatsAssumption ==
    /\ {MaxLine, MaxTotal, Int32} \subseteq Nat \ {0}
    /\ MaxLine <= Int32

JsonFormats == {"omnivore", "llvm", "python"}
XmlFormats == {"jacoco", "kover"}
FormatNames == {"lcov", "go"} \union JsonFormats \union XmlFormats

Line(n, c) == [n |-> n, c |-> c]
File(p, lines, bc, bt) == [path |-> p, lines |-> lines, bc |-> bc, bt |-> bt]
HitLines(lines) == Cardinality({i \in DOMAIN lines : lines[i].c > 0})

\* Sequences: the sum, the elements that are in S, and sorted by line.
Total(numbers) == FoldLeft(LAMBDA sum, n : sum + n, 0, numbers)
Only(s, S) == FoldLeft(LAMBDA t, x : IF x \in S THEN Append(t, x) ELSE t, << >>, s)
Ascending(lines) ==
    FoldLeft(LAMBDA t, l : InsertAt(t, 1 + Cardinality({i \in DOMAIN t : t[i].n <= l.n}), l),
             << >>, lines)

\* lc of lt lines, bc of bt branches.
LinesOf(files) ==
    [lc |-> Total([i \in DOMAIN files |-> HitLines(files[i].lines)]),
     lt |-> Total([i \in DOMAIN files |-> Len(files[i].lines)]), bc |-> 0, bt |-> 0]
CountsOf(files) ==
    [LinesOf(files) EXCEPT !.bc = Total([i \in DOMAIN files |-> files[i].bc]),
                           !.bt = Total([i \in DOMAIN files |-> files[i].bt])]

\* Every line recorded, with the largest of the counts recorded for it.
MostHit(records) ==
    Ascending(SetToSeq({Line(n, Max({0} \union {l.c : l \in {k \in records : k.n = n}})) :
                          n \in {l.n : l \in records}}))

-----------------------------------------------------------------------------
(* lcov: DA, BRDA, BRF and BRH belong to the SF before them *)

LcovStart == [path |-> << >>, lines |-> << >>, brf |-> 0, brh |-> 0,
              files |-> << >>, bad |-> FALSE]

Flush(st) ==
    IF st.path = << >> THEN st
    ELSE [st EXCEPT !.files = Append(@, File(st.path, st.lines, st.brh, st.brf)),
                    !.path = << >>, !.lines = << >>]

\* Mutant: a file whose record does not end is lost.
LcovRecordNoFlush(st, e) ==
    CASE e.k = "SF"   -> [st EXCEPT !.path = e.p, !.lines = << >>]
      [] e.k = "DA"   -> [st EXCEPT !.lines = Append(@, Line(e.n, e.c))]
      [] e.k = "end"  -> Flush(st)
      [] OTHER        -> st

LcovRecord(st, e) ==
    CASE e.k = "SF"   -> [Flush(st) EXCEPT !.path = e.p, !.lines = << >>,
                                           !.brf = 0, !.brh = 0]
      [] e.k = "DA"   -> [st EXCEPT !.lines = Append(@, Line(e.n, e.c))]
      [] e.k = "BRDA" -> [st EXCEPT !.brf = @ + 1,
                                    !.brh = @ + (IF e.c > 0 THEN 1 ELSE 0)]
      [] e.k = "BRF"  -> [st EXCEPT !.brf = e.n]
      [] e.k = "BRH"  -> [st EXCEPT !.brh = e.n]
      [] e.k = "end"  -> [Flush(st) EXCEPT !.brf = 0, !.brh = 0]
      [] e.k = "bad"  -> [st EXCEPT !.bad = TRUE]  \* a DA that does not parse
      [] OTHER        -> st

Lcov(d) ==
    LET st == Flush(FoldLeft(LcovRecord, LcovStart, d.recs)) IN
    IF st.bad \/ st.files = << >> THEN NoReport
    ELSE [files |-> st.files, sum |-> CountsOf(st.files)]

-----------------------------------------------------------------------------
(* Go: a block covers the lines a..b; what is no block is skipped *)

Blocks(d) == {i \in DOMAIN d.recs : d.recs[i].k = "block"}
Implausible(e) == e.a < 1 \/ e.b < e.a \/ e.b > MaxLine
Expanded(d) == FoldSet(LAMBDA i, sum : sum + d.recs[i].b - d.recs[i].a + 1, 0,
                       Blocks(d))

GoLines(d, p) ==
    MostHit(UNION {{Line(n, d.recs[i].c) : n \in d.recs[i].a..d.recs[i].b} :
                     i \in {j \in Blocks(d) : d.recs[j].p = p}})

\* find_common_prefix: how many directories all paths share.
SharedDirs(paths) ==
    Max({k \in 0..Max({Len(p) : p \in paths}) :
           \A p, q \in paths : Len(p) > k /\ SubSeq(p, 1, k) = SubSeq(q, 1, k)})
Relative(p, paths) == SubSeq(p, SharedDirs(paths) + 1, Len(p))

Go(d) ==
    LET paths == {d.recs[i].p : i \in Blocks(d)}
        files == SetToSeq({File(Relative(p, paths), GoLines(d, p), 0, 0) : p \in paths})
    IN  IF \/ \E i \in Blocks(d) : Implausible(d.recs[i])
           \/ Expanded(d) > MaxTotal
           \/ \A i \in DOMAIN d.recs : d.recs[i].k # "mode"
           \/ paths = {}
        THEN NoReport
        ELSE [files |-> files, sum |-> CountsOf(files)]

-----------------------------------------------------------------------------
(* llvm-cov, JaCoCo and Kover, coverage.py, and the agent's own *)

\* "l as i32" keeps the low bits.
AsInt32(n) == ((n + Int32 + 1) % (2 * (Int32 + 1))) - Int32 - 1

\* segments_to_lines
SegmentLines(segments) ==
    MostHit({Line(AsInt32(s.n), s.c) : s \in {t \in Range(segments) : t.has}})

WithLines(files) == Only(files, {f \in Range(files) : f.lines # << >>})

Llvm(d) ==
    LET files == WithLines([i \in DOMAIN d.files |->
                   File(d.files[i].p, SegmentLines(d.files[i].recs),
                        d.files[i].bc, d.files[i].bt)])
    IN  IF files = << >> THEN NoReport
        ELSE [files |-> files,
              sum |-> IF d.totals = NoTotals THEN LinesOf(files) ELSE d.totals]

\* Branches are counted per line; the report's counters win over the sums.
Jacoco(d) ==
    LET Covered(f) == Total([j \in DOMAIN f.recs |-> f.recs[j].cb])
        Branches(f) == Total([j \in DOMAIN f.recs |-> f.recs[j].cb + f.recs[j].mb])
        files == WithLines([i \in DOMAIN d.files |->
                   File(d.files[i].p,
                        Ascending([j \in DOMAIN d.files[i].recs |->
                           Line(d.files[i].recs[j].n, d.files[i].recs[j].c)]),
                        Covered(d.files[i]), Branches(d.files[i]))])
    IN  IF files = << >> THEN NoReport
        ELSE [files |-> files,
              sum |-> IF d.totals = NoTotals THEN CountsOf(files) ELSE d.totals]

\* Executed lines, then missing ones, then sorted.
Python(d) ==
    LET Part(f, c) == LET rs == Only(f.recs, {r \in Range(f.recs) : r.c = c})
                      IN  [j \in DOMAIN rs |-> Line(rs[j].n, c)]
        files == [i \in DOMAIN d.files |->
                    LET f == d.files[i] IN
                    File(f.p, Ascending(Part(f, 1) \o Part(f, 0)),
                         IF d.branches THEN f.bc ELSE 0,
                         IF d.branches THEN f.bt ELSE 0)]
    IN  IF files = << >> THEN NoReport ELSE [files |-> files, sum |-> d.totals]

Omnivore(d) ==
    [files |-> [i \in DOMAIN d.files |->
                  LET f == d.files[i] IN
                  File(f.p, [j \in DOMAIN f.recs |-> Line(f.recs[j].n, f.recs[j].c)],
                       f.bc, f.bt)],
     sum |-> d.totals]

-----------------------------------------------------------------------------
(* The snapshot *)

Plausible(n) == n \in 1..MaxLine

\* drop_implausible_lines, which from_report begins with.
DropImplausible(r) ==
    LET kept == [i \in DOMAIN r.files |->
                   LET f == r.files[i] IN
                   [f EXCEPT !.lines = Only(f.lines, {l \in Range(f.lines) : Plausible(l.n)})]]
    IN  [files |-> kept,
         sum |-> IF kept = r.files THEN r.sum
                 ELSE [r.sum EXCEPT !.lc = LinesOf(kept).lc, !.lt = LinesOf(kept).lt]]

ParseAs(d) ==
    CASE d.format = "lcov"   -> Lcov(d)
      [] d.format = "go"     -> Go(d)
      [] d.format = "llvm"   -> Llvm(d)
      [] d.format = "python" -> Python(d)
      [] d.format = "omnivore" -> Omnivore(d)
      [] d.format \in XmlFormats -> Jacoco(d)

Parse(d) == IF ParseAs(d) = NoReport THEN NoReport ELSE DropImplausible(ParseAs(d))

\* CoverageFormat::detect.  What a document's text contains is marks: "llvm",
\* "python" and "omnivore" are the words detect looks for, "shape" is an older
\* report of the agent.  Kover's XML is JaCoCo's.
Detect(d) ==
    CASE d.format \in JsonFormats ->
           IF "omnivore" \in d.marks THEN "omnivore"
           ELSE IF "llvm" \in d.marks THEN "llvm"
           ELSE IF "python" \in d.marks THEN "python"
           ELSE IF "shape" \in d.marks THEN "omnivore" ELSE "none"
      [] d.format = "lcov" -> IF d.recs # << >> /\ d.recs[1].k \in {"TN", "SF"}
                              THEN "lcov" ELSE "none"
      [] d.format = "go" -> IF d.recs # << >> /\ d.recs[1].k = "mode"
                            THEN "go" ELSE "none"
      [] d.format \in XmlFormats -> "jacoco"

-----------------------------------------------------------------------------
(* Documents *)

Path == Seq(STRING) \ {<< >>}
Sums == [lc: Int, lt: Int, bc: Int, bt: Int]
LcovText == [k: {"SF"}, p: Path] \union [k: {"DA"}, n: Int, c: Int]
            \union [k: {"BRDA"}, c: Int] \union [k: {"BRF", "BRH"}, n: Int]
            \union [k: {"end", "bad", "TN"}]
GoText == [k: {"block"}, p: Path, a: Int, b: Int, c: Int] \union [k: {"mode", "noise"}]
SourceFile == [p: Path, bc: Int, bt: Int,
               recs: Seq([n: Nat, c: Int, cb: Int, mb: Int, has: BOOLEAN])]

\* omnivore and coverage.py always write totals, and only llvm-cov segments
\* without a count.  Texts that are taken for another format are left out.
FilesText ==
    {d \in [format: JsonFormats \union XmlFormats, target: STRING, branches: BOOLEAN,
            marks: SUBSET STRING, totals: Sums \union {NoTotals}, files: Seq(SourceFile)] :
       /\ d.format \in {"omnivore", "python"} => d.totals # NoTotals
       /\ d.format \in JsonFormats => Detect(d) \in {d.format, "none"}
       /\ \A i \in DOMAIN d.files : \A r \in Range(d.files[i].recs) :
             /\ d.format # "llvm" => r.has
             /\ d.format = "python" => r.c \in {0, 1}}
Documents == [format: {"lcov"}, recs: Seq(LcovText)]
             \union [format: {"go"}, recs: Seq(GoText)] \union FilesText
=============================================================================

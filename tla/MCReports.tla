------------------------------ MODULE MCReports ------------------------------
(***************************************************************************)
(* Instances of Reports and Agent for TLC: every small document uploaded   *)
(* once; a few documents uploaded, read and deleted in every order; or a   *)
(* class in the JVMs of two test tasks, and the report made of their files. *)
(***************************************************************************)
EXTENDS Reports, Agent

VARIABLE focus

Numbers == {1, 2, MaxLine + 1}
Counts == {0, 2}
a == <<"m", "a">>
b == <<"m", "b">>

UpTo(n, S) == UNION {[1..k -> S] : k \in 0..n}
Total3 == [lc |-> 1, lt |-> 3, bc |-> 1, bt |-> 2]

LcovRecords ==
    {[k |-> "SF", p |-> a], [k |-> "SF", p |-> b], [k |-> "end"], [k |-> "bad"],
     [k |-> "TN"], [k |-> "BRDA", c |-> 1], [k |-> "BRDA", c |-> 0],
     [k |-> "BRF", n |-> 2], [k |-> "BRH", n |-> 1]}
    \union {[k |-> "DA", n |-> n, c |-> c] : n \in Numbers, c \in Counts}
LcovDocs == {[format |-> "lcov", recs |-> recs] : recs \in UpTo(4, LcovRecords)}

GoRecords ==
    {[k |-> "mode"], [k |-> "noise"]}
    \union {[k |-> "block", p |-> p, a |-> x[1], b |-> x[2], c |-> c] :
              p \in {a, <<"m", "c", "d">>}, c \in Counts,
              x \in {<<1, 2>>, <<2, 3>>, <<2, 1>>, <<1, MaxLine + 1>>}}
GoDocs == {[format |-> "go", recs |-> recs] : recs \in UpTo(3, GoRecords)}

Recs == {[n |-> n, c |-> c, cb |-> cb, mb |-> 1, has |-> has] :
           n \in Numbers \union {2 * (Int32 + 1) + 1}, c \in {0, 1}, cb \in {0, 1},
           has \in BOOLEAN}
FilesDocs ==
    {[format |-> f, target |-> "JVM_UNIT", totals |-> totals, branches |-> FALSE,
      marks |-> {f},
      files |-> << [p |-> a, recs |-> recs, bc |-> 1, bt |-> 2],
                   [p |-> b, recs |-> << >>, bc |-> 0, bt |-> 0] >>] :
       f \in JsonFormats \union {"jacoco"}, totals \in {Total3, NoTotals},
       recs \in UpTo(2, Recs)}
\* What each format writes: totals where it always has them, no record without
\* a count but in llvm-cov, no number beyond i32 but in llvm-cov.
Written ==
    {d \in FilesDocs :
       /\ d.format \in {"omnivore", "python"} => d.totals # NoTotals
       /\ d.format # "llvm" =>
            \A i \in DOMAIN d.files[1].recs : /\ d.files[1].recs[i].has
                                              /\ d.files[1].recs[i].n <= Int32}
EveryDoc == LcovDocs \union GoDocs \union Written

ASSUME EveryDocAssumption == EveryDoc \subseteq Documents

Rec(n, c) == [n |-> n, c |-> c, cb |-> 0, mb |-> 0, has |-> TRUE]
Source(p, recs) == [p |-> p, recs |-> recs, bc |-> 0, bt |-> 0]
Tests == [format |-> "kover", target |-> "JVM_UNIT", totals |-> NoTotals,
          branches |-> FALSE, marks |-> {},
          files |-> << Source(<<"a", "x">>, <<Rec(1, 1), Rec(2, 0)>>),
                       Source(<<"a", "b", "c", "y">>, <<Rec(1, 0)>>),
                       Source(<<"a", "b", "c", "z">>, <<Rec(1, 1)>>) >>]
Block(p, n, m, c) == [k |-> "block", p |-> p, a |-> n, b |-> m, c |-> c]
Profile == [format |-> "go",
            recs |-> << [k |-> "mode"], Block(<<"m", "a", "x">>, 1, 2, 0),
                        Block(<<"m", "a", "x">>, 2, 2, 1), Block(<<"m", "w">>, 1, 1, 0) >>]
\* Totals without lines.
Summary == [format |-> "omnivore", target |-> "JVM_UNIT", branches |-> FALSE,
            marks |-> {"omnivore"}, totals |-> Total3,
            files |-> << [p |-> <<"a", "x">>, recs |-> << >>, bc |-> 1, bt |-> 2] >>]
\* llvm-cov writes absolute paths; two crates, one of them elsewhere.
Absolute == [format |-> "llvm", target |-> "JVM_UNIT", totals |-> NoTotals,
             branches |-> FALSE, marks |-> {"llvm"},
             files |-> << Source(<<"", "home", "x">>, <<Rec(1, 1)>>),
                          Source(<<"", "rustc", "y">>, <<Rec(1, 1)>>) >>]

Offered == {Tests, Profile, Summary}
OfferedAbsolute == {Absolute}

L(n) == [k |-> "line", n |-> n]
M(name, on, insns) == [name |-> name, on |-> on, insns |-> insns]
\* A switch, an inlined copy of line 1, and a method that has no probes; code
\* before the first line.
First == << M("f", TRUE, <<L(1), [k |-> "switch", arms |-> 1], L(2), [k |-> "goto"], L(1)>>),
            M("access", FALSE, <<L(1)>>) >>
Longer == Append(First, M("g", TRUE, <<[k |-> "jump"], L(3)>>))
Moved == << M("f", TRUE, <<L(2), [k |-> "jump"], L(4)>>) >>
Builds == << First, Longer, Moved >>

MCInit ==
    /\ ReportsInit /\ AgentInit /\ focus \in {"parse", "read", "agent"}
    /\ focus = "agent" \/ task \in {[j \in Jvms |-> t] : t \in {CHOOSE t \in Tasks : TRUE}}
\* Bounds of the readers' part.  Left out are the badge, whose queries are those
\* of /latest, and what no property is about: an export that names no baseline,
\* and one series or an export after a query failed.  Two uploads may be under
\* way, one of them past its insert; when a request comes, at most one is, not
\* yet inserted, and no other begins while a page or an export is read.  When
\* every request is answered the part is over.
Bounded ==
    /\ \E r \in Readers : req[r].pc # "answered"
    /\ \A r \in Readers : /\ req'[r].kind # "badge"
                          /\ req'[r].kind = "export" => req'[r].baseline # 0
                          /\ req'[r].kind = "page" \/ req'[r].clean
                          /\ req[r].pc = "idle" /\ req'[r].pc # "idle" =>
                               Cardinality(ingests) <= 1 /\ \A u \in ingests : u.pc = "insert"
    /\ Cardinality(ingests') <=
         IF \E r \in Readers : req'[r].kind \in {"page", "export"} THEN 1 ELSE 2
    /\ Cardinality({u \in ingests' : u.pc # "insert"}) <= 1

MCNext ==
    /\ UNCHANGED focus
    /\ \/ /\ focus = "parse" /\ clock = 0
          /\ \E d \in EveryDoc : \E format \in {d.format, Detect(d)} : Receive(d, format)
          /\ UNCHANGED agentvars
       \/ focus = "parse" /\ (\E u \in ingests : Insert(u)) /\ UNCHANGED agentvars
       \/ focus = "read" /\ ReportsNext /\ Bounded /\ UNCHANGED agentvars
       \/ focus = "agent" /\ AgentNext /\ UNCHANGED reportvars

MCSpec == MCInit /\ [][MCNext]_<<reportvars, agentvars, focus>>
=============================================================================

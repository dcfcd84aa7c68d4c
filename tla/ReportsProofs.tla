--------------------------- MODULE ReportsProofs ---------------------------
(***************************************************************************)
(* Proofs about Reports: for any documents, readers and bounds, an export  *)
(* compares each target with another snapshot of that target, and whoever  *)
(* asks for one series is not shown a snapshot older than one that matched *)
(* when it asked, or, after a deletion, than the uploads that were then    *)
(* under way, whatever is uploaded, pruned or deleted between the queries  *)
(* of a handler; the trees of a page have every file; every snapshot has   *)
(* the lines that its document reports; and the row for all targets of a   *)
(* page is the union of the snapshots shown.                               *)
(***************************************************************************)
EXTENDS FormatsProofs

Listed(s) == s \in Seq(Range(s))

-----------------------------------------------------------------------------
(* The invariants, of snapshots rs, uploads us, rows cs still to be         *)
(* inserted, c uploads so far, and of a request q                          *)

\* The snapshots, and the uploads that are not yet among them.
Dated(x, c) == {"at", "target", "source"} \subseteq DOMAIN x /\ x.at \in 1..c
Ordered(rs, us, c) ==
    /\ c \in Nat
    /\ IsFiniteSet(rs)
    /\ \A x \in rs : Dated(x, c)
    /\ \A u \in us : DOMAIN u = {"pc", "row"} /\ Dated(u.row, c)
    /\ \A u, v \in us :
          u.pc = "insert" /\ v.pc = "insert" /\ u.row.at = v.row.at => u = v
    /\ \A u \in us : \A x \in rs : u.pc = "insert" => u.row.at # x.at
Coming == {u.row : u \in {v \in ingests : v.pc = "insert"}}

HasAt(rs, n) == \E x \in rs : x.at = n
HasTarget(rs, t) == \E x \in rs : x.target = t
SeriesOf(x) == <<x.target, x.source>>
\* Every snapshot from before n has been deleted, and none is still to come; a
\* series has one that is not from before n.
Gone(rs, cs, n) == \A x \in rs \union cs : x.at >= n
Ahead(rs, s, n) == \E x \in rs : SeriesOf(x) = s /\ x.at >= n

\* What the steps of an upload do to the snapshots, and to those still to come:
\* none is added that was not among these, none of these is older than the
\* clock but for those that were, and no series loses its newest.
Refreshed(rs, cs, c, rs2, cs2, c2) ==
    /\ c2 \in Nat /\ c2 >= c
    /\ \A y \in rs2 : \E x \in rs \union cs : y.at = x.at
    /\ \A y \in cs2 : y \in cs \/ (y.at \in Nat /\ y.at > c)
    /\ \A x \in rs : \E y \in rs2 : /\ SeriesOf(y) = SeriesOf(x)
                                    /\ y.target = x.target /\ y.at >= x.at

\* The fields of a request, and the handlers that requests of its kind reach.
\* The baseline it names was among the snapshots when it was asked.
Asked(cs, c, q) ==
    /\ DOMAIN q = {"kind", "pc", "target", "current", "baseline", "todo", "got", "base",
                   "calls", "dirs", "shown", "since", "clean"}
    /\ Listed(q.todo) /\ Listed(q.got) /\ Listed(q.base) /\ Listed(q.shown)
    /\ q.since \in 0..c /\ q.baseline \in 0..c /\ q.current \in Nat
    /\ \A x \in cs : x.at # q.baseline
    /\ \A k \in DOMAIN q.got : q.got[k].at \in 1..c
    /\ q.pc \in {"relist", "compare", "show"} => q.kind \in SeriesKinds
    /\ q.pc \in {"picked", "around", "current", "baseline", "before"} => q.kind = "export"
    /\ q.pc = "read" => q.kind = "page"
    /\ q.calls # << >> => q.kind = "page"
    /\ q.pc \in {"idle", "list", "relist", "show"} => q.got = << >>
    /\ q.pc \in {"idle", "list", "picked", "around", "current", "baseline"} => q.base = << >>

\* The targets still to be read are those after the targets read into s.
Lined(q, s) ==
    /\ Len(s) + Len(q.todo) = Len(q.shown)
    /\ \A i \in DOMAIN q.todo : q.todo[i] = q.shown[Len(s) + i]

\* The i-th snapshot shown is of the i-th target listed.
InOrder(q) == \A i \in DOMAIN q.got : q.got[i].target = q.shown[i]
Apart(q, x) == \A i \in DOMAIN q.got : q.got[i].at # x.at

\* While the baseline an export names is still there nothing has been deleted
\* since it was asked, so that every target listed has been or will be found.
Exporting(rs, q) ==
    q.kind = "export" /\ q.clean =>
        /\ q.pc \in {"picked", "around", "current", "baseline"} /\ HasAt(rs, q.baseline) =>
              /\ \A i \in DOMAIN q.shown : HasTarget(rs, q.shown[i])
              /\ InOrder(q)
              /\ IF q.pc = "baseline" THEN Len(q.got) = Len(q.shown) ELSE Lined(q, q.got)
        /\ q.pc = "before" =>
              /\ InOrder(q) /\ Len(q.got) = Len(q.shown)
              /\ Lined(q, q.base)
              /\ \A i \in DOMAIN q.base : q.base[i] # NoRow =>
                    q.base[i].target = q.shown[i] /\ Apart(q, q.base[i])
        /\ q.pc = "answered" =>
              \A i \in DOMAIN q.got : i \in DOMAIN q.base /\ q.base[i] # NoRow =>
                    q.got[i].target = q.base[i].target /\ Apart(q, q.base[i])

\* Unless everything was deleted meanwhile, one of the series a request still
\* has to read, or has read, has a snapshot as recent as when it was asked.
Searching(rs, cs, q) ==
    q.kind \in SeriesKinds /\ q.clean =>
        /\ q.pc \in {"list", "relist"} =>
              \/ Gone(rs, cs, q.since)
              \/ \E x \in rs : q.target \in {AnyTarget, x.target} /\ x.at >= q.since
        /\ q.pc = "compare" =>
              /\ \A k \in DOMAIN q.got :
                    Gone(rs, cs, q.since) \/ Ahead(rs, SeriesOf(q.got[k]), q.got[k].at)
              /\ \/ Gone(rs, cs, q.since)
                 \/ \E i \in DOMAIN q.todo : Ahead(rs, q.todo[i], q.since)
                 \/ \E k \in DOMAIN q.got : q.got[k].at >= q.since
        /\ q.pc = "show" => Gone(rs, cs, q.since) \/ Ahead(rs, Head(q.todo), q.since)
        /\ q.pc = "answered" /\ q.got # << >> => q.got[Len(q.got)].at >= q.since

Good(rs, cs, c, q) == Asked(cs, c, q) /\ Exporting(rs, q) /\ Searching(rs, cs, q)

ReportsInv ==
    /\ Ordered(rows, ingests, clock)
    /\ DOMAIN req = Readers
    /\ \A r \in Readers : Good(rows, Coming, clock, req[r])

-----------------------------------------------------------------------------
(* Sequences and sets *)

\* Lists: what is added, what is left, and the elements of a set as a list.
LEMMA ListedSeq ==
    ASSUME NEW T, NEW s \in Seq(T)
    PROVE  Listed(s)
BY DEF Listed, Range

LEMMA ListedEmpty == Listed(<< >>)
BY DEF Listed, Range

LEMMA ListedAppend ==
    ASSUME NEW s, Listed(s), NEW x
    PROVE  /\ Listed(Append(s, x))
           /\ Len(Append(s, x)) = Len(s) + 1
           /\ DOMAIN Append(s, x) = 1..(Len(s) + 1)
           /\ \A i \in DOMAIN s : Append(s, x)[i] = s[i]
           /\ Append(s, x)[Len(s) + 1] = x
           /\ Append(s, x) # << >>
<1> DEFINE T == Range(s) \union {x}
<1>1. s \in Seq(T) /\ x \in T
  BY DEF Listed
<1> HIDE DEF T
<1>2. Append(s, x) \in Seq(T) /\ Len(s) \in Nat
  BY <1>1
<1>3. Listed(Append(s, x))
  BY <1>2, ListedSeq
<1>4. Len(Append(s, x)) = Len(s) + 1 /\ DOMAIN Append(s, x) = 1..(Len(s) + 1)
  BY <1>1, <1>2
<1>5. /\ \A i \in DOMAIN s : Append(s, x)[i] = s[i]
      /\ Append(s, x)[Len(s) + 1] = x
  BY <1>1, <1>2
<1>6. Append(s, x) # << >>
  BY <1>2, <1>4
<1> QED BY <1>3, <1>4, <1>5, <1>6

LEMMA ListedTail ==
    ASSUME NEW s, Listed(s), s # << >>
    PROVE  /\ Listed(Tail(s))
           /\ Len(s) >= 1 /\ Len(Tail(s)) = Len(s) - 1
           /\ Head(s) = s[1]
           /\ \A i \in DOMAIN Tail(s) : i + 1 \in DOMAIN s /\ Tail(s)[i] = s[i + 1]
<1> DEFINE T == Range(s)
<1>1. s \in Seq(T)
  BY DEF Listed
<1> HIDE DEF T
<1>2. Tail(s) \in Seq(T)
  BY <1>1
<1>3. Len(s) \in Nat /\ Len(s) >= 1 /\ Len(Tail(s)) = Len(s) - 1 /\ Head(s) = s[1]
  BY <1>1
<1>4. \A i \in DOMAIN Tail(s) : i + 1 \in DOMAIN s /\ Tail(s)[i] = s[i + 1]
  BY <1>1, <1>2, <1>3
<1> QED BY <1>2, <1>3, <1>4, ListedSeq

LEMMA SetAsList ==
    ASSUME NEW S, IsFiniteSet(S)
    PROVE  /\ SetToSeq(S) \in Seq(S)
           /\ Listed(SetToSeq(S))
           /\ Len(SetToSeq(S)) = Cardinality(S)
           /\ \A x \in S : \E i \in DOMAIN SetToSeq(S) : SetToSeq(S)[i] = x
           /\ \A i \in DOMAIN SetToSeq(S) : SetToSeq(S)[i] \in S
           /\ \A i, j \in DOMAIN SetToSeq(S) : i # j => SetToSeq(S)[i] # SetToSeq(S)[j]
<1> DEFINE n == Cardinality(S)
           f == SetToSeq(S)
<1>1. n \in Nat /\ ExistsBijection(1..n, S)
  BY FS_CardinalityType
<1>2. \E g \in [1..n -> S] : IsInjective(g)
  BY <1>1 DEF ExistsBijection, Bijection, Injection, IsInjective
<1>3. f \in [1..n -> S] /\ IsInjective(f)
  BY <1>2 DEF SetToSeq
<1>4. f \in Injection(1..n, S)
  BY <1>3 DEF Injection, IsInjective
<1> HIDE DEF f, n
<1>5. f \in Surjection(1..n, S)
  <2>1. IsFiniteSet(1..n) /\ Cardinality(1..n) = n
    BY <1>1, FS_Interval
  <2> QED BY <1>4, <2>1, FS_Injection DEF n
<1>6. f \in Seq(S) /\ Len(f) = n
  BY <1>1, <1>3
<1>7. \A x \in S : \E i \in DOMAIN f : f[i] = x
  BY <1>3, <1>5 DEF Surjection
<1>8. \A i, j \in DOMAIN f : i # j => f[i] # f[j]
  BY <1>3 DEF IsInjective
<1> QED BY <1>3, <1>6, <1>7, <1>8, ListedSeq DEF f, n

-----------------------------------------------------------------------------
(* The snapshots *)

\* The newest of some snapshots, and the closest ones to a date.
LEMMA LatestIs ==
    ASSUME Ordered(rows, ingests, clock), NEW found \in SUBSET rows, found # {}
    PROVE  Latest(found) \in found /\ \A y \in found : Latest(found).at >= y.at
<1> DEFINE S == {x.at : x \in found}
<1>1. clock \in Nat /\ S \subseteq 0..clock /\ S # {}
  BY DEF Ordered, Dated
<1>2. Max(S) \in S /\ \A n \in S : Max(S) >= n
  BY <1>1, GreatestNumber
<1>3. PICK x \in found : Max(S) = x.at
  BY <1>2
<1>4. \A y \in found : x.at >= y.at
  BY <1>2, <1>3
<1> QED BY <1>4 DEF Latest

LEMMA ClosestAre ==
    ASSUME Ordered(rows, ingests, clock), NEW t, NEW n \in Nat
    PROVE  /\ \A x \in Closest(t, n) : x \in rows /\ x.target = t
           /\ HasTarget(rows, t) => Closest(t, n) # {}
<1> DEFINE Distance(x) == IF x.at < n THEN n - x.at ELSE x.at - n
           S == {Distance(x) : x \in OfTarget(t)}
<1>1. \A x \in OfTarget(t) : x \in rows /\ x.target = t /\ Distance(x) \in Nat
  BY DEF OfTarget, Ordered, Dated
<1>2. \A x \in Closest(t, n) : x \in rows /\ x.target = t
  BY <1>1 DEF Closest
<1>3. ASSUME HasTarget(rows, t) PROVE Closest(t, n) # {}
  <2>1. OfTarget(t) # {}
    BY <1>3 DEF HasTarget, OfTarget
  <2>2. S \subseteq Nat /\ S # {}
    BY <1>1, <2>1
  <2>3. PICK m \in S : \A k \in S : m <= k
    BY <2>2, LeastNumber
  <2>4. PICK y \in OfTarget(t) : m = Distance(y)
    BY <2>3
  <2>5. \A z \in OfTarget(t) : Distance(y) <= Distance(z)
    BY <2>3, <2>4
  <2>6. y \in Closest(t, n)
    BY <2>5 DEF Closest
  <2> QED BY <2>6
<1> QED BY <1>2, <1>3

\* The series and the targets there are.
LEMMA FiniteLists ==
    ASSUME Ordered(rows, ingests, clock)
    PROVE  /\ IsFiniteSet(Targets) /\ IsFiniteSet(AllSeries)
           /\ \A q : IsFiniteSet(Matching(q))
<1>1. IsFiniteSet(rows)
  BY DEF Ordered
<1>2. IsFiniteSet(Targets)
  <2> DEFINE f == [x \in rows |-> x.target]
  <2>1. Targets = {f[x] : x \in rows}
    BY DEF Targets
  <2>2. DOMAIN f = rows
    OBVIOUS
  <2> HIDE DEF f
  <2> QED BY <1>1, <2>1, <2>2, ImageFinite
<1>3. IsFiniteSet(AllSeries)
  <2> DEFINE f == [x \in rows |-> <<x.target, x.source>>]
  <2>1. AllSeries = {f[x] : x \in rows}
    BY DEF AllSeries
  <2>2. DOMAIN f = rows
    OBVIOUS
  <2> HIDE DEF f
  <2> QED BY <1>1, <2>1, <2>2, ImageFinite
<1>4. ASSUME NEW q PROVE IsFiniteSet(Matching(q))
  <2>1. Matching(q) \in SUBSET AllSeries
    BY DEF Matching
  <2> QED BY <1>3, <2>1, FS_Subset
<1> QED BY <1>2, <1>3, <1>4

-----------------------------------------------------------------------------
(* Uploads *)

\* An upload is dated after all the others.
LEMMA ReceiveStep ==
    ASSUME Ordered(rows, ingests, clock), NEW d, NEW format, Receive(d, format)
    PROVE  /\ Ordered(rows', ingests', clock')
           /\ Refreshed(rows, Coming, clock, rows', Coming', clock')
<1> DEFINE series == Series(d, format)
           report == Parse([d EXCEPT !.format = format])
           row == [at |-> clock + 1, target |-> series[1], source |-> series[2],
                   files |-> report.files, count |-> Len(report.files),
                   sum |-> report.sum, doc |-> d]
           new == [pc |-> "insert", row |-> row]
<1>1. /\ rows' = rows /\ clock' = clock + 1 /\ ingests' = ingests \union {new}
  BY DEF Receive
<1>2. /\ {"at", "target", "source"} \subseteq DOMAIN row /\ row.at = clock + 1
      /\ DOMAIN new = {"pc", "row"} /\ new.row = row
  OBVIOUS
<1> HIDE DEF row, new
<1>3. /\ clock \in Nat
      /\ \A x \in rows : Dated(x, clock)
      /\ \A u \in ingests : DOMAIN u = {"pc", "row"} /\ Dated(u.row, clock)
  BY DEF Ordered
<1>4. \A x : Dated(x, clock) => Dated(x, clock + 1) /\ x.at # clock + 1
  BY <1>3 DEF Dated
<1>5. Dated(row, clock + 1)
  BY <1>2, <1>3 DEF Dated
<1>6. \A u, v \in ingests' :
         u.pc = "insert" /\ v.pc = "insert" /\ u.row.at = v.row.at => u = v
  BY <1>1, <1>2, <1>3, <1>4 DEF Ordered
<1>7. \A u \in ingests' : \A x \in rows' : u.pc = "insert" => u.row.at # x.at
  BY <1>1, <1>2, <1>3, <1>4 DEF Ordered
<1>8. Ordered(rows', ingests', clock')
  BY <1>1, <1>2, <1>3, <1>4, <1>5, <1>6, <1>7 DEF Ordered
<1>9. \A y \in Coming' : y \in Coming \/ y = row
  BY <1>1, <1>2 DEF Coming
<1>10. \A x \in rows : x.at >= x.at
  BY <1>3 DEF Dated
<1>11. Refreshed(rows, Coming, clock, rows', Coming', clock')
  BY <1>1, <1>2, <1>3, <1>9, <1>10 DEF Refreshed
<1> QED BY <1>8, <1>11

\* The uploads under way, when one has gone on or is done.
LEMMA Proceeds ==
    ASSUME Ordered(rows, ingests, clock), NEW u \in ingests, NEW pc, pc # "insert",
           ingests' = ingests \ {u} \/ Proceed(u, pc)
    PROVE  /\ \A v \in ingests' : DOMAIN v = {"pc", "row"} /\ Dated(v.row, clock)
           /\ \A v \in ingests' : v.pc = "insert" => v \in ingests /\ v # u
           /\ \A v \in ingests' : \E w \in ingests : v.row = w.row
           /\ Coming' \subseteq Coming
<1> DEFINE next == [u EXCEPT !.pc = pc]
<1>1. DOMAIN u = {"pc", "row"} /\ Dated(u.row, clock)
  BY DEF Ordered
<1>2. DOMAIN next = {"pc", "row"} /\ next.pc = pc /\ next.row = u.row
  BY <1>1
<1>3. \A v \in ingests' : (v \in ingests /\ v # u) \/ v = next
  BY DEF Proceed
<1> HIDE DEF next
<1>4. \A v \in ingests' : DOMAIN v = {"pc", "row"} /\ Dated(v.row, clock)
  BY <1>1, <1>2, <1>3 DEF Ordered
<1>5. \A v \in ingests' : v.pc = "insert" => v \in ingests /\ v # u
  BY <1>2, <1>3
<1>6. \A v \in ingests' : \E w \in ingests : v.row = w.row
  BY <1>2, <1>3
<1> QED BY <1>4, <1>5, <1>6 DEF Coming

LEMMA InsertStep ==
    ASSUME Ordered(rows, ingests, clock), NEW u \in ingests, Insert(u)
    PROVE  /\ Ordered(rows', ingests', clock')
           /\ Refreshed(rows, Coming, clock, rows', Coming', clock')
<1>1. /\ u.pc = "insert" /\ rows' = rows \union {u.row} /\ clock' = clock
      /\ Proceed(u, "strip")
  BY DEF Insert
<1>2. /\ clock \in Nat /\ Dated(u.row, clock) /\ u.row \in Coming
      /\ \A x \in rows : Dated(x, clock)
  BY <1>1 DEF Ordered, Coming
<1>3. /\ \A v \in ingests' : DOMAIN v = {"pc", "row"} /\ Dated(v.row, clock)
      /\ \A v \in ingests' : v.pc = "insert" => v \in ingests /\ v # u
      /\ Coming' \subseteq Coming
  BY <1>1, Proceeds
<1>4. IsFiniteSet(rows')
  BY <1>1, FS_AddElement DEF Ordered
<1>5. \A v, w \in ingests' :
         v.pc = "insert" /\ w.pc = "insert" /\ v.row.at = w.row.at => v = w
  BY <1>3 DEF Ordered
<1>6. \A v \in ingests' : \A x \in rows' : v.pc = "insert" => v.row.at # x.at
  BY <1>1, <1>3 DEF Ordered
<1>7. Ordered(rows', ingests', clock')
  BY <1>1, <1>2, <1>3, <1>4, <1>5, <1>6 DEF Ordered
<1>8. \A x \in rows : x.at >= x.at
  BY <1>2 DEF Dated
<1>9. Refreshed(rows, Coming, clock, rows', Coming', clock')
  BY <1>1, <1>2, <1>3, <1>8 DEF Refreshed
<1> QED BY <1>7, <1>9

\* Retention takes snapshots away, or their files, but not the newest of a
\* series.
LEMMA NewestKept ==
    ASSUME Ordered(rows, ingests, clock), NEW u, NEW k \in Nat, k > 0, NEW x \in rows
    PROVE  \E y \in rows \ Beyond(u, k) : /\ SeriesOf(y) = SeriesOf(x)
                                          /\ y.target = x.target /\ y.at >= x.at
<1> DEFINE series == {y \in rows : SameSeries(y, u.row)}
<1>1. \A y \in rows : y.at \in Nat
  BY DEF Ordered, Dated
<1>2. CASE x \notin series
  <2>1. x \notin Beyond(u, k)
    BY <1>2 DEF Beyond
  <2> QED BY <1>1, <2>1
<1>3. CASE x \in series
  <2>1. PICK y \in series : \A z \in series : y.at >= z.at
    BY <1>3, LatestIs
  <2>2. {z \in series : z.at > y.at} = {}
    BY <1>1, <2>1
  <2>3. Cardinality({}) = 0
    BY FS_EmptySet
  <2>4. y \notin Beyond(u, k)
    BY <2>2, <2>3 DEF Beyond
  <2> QED BY <1>3, <2>1, <2>4 DEF SameSeries, SeriesOf
<1> QED BY <1>2, <1>3

LEMMA PruneStep ==
    ASSUME Ordered(rows, ingests, clock), NEW u \in ingests, u.pc # "insert",
           NEW pc, pc # "insert", ingests' = ingests \ {u} \/ Proceed(u, pc),
           UNCHANGED clock, IsFiniteSet(rows'),
           \A y \in rows' : Dated(y, clock) /\ \E x \in rows : y.at = x.at,
           \A x \in rows : \E y \in rows' : /\ SeriesOf(y) = SeriesOf(x)
                                            /\ y.target = x.target /\ y.at >= x.at
    PROVE  /\ Ordered(rows', ingests', clock')
           /\ Refreshed(rows, Coming, clock, rows', Coming', clock')
<1>1. /\ \A v \in ingests' : DOMAIN v = {"pc", "row"} /\ Dated(v.row, clock)
      /\ \A v \in ingests' : v.pc = "insert" => v \in ingests /\ v # u
      /\ Coming' \subseteq Coming
  BY Proceeds
<1>2. clock \in Nat
  BY DEF Ordered
<1>3. \A v, w \in ingests' :
         v.pc = "insert" /\ w.pc = "insert" /\ v.row.at = w.row.at => v = w
  BY <1>1 DEF Ordered
<1>4. \A v \in ingests' : \A y \in rows' : v.pc = "insert" => v.row.at # y.at
  BY <1>1 DEF Ordered
<1>5. Ordered(rows', ingests', clock')
  BY <1>1, <1>2, <1>3, <1>4 DEF Ordered
<1>6. Refreshed(rows, Coming, clock, rows', Coming', clock')
  BY <1>1, <1>2 DEF Refreshed
<1> QED BY <1>5, <1>6

LEMMA StripStep ==
    ASSUME Ordered(rows, ingests, clock), NEW u \in ingests, Strip(u)
    PROVE  /\ Ordered(rows', ingests', clock')
           /\ Refreshed(rows, Coming, clock, rows', Coming', clock')
<1> DEFINE old == Beyond(u, FullKept)
           f == [x \in rows |-> IF x \in old THEN [x EXCEPT !.files = << >>] ELSE x]
<1>1. /\ u.pc = "strip" /\ UNCHANGED clock /\ Proceed(u, "trim")
      /\ rows' = (rows \ old) \union {[x EXCEPT !.files = << >>] : x \in old}
  BY DEF Strip
<1>2. old \subseteq rows
  BY DEF Beyond
<1> HIDE DEF old
<1>3. rows' = {f[x] : x \in rows} /\ DOMAIN f = rows
  BY <1>1, <1>2
<1>4. \A x \in rows : /\ f[x].at = x.at /\ f[x].target = x.target
                      /\ SeriesOf(f[x]) = SeriesOf(x)
                      /\ Dated(f[x], clock) /\ x.at >= x.at
  BY DEF Ordered, Dated, SeriesOf
<1> HIDE DEF f
<1>5. IsFiniteSet(rows')
  BY <1>3, ImageFinite DEF Ordered
<1>6. \A y \in rows' : Dated(y, clock) /\ \E x \in rows : y.at = x.at
  BY <1>3, <1>4
<1>7. \A x \in rows : \E y \in rows' : /\ SeriesOf(y) = SeriesOf(x)
                                       /\ y.target = x.target /\ y.at >= x.at
  BY <1>3, <1>4
<1> QED BY <1>1, <1>5, <1>6, <1>7, PruneStep

LEMMA TrimStep ==
    ASSUME Ordered(rows, ingests, clock), NEW u \in ingests, Trim(u)
    PROVE  /\ Ordered(rows', ingests', clock')
           /\ Refreshed(rows, Coming, clock, rows', Coming', clock')
<1> DEFINE k == FullKept + SummaryKept
<1>1. /\ u.pc = "trim" /\ UNCHANGED clock /\ ingests' = ingests \ {u}
      /\ rows' = rows \ Beyond(u, k)
  BY DEF Trim
<1>2. k \in Nat /\ k > 0
  BY ReportsAssumption
<1> HIDE DEF k
<1>3. IsFiniteSet(rows')
  BY <1>1, FS_Difference DEF Ordered
<1>4. \A y \in rows' : Dated(y, clock) /\ \E x \in rows : y.at = x.at
  BY <1>1 DEF Ordered
<1>5. \A x \in rows : \E y \in rows' : /\ SeriesOf(y) = SeriesOf(x)
                                       /\ y.target = x.target /\ y.at >= x.at
  BY <1>1, <1>2, NewestKept
<1>6. "trim" # "insert" /\ u.pc # "insert"
  BY <1>1
<1> QED BY <1>1, <1>3, <1>4, <1>5, <1>6, PruneStep

-----------------------------------------------------------------------------
(* Requests, while snapshots come and go *)

LEMMA RefreshedGood ==
    ASSUME NEW rs, NEW cs, NEW c \in Nat, NEW rs2, NEW cs2, NEW c2, NEW q,
           \A x \in rs \union cs : x.at \in 1..c, \A x \in rs2 : x.at \in Nat,
           Refreshed(rs, cs, c, rs2, cs2, c2), Good(rs, cs, c, q)
    PROVE  Good(rs2, cs2, c2, q)
<1>1. c2 \in Nat /\ c2 >= c
  BY DEF Refreshed
<1>2. q.since \in 0..c /\ q.baseline \in 0..c
  BY DEF Good, Asked
<1>3. Asked(cs2, c2, q)
  <2>1. 0..c \subseteq 0..c2 /\ 1..c \subseteq 1..c2
    BY <1>1
  <2>2. \A x \in cs2 : x.at # q.baseline
    BY <1>2 DEF Refreshed, Good, Asked
  <2> QED BY <2>1, <2>2 DEF Good, Asked
<1>4. HasAt(rs2, q.baseline) => HasAt(rs, q.baseline)
  BY DEF Refreshed, HasAt, Good, Asked
<1>5. \A t : HasTarget(rs, t) => HasTarget(rs2, t)
  BY DEF Refreshed, HasTarget
<1>6. \A n \in 0..c : Gone(rs, cs, n) => Gone(rs2, cs2, n)
  <2> SUFFICES ASSUME NEW n \in 0..c, Gone(rs, cs, n), NEW y \in rs2 \union cs2
               PROVE  y.at >= n
    BY DEF Gone
  <2>1. CASE y \in rs2
    BY <2>1 DEF Refreshed, Gone
  <2>2. CASE y \in cs2
    BY <2>2 DEF Refreshed, Gone
  <2> QED BY <2>1, <2>2
<1>7. ASSUME NEW n \in Nat, NEW x \in rs, x.at >= n
      PROVE  \E y \in rs2 : SeriesOf(y) = SeriesOf(x) /\ y.target = x.target /\ y.at >= n
  <2>1. PICK y \in rs2 : SeriesOf(y) = SeriesOf(x) /\ y.target = x.target /\ y.at >= x.at
    BY DEF Refreshed
  <2> QED BY <1>7, <2>1
<1>8. \A s : \A n \in Nat : Ahead(rs, s, n) => Ahead(rs2, s, n)
  BY <1>7 DEF Ahead
<1>9. Exporting(rs2, q)
  BY <1>4, <1>5 DEF Good, Exporting
<1>10. Searching(rs2, cs2, q)
  <2>1. Gone(rs, cs, q.since) => Gone(rs2, cs2, q.since)
    BY <1>2, <1>6
  <2>2. (\E x \in rs : q.target \in {AnyTarget, x.target} /\ x.at >= q.since)
        => \E y \in rs2 : q.target \in {AnyTarget, y.target} /\ y.at >= q.since
    BY <1>2, <1>7
  <2>3. \A s : Ahead(rs, s, q.since) => Ahead(rs2, s, q.since)
    BY <1>2, <1>8
  <2>4. \A k \in DOMAIN q.got : \A s : Ahead(rs, s, q.got[k].at) => Ahead(rs2, s, q.got[k].at)
    BY <1>8 DEF Good, Asked
  <2> QED BY <2>1, <2>2, <2>3, <2>4 DEF Good, Searching
<1> QED BY <1>3, <1>9, <1>10 DEF Good

LEMMA UploadStep ==
    ASSUME ReportsInv, UNCHANGED req, Ordered(rows', ingests', clock'),
           Refreshed(rows, Coming, clock, rows', Coming', clock')
    PROVE  ReportsInv'
<1>1. /\ clock \in Nat /\ \A x \in rows \union Coming : x.at \in 1..clock
      /\ \A x \in rows' : x.at \in Nat
  BY DEF ReportsInv, Ordered, Dated, Coming
<1>2. ASSUME NEW r \in Readers PROVE Good(rows', Coming', clock', req[r])
  <2>1. Good(rows, Coming, clock, req[r])
    BY DEF ReportsInv
  <2> QED BY <1>1, <2>1, RefreshedGood
<1>3. req' = req
  OBVIOUS
<1>4. ASSUME NEW r \in Readers PROVE Good(rows', Coming', clock', req'[r])
  BY <1>2, <1>3
<1> QED BY <1>3, <1>4 DEF ReportsInv

\* Nothing is left, and what is still to come is not from before since.
LEMMA EmptiedGood ==
    ASSUME NEW rs, NEW cs, NEW c \in Nat, NEW q, Good(rs, cs, c, q),
           NEW n \in Nat, n <= q.since, \A x \in cs : x.at >= n
    PROVE  Good({}, cs, c, [q EXCEPT !.since = n])
<1> DEFINE x == [q EXCEPT !.since = n]
<1>1. /\ DOMAIN x = DOMAIN q
      /\ x.kind = q.kind /\ x.pc = q.pc /\ x.target = q.target /\ x.current = q.current
      /\ x.baseline = q.baseline /\ x.todo = q.todo /\ x.got = q.got /\ x.base = q.base
      /\ x.calls = q.calls /\ x.shown = q.shown /\ x.since = n
      /\ x.clean = q.clean
  BY DEF Good, Asked
<1> HIDE DEF x
<1>2. q.since \in 0..c /\ \A k \in DOMAIN q.got : q.got[k].at \in 1..c
  BY DEF Good, Asked
<1>3. Asked(cs, c, x)
  <2>1. n \in 0..c
    BY <1>2
  <2> QED BY <1>1, <2>1 DEF Good, Asked
<1>4. Exporting({}, x)
  <2>1. ~HasAt({}, q.baseline)
    BY DEF HasAt
  <2>2. /\ InOrder(x) = InOrder(q) /\ \A y : Apart(x, y) = Apart(q, y)
        /\ \A s : Lined(x, s) = Lined(q, s)
    BY <1>1 DEF InOrder, Lined, Apart
  <2> QED BY <1>1, <2>1, <2>2 DEF Good, Exporting
<1>5. Searching({}, cs, x)
  <2>1. Gone({}, cs, n)
    BY DEF Gone
  <2>2. q.pc = "answered" /\ q.kind \in SeriesKinds /\ q.clean /\ q.got # << >>
           => q.got[Len(q.got)].at >= n
    <3> SUFFICES ASSUME q.pc = "answered", q.kind \in SeriesKinds, q.clean, q.got # << >>
                 PROVE  q.got[Len(q.got)].at >= n
      OBVIOUS
    <3>1. q.got[Len(q.got)].at >= q.since
      BY DEF Good, Searching
    <3>2. Len(q.got) \in DOMAIN q.got
      BY DEF Good, Asked, Listed
    <3> QED BY <1>2, <3>1, <3>2
  <2> QED BY <1>1, <2>1, <2>2 DEF Searching
<1> QED BY <1>3, <1>4, <1>5 DEF Good, x

LEMMA DeleteStep ==
    ASSUME ReportsInv, Delete
    PROVE  ReportsInv'
<1> DEFINE coming == {u.row.at : u \in {v \in ingests : v.pc = "insert"}}
           S(r) == {req[r].since} \union coming
<1>1. /\ rows' = {} /\ UNCHANGED <<ingests, clock>>
      /\ req' = [r \in Readers |-> [req[r] EXCEPT !.since = Min(S(r))]]
  BY DEF Delete
<1>2. Ordered(rows, ingests, clock) /\ clock \in Nat
  BY DEF ReportsInv, Ordered
<1>3. coming = {x.at : x \in Coming} /\ \A x \in Coming : x.at \in 1..clock
  BY <1>2 DEF Coming, Ordered, Dated
<1> HIDE DEF coming
<1>4. ASSUME NEW r \in Readers PROVE Good(rows', Coming, clock, req'[r])
  <2>1. Good(rows, Coming, clock, req[r]) /\ req[r].since \in Nat
    BY DEF ReportsInv, Good, Asked
  <2>2. S(r) \subseteq Nat /\ S(r) # {}
    BY <1>3, <2>1
  <2>3. PICK n \in S(r) : \A k \in S(r) : n <= k
    BY <2>2, LeastNumber
  <2>4. Min(S(r)) \in S(r) /\ \A k \in S(r) : Min(S(r)) <= k
    BY <2>3 DEF Min
  <2>5. PICK m : m = Min(S(r)) /\ m \in Nat /\ m <= req[r].since /\ \A x \in Coming : x.at >= m
    BY <1>3, <2>2, <2>4
  <2>6. req'[r] = [req[r] EXCEPT !.since = m]
    BY <1>1, <2>5
  <2>7. Good({}, Coming, clock, [req[r] EXCEPT !.since = m])
    BY <1>2, <2>1, <2>5, EmptiedGood
  <2> QED BY <1>1, <2>6, <2>7
<1>5. Ordered(rows', ingests, clock)
  BY <1>1, <1>2, FS_EmptySet DEF Ordered
<1>6. UNCHANGED <<Coming, ingests, clock>>
  BY <1>1 DEF Coming
<1> QED BY <1>1, <1>4, <1>5, <1>6 DEF ReportsInv

-----------------------------------------------------------------------------
(* Requests, one query after the other *)

\* A handler goes on with the request q.
LEMMA ContinueStep ==
    ASSUME ReportsInv, NEW r \in Readers, NEW ok \in BOOLEAN, NEW q,
           Continue(r, ok, q), UNCHANGED <<rows, ingests, clock>>,
           Asked(Coming, clock, q), ok => Exporting(rows, q) /\ Searching(rows, Coming, q)
    PROVE  ReportsInv'
<1> DEFINE x == [q EXCEPT !.clean = @ /\ ok]
<1>1. req' = [req EXCEPT ![r] = x] /\ DOMAIN req = Readers
  BY DEF Continue, ReportsInv
<1>2. /\ DOMAIN x = DOMAIN q
      /\ x.kind = q.kind /\ x.pc = q.pc /\ x.target = q.target /\ x.current = q.current
      /\ x.baseline = q.baseline /\ x.todo = q.todo /\ x.got = q.got /\ x.base = q.base
      /\ x.calls = q.calls /\ x.shown = q.shown /\ x.since = q.since
      /\ x.clean = (q.clean /\ ok)
  BY DEF Asked
<1> HIDE DEF x
<1>3. Asked(Coming, clock, x)
  BY <1>2 DEF Asked
<1>4. Exporting(rows, x)
  <2>1. /\ InOrder(x) = InOrder(q) /\ \A y : Apart(x, y) = Apart(q, y)
        /\ \A s : Lined(x, s) = Lined(q, s)
    BY <1>2 DEF InOrder, Lined, Apart
  <2>2. x.clean => q.clean /\ Exporting(rows, q)
    BY <1>2
  <2> QED BY <1>2, <2>1, <2>2 DEF Exporting
<1>5. Searching(rows, Coming, x)
  BY <1>2 DEF Searching
<1>6. Good(rows, Coming, clock, x)
  BY <1>3, <1>4, <1>5 DEF Good
<1>7. DOMAIN req' = Readers /\ \A p \in Readers : Good(rows, Coming, clock, req'[p])
  BY <1>1, <1>6 DEF ReportsInv
<1>8. UNCHANGED <<rows, Coming, ingests, clock>>
  BY DEF Coming
<1> QED BY <1>7, <1>8 DEF ReportsInv

\* It answers: with nothing, or with what it has.
LEMMA Answers ==
    ASSUME NEW cs, NEW c, NEW q, Asked(cs, c, q)
    PROVE  /\ Asked(cs, c, Answer(q))
           /\ Answer(q).kind = q.kind /\ Answer(q).pc = "answered"
           /\ Answer(q).got = q.got /\ Answer(q).base = q.base
           /\ Answer(q).since = q.since /\ Answer(q).clean = q.clean
<1> DEFINE x == Answer(q)
<1>1. /\ DOMAIN x = DOMAIN q
      /\ x.kind = q.kind /\ x.pc = "answered" /\ x.target = q.target /\ x.current = q.current
      /\ x.baseline = q.baseline /\ x.todo = << >> /\ x.got = q.got /\ x.base = q.base
      /\ x.calls = q.calls /\ x.shown = << >> /\ x.since = q.since /\ x.clean = q.clean
  BY DEF Asked, Answer
<1> HIDE DEF x
<1>2. Asked(cs, c, x)
  BY <1>1, ListedEmpty DEF Asked
<1> QED BY <1>1, <1>2 DEF x

LEMMA AnswersNothing ==
    ASSUME NEW rs, NEW cs, NEW c, NEW q, Asked(cs, c, q),
           q.got = << >> \/ (q.kind = "export" /\ q.base = << >>) \/ q.kind = "page"
    PROVE  Good(rs, cs, c, Answer(q))
<1>1. /\ Asked(cs, c, Answer(q))
      /\ Answer(q).kind = q.kind /\ Answer(q).pc = "answered"
      /\ Answer(q).got = q.got /\ Answer(q).base = q.base
  BY Answers
<1>2. Exporting(rs, Answer(q))
  <2>1. q.kind # "page" => q.got = << >> \/ q.base = << >>
    OBVIOUS
  <2>2. Answer(q).kind = "export" => Answer(q).got = << >> \/ Answer(q).base = << >>
    BY <1>1, <2>1
  <2> QED BY <1>1, <2>2 DEF Exporting
<1>3. Searching(rs, cs, Answer(q))
  BY <1>1 DEF Searching, SeriesKinds
<1> QED BY <1>1, <1>2, <1>3 DEF Good

\* It has read row, or found none.
LEMMA Finds ==
    ASSUME Ordered(rows, ingests, clock), NEW q, Asked(Coming, clock, q),
           q.pc \notin {"idle", "list", "relist", "show"},
           NEW row, row = NoRow \/ row \in rows
    PROVE  LET x == Found(q, row) IN
           /\ Asked(Coming, clock, x)
           /\ x.kind = q.kind /\ x.pc = q.pc /\ x.clean = q.clean /\ x.todo = q.todo
           /\ x.shown = q.shown /\ x.since = q.since /\ x.base = q.base
           /\ x.baseline = q.baseline
           /\ x.got = IF row = NoRow THEN q.got ELSE Append(q.got, row)
<1> DEFINE x == Found(q, row)
<1>1. CASE row = NoRow
  BY <1>1 DEF Found
<1>2. CASE row # NoRow
  <2>1. /\ DOMAIN x = DOMAIN q
        /\ x.kind = q.kind /\ x.pc = q.pc /\ x.target = q.target /\ x.current = q.current
        /\ x.baseline = q.baseline /\ x.todo = q.todo /\ x.got = Append(q.got, row)
        /\ x.base = q.base /\ x.calls = q.calls /\ x.shown = q.shown
        /\ x.since = q.since /\ x.clean = q.clean
    BY <1>2 DEF Asked, Found
  <2>2. row.at \in 1..clock
    BY <1>2 DEF Ordered, Dated
  <2>3. /\ Listed(Append(q.got, row)) /\ Len(q.got) \in Nat
        /\ DOMAIN q.got = 1..Len(q.got)
        /\ DOMAIN Append(q.got, row) = 1..(Len(q.got) + 1)
        /\ \A i \in DOMAIN q.got : Append(q.got, row)[i] = q.got[i]
        /\ Append(q.got, row)[Len(q.got) + 1] = row
    BY ListedAppend DEF Asked, Listed
  <2>4. \A k \in DOMAIN Append(q.got, row) : Append(q.got, row)[k].at \in 1..clock
    BY <2>2, <2>3 DEF Asked
  <2> HIDE DEF x
  <2>5. Asked(Coming, clock, x)
    BY <2>1, <2>3, <2>4 DEF Asked
  <2> QED BY <1>2, <2>1, <2>5 DEF x
<1> QED BY <1>1, <1>2

-----------------------------------------------------------------------------
(* One series *)

LEMMA AskStep ==
    ASSUME ReportsInv, NEW r \in Readers, NEW kind \in SeriesKinds \union {"page", "export"},
           NEW target, NEW current \in Nat, NEW baseline \in 0..clock,
           Ask(r, kind, target, current, baseline)
    PROVE  ReportsInv'
<1> DEFINE q == [Quiet EXCEPT !.kind = kind, !.target = target,
                              !.current = current, !.baseline = baseline]
           matching == {x \in rows : <<x.target, x.source>> \in Matching(q)}
           since == IF kind \in SeriesKinds THEN Max({x.at : x \in matching}) ELSE 0
           new == [q EXCEPT !.pc = "list", !.since = since]
<1>1. req' = [req EXCEPT ![r] = new] /\ UNCHANGED <<rows, ingests, clock>>
  BY DEF Ask
<1>2. /\ DOMAIN new = {"kind", "pc", "target", "current", "baseline", "todo", "got", "base",
                       "calls", "dirs", "shown", "since", "clean"}
      /\ new.kind = kind /\ new.pc = "list" /\ new.target = target
      /\ new.current = current /\ new.baseline = baseline /\ new.todo = << >>
      /\ new.got = << >> /\ new.base = << >> /\ new.calls = << >> /\ new.shown = << >>
      /\ new.since = since
  BY DEF Quiet
<1>3. q.target = target
  BY DEF Quiet
<1>4. rows # {} /\ (target = AnyTarget \/ target \in Targets)
  BY DEF Ask
<1>5. matching = {x \in rows : target \in {AnyTarget, x.target}}
  <2>1. \A x \in rows : <<x.target, x.source>> \in Matching(q)
                          <=> target \in {AnyTarget, x.target}
    BY <1>3 DEF Matching, AllSeries
  <2> QED BY <2>1
<1>6. matching # {}
  BY <1>4, <1>5 DEF Targets
<1> HIDE DEF q, matching, new
<1>7. kind \in SeriesKinds => \E x \in matching : since = x.at
  <2> DEFINE S == {x.at : x \in matching}
  <2>1. S \subseteq 0..clock /\ S # {} /\ clock \in Nat
    BY <1>5, <1>6 DEF ReportsInv, Ordered, Dated
  <2>2. Max(S) \in S
    BY <2>1, GreatestNumber
  <2> QED BY <2>2
<1>8. since \in 0..clock
  BY <1>5, <1>7 DEF ReportsInv, Ordered, Dated
<1> HIDE DEF since
<1>9. Asked(Coming, clock, new)
  <2>1. baseline = 0 \/ \E x \in rows : x.at = baseline
    BY DEF Ask, Known
  <2>2. \A x \in Coming : x.at # baseline
    BY <2>1 DEF ReportsInv, Ordered, Dated, Coming
  <2> QED BY <1>2, <1>8, <2>2, ListedEmpty DEF Asked
<1>10. Exporting(rows, new)
  BY <1>2 DEF Exporting
<1>11. Searching(rows, Coming, new)
  <2> SUFFICES ASSUME kind \in SeriesKinds
               PROVE  \E x \in rows : /\ new.target \in {AnyTarget, x.target}
                                      /\ x.at >= new.since
    BY <1>2 DEF Searching
  <2>1. PICK x \in matching : since = x.at
    BY <1>7
  <2>2. x \in rows /\ x.at \in Nat /\ target \in {AnyTarget, x.target}
    BY <1>5, <2>1 DEF ReportsInv, Ordered, Dated
  <2> QED BY <1>2, <2>1, <2>2
<1>12. DOMAIN req' = Readers /\ \A p \in Readers : Good(rows, Coming, clock, req'[p])
  BY <1>1, <1>9, <1>10, <1>11 DEF Good, ReportsInv
<1>13. UNCHANGED <<rows, Coming, ingests, clock>>
  BY <1>1 DEF Coming
<1> QED BY <1>12, <1>13 DEF ReportsInv

\* The series that match are those of the snapshots that match.
LEMMA MatchingSeries ==
    ASSUME NEW q, NEW x \in rows, q.target \in {AnyTarget, x.target}
    PROVE  SeriesOf(x) \in Matching(q)
BY DEF SeriesOf, Matching, AllSeries

LEMMA ListSeriesStep ==
    ASSUME ReportsInv, NEW r \in Readers, NEW ok \in BOOLEAN, ListSeries(r, ok)
    PROVE  ReportsInv'
<1> DEFINE q == req[r]
           M == Matching(q)
           show == [q EXCEPT !.pc = "show", !.todo = SetToSeq(M)]
           relist == [q EXCEPT !.pc = "relist"]
<1>1. /\ q.kind \in SeriesKinds /\ q.pc = "list" /\ q.kind # "export"
      /\ UNCHANGED <<rows, ingests, clock>> /\ Good(rows, Coming, clock, q)
      /\ Ordered(rows, ingests, clock)
  BY DEF ListSeries, Query, ReportsInv, SeriesKinds
<1>2. IsFiniteSet(M)
  BY <1>1, FiniteLists
<1>3. \/ ok /\ Cardinality(M) = 1 /\ Continue(r, ok, show)
      \/ ok /\ Continue(r, ok, relist)
      \/ Continue(r, ok, Answer(q))
  BY DEF ListSeries
<1> HIDE DEF q, M
<1>4. CASE ok /\ Cardinality(M) = 1 /\ Continue(r, ok, show)
  <2>1. /\ DOMAIN show = DOMAIN q
        /\ show.kind = q.kind /\ show.pc = "show" /\ show.target = q.target
        /\ show.current = q.current /\ show.baseline = q.baseline
        /\ show.todo = SetToSeq(M) /\ show.got = q.got /\ show.base = q.base
        /\ show.calls = q.calls /\ show.shown = q.shown /\ show.since = q.since
        /\ show.clean = q.clean
    BY <1>1 DEF Good, Asked
  <2> HIDE DEF show
  <2>2. PICK s : M = {s}
    BY <1>2, <1>4, FS_Singleton
  <2>3. Listed(SetToSeq(M)) /\ Head(SetToSeq(M)) = s
    <3>1. /\ SetToSeq(M) \in Seq(M) /\ Listed(SetToSeq(M)) /\ Len(SetToSeq(M)) = 1
      BY <1>2, <1>4, SetAsList
    <3> QED BY <2>2, <3>1
  <2>4. Asked(Coming, clock, show)
    BY <1>1, <2>1, <2>3 DEF Good, Asked
  <2>5. Exporting(rows, show)
    BY <1>1, <2>1 DEF Exporting
  <2>6. Searching(rows, Coming, show)
    <3> SUFFICES ASSUME q.clean, ~Gone(rows, Coming, q.since) PROVE Ahead(rows, s, q.since)
      BY <2>1, <2>3 DEF Searching
    <3>1. PICK y \in rows : q.target \in {AnyTarget, y.target} /\ y.at >= q.since
      BY <1>1 DEF Good, Searching
    <3>2. SeriesOf(y) = s
      BY <2>2, <3>1, MatchingSeries DEF M
    <3> QED BY <3>1, <3>2 DEF Ahead
  <2> QED BY <1>1, <1>4, <2>4, <2>5, <2>6, ContinueStep
<1>5. CASE ok /\ Continue(r, ok, relist)
  <2>1. /\ DOMAIN relist = DOMAIN q
        /\ relist.kind = q.kind /\ relist.pc = "relist" /\ relist.target = q.target
        /\ relist.current = q.current /\ relist.baseline = q.baseline
        /\ relist.todo = q.todo /\ relist.got = q.got /\ relist.base = q.base
        /\ relist.calls = q.calls /\ relist.shown = q.shown /\ relist.since = q.since
        /\ relist.clean = q.clean
    BY <1>1 DEF Good, Asked
  <2> HIDE DEF relist
  <2>2. Asked(Coming, clock, relist)
    BY <1>1, <2>1 DEF Good, Asked
  <2>3. Exporting(rows, relist)
    BY <1>1, <2>1 DEF Exporting
  <2>4. Searching(rows, Coming, relist)
    BY <1>1, <2>1 DEF Good, Searching
  <2> QED BY <1>1, <1>5, <2>2, <2>3, <2>4, ContinueStep
<1>6. CASE Continue(r, ok, Answer(q))
  <2>1. Good(rows, Coming, clock, Answer(q))
    BY <1>1, AnswersNothing DEF Good, Asked
  <2> QED BY <1>1, <1>6, <2>1, ContinueStep DEF Good
<1> QED BY <1>3, <1>4, <1>5, <1>6

LEMMA RelistSeriesStep ==
    ASSUME ReportsInv, NEW r \in Readers, NEW ok \in BOOLEAN, RelistSeries(r, ok)
    PROVE  ReportsInv'
<1> DEFINE q == req[r]
           M == Matching(q)
           x == [q EXCEPT !.pc = "compare", !.todo = SetToSeq(M)]
<1>1. /\ q.pc = "relist" /\ q.kind \in SeriesKinds /\ q.kind # "export" /\ q.got = << >>
      /\ UNCHANGED <<rows, ingests, clock>> /\ Good(rows, Coming, clock, q)
      /\ Ordered(rows, ingests, clock)
  BY DEF RelistSeries, Query, ReportsInv, SeriesKinds, Good, Asked
<1>2. IsFiniteSet(M)
  BY <1>1, FiniteLists
<1>3. Continue(r, ok, x) \/ Continue(r, ok, Answer(q))
  BY DEF RelistSeries
<1> HIDE DEF q, M
<1>4. CASE Continue(r, ok, x)
  <2>1. /\ DOMAIN x = DOMAIN q
        /\ x.kind = q.kind /\ x.pc = "compare" /\ x.target = q.target
        /\ x.current = q.current /\ x.baseline = q.baseline
        /\ x.todo = SetToSeq(M) /\ x.got = << >> /\ x.base = q.base
        /\ x.calls = q.calls /\ x.shown = q.shown /\ x.since = q.since
        /\ x.clean = q.clean
    BY <1>1 DEF Good, Asked
  <2> HIDE DEF x
  <2>2. /\ Listed(SetToSeq(M))
        /\ \A s \in M : \E i \in DOMAIN SetToSeq(M) : SetToSeq(M)[i] = s
    BY <1>2, SetAsList
  <2>3. Asked(Coming, clock, x)
    BY <1>1, <2>1, <2>2 DEF Good, Asked
  <2>4. Exporting(rows, x)
    BY <1>1, <2>1 DEF Exporting
  <2>5. Searching(rows, Coming, x)
    <3> SUFFICES ASSUME q.clean, ~Gone(rows, Coming, q.since)
                 PROVE  \E i \in DOMAIN x.todo : Ahead(rows, x.todo[i], q.since)
      BY <2>1 DEF Searching
    <3>1. PICK y \in rows : q.target \in {AnyTarget, y.target} /\ y.at >= q.since
      BY <1>1 DEF Good, Searching
    <3>2. PICK k \in DOMAIN x.todo : x.todo[k] = SeriesOf(y)
      BY <2>1, <2>2, <3>1, MatchingSeries DEF M
    <3> QED BY <3>1, <3>2 DEF Ahead
  <2> QED BY <1>1, <1>4, <2>3, <2>4, <2>5, ContinueStep
<1>5. CASE Continue(r, ok, Answer(q))
  <2>1. Good(rows, Coming, clock, Answer(q))
    BY <1>1, AnswersNothing DEF Good
  <2> QED BY <1>1, <1>5, <2>1, ContinueStep DEF Good
<1> QED BY <1>3, <1>4, <1>5

\* The newest snapshot of a series there is is not older than any of it.
LEMMA LatestOfSeries ==
    ASSUME Ordered(rows, ingests, clock), NEW s, NEW row, row = Latest(OfSeries(s))
    PROVE  /\ row = NoRow \/ (row \in rows /\ SeriesOf(row) = s)
           /\ \A n \in Nat : Ahead(rows, s, n) => row # NoRow /\ row.at >= n
           /\ \A n \in Nat : row # NoRow /\ Gone(rows, Coming, n) => row.at >= n
<1>1. \A x \in OfSeries(s) : x \in rows /\ SeriesOf(x) = s /\ x.at \in 1..clock
  BY DEF OfSeries, SeriesOf, Ordered, Dated
<1>2. clock \in Nat /\ NoRow.at = 0
  BY DEF Ordered, NoRow
<1>3. CASE OfSeries(s) = {}
  <2>1. row = NoRow
    BY <1>3 DEF Latest
  <2>2. \A n : ~Ahead(rows, s, n)
    BY <1>3 DEF Ahead, OfSeries, SeriesOf
  <2> QED BY <2>1, <2>2
<1>4. CASE OfSeries(s) # {}
  <2>1. row \in OfSeries(s) /\ \A x \in OfSeries(s) : row.at >= x.at
    BY <1>1, <1>4, LatestIs
  <2>2. row # NoRow /\ row.at \in Nat
    BY <1>1, <1>2, <2>1
  <2>3. \A n \in Nat : Ahead(rows, s, n) => row.at >= n
    <3> SUFFICES ASSUME NEW n \in Nat, NEW x \in rows, SeriesOf(x) = s, x.at >= n
                 PROVE  row.at >= n
      BY DEF Ahead
    <3>1. x \in OfSeries(s)
      BY DEF OfSeries, SeriesOf
    <3> QED BY <1>1, <2>1, <2>2, <3>1
  <2> QED BY <1>1, <2>1, <2>2, <2>3 DEF Gone
<1> QED BY <1>3, <1>4

\* One more series compared.
LEMMA CompareOne ==
    ASSUME Ordered(rows, ingests, clock), NEW q, Good(rows, Coming, clock, q),
           q.pc = "compare", q.todo # << >>,
           NEW row, NEW ok \in BOOLEAN,
           row = IF ok THEN Latest(OfSeries(Head(q.todo))) ELSE NoRow
    PROVE  LET x == Found([q EXCEPT !.todo = Tail(@)], row) IN
           Asked(Coming, clock, x) /\ (ok => Exporting(rows, x) /\ Searching(rows, Coming, x))
<1> DEFINE y == [q EXCEPT !.todo = Tail(@)]
           x == Found(y, row)
<1>1. /\ DOMAIN y = DOMAIN q
      /\ y.kind = q.kind /\ y.pc = q.pc /\ y.target = q.target
      /\ y.current = q.current /\ y.baseline = q.baseline
      /\ y.todo = Tail(q.todo) /\ y.got = q.got /\ y.base = q.base
      /\ y.calls = q.calls /\ y.shown = q.shown /\ y.since = q.since
      /\ y.clean = q.clean
  BY DEF Good, Asked
<1> HIDE DEF y
<1>2. /\ Listed(Tail(q.todo)) /\ Head(q.todo) = q.todo[1]
      /\ Len(q.todo) \in Nat /\ DOMAIN q.todo = 1..Len(q.todo)
      /\ Len(q.todo) >= 1 /\ Len(Tail(q.todo)) = Len(q.todo) - 1
      /\ \A i \in DOMAIN Tail(q.todo) : Tail(q.todo)[i] = q.todo[i + 1]
      /\ DOMAIN Tail(q.todo) = 1..(Len(q.todo) - 1)
  BY ListedTail DEF Good, Asked, Listed
<1>3. Asked(Coming, clock, y)
  BY <1>1, <1>2 DEF Good, Asked
<1>4. ok => /\ row = NoRow \/ (row \in rows /\ SeriesOf(row) = Head(q.todo))
            /\ \A n \in Nat : Ahead(rows, Head(q.todo), n) => row # NoRow /\ row.at >= n
  BY LatestOfSeries
<1>5. row = NoRow \/ row \in rows
  BY <1>4
<1>6. /\ Asked(Coming, clock, x)
      /\ x.kind = q.kind /\ x.pc = q.pc /\ x.clean = q.clean /\ x.todo = Tail(q.todo)
      /\ x.since = q.since
      /\ x.got = IF row = NoRow THEN q.got ELSE Append(q.got, row)
  BY <1>1, <1>3, <1>5, Finds
<1> HIDE DEF x
<1>7. q.kind \in SeriesKinds /\ q.kind # "export" /\ q.since \in Nat
      /\ (\A k \in DOMAIN q.got : q.got[k].at \in Nat)
  BY DEF Good, Asked, SeriesKinds, Ordered
<1>8. Exporting(rows, x)
  BY <1>6, <1>7 DEF Exporting
<1>9. ASSUME ok, q.clean
      PROVE  /\ \A k \in DOMAIN x.got :
                    Gone(rows, Coming, q.since) \/ Ahead(rows, SeriesOf(x.got[k]), x.got[k].at)
             /\ \/ Gone(rows, Coming, q.since)
                \/ \E i \in DOMAIN x.todo : Ahead(rows, x.todo[i], q.since)
                \/ \E k \in DOMAIN x.got : x.got[k].at >= q.since
  <2>1. /\ \A k \in DOMAIN q.got :
              Gone(rows, Coming, q.since) \/ Ahead(rows, SeriesOf(q.got[k]), q.got[k].at)
        /\ \/ Gone(rows, Coming, q.since)
           \/ \E i \in DOMAIN q.todo : Ahead(rows, q.todo[i], q.since)
           \/ \E k \in DOMAIN q.got : q.got[k].at >= q.since
    BY <1>7, <1>9 DEF Good, Searching
  <2>2. /\ Len(q.got) \in Nat /\ DOMAIN q.got = 1..Len(q.got)
        /\ DOMAIN Append(q.got, row) = 1..(Len(q.got) + 1)
        /\ \A i \in DOMAIN q.got : Append(q.got, row)[i] = q.got[i]
        /\ Append(q.got, row)[Len(q.got) + 1] = row
    BY ListedAppend DEF Good, Asked, Listed
  <2>3. row # NoRow => Ahead(rows, SeriesOf(row), row.at)
    <3>1. \A z \in rows : z.at >= z.at
      BY DEF Ordered, Dated
    <3> QED BY <1>5, <3>1 DEF Ahead
  <2>4. \A k \in DOMAIN q.got : k \in DOMAIN x.got /\ x.got[k] = q.got[k]
    BY <1>6, <2>2
  <2>5. \A k \in DOMAIN x.got :
           Gone(rows, Coming, q.since) \/ Ahead(rows, SeriesOf(x.got[k]), x.got[k].at)
    BY <1>6, <2>1, <2>2, <2>3
  <2>6. ASSUME NEW i \in DOMAIN q.todo, Ahead(rows, q.todo[i], q.since)
        PROVE  \/ \E j \in DOMAIN x.todo : Ahead(rows, x.todo[j], q.since)
               \/ \E k \in DOMAIN x.got : x.got[k].at >= q.since
    <3>1. CASE i = 1
      <4>1. row # NoRow /\ row.at >= q.since
        BY <1>2, <1>4, <1>7, <1>9, <2>6, <3>1
      <4>2. Len(q.got) + 1 \in DOMAIN x.got /\ x.got[Len(q.got) + 1] = row
        BY <1>6, <2>2, <4>1
      <4> QED BY <4>1, <4>2
    <3>2. CASE i # 1
      <4>1. i - 1 \in DOMAIN x.todo /\ x.todo[i - 1] = q.todo[i]
        BY <1>2, <1>6, <3>2
      <4> QED BY <2>6, <4>1
    <3> QED BY <3>1, <3>2
  <2> QED BY <2>1, <2>4, <2>5, <2>6
<1>10. ok => Searching(rows, Coming, x)
  BY <1>6, <1>9 DEF Searching
<1> QED BY <1>6, <1>8, <1>10 DEF x, y

\* All compared: the newest of them is shown, read once more.
LEMMA CompareDone ==
    ASSUME Ordered(rows, ingests, clock), NEW q, Good(rows, Coming, clock, q),
           q.pc = "compare", q.todo = << >>
    PROVE  Good(rows, Coming, clock, Newest(q))
<1>1. q.kind \in SeriesKinds /\ q.kind # "export" /\ q.since \in Nat /\ clock \in Nat
      /\ (\A k \in DOMAIN q.got : q.got[k].at \in 1..clock)
  BY DEF Good, Asked, SeriesKinds, Ordered
<1>2. CASE q.got = << >>
  BY <1>1, <1>2, AnswersNothing DEF Newest, Good
<1>3. CASE q.got # << >>
  <2> DEFINE R == Range(q.got)
             best == CHOOSE x \in R : \A y \in R : x.at >= y.at
             x == [q EXCEPT !.pc = "show", !.got = << >>,
                            !.todo = << <<best.target, best.source>> >>]
             S == {y.at : y \in R}
  <2>1. Newest(q) = x
    BY <1>3 DEF Newest
  <2>2. Len(q.got) \in Nat /\ DOMAIN q.got = 1..Len(q.got) /\ R # {}
        /\ R = {q.got[k] : k \in DOMAIN q.got}
    BY <1>3 DEF Good, Asked, Listed, Range
  <2>3. best \in R /\ \A y \in R : best.at >= y.at
    <3>1. S \subseteq 0..clock /\ S # {}
      BY <1>1, <2>2
    <3>2. PICK m \in S : \A n \in S : m >= n
      BY <1>1, <3>1, GreatestNumber
    <3>3. PICK y \in R : m = y.at
      BY <3>2
    <3>4. \A z \in R : y.at >= z.at
      BY <3>2, <3>3
    <3> QED BY <3>4
  <2>4. /\ DOMAIN x = DOMAIN q
        /\ x.kind = q.kind /\ x.pc = "show" /\ x.target = q.target
        /\ x.current = q.current /\ x.baseline = q.baseline
        /\ x.todo = << SeriesOf(best) >> /\ x.got = << >> /\ x.base = q.base
        /\ x.calls = q.calls /\ x.shown = q.shown /\ x.since = q.since
        /\ x.clean = q.clean
    BY DEF Good, Asked, SeriesOf
  <2> HIDE DEF best, R, x
  <2>5. Listed(<< SeriesOf(best) >>) /\ Head(<< SeriesOf(best) >>) = SeriesOf(best)
    <3>1. /\ << SeriesOf(best) >> \in Seq({SeriesOf(best)})
          /\ Head(<< SeriesOf(best) >>) = SeriesOf(best)
      OBVIOUS
    <3>2. Listed(<< SeriesOf(best) >>)
      BY <3>1, ListedSeq
    <3> QED BY <3>1, <3>2
  <2>6. Asked(Coming, clock, x)
    BY <1>1, <2>4, <2>5, ListedEmpty DEF Good, Asked
  <2>7. Exporting(rows, x)
    BY <1>1, <2>4 DEF Exporting
  <2>8. Searching(rows, Coming, x)
    <3> SUFFICES ASSUME q.clean, ~Gone(rows, Coming, q.since)
                 PROVE  Ahead(rows, SeriesOf(best), q.since)
      BY <2>4, <2>5 DEF Searching
    <3>1. /\ \A k \in DOMAIN q.got : Ahead(rows, SeriesOf(q.got[k]), q.got[k].at)
          /\ \/ \E i \in DOMAIN q.todo : Ahead(rows, q.todo[i], q.since)
             \/ \E k \in DOMAIN q.got : q.got[k].at >= q.since
      BY <1>1 DEF Good, Searching
    <3>2. PICK k \in DOMAIN q.got : q.got[k].at >= q.since
      BY <3>1
    <3>3. PICK b \in DOMAIN q.got : best = q.got[b]
      BY <2>2, <2>3
    <3>4. best.at >= q.since /\ best.at \in Nat
      <4>1. best.at >= q.got[k].at
        BY <2>2, <2>3, <3>2
      <4> QED BY <1>1, <3>2, <3>3, <4>1
    <3>5. PICK y \in rows : SeriesOf(y) = SeriesOf(best) /\ y.at >= best.at
      BY <3>1, <3>3 DEF Ahead
    <3>6. y.at \in Nat
      BY DEF Ordered, Dated
    <3>7. y.at >= q.since
      BY <1>1, <3>4, <3>5, <3>6
    <3> QED BY <3>5, <3>7 DEF Ahead
  <2> QED BY <2>1, <2>6, <2>7, <2>8 DEF Good
<1> QED BY <1>2, <1>3

LEMMA CompareSeriesStep ==
    ASSUME ReportsInv, NEW r \in Readers, NEW ok \in BOOLEAN, CompareSeries(r, ok)
    PROVE  ReportsInv'
<1> DEFINE q == req[r]
           row == IF ok THEN Latest(OfSeries(Head(q.todo))) ELSE NoRow
           x == Found([q EXCEPT !.todo = Tail(@)], row)
<1>1. /\ q.pc = "compare" /\ UNCHANGED <<rows, ingests, clock>>
      /\ Good(rows, Coming, clock, q) /\ Ordered(rows, ingests, clock)
  BY DEF CompareSeries, Query, ReportsInv
<1>2. \/ q.todo = << >> /\ Continue(r, TRUE, Newest(q))
      \/ q.todo # << >> /\ Continue(r, ok, x)
  BY DEF CompareSeries
<1> HIDE DEF q
<1>3. CASE q.todo = << >> /\ Continue(r, TRUE, Newest(q))
  <2>1. Good(rows, Coming, clock, Newest(q))
    BY <1>1, <1>3, CompareDone
  <2> QED BY <1>1, <1>3, <2>1, ContinueStep DEF Good
<1>4. CASE q.todo # << >> /\ Continue(r, ok, x)
  <2>1. Asked(Coming, clock, x) /\ (ok => Exporting(rows, x) /\ Searching(rows, Coming, x))
    BY <1>1, <1>4, CompareOne
  <2> HIDE DEF x
  <2> QED BY <1>1, <1>4, <2>1, ContinueStep
<1> QED BY <1>2, <1>3, <1>4

LEMMA ShowSeriesStep ==
    ASSUME ReportsInv, NEW r \in Readers, NEW ok \in BOOLEAN, ShowSeries(r, ok)
    PROVE  ReportsInv'
<1> DEFINE q == req[r]
           row == IF ok THEN Latest(OfSeries(Head(q.todo))) ELSE NoRow
           x == Answer(Found(q, row))
<1>1. /\ q.pc = "show" /\ q.kind \in SeriesKinds /\ q.kind # "export" /\ q.got = << >>
      /\ UNCHANGED <<rows, ingests, clock>> /\ Good(rows, Coming, clock, q)
      /\ Ordered(rows, ingests, clock)
      /\ Continue(r, ok, x) /\ q.since \in Nat
  BY DEF ShowSeries, Query, ReportsInv, Good, Asked, SeriesKinds, Ordered
<1> HIDE DEF q
<1>2. ok => /\ row = NoRow \/ row \in rows
            /\ \A n \in Nat : Ahead(rows, Head(q.todo), n) => row # NoRow /\ row.at >= n
            /\ \A n \in Nat : row # NoRow /\ Gone(rows, Coming, n) => row.at >= n
  BY <1>1, LatestOfSeries
<1> DEFINE got == IF row = NoRow THEN << >> ELSE << row >>
<1>3. /\ DOMAIN x = DOMAIN q
      /\ x.kind = q.kind /\ x.pc = "answered" /\ x.target = q.target
      /\ x.current = q.current /\ x.baseline = q.baseline
      /\ x.todo = << >> /\ x.got = got /\ x.base = q.base
      /\ x.calls = q.calls /\ x.shown = << >> /\ x.since = q.since
      /\ x.clean = q.clean
  BY <1>1 DEF Good, Asked, Found, Answer
<1>4. row = NoRow \/ row.at \in 1..clock
  BY <1>1, <1>2 DEF Ordered, Dated
<1>5. /\ Listed(got) /\ \A k \in DOMAIN got : got[k].at \in 1..clock
      /\ got # << >> => row # NoRow /\ got[Len(got)] = row
  <2>1. << row >> \in Seq({row}) /\ << row >>[Len(<< row >>)] = row
        /\ \A k \in DOMAIN << row >> : << row >>[k] = row
    OBVIOUS
  <2>2. Listed(<< row >>)
    BY <2>1, ListedSeq
  <2>3. CASE row = NoRow
    BY <2>3, ListedEmpty
  <2>4. CASE row # NoRow
    BY <1>4, <2>1, <2>2, <2>4
  <2> QED BY <2>3, <2>4
<1> HIDE DEF x, got, row
<1>6. Asked(Coming, clock, x)
  BY <1>1, <1>3, <1>5, ListedEmpty DEF Good, Asked
<1>7. Exporting(rows, x)
  BY <1>1, <1>3 DEF Exporting
<1>8. ok => Searching(rows, Coming, x)
  <2> SUFFICES ASSUME ok, q.clean, got # << >> PROVE row.at >= q.since
    BY <1>3, <1>5 DEF Searching
  <2>1. Gone(rows, Coming, q.since) \/ Ahead(rows, Head(q.todo), q.since)
    BY <1>1 DEF Good, Searching
  <2> QED BY <1>1, <1>2, <1>5, <2>1
<1> QED BY <1>1, <1>6, <1>7, <1>8, ContinueStep

-----------------------------------------------------------------------------
(* The exported report *)

\* One that has listed nothing, or has shown nothing to compare, answers.
LEMMA ExportAnswers ==
    ASSUME ReportsInv, NEW r \in Readers, NEW ok \in BOOLEAN, UNCHANGED <<rows, ingests, clock>>,
           Continue(r, ok, Answer(req[r])),
           req[r].kind = "export", req[r].base = << >>
    PROVE  ReportsInv'
<1>1. Asked(Coming, clock, req[r])
  BY DEF ReportsInv, Good
<1>2. Good(rows, Coming, clock, Answer(req[r]))
  BY <1>1, AnswersNothing
<1> QED BY <1>2, ContinueStep DEF Good

LEMMA ListTargetsStep ==
    ASSUME ReportsInv, NEW r \in Readers, NEW ok \in BOOLEAN, ListTargets(r, ok)
    PROVE  ReportsInv'
<1> DEFINE q == req[r]
           T == SetToSeq(Targets)
           pc == IF q.current = 0 THEN "current" ELSE "picked"
           x == [q EXCEPT !.pc = IF q.current = 0 THEN "current" ELSE "picked",
                          !.todo = SetToSeq(Targets), !.shown = SetToSeq(Targets)]
<1>1. /\ q.pc = "list" /\ q.kind = "export" /\ q.got = << >> /\ q.base = << >>
      /\ UNCHANGED <<rows, ingests, clock>> /\ Good(rows, Coming, clock, q)
      /\ Ordered(rows, ingests, clock)
  BY DEF ListTargets, Query, ReportsInv, Good, Asked
<1>2. Continue(r, ok, x) \/ Continue(r, ok, Answer(q))
  BY DEF ListTargets
<1>3. CASE Continue(r, ok, x)
  <2>1. /\ DOMAIN x = DOMAIN q
        /\ x.kind = q.kind /\ x.pc = pc /\ x.target = q.target
        /\ x.current = q.current /\ x.baseline = q.baseline /\ x.todo = T
        /\ x.got = q.got /\ x.base = q.base /\ x.calls = q.calls /\ x.shown = T
        /\ x.since = q.since /\ x.clean = q.clean
    BY <1>1 DEF Good, Asked
  <2>2. pc \in {"current", "picked"}
    OBVIOUS
  <2> HIDE DEF q, x, pc
  <2>3. Listed(T) /\ (\A i \in DOMAIN T : HasTarget(rows, T[i])) /\ Len(T) \in Nat
    <3>1. Listed(T) /\ \A i \in DOMAIN T : T[i] \in Targets
      BY <1>1, FiniteLists, SetAsList
    <3>2. \A t \in Targets : HasTarget(rows, t)
      BY DEF Targets, HasTarget
    <3> QED BY <3>1, <3>2 DEF Listed
  <2> HIDE DEF T
  <2>4. Asked(Coming, clock, x)
    BY <1>1, <2>1, <2>2, <2>3 DEF Good, Asked
  <2>5. Exporting(rows, x)
    <3>1. x.got = << >> /\ x.todo = T /\ x.shown = T /\ DOMAIN T = 1..Len(T)
      BY <1>1, <2>1, <2>3 DEF Listed
    <3>2. InOrder(x) /\ Lined(x, x.got)
      BY <2>3, <3>1 DEF InOrder, Lined
    <3> QED BY <2>1, <2>2, <2>3, <3>1, <3>2 DEF Exporting
  <2>6. Searching(rows, Coming, x)
    BY <1>1, <2>1 DEF Searching, SeriesKinds
  <2> QED BY <1>1, <1>3, <2>4, <2>5, <2>6, ContinueStep
<1>4. CASE Continue(r, ok, Answer(q))
  BY <1>1, <1>4, ExportAnswers
<1> QED BY <1>2, <1>3, <1>4

\* The next handler's turn, with the lists as they are.
LEMMA NextPart ==
    ASSUME NEW cs, NEW c, NEW q, Asked(cs, c, q), NEW pc
    PROVE  LET x == [q EXCEPT !.pc = pc] IN
           /\ DOMAIN x = DOMAIN q
           /\ x.kind = q.kind /\ x.pc = pc /\ x.target = q.target
           /\ x.current = q.current /\ x.baseline = q.baseline /\ x.todo = q.todo
           /\ x.got = q.got /\ x.base = q.base /\ x.calls = q.calls
           /\ x.shown = q.shown /\ x.since = q.since /\ x.clean = q.clean
<1> DEFINE x == [q EXCEPT !.pc = pc]
<1> QED BY DEF Asked

LEMMA PickStep ==
    ASSUME ReportsInv, NEW r \in Readers, NEW ok \in BOOLEAN, Pick(r, ok)
    PROVE  ReportsInv'
<1> DEFINE q == req[r]
           pc == IF ok /\ Known(q.current) THEN "around" ELSE "current"
           x == [q EXCEPT !.pc = pc]
<1>1. /\ q.pc = "picked" /\ q.kind = "export" /\ q.base = << >>
      /\ UNCHANGED <<rows, ingests, clock>> /\ Good(rows, Coming, clock, q)
      /\ Continue(r, ok, x)
  BY DEF Pick, Query, ReportsInv, Good, Asked
<1>2. pc \in {"around", "current"}
  OBVIOUS
<1> HIDE DEF q, pc
<1>3. /\ DOMAIN x = DOMAIN q
      /\ x.kind = q.kind /\ x.pc = pc /\ x.target = q.target /\ x.current = q.current
      /\ x.baseline = q.baseline /\ x.todo = q.todo /\ x.got = q.got
      /\ x.base = q.base /\ x.calls = q.calls /\ x.shown = q.shown
      /\ x.since = q.since /\ x.clean = q.clean
  BY <1>1, NextPart DEF Good
<1> HIDE DEF x
<1>4. Asked(Coming, clock, x)
  BY <1>1, <1>2, <1>3 DEF Good, Asked
<1>5. Exporting(rows, x)
  <2>1. /\ InOrder(x) = InOrder(q)
        /\ Lined(x, x.got) = Lined(q, q.got)
    BY <1>3 DEF InOrder, Lined
  <2> QED BY <1>1, <1>2, <1>3, <2>1 DEF Good, Exporting
<1>6. Searching(rows, Coming, x)
  BY <1>1, <1>3 DEF Searching, SeriesKinds
<1> QED BY <1>1, <1>4, <1>5, <1>6, ContinueStep

LEMMA OneFurther ==
    ASSUME NEW a \in Nat, NEW b \in Nat, NEW n \in Nat, a + b = n, b >= 1
    PROVE  a + 1 \in 1..n /\ (a + 1) + (b - 1) = n
OBVIOUS

\* One more target read: the snapshot found is of that target, and while the
\* baseline is there one is found.
LEMMA ReadOne ==
    ASSUME Ordered(rows, ingests, clock), NEW q, Good(rows, Coming, clock, q),
           q.pc \in {"around", "current"}, q.todo # << >>,
           NEW row, NEW ok \in BOOLEAN,
           row = NoRow \/ (row \in rows /\ row.target = Head(q.todo)),
           ok /\ HasTarget(rows, Head(q.todo)) => row # NoRow
    PROVE  LET x == Found([q EXCEPT !.todo = Tail(@)], row) IN
           Asked(Coming, clock, x) /\ (ok => Exporting(rows, x)) /\ Searching(rows, Coming, x)
<1> DEFINE y == [q EXCEPT !.todo = Tail(@)]
           x == Found(y, row)
<1>1. /\ DOMAIN y = DOMAIN q
      /\ y.kind = q.kind /\ y.pc = q.pc /\ y.target = q.target
      /\ y.current = q.current /\ y.baseline = q.baseline /\ y.todo = Tail(q.todo)
      /\ y.got = q.got /\ y.base = q.base /\ y.calls = q.calls /\ y.shown = q.shown
      /\ y.since = q.since /\ y.clean = q.clean
  BY DEF Good, Asked
<1> HIDE DEF y
<1>2. /\ Listed(Tail(q.todo)) /\ Head(q.todo) = q.todo[1]
      /\ Len(q.todo) \in Nat /\ DOMAIN q.todo = 1..Len(q.todo)
      /\ Len(q.todo) >= 1 /\ Len(Tail(q.todo)) = Len(q.todo) - 1
      /\ \A i \in DOMAIN Tail(q.todo) : Tail(q.todo)[i] = q.todo[i + 1]
      /\ DOMAIN Tail(q.todo) = 1..(Len(q.todo) - 1)
  BY ListedTail DEF Good, Asked, Listed
<1>3. Asked(Coming, clock, y) /\ q.kind = "export"
  BY <1>1, <1>2 DEF Good, Asked
<1>4. /\ Asked(Coming, clock, x)
      /\ x.kind = q.kind /\ x.pc = q.pc /\ x.clean = q.clean /\ x.todo = Tail(q.todo)
      /\ x.shown = q.shown /\ x.since = q.since /\ x.base = q.base
      /\ x.baseline = q.baseline
      /\ x.got = IF row = NoRow THEN q.got ELSE Append(q.got, row)
  BY <1>1, <1>3, Finds
<1> HIDE DEF x
<1>5. ASSUME ok PROVE Exporting(rows, x)
  <2> SUFFICES ASSUME q.clean, HasAt(rows, q.baseline)
               PROVE  /\ \A i \in DOMAIN q.shown : HasTarget(rows, q.shown[i])
                      /\ InOrder(x) /\ Lined(x, x.got)
    BY <1>4 DEF Exporting
  <2>1. /\ \A i \in DOMAIN q.shown : HasTarget(rows, q.shown[i])
        /\ InOrder(q) /\ Lined(q, q.got)
    BY <1>3 DEF Good, Exporting
  <2>2. /\ Len(q.got) \in Nat /\ DOMAIN q.got = 1..Len(q.got)
        /\ Len(q.shown) \in Nat /\ DOMAIN q.shown = 1..Len(q.shown)
        /\ DOMAIN Append(q.got, row) = 1..(Len(q.got) + 1)
        /\ Len(Append(q.got, row)) = Len(q.got) + 1
        /\ \A i \in DOMAIN q.got : Append(q.got, row)[i] = q.got[i]
        /\ Append(q.got, row)[Len(q.got) + 1] = row
    BY ListedAppend DEF Good, Asked, Listed
  <2>3. /\ Head(q.todo) = q.shown[Len(q.got) + 1]
        /\ Len(q.got) + 1 \in DOMAIN q.shown
    <3>1. Len(q.got) + Len(q.todo) = Len(q.shown)
      BY <2>1 DEF Lined
    <3>2. 1 \in DOMAIN q.todo
      BY <1>2
    <3>3. q.todo[1] = q.shown[Len(q.got) + 1]
      BY <2>1, <3>2 DEF Lined
    <3>4. Len(q.got) + 1 \in 1..Len(q.shown)
      <4>1. Len(q.todo) \in Nat /\ Len(q.todo) >= 1 /\ Len(q.got) \in Nat
            /\ Len(q.shown) \in Nat
        BY <1>2, <2>2
      <4> QED BY <3>1, <4>1, OneFurther
    <3> QED BY <1>2, <2>2, <3>3, <3>4
  <2>4. row # NoRow /\ row.target = q.shown[Len(q.got) + 1] /\ x.got = Append(q.got, row)
    BY <1>4, <1>5, <2>1, <2>3
  <2>5. InOrder(x)
    BY <1>4, <2>1, <2>2, <2>4 DEF InOrder
  <2>6. Lined(x, x.got)
    <3>1. Len(x.got) + Len(x.todo) = Len(x.shown)
      <4>1. Len(q.got) + Len(q.todo) = Len(q.shown)
        BY <2>1 DEF Lined
      <4>2. /\ Len(x.got) = Len(q.got) + 1 /\ Len(x.todo) = Len(q.todo) - 1
            /\ x.shown = q.shown /\ Len(q.todo) \in Nat /\ Len(q.got) \in Nat
            /\ Len(q.shown) \in Nat /\ Len(q.todo) >= 1
        BY <1>2, <1>4, <2>2, <2>4
      <4>3. (Len(q.got) + 1) + (Len(q.todo) - 1) = Len(q.shown)
        BY <4>1, <4>2, OneFurther
      <4> QED BY <4>2, <4>3
    <3>2. ASSUME NEW i \in DOMAIN x.todo PROVE x.todo[i] = x.shown[Len(x.got) + i]
      <4>1. i + 1 \in DOMAIN q.todo /\ x.todo[i] = q.todo[i + 1]
        BY <1>2, <1>4, <3>2
      <4>2. q.todo[i + 1] = q.shown[Len(q.got) + (i + 1)]
        BY <2>1, <4>1 DEF Lined
      <4>3. Len(q.got) + (i + 1) = Len(x.got) + i
        <5>1. i \in Nat /\ Len(x.got) = Len(q.got) + 1 /\ Len(q.got) \in Nat
          BY <1>2, <1>4, <2>2, <2>4, <3>2
        <5> QED BY <5>1
      <4> QED BY <1>4, <4>1, <4>2, <4>3
    <3> QED BY <3>1, <3>2 DEF Lined
  <2> QED BY <2>1, <2>5, <2>6
<1>6. Searching(rows, Coming, x)
  BY <1>3, <1>4 DEF Searching, SeriesKinds
<1> QED BY <1>4, <1>5, <1>6 DEF x, y

\* The newest snapshot of a target.
LEMMA LatestOfTarget ==
    ASSUME Ordered(rows, ingests, clock), NEW t, NEW row, row = Latest(OfTarget(t))
    PROVE  /\ row = NoRow \/ (row \in rows /\ row.target = t)
           /\ HasTarget(rows, t) => row # NoRow
<1>1. \A x \in OfTarget(t) : x \in rows /\ x.target = t /\ x.at \in 1..clock
  BY DEF OfTarget, Ordered, Dated
<1>2. clock \in Nat /\ NoRow.at = 0
  BY DEF Ordered, NoRow
<1>3. CASE OfTarget(t) = {}
  <2>1. row = NoRow /\ ~HasTarget(rows, t)
    BY <1>3 DEF Latest, OfTarget, HasTarget
  <2> QED BY <2>1
<1>4. CASE OfTarget(t) # {}
  <2>1. row \in OfTarget(t)
    BY <1>1, <1>4, LatestIs
  <2> QED BY <1>1, <1>2, <2>1
<1> QED BY <1>3, <1>4

LEMMA ReadAroundStep ==
    ASSUME ReportsInv, NEW r \in Readers, NEW ok \in BOOLEAN, ReadAround(r, ok)
    PROVE  ReportsInv'
<1> DEFINE q == req[r]
           near == Closest(Head(q.todo), q.current)
           Rest(x) == Found([q EXCEPT !.todo = Tail(@)], x)
           current == [q EXCEPT !.pc = "current", !.todo = q.shown]
           baseline == [q EXCEPT !.pc = "baseline"]
<1>1. /\ q.pc = "around" /\ q.kind = "export" /\ q.base = << >> /\ q.current \in Nat
      /\ UNCHANGED <<rows, ingests, clock>> /\ Good(rows, Coming, clock, q)
      /\ Ordered(rows, ingests, clock)
  BY DEF ReadAround, Query, ReportsInv, Good, Asked
<1>2. \/ q.todo = << >> /\ q.got = << >> /\ Continue(r, TRUE, current)
      \/ q.todo = << >> /\ Continue(r, TRUE, baseline)
      \/ q.todo # << >> /\ \E x \in near : Continue(r, ok, Rest(x))
      \/ q.todo # << >> /\ ~(ok /\ near # {})
                        /\ Continue(r, ok, [q EXCEPT !.todo = Tail(@)])
  BY DEF ReadAround
<1> HIDE DEF q
<1>3. CASE q.todo = << >> /\ q.got = << >> /\ Continue(r, TRUE, current)
  <2>1. /\ DOMAIN current = DOMAIN q
        /\ current.kind = q.kind /\ current.pc = "current"
        /\ current.target = q.target /\ current.current = q.current
        /\ current.baseline = q.baseline /\ current.todo = q.shown
        /\ current.got = q.got /\ current.base = q.base /\ current.calls = q.calls
        /\ current.shown = q.shown /\ current.since = q.since
        /\ current.clean = q.clean
    BY <1>1 DEF Good, Asked
  <2> HIDE DEF current
  <2>2. Asked(Coming, clock, current)
    BY <1>1, <2>1 DEF Good, Asked
  <2>3. Exporting(rows, current)
    <3>1. Len(q.shown) \in Nat /\ DOMAIN q.shown = 1..Len(q.shown)
      BY <1>1 DEF Good, Asked, Listed
    <3>2. InOrder(current) /\ Lined(current, current.got)
      BY <1>3, <2>1, <3>1 DEF InOrder, Lined
    <3> QED BY <1>1, <2>1, <3>2 DEF Good, Exporting
  <2>4. Searching(rows, Coming, current)
    BY <1>1, <2>1 DEF Searching, SeriesKinds
  <2> QED BY <1>1, <1>3, <2>2, <2>3, <2>4, ContinueStep
<1>4. CASE q.todo = << >> /\ Continue(r, TRUE, baseline)
  <2>1. /\ DOMAIN baseline = DOMAIN q
        /\ baseline.kind = q.kind /\ baseline.pc = "baseline"
        /\ baseline.target = q.target /\ baseline.current = q.current
        /\ baseline.baseline = q.baseline /\ baseline.todo = q.todo
        /\ baseline.got = q.got /\ baseline.base = q.base /\ baseline.calls = q.calls
        /\ baseline.shown = q.shown /\ baseline.since = q.since
        /\ baseline.clean = q.clean
    BY <1>1, NextPart DEF Good
  <2> HIDE DEF baseline
  <2>2. Asked(Coming, clock, baseline)
    BY <1>1, <2>1 DEF Good, Asked
  <2>3. Exporting(rows, baseline)
    <3>1. /\ InOrder(baseline) = InOrder(q)
          /\ Lined(q, q.got) => Len(q.got) = Len(q.shown)
      <4>1. Len(q.got) \in Nat /\ Len(q.todo) = 0
        BY <1>1, <1>4 DEF Good, Asked, Listed
      <4> QED BY <2>1, <4>1 DEF InOrder, Lined
    <3> QED BY <1>1, <2>1, <3>1 DEF Good, Exporting
  <2>4. Searching(rows, Coming, baseline)
    BY <1>1, <2>1 DEF Searching, SeriesKinds
  <2> QED BY <1>1, <1>4, <2>2, <2>3, <2>4, ContinueStep
<1>5. CASE q.todo # << >> /\ \E x \in near : Continue(r, ok, Rest(x))
  <2>1. PICK x \in near : Continue(r, ok, Rest(x))
    BY <1>5
  <2>2. x # NoRow /\ x \in rows /\ x.target = Head(q.todo)
    <3>1. x \in rows /\ x.target = Head(q.todo)
      BY <1>1, <2>1, ClosestAre
    <3>2. x.at \in 1..clock /\ clock \in Nat /\ NoRow.at = 0
      BY <1>1, <3>1 DEF Ordered, Dated, NoRow
    <3> QED BY <3>1, <3>2
  <2>3. /\ Asked(Coming, clock, Rest(x)) /\ (ok => Exporting(rows, Rest(x)))
        /\ Searching(rows, Coming, Rest(x))
    BY <1>1, <1>5, <2>2, ReadOne
  <2> HIDE DEF Rest
  <2> QED BY <1>1, <2>1, <2>3, ContinueStep
<1>6. CASE q.todo # << >> /\ ~(ok /\ near # {})
                          /\ Continue(r, ok, [q EXCEPT !.todo = Tail(@)])
  <2>1. Rest(NoRow) = [q EXCEPT !.todo = Tail(@)]
    BY DEF Found
  <2>2. ~(ok /\ HasTarget(rows, Head(q.todo)))
    BY <1>1, <1>6, ClosestAre
  <2>3. /\ Asked(Coming, clock, Rest(NoRow)) /\ (ok => Exporting(rows, Rest(NoRow)))
        /\ Searching(rows, Coming, Rest(NoRow))
    BY <1>1, <1>6, <2>2, ReadOne
  <2> HIDE DEF Rest
  <2> QED BY <1>1, <1>6, <2>1, <2>3, ContinueStep
<1> QED BY <1>2, <1>3, <1>4, <1>5, <1>6

LEMMA ReadCurrentStep ==
    ASSUME ReportsInv, NEW r \in Readers, NEW ok \in BOOLEAN, ReadCurrent(r, ok)
    PROVE  ReportsInv'
<1> DEFINE q == req[r]
           row == IF ok THEN Latest(OfTarget(Head(q.todo))) ELSE NoRow
           x == Found([q EXCEPT !.todo = Tail(@)], row)
           baseline == [q EXCEPT !.pc = "baseline"]
<1>1. /\ q.pc = "current" /\ q.kind = "export" /\ q.base = << >>
      /\ UNCHANGED <<rows, ingests, clock>> /\ Good(rows, Coming, clock, q)
      /\ Ordered(rows, ingests, clock)
  BY DEF ReadCurrent, Query, ReportsInv, Good, Asked
<1>2. \/ q.todo = << >> /\ Continue(r, TRUE, Answer(q))
      \/ q.todo = << >> /\ Continue(r, TRUE, baseline)
      \/ q.todo # << >> /\ Continue(r, ok, x)
  BY DEF ReadCurrent
<1>3. CASE Continue(r, TRUE, Answer(q))
  BY <1>1, <1>3, ExportAnswers
<1> HIDE DEF q
<1>4. CASE q.todo = << >> /\ Continue(r, TRUE, baseline)
  <2>1. /\ DOMAIN baseline = DOMAIN q
        /\ baseline.kind = q.kind /\ baseline.pc = "baseline"
        /\ baseline.target = q.target /\ baseline.current = q.current
        /\ baseline.baseline = q.baseline /\ baseline.todo = q.todo
        /\ baseline.got = q.got /\ baseline.base = q.base /\ baseline.calls = q.calls
        /\ baseline.shown = q.shown /\ baseline.since = q.since
        /\ baseline.clean = q.clean
    BY <1>1, NextPart DEF Good
  <2> HIDE DEF baseline
  <2>2. Asked(Coming, clock, baseline)
    BY <1>1, <2>1 DEF Good, Asked
  <2>3. Exporting(rows, baseline)
    <3>1. /\ InOrder(baseline) = InOrder(q)
          /\ Lined(q, q.got) => Len(q.got) = Len(q.shown)
      <4>1. Len(q.got) \in Nat /\ Len(q.todo) = 0
        BY <1>1, <1>4 DEF Good, Asked, Listed
      <4> QED BY <2>1, <4>1 DEF InOrder, Lined
    <3> QED BY <1>1, <2>1, <3>1 DEF Good, Exporting
  <2>4. Searching(rows, Coming, baseline)
    BY <1>1, <2>1 DEF Searching, SeriesKinds
  <2> QED BY <1>1, <1>4, <2>2, <2>3, <2>4, ContinueStep
<1>5. CASE q.todo # << >> /\ Continue(r, ok, x)
  <2>1. /\ row = NoRow \/ (row \in rows /\ row.target = Head(q.todo))
        /\ ok /\ HasTarget(rows, Head(q.todo)) => row # NoRow
    BY <1>1, LatestOfTarget
  <2> HIDE DEF row
  <2>2. Asked(Coming, clock, x) /\ (ok => Exporting(rows, x)) /\ Searching(rows, Coming, x)
    BY <1>1, <1>5, <2>1, ReadOne
  <2> HIDE DEF x
  <2> QED BY <1>1, <1>5, <2>2, ContinueStep
<1> QED BY <1>2, <1>3, <1>4, <1>5

LEMMA PickBaselineStep ==
    ASSUME ReportsInv, NEW r \in Readers, NEW ok \in BOOLEAN, PickBaseline(r, ok)
    PROVE  ReportsInv'
<1> DEFINE q == req[r]
           x == [q EXCEPT !.pc = "before", !.todo = q.shown]
<1>1. /\ q.pc = "baseline" /\ q.kind = "export" /\ q.base = << >>
      /\ UNCHANGED <<rows, ingests, clock>> /\ Good(rows, Coming, clock, q)
  BY DEF PickBaseline, Query, ReportsInv, Good, Asked
<1>2. \/ Known(q.baseline) /\ Continue(r, ok, x)
      \/ Continue(r, ok, Answer(q))
  BY DEF PickBaseline
<1>3. CASE Continue(r, ok, Answer(q))
  BY <1>1, <1>3, ExportAnswers
<1>4. CASE Known(q.baseline) /\ Continue(r, ok, x)
  <2>0. HasAt(rows, q.baseline)
    BY <1>4 DEF Known, HasAt
  <2> HIDE DEF q
  <2>1. /\ DOMAIN x = DOMAIN q
        /\ x.kind = q.kind /\ x.pc = "before" /\ x.target = q.target
        /\ x.current = q.current /\ x.baseline = q.baseline /\ x.todo = q.shown
        /\ x.got = q.got /\ x.base = q.base /\ x.calls = q.calls /\ x.shown = q.shown
        /\ x.since = q.since /\ x.clean = q.clean
    BY <1>1 DEF Good, Asked
  <2> HIDE DEF x
  <2>2. Asked(Coming, clock, x)
    BY <1>1, <2>1 DEF Good, Asked
  <2>3. Exporting(rows, x)
    <3>1. Len(q.shown) \in Nat /\ DOMAIN q.shown = 1..Len(q.shown)
      BY <1>1 DEF Good, Asked, Listed
    <3>2. InOrder(x) = InOrder(q) /\ Lined(x, x.base)
      BY <1>1, <2>1, <3>1 DEF InOrder, Lined
    <3> QED BY <1>1, <2>0, <2>1, <3>2 DEF Good, Exporting
  <2>4. Searching(rows, Coming, x)
    BY <1>1, <2>1 DEF Searching, SeriesKinds
  <2> QED BY <1>1, <1>4, <2>2, <2>3, <2>4, ContinueStep
<1> QED BY <1>2, <1>3, <1>4

\* One more baseline: none, or one of the target whose turn it is.
LEMMA ReadBefore ==
    ASSUME Ordered(rows, ingests, clock), NEW q, Good(rows, Coming, clock, q),
           q.pc = "before", q.todo # << >>,
           NEW row, row # NoRow => row.target = Head(q.todo) /\ Apart(q, row)
    PROVE  Good(rows, Coming, clock, [q EXCEPT !.todo = Tail(@), !.base = Append(@, row)])
<1> DEFINE x == [q EXCEPT !.todo = Tail(@), !.base = Append(@, row)]
<1>1. /\ DOMAIN x = DOMAIN q
      /\ x.kind = q.kind /\ x.pc = q.pc /\ x.target = q.target
      /\ x.current = q.current /\ x.baseline = q.baseline /\ x.todo = Tail(q.todo)
      /\ x.got = q.got /\ x.base = Append(q.base, row) /\ x.calls = q.calls
      /\ x.shown = q.shown /\ x.since = q.since /\ x.clean = q.clean
  BY DEF Good, Asked
<1> HIDE DEF x
<1>2. /\ Listed(Tail(q.todo)) /\ Head(q.todo) = q.todo[1]
      /\ Len(q.todo) \in Nat /\ DOMAIN q.todo = 1..Len(q.todo)
      /\ Len(q.todo) >= 1 /\ Len(Tail(q.todo)) = Len(q.todo) - 1
      /\ \A i \in DOMAIN Tail(q.todo) : Tail(q.todo)[i] = q.todo[i + 1]
      /\ DOMAIN Tail(q.todo) = 1..(Len(q.todo) - 1)
  BY ListedTail DEF Good, Asked, Listed
<1>3. /\ Listed(Append(q.base, row))
      /\ Len(q.base) \in Nat /\ DOMAIN q.base = 1..Len(q.base)
      /\ DOMAIN Append(q.base, row) = 1..(Len(q.base) + 1)
      /\ Len(Append(q.base, row)) = Len(q.base) + 1
      /\ \A i \in DOMAIN q.base : Append(q.base, row)[i] = q.base[i]
      /\ Append(q.base, row)[Len(q.base) + 1] = row
      /\ Len(q.shown) \in Nat
  BY ListedAppend DEF Good, Asked, Listed
<1>4. Asked(Coming, clock, x) /\ q.kind = "export"
  BY <1>1, <1>2, <1>3 DEF Good, Asked
<1>5. Exporting(rows, x)
  <2> SUFFICES ASSUME q.clean
               PROVE  /\ InOrder(x) /\ Len(x.got) = Len(x.shown)
                      /\ Lined(x, x.base)
                      /\ \A i \in DOMAIN x.base : x.base[i] # NoRow =>
                            x.base[i].target = x.shown[i] /\ Apart(x, x.base[i])
    BY <1>1 DEF Exporting
  <2>1. /\ InOrder(q) /\ Len(q.got) = Len(q.shown)
        /\ Lined(q, q.base)
        /\ \A i \in DOMAIN q.base : q.base[i] # NoRow =>
              q.base[i].target = q.shown[i] /\ Apart(q, q.base[i])
    BY <1>4 DEF Good, Exporting
  <2>2. /\ InOrder(x) = InOrder(q) /\ \A y : Apart(x, y) = Apart(q, y)
    BY <1>1 DEF InOrder, Apart
  <2>3. Lined(x, x.base)
    <3>1. Len(x.base) + Len(x.todo) = Len(x.shown)
      <4>1. Len(q.base) + Len(q.todo) = Len(q.shown)
        BY <2>1 DEF Lined
      <4>2. /\ Len(x.base) = Len(q.base) + 1 /\ Len(x.todo) = Len(q.todo) - 1
            /\ x.shown = q.shown /\ Len(q.todo) \in Nat /\ Len(q.base) \in Nat
            /\ Len(q.shown) \in Nat /\ Len(q.todo) >= 1
        BY <1>1, <1>2, <1>3
      <4>3. (Len(q.base) + 1) + (Len(q.todo) - 1) = Len(q.shown)
        BY <4>1, <4>2, OneFurther
      <4> QED BY <4>2, <4>3
    <3>2. ASSUME NEW i \in DOMAIN x.todo PROVE x.todo[i] = x.shown[Len(x.base) + i]
      <4>1. i + 1 \in DOMAIN q.todo /\ x.todo[i] = q.todo[i + 1]
        BY <1>1, <1>2, <3>2
      <4>2. q.todo[i + 1] = q.shown[Len(q.base) + (i + 1)]
        BY <2>1, <4>1 DEF Lined
      <4>3. Len(q.base) + (i + 1) = Len(x.base) + i
        <5>1. i \in Nat /\ Len(x.base) = Len(q.base) + 1 /\ Len(q.base) \in Nat
          BY <1>1, <1>2, <1>3, <3>2
        <5> QED BY <5>1
      <4> QED BY <1>1, <4>1, <4>2, <4>3
    <3> QED BY <3>1, <3>2 DEF Lined
  <2>4. row # NoRow => row.target = q.shown[Len(q.base) + 1] /\ Apart(q, row)
    <3>1. 1 \in DOMAIN q.todo
      BY <1>2
    <3>2. q.todo[1] = q.shown[Len(q.base) + 1]
      BY <2>1, <3>1 DEF Lined
    <3> QED BY <1>2, <3>2
  <2>5. ASSUME NEW i \in DOMAIN x.base, x.base[i] # NoRow
        PROVE  x.base[i].target = x.shown[i] /\ Apart(x, x.base[i])
    <3>1. CASE i \in DOMAIN q.base
      BY <1>1, <1>3, <2>1, <2>2, <2>5, <3>1
    <3>2. CASE i = Len(q.base) + 1
      BY <1>1, <1>3, <2>2, <2>4, <2>5, <3>2
    <3> QED BY <1>1, <1>3, <3>1, <3>2
  <2> QED BY <1>1, <2>1, <2>2, <2>3, <2>5
<1>6. Searching(rows, Coming, x)
  BY <1>1, <1>4 DEF Searching, SeriesKinds
<1> QED BY <1>4, <1>5, <1>6 DEF x, Good

LEMMA ReadBaselineStep ==
    ASSUME ReportsInv, NEW r \in Readers, NEW ok \in BOOLEAN, ReadBaseline(r, ok)
    PROVE  ReportsInv'
<1> DEFINE q == req[r]
           near == Closest(Head(q.todo), q.baseline)
           With(x) == [q EXCEPT !.todo = Tail(@), !.base = Append(@, x)]
<1>0. /\ q.pc = "before" /\ UNCHANGED <<rows, ingests, clock>>
      /\ Good(rows, Coming, clock, q) /\ Ordered(rows, ingests, clock)
  BY DEF ReadBaseline, Query, ReportsInv
<1>1. /\ q.pc = "before" /\ q.kind = "export" /\ q.baseline \in Nat
      /\ UNCHANGED <<rows, ingests, clock>> /\ Good(rows, Coming, clock, q)
      /\ Ordered(rows, ingests, clock)
  BY <1>0 DEF Good, Asked, Ordered
<1>2. \/ q.todo = << >> /\ Continue(r, TRUE, Answer(q))
      \/ q.todo # << >> /\ \E x \in near : Continue(r, ok, With(Baseline(q, x)))
      \/ q.todo # << >> /\ Continue(r, ok, With(NoRow))
  BY DEF ReadBaseline
<1> HIDE DEF q
<1>3. CASE q.todo = << >> /\ Continue(r, TRUE, Answer(q))
  <2>1. /\ Asked(Coming, clock, Answer(q))
        /\ Answer(q).kind = "export" /\ Answer(q).pc = "answered"
        /\ Answer(q).got = q.got /\ Answer(q).base = q.base
        /\ Answer(q).clean = q.clean
    BY <1>1, Answers DEF Good
  <2>2. Exporting(rows, Answer(q))
    <3> SUFFICES ASSUME q.clean, NEW i \in DOMAIN q.got, i \in DOMAIN q.base,
                        q.base[i] # NoRow
                 PROVE  q.got[i].target = q.base[i].target /\ Apart(q, q.base[i])
      BY <2>1 DEF Exporting, Apart
    <3> QED BY <1>1 DEF Good, Exporting, InOrder
  <2>3. Searching(rows, Coming, Answer(q))
    BY <2>1 DEF Searching, SeriesKinds
  <2> QED BY <1>1, <1>3, <2>1, <2>2, <2>3, ContinueStep
<1>4. CASE q.todo # << >> /\ \E x \in near : Continue(r, ok, With(Baseline(q, x)))
  <2>1. PICK x \in near : Continue(r, ok, With(Baseline(q, x)))
    BY <1>4
  <2>2. x.target = Head(q.todo)
    BY <1>1, <2>1, ClosestAre
  <2>3. Baseline(q, x) # NoRow => Baseline(q, x).target = Head(q.todo)
                                  /\ Apart(q, Baseline(q, x))
    BY <2>2 DEF Baseline, Apart
  <2>4. Good(rows, Coming, clock, With(Baseline(q, x)))
    BY <1>1, <1>4, <2>3, ReadBefore
  <2> HIDE DEF With
  <2> QED BY <1>1, <2>1, <2>4, ContinueStep DEF Good
<1>5. CASE q.todo # << >> /\ Continue(r, ok, With(NoRow))
  <2>1. Good(rows, Coming, clock, With(NoRow))
    BY <1>1, <1>5, ReadBefore
  <2> HIDE DEF With
  <2> QED BY <1>1, <1>5, <2>1, ContinueStep DEF Good
<1> QED BY <1>2, <1>3, <1>4, <1>5

-----------------------------------------------------------------------------
(* The project page *)

LEMMA PageGood ==
    ASSUME NEW rs, NEW cs, NEW c, NEW q, Asked(cs, c, q), q.kind = "page"
    PROVE  Good(rs, cs, c, q)
BY DEF Good, Exporting, Searching, SeriesKinds

LEMMA ListPageStep ==
    ASSUME ReportsInv, NEW r \in Readers, NEW ok \in BOOLEAN, ListPage(r, ok)
    PROVE  ReportsInv'
<1> DEFINE q == req[r]
           todo == IF ok THEN SetToSeq(AllSeries) ELSE << >>
           x == [q EXCEPT !.pc = "read", !.todo = todo]
<1>1. /\ q.pc = "list" /\ q.kind = "page" /\ UNCHANGED <<rows, ingests, clock>>
      /\ Asked(Coming, clock, q) /\ Ordered(rows, ingests, clock) /\ Continue(r, ok, x)
  BY DEF ListPage, Query, ReportsInv, Good
<1>2. Listed(todo)
  BY <1>1, FiniteLists, SetAsList, ListedEmpty
<1> HIDE DEF q, todo
<1>3. /\ DOMAIN x = DOMAIN q
      /\ x.kind = q.kind /\ x.pc = "read" /\ x.target = q.target
      /\ x.current = q.current /\ x.baseline = q.baseline /\ x.todo = todo
      /\ x.got = q.got /\ x.base = q.base /\ x.calls = q.calls /\ x.shown = q.shown
      /\ x.since = q.since /\ x.clean = q.clean
  BY <1>1 DEF Asked
<1> HIDE DEF x
<1>4. Asked(Coming, clock, x)
  BY <1>1, <1>2, <1>3 DEF Asked
<1> QED BY <1>1, <1>3, <1>4, PageGood, ContinueStep DEF Good

LEMMA ReadPageStep ==
    ASSUME ReportsInv, NEW r \in Readers, NEW ok \in BOOLEAN, ReadPage(r, ok)
    PROVE  ReportsInv'
<1> DEFINE q == req[r]
           row == IF ok THEN Latest(OfSeries(Head(q.todo))) ELSE NoRow
           dirs == IF row = NoRow THEN q.dirs ELSE Append(q.dirs, {})
           calls == IF row = NoRow THEN q.calls ELSE TopCalls(Paths(row))
           y == [q EXCEPT !.todo = Tail(@), !.dirs = dirs, !.calls = calls]
           x == Found(y, row)
<1>1. /\ q.pc = "read" /\ q.kind = "page" /\ q.todo # << >> /\ UNCHANGED <<rows, ingests, clock>>
      /\ Asked(Coming, clock, q) /\ Ordered(rows, ingests, clock)
  BY DEF ReadPage, Query, ReportsInv, Good, Asked
<1>2. Continue(r, ok, x)
  BY DEF ReadPage
<1> HIDE DEF q
<1>3. row = NoRow \/ row \in rows
  BY <1>1, LatestOfSeries
<1> HIDE DEF row, dirs, calls
<1>4. /\ DOMAIN y = DOMAIN q
      /\ y.kind = q.kind /\ y.pc = q.pc /\ y.target = q.target
      /\ y.current = q.current /\ y.baseline = q.baseline /\ y.todo = Tail(q.todo)
      /\ y.got = q.got /\ y.base = q.base /\ y.shown = q.shown /\ y.since = q.since
      /\ y.clean = q.clean
  BY <1>1 DEF Asked
<1> HIDE DEF y
<1>5. Asked(Coming, clock, y)
  <2>1. Listed(Tail(q.todo))
    BY <1>1, ListedTail DEF Asked
  <2> QED BY <1>1, <1>4, <2>1 DEF Asked
<1>6. Asked(Coming, clock, x) /\ x.kind = "page"
  BY <1>1, <1>3, <1>4, <1>5, Finds
<1> HIDE DEF x
<1> QED BY <1>1, <1>2, <1>6, PageGood, ContinueStep DEF Good

LEMMA BuildDirStep ==
    ASSUME ReportsInv, NEW r \in Readers, BuildDir(r)
    PROVE  ReportsInv'
<1> DEFINE q == req[r]
           c == Head(q.calls)
           only == CHOOSE d \in SubDirs(c) : TRUE
           joined == <<Call(c.name \o <<only>>, c.parent, c.files)>> \o Tail(q.calls)
           below == SetToSeq({Call(<<d>>, FullDir(c), InSubDir(c, d)) : d \in SubDirs(c)})
                    \o Tail(q.calls)
           join == [q EXCEPT !.calls = joined]
           show == [q EXCEPT !.calls = below,
                             !.dirs[Len(q.dirs)] = @ \union {[dir |-> FullDir(c),
                                                              files |-> c.files]}]
<1>1. /\ q.kind = "page" /\ UNCHANGED <<rows, ingests, clock>> /\ Asked(Coming, clock, q)
  BY DEF BuildDir, Query, ReportsInv, Good, Asked
<1>2. Continue(r, TRUE, join) \/ Continue(r, TRUE, show)
  BY DEF BuildDir
<1> HIDE DEF q, joined, below
<1>3. /\ DOMAIN join = DOMAIN q
      /\ join.kind = q.kind /\ join.pc = q.pc /\ join.target = q.target
      /\ join.current = q.current /\ join.baseline = q.baseline /\ join.todo = q.todo
      /\ join.got = q.got /\ join.base = q.base /\ join.shown = q.shown
      /\ join.since = q.since /\ join.clean = q.clean
  BY <1>1 DEF Asked
<1>4. /\ DOMAIN show = DOMAIN q
      /\ show.kind = q.kind /\ show.pc = q.pc /\ show.target = q.target
      /\ show.current = q.current /\ show.baseline = q.baseline /\ show.todo = q.todo
      /\ show.got = q.got /\ show.base = q.base /\ show.shown = q.shown
      /\ show.since = q.since /\ show.clean = q.clean
  BY <1>1 DEF Asked
<1> HIDE DEF join, show
<1>5. Asked(Coming, clock, join) /\ Asked(Coming, clock, show)
  BY <1>1, <1>3, <1>4 DEF Asked
<1> QED BY <1>1, <1>2, <1>3, <1>4, <1>5, PageGood, ContinueStep DEF Good

LEMMA ShowPageStep ==
    ASSUME ReportsInv, NEW r \in Readers, ShowPage(r)
    PROVE  ReportsInv'
<1> DEFINE q == req[r]
           shown == IF Len(q.got) < 2 THEN << >> ELSE <<Composite(q.got)>>
           x == [Answer(q) EXCEPT !.shown = shown]
<1>1. /\ q.kind = "page" /\ UNCHANGED <<rows, ingests, clock>> /\ Asked(Coming, clock, q)
  BY DEF ShowPage, Query, ReportsInv, Good, Asked
<1>2. Continue(r, TRUE, x)
  BY DEF ShowPage
<1>3. Listed(shown)
  <2>1. <<Composite(q.got)>> \in Seq({Composite(q.got)})
    OBVIOUS
  <2>2. Listed(<<Composite(q.got)>>)
    BY <2>1, ListedSeq
  <2> QED BY <2>2, ListedEmpty
<1> HIDE DEF q, shown
<1>4. Asked(Coming, clock, Answer(q)) /\ Answer(q).kind = "page" /\ Answer(q).pc = "answered"
  BY <1>1, Answers
<1> DEFINE a == Answer(q)
<1> HIDE DEF a
<1>5. /\ DOMAIN x = DOMAIN a
      /\ x.kind = a.kind /\ x.pc = a.pc /\ x.target = a.target
      /\ x.current = a.current /\ x.baseline = a.baseline /\ x.todo = a.todo
      /\ x.got = a.got /\ x.base = a.base /\ x.calls = a.calls /\ x.shown = shown
      /\ x.since = a.since /\ x.clean = a.clean
  BY <1>4 DEF Asked, a
<1> HIDE DEF x
<1>6. Asked(Coming, clock, x) /\ x.kind = "page"
  BY <1>3, <1>4, <1>5 DEF Asked, a
<1> QED BY <1>1, <1>2, <1>6, PageGood, ContinueStep DEF Good

-----------------------------------------------------------------------------
(* The theorems *)

LEMMA InitReports == ReportsInit => ReportsInv
<1> SUFFICES ASSUME ReportsInit PROVE ReportsInv
  OBVIOUS
<1>1. rows = {} /\ ingests = {} /\ Coming = {} /\ clock = 0
      /\ req = [r \in Readers |-> Quiet]
  BY DEF ReportsInit, Coming
<1>2. Ordered(rows, ingests, clock)
  BY <1>1, FS_EmptySet DEF Ordered
<1>3. Asked(Coming, clock, Quiet)
  BY <1>1, ListedEmpty DEF Asked, Quiet
<1>4. Exporting(rows, Quiet) /\ Searching(rows, Coming, Quiet)
  BY DEF Exporting, Searching, Quiet, SeriesKinds
<1> QED BY <1>1, <1>2, <1>3, <1>4 DEF ReportsInv, Good

LEMMA HandleStep ==
    ASSUME ReportsInv, NEW r \in Readers, NEW ok \in BOOLEAN, Handle(r, ok)
    PROVE  ReportsInv'
BY ListSeriesStep, RelistSeriesStep, CompareSeriesStep, ShowSeriesStep, ListTargetsStep,
   PickStep, ReadAroundStep, ReadCurrentStep, PickBaselineStep, ReadBaselineStep,
   ListPageStep, ReadPageStep
DEF Handle

LEMMA ReportsInductive == ReportsInv /\ [ReportsNext]_reportvars => ReportsInv'
<1> SUFFICES ASSUME ReportsInv, [ReportsNext]_reportvars PROVE ReportsInv'
  OBVIOUS
<1>0. Ordered(rows, ingests, clock) /\ clock \in Nat
  BY DEF ReportsInv, Ordered
<1>1. ASSUME NEW d \in Docs, NEW format, Receive(d, format) PROVE ReportsInv'
  BY <1>0, <1>1, ReceiveStep, UploadStep DEF Receive
<1>a. ASSUME NEW u \in ingests, Insert(u) PROVE ReportsInv'
  BY <1>0, <1>a, InsertStep, UploadStep DEF Insert
<1>b. ASSUME NEW u \in ingests, Strip(u) PROVE ReportsInv'
  BY <1>0, <1>b, StripStep, UploadStep DEF Strip
<1>c. ASSUME NEW u \in ingests, Trim(u) PROVE ReportsInv'
  BY <1>0, <1>c, TrimStep, UploadStep DEF Trim
<1>2. ASSUME Delete PROVE ReportsInv'
  BY <1>2, DeleteStep
<1>3. ASSUME NEW r \in Readers, NEW kind \in SeriesKinds, NEW target,
             Ask(r, kind, target, 0, 0)
      PROVE  ReportsInv'
  BY <1>0, <1>3, AskStep
<1>4. ASSUME NEW r \in Readers, Ask(r, "page", AnyTarget, 0, 0) PROVE ReportsInv'
  BY <1>0, <1>4, AskStep
<1>5. ASSUME NEW r \in Readers, NEW current \in 0..clock, NEW baseline \in 0..clock,
             Ask(r, "export", AnyTarget, current, baseline)
      PROVE  ReportsInv'
  BY <1>0, <1>5, AskStep
<1>6. ASSUME NEW r \in Readers, NEW ok \in BOOLEAN, Handle(r, ok) PROVE ReportsInv'
  BY <1>6, HandleStep
<1>7. ASSUME NEW r \in Readers, BuildDir(r) PROVE ReportsInv'
  BY <1>7, BuildDirStep
<1>8. ASSUME NEW r \in Readers, ShowPage(r) PROVE ReportsInv'
  BY <1>8, ShowPageStep
<1>9. CASE UNCHANGED reportvars
  BY <1>9 DEF reportvars, ReportsInv, Coming
<1> QED BY <1>1, <1>a, <1>b, <1>c, <1>2, <1>3, <1>4, <1>5, <1>6, <1>7, <1>8, <1>9
        DEF ReportsNext

LEMMA ReportsInvariant == ReportsSpec => []ReportsInv
<1> QED BY InitReports, ReportsInductive, PTL DEF ReportsSpec

\* An exported report compares each target with a snapshot of that target
\* which is none of those it shows (export_report).
THEOREM BaselinesAreOwn == ReportsSpec => []OwnBaseline
<1>1. ReportsInv => OwnBaseline
  <2> SUFFICES ASSUME ReportsInv, NEW r \in Readers,
                      req[r].kind = "export", req[r].pc = "answered", req[r].clean,
                      NEW d \in Deltas(req[r])
               PROVE  /\ d[1].target = d[2].target
                      /\ \A i \in DOMAIN req[r].got : req[r].got[i].at # d[2].at
    BY DEF OwnBaseline
  <2> DEFINE q == req[r]
  <2>1. PICK i \in DOMAIN q.got : /\ i \in DOMAIN q.base /\ q.base[i] # NoRow
                                  /\ d = <<q.got[i], q.base[i]>>
    BY DEF Deltas
  <2>2. Exporting(rows, q)
    BY DEF ReportsInv, Good
  <2> HIDE DEF q
  <2>3. q.got[i].target = q.base[i].target /\ Apart(q, q.base[i])
    BY <2>1, <2>2 DEF Exporting, q
  <2> QED BY <2>1, <2>3 DEF Apart, q
<1> QED BY <1>1, ReportsInvariant, PTL

\* Whoever asks for one series is never shown a snapshot older than one that
\* matched when it asked, nor, if the project was deleted since, than the oldest
\* upload that was still to be inserted then (resolve_series,
\* resolve_series_or_newest, resolve_badge_snapshot).
THEOREM AnswersAreRecent == ReportsSpec => []NeverOlder
<1>1. ReportsInv => NeverOlder
  BY DEF ReportsInv, Good, Searching, NeverOlder, Last
<1> QED BY <1>1, ReportsInvariant, PTL

-----------------------------------------------------------------------------
(* The file tree.  Absolute paths are excepted: they have an empty first   *)
(* component, and the tree of two of them does not end (TreeDescends).     *)

\* What a snapshot has of paths, and what an upload must have for that.
PathsOK(P) == IsFiniteSet(P) /\ \A p \in P : Listed(p) /\ (p # << >> => p[1] # "")
FilesOK(files) ==
    /\ Listed(files)
    /\ \A i \in DOMAIN files : LET p == files[i].path IN
          Listed(p) /\ (p # << >> => p[1] # "")
RelativePaths ==
    \A d \in Docs : \A format \in {d.format, Detect(d)} \ {"none"} :
        LET report == Parse([d EXCEPT !.format = format]) IN
        report # NoReport => FilesOK(report.files)
SnapshotsOK(rs) == \A x \in rs : "files" \in DOMAIN x /\ FilesOK(x.files)
\* Those of the uploads.
Parsed == {u.row : u \in ingests}

\* The files below directory dir.
Under(P, dir) == {p \in P : IsPrefix(dir, p) /\ p # dir}

\* A call is about a directory and has all its files.
CallOK(P, c) ==
    /\ Listed(c.name) /\ Listed(c.parent) /\ Listed(FullDir(c)) /\ FullDir(c) # << >>
    /\ c.files = Under(P, FullDir(c)) /\ c.files # {}

\* The directories shown of paths P, and the calls still to come.
TreeSoFar(P, dirs, calls) ==
    /\ Listed(calls)
    /\ \A d \in dirs : Listed(d.dir) /\ d.files = Under(P, d.dir) /\ d.files # {}
    /\ \A k \in DOMAIN calls : CallOK(P, calls[k])
    /\ \A d, e \in dirs : d.files = e.files => d = e
    /\ \A k, l \in DOMAIN calls : k # l => calls[k].files \intersect calls[l].files = {}
    /\ \A d \in dirs : \A k \in DOMAIN calls :
          \/ d.files \intersect calls[k].files = {}
          \/ calls[k].files \subseteq d.files /\ calls[k].files # d.files
    /\ \A p \in P : Len(p) > 1 =>
          \/ \E d \in dirs : p \in d.files
          \/ \E k \in DOMAIN calls : p \in calls[k].files

\* The trees of a request: only the last is still being built.
PageOK(q) ==
    q.kind = "page" =>
        /\ Listed(q.dirs) /\ Listed(q.got) /\ Len(q.dirs) = Len(q.got)
        /\ q.calls # << >> => q.dirs # << >>
        /\ \A i \in DOMAIN q.got : PathsOK(Paths(q.got[i]))
        /\ \A i \in DOMAIN q.dirs :
              TreeSoFar(Paths(q.got[i]), q.dirs[i],
                        IF i = Len(q.dirs) THEN q.calls ELSE << >>)

TreeInv ==
    /\ ReportsInv
    /\ SnapshotsOK(rows) /\ SnapshotsOK(Parsed)
    /\ \A r \in Readers : PageOK(req[r])

LEMMA PrefixMeans ==
    ASSUME NEW s, NEW t, Listed(s), Listed(t)
    PROVE  /\ IsPrefix(s, t) <=> Len(s) <= Len(t) /\ \A i \in 1..Len(s) : s[i] = t[i]
           /\ IsPrefix(s, t) /\ s # t => Len(s) < Len(t)
           /\ Len(s) < Len(t) => s # t
<1>1. /\ s \in Seq(Range(s)) /\ Len(s) \in Nat /\ DOMAIN s = 1..Len(s)
      /\ t \in Seq(Range(t)) /\ Len(t) \in Nat /\ DOMAIN t = 1..Len(t)
  BY DEF Listed
<1>2. ASSUME Len(s) <= Len(t)
      PROVE  SubSeq(s, 1, Len(s)) = SubSeq(t, 1, Len(s)) <=> \A i \in 1..Len(s) : s[i] = t[i]
  <2>1. /\ SubSeq(s, 1, Len(s)) = [i \in 1..Len(s) |-> s[i]]
        /\ SubSeq(t, 1, Len(s)) = [i \in 1..Len(s) |-> t[i]]
    BY <1>1, <1>2
  <2> QED BY <2>1
<1>3. IsPrefix(s, t) <=> Len(s) <= Len(t) /\ \A i \in 1..Len(s) : s[i] = t[i]
  BY <1>2 DEF IsPrefix
<1>4. ASSUME IsPrefix(s, t), s # t PROVE Len(s) < Len(t)
  <2>0. Len(s) <= Len(t) /\ Len(s) \in Nat /\ Len(t) \in Nat
    BY <1>1, <1>3, <1>4
  <2> SUFFICES ASSUME Len(s) = Len(t) PROVE FALSE
    BY <2>0
  <2>1. \A i \in 1..Len(s) : s[i] = t[i]
    BY <1>3, <1>4
  <2>2. s = t
    BY <1>1, <2>1
  <2> QED BY <1>4, <2>2
<1> QED BY <1>1, <1>3, <1>4

\* The paths below a directory, and those below one of its directories.
LEMMA UnderMeans ==
    ASSUME NEW P, PathsOK(P), NEW dir, Listed(dir)
    PROVE  /\ \A p : p \in Under(P, dir) <=>
                 p \in P /\ Len(dir) < Len(p) /\ \A i \in 1..Len(dir) : p[i] = dir[i]
           /\ \A p \in Under(P, dir) : /\ Listed(p) /\ Len(p) \in Nat /\ Len(dir) \in Nat
                                       /\ Len(p) > Len(dir)
           /\ \A d : Under(P, Append(dir, d))
                       = {p \in Under(P, dir) : Len(p) > Len(dir) + 1 /\ p[Len(dir) + 1] = d}
<1>1. Len(dir) \in Nat /\ \A p \in P : Listed(p) /\ Len(p) \in Nat
  <2>1. \A s : Listed(s) => Len(s) \in Nat
    BY DEF Listed
  <2> QED BY <2>1 DEF PathsOK
<1>2. \A x : Listed(x) => \A p : p \in Under(P, x) <=>
         p \in P /\ Len(x) < Len(p) /\ \A i \in 1..Len(x) : p[i] = x[i]
  <2> SUFFICES ASSUME NEW x, Listed(x), NEW p \in P
               PROVE  IsPrefix(x, p) /\ p # x <=>
                        Len(x) < Len(p) /\ \A i \in 1..Len(x) : p[i] = x[i]
    BY DEF Under
  <2>1. Len(x) \in Nat
    BY DEF Listed
  <2> QED BY <1>1, <2>1, PrefixMeans
<1>3. ASSUME NEW d
      PROVE  Under(P, Append(dir, d))
               = {p \in Under(P, dir) : Len(p) > Len(dir) + 1 /\ p[Len(dir) + 1] = d}
  <2> DEFINE x == Append(dir, d)
  <2>1. /\ Listed(x) /\ Len(x) = Len(dir) + 1 /\ DOMAIN dir = 1..Len(dir)
        /\ \A i \in DOMAIN dir : x[i] = dir[i]
        /\ x[Len(dir) + 1] = d
    BY ListedAppend DEF Listed
  <2> HIDE DEF x
  <2>2. ASSUME NEW p \in P
        PROVE  p \in Under(P, x) <=>
                 p \in Under(P, dir) /\ Len(p) > Len(dir) + 1 /\ p[Len(dir) + 1] = d
    <3>1. p \in Under(P, x) <=> Len(dir) + 1 < Len(p) /\ \A i \in 1..(Len(dir) + 1) : p[i] = x[i]
      BY <1>2, <2>1
    <3>2. p \in Under(P, dir) <=> Len(dir) < Len(p) /\ \A i \in 1..Len(dir) : p[i] = dir[i]
      BY <1>2
    <3>3. (\A i \in 1..(Len(dir) + 1) : p[i] = x[i])
            <=> p[Len(dir) + 1] = d /\ \A i \in 1..Len(dir) : p[i] = dir[i]
      <4>1. \A i : i \in 1..(Len(dir) + 1) <=> i \in 1..Len(dir) \/ i = Len(dir) + 1
        BY <1>1
      <4> QED BY <2>1, <4>1
    <3>4. Len(p) \in Nat
      BY <1>1
    <3> QED BY <1>1, <3>1, <3>2, <3>3, <3>4
  <2>3. Under(P, x) \subseteq P /\ Under(P, dir) \subseteq P
    BY DEF Under
  <2> QED BY <2>2, <2>3 DEF x
<1>4. \A p \in Under(P, dir) : Listed(p) /\ Len(p) \in Nat /\ Len(p) > Len(dir)
  <2>1. \A p \in Under(P, dir) : p \in P /\ Len(dir) < Len(p)
    BY <1>2
  <2> QED BY <1>1, <2>1
<1> QED BY <1>1, <1>2, <1>3, <1>4

\* Lists one after the other.
LEMMA ListedConcat ==
    ASSUME NEW s, Listed(s), NEW t, Listed(t)
    PROVE  /\ Listed(s \o t)
           /\ Len(s) \in Nat /\ Len(t) \in Nat /\ DOMAIN s = 1..Len(s) /\ DOMAIN t = 1..Len(t)
           /\ Len(s \o t) = Len(s) + Len(t) /\ DOMAIN (s \o t) = 1..(Len(s) + Len(t))
           /\ \A i \in DOMAIN s : (s \o t)[i] = s[i]
           /\ \A i \in DOMAIN t : (s \o t)[Len(s) + i] = t[i]
<1> DEFINE T == Range(s) \union Range(t)
<1>1. s \in Seq(T) /\ t \in Seq(T)
  BY DEF Listed
<1> HIDE DEF T
<1>2. /\ Len(s) \in Nat /\ Len(t) \in Nat /\ DOMAIN s = 1..Len(s) /\ DOMAIN t = 1..Len(t)
      /\ s \o t \in Seq(T)
  BY <1>1
<1>3. Len(s \o t) = Len(s) + Len(t)
  BY <1>1
<1>4. \A i \in DOMAIN s : (s \o t)[i] = s[i]
  BY <1>1, <1>2
<1>5. \A i \in DOMAIN t : (s \o t)[Len(s) + i] = t[i]
  BY <1>1, <1>2
<1>6. Listed(s \o t)
  BY <1>2, ListedSeq
<1>7. DOMAIN (s \o t) = 1..(Len(s) + Len(t))
  BY <1>2, <1>3
<1> QED BY <1>2, <1>3, <1>4, <1>5, <1>6, <1>7

LEMMA ListsEqual ==
    ASSUME NEW s, Listed(s), NEW t, Listed(t), Len(s) = Len(t),
           \A i \in 1..Len(s) : s[i] = t[i]
    PROVE  s = t
<1>1. s = [i \in 1..Len(s) |-> s[i]] /\ t = [i \in 1..Len(t) |-> t[i]]
  BY DEF Listed
<1> QED BY <1>1

LEMMA AppendIsConcat ==
    ASSUME NEW s, Listed(s), NEW x
    PROVE  s \o <<x>> = Append(s, x)
<1>1. Listed(<<x>>) /\ Len(<<x>>) = 1 /\ <<x>>[1] = x
  <2>1. <<x>> \in Seq({x}) /\ Len(<<x>>) = 1 /\ <<x>>[1] = x
    OBVIOUS
  <2> QED BY <2>1, ListedSeq
<1> DEFINE y == <<x>>
<1>2. Listed(y) /\ Len(y) = 1 /\ y[1] = x
  BY <1>1
<1> HIDE DEF y
<1>3. /\ Listed(s \o y) /\ Len(s \o y) = Len(s) + 1 /\ Len(s) \in Nat
      /\ \A i \in 1..Len(s) : (s \o y)[i] = s[i]
      /\ (s \o y)[Len(s) + 1] = x
  BY <1>2, ListedConcat
<1>4. /\ Listed(Append(s, x)) /\ Len(Append(s, x)) = Len(s) + 1
      /\ \A i \in 1..Len(s) : Append(s, x)[i] = s[i]
      /\ Append(s, x)[Len(s) + 1] = x
  BY <1>3, ListedAppend DEF Listed
<1>5. \A i \in 1..(Len(s) + 1) : i \in 1..Len(s) \/ i = Len(s) + 1
  BY <1>3
<1>6. s \o y = Append(s, x)
  BY <1>3, <1>4, <1>5, ListsEqual
<1> QED BY <1>6 DEF y

LEMMA AppendAfterConcat ==
    ASSUME NEW s, Listed(s), NEW t, Listed(t), NEW x
    PROVE  s \o Append(t, x) = Append(s \o t, x)
<1>1. /\ Listed(s \o t) /\ Len(s \o t) = Len(s) + Len(t)
      /\ Len(s) \in Nat /\ Len(t) \in Nat /\ DOMAIN s = 1..Len(s) /\ DOMAIN t = 1..Len(t)
      /\ \A i \in 1..Len(s) : (s \o t)[i] = s[i]
      /\ \A i \in 1..Len(t) : (s \o t)[Len(s) + i] = t[i]
  BY ListedConcat
<1>2. /\ Listed(Append(t, x)) /\ Len(Append(t, x)) = Len(t) + 1
      /\ \A i \in 1..Len(t) : Append(t, x)[i] = t[i]
      /\ Append(t, x)[Len(t) + 1] = x
  BY <1>1, ListedAppend
<1>3. /\ Listed(Append(s \o t, x)) /\ Len(Append(s \o t, x)) = Len(s) + Len(t) + 1
      /\ \A i \in 1..(Len(s) + Len(t)) : Append(s \o t, x)[i] = (s \o t)[i]
      /\ Append(s \o t, x)[Len(s) + Len(t) + 1] = x
  <2> DEFINE u == s \o t
             n == Len(s) + Len(t)
  <2>1. Listed(u) /\ Len(u) = n /\ n \in Nat /\ DOMAIN u = 1..n
    BY <1>1 DEF Listed
  <2> HIDE DEF u, n
  <2>2. /\ Listed(Append(u, x)) /\ Len(Append(u, x)) = n + 1
        /\ \A i \in 1..n : Append(u, x)[i] = u[i]
        /\ Append(u, x)[n + 1] = x
    BY <2>1, ListedAppend
  <2> QED BY <2>2 DEF u, n
<1> DEFINE a == s \o Append(t, x)
           b == Append(s \o t, x)
<1>4. /\ Listed(a) /\ Len(a) = Len(s) + (Len(t) + 1)
      /\ \A i \in 1..Len(s) : a[i] = s[i]
      /\ \A i \in 1..(Len(t) + 1) : a[Len(s) + i] = Append(t, x)[i]
  <2> DEFINE u == Append(t, x)
  <2>1. Listed(u) /\ Len(u) = Len(t) + 1 /\ DOMAIN u = 1..(Len(t) + 1)
    BY <1>2 DEF Listed
  <2> HIDE DEF u
  <2>3. /\ Listed(s \o u) /\ Len(s \o u) = Len(s) + Len(u)
        /\ \A i \in DOMAIN s : (s \o u)[i] = s[i]
        /\ \A i \in DOMAIN u : (s \o u)[Len(s) + i] = u[i]
    <3>1. Listed(u)
      BY <2>1
    <3>2. Listed(s \o u) /\ Len(s \o u) = Len(s) + Len(u)
      BY <3>1, ListedConcat
    <3>3. \A i \in DOMAIN s : (s \o u)[i] = s[i]
      BY <3>1, ListedConcat
    <3>4. \A i \in DOMAIN u : (s \o u)[Len(s) + i] = u[i]
      <4> DEFINE T == Range(s) \union Range(u)
      <4>1. s \in Seq(T) /\ u \in Seq(T)
        BY <3>1 DEF Listed
      <4> HIDE DEF T
      <4>2. /\ Len(s) \in Nat /\ Len(u) \in Nat
            /\ DOMAIN s = 1..Len(s) /\ DOMAIN u = 1..Len(u)
        BY <4>1
      <4> QED BY <4>1, <4>2
    <3> QED BY <3>2, <3>3, <3>4
  <2>2. /\ Listed(s \o u) /\ Len(s \o u) = Len(s) + (Len(t) + 1)
        /\ \A i \in 1..Len(s) : (s \o u)[i] = s[i]
        /\ \A i \in 1..(Len(t) + 1) : (s \o u)[Len(s) + i] = u[i]
    BY <1>1, <2>1, <2>3
  <2> QED BY <2>2 DEF u
<1>5. Listed(b) /\ Len(b) = Len(s) + Len(t) + 1
  BY <1>3
<1> HIDE DEF a, b
<1>6. ASSUME NEW i \in 1..Len(a) PROVE a[i] = b[i]
  <2>1. i \in 1..Len(s) \/ i = Len(s) + Len(t) + 1 \/ i - Len(s) \in 1..Len(t)
    <3>1. i \in Int /\ 1 <= i /\ i <= Len(s) + (Len(t) + 1) /\ Len(s) \in Nat /\ Len(t) \in Nat
      BY <1>1, <1>4
    <3> QED BY <3>1
  <2>2. CASE i \in 1..Len(s)
    <3>1. i \in 1..(Len(s) + Len(t))
      BY <1>1, <2>2
    <3> QED BY <1>1, <1>3, <1>4, <2>2, <3>1 DEF b
  <2>3. CASE i = Len(s) + Len(t) + 1
    <3>1. Len(t) + 1 \in 1..(Len(t) + 1) /\ i = Len(s) + (Len(t) + 1)
      BY <1>1, <2>3
    <3>2. a[i] = Append(t, x)[Len(t) + 1]
      BY <1>4, <3>1
    <3> QED BY <1>2, <1>3, <2>3, <3>2 DEF b
  <2>4. CASE i - Len(s) \in 1..Len(t)
    <3> DEFINE j == i - Len(s)
    <3>1. /\ j \in 1..Len(t) /\ j \in 1..(Len(t) + 1) /\ i = Len(s) + j
          /\ i \in 1..(Len(s) + Len(t))
      BY <1>1, <1>4, <2>4
    <3> HIDE DEF j
    <3>2. a[i] = t[j]
      BY <1>2, <1>4, <3>1
    <3>3. b[i] = t[j]
      BY <1>1, <1>3, <3>1 DEF b
    <3> QED BY <3>2, <3>3
  <2> QED BY <2>1, <2>2, <2>3, <2>4
<1>7. a = b
  <2>1. Len(a) = Len(b)
    BY <1>1, <1>4, <1>5
  <2> QED BY <1>4, <1>5, <1>6, <2>1, ListsEqual
<1> QED BY <1>7 DEF a, b

\* A call of a directory that has been reached: what is in it.
LEMMA CallParts ==
    ASSUME NEW P, PathsOK(P), NEW c, CallOK(P, c)
    PROVE  LET dir == FullDir(c) IN
           /\ dir # Root
           /\ SubDirs(c) = {p[Len(dir) + 1] : p \in {f \in c.files : Len(f) > Len(dir) + 1}}
           /\ Leaves(c) = {p \in c.files : Len(p) = Len(dir) + 1}
           /\ \A d : InSubDir(c, d) = Under(P, Append(dir, d))
           /\ \A d : InSubDir(c, d)
                       = {p \in c.files : Len(p) > Len(dir) + 1 /\ p[Len(dir) + 1] = d}
           /\ IsFiniteSet(SubDirs(c))
<1> DEFINE dir == FullDir(c)
           n == Len(dir)
<1>1. Listed(dir) /\ dir # << >> /\ c.files = Under(P, dir) /\ c.files # {}
  BY DEF CallOK
<1>2. /\ \A p : p \in c.files <=> p \in P /\ n < Len(p) /\ \A i \in 1..n : p[i] = dir[i]
      /\ \A p \in c.files : Listed(p) /\ Len(p) \in Nat /\ Len(p) > n
      /\ \A d : Under(P, Append(dir, d))
                  = {p \in c.files : Len(p) > n + 1 /\ p[n + 1] = d}
  BY <1>1, UnderMeans
<1>3. n \in Nat /\ n >= 1 /\ DOMAIN dir = 1..n
  BY <1>1 DEF Listed
<1>4. dir # Root
  <2> SUFFICES ASSUME dir = Root PROVE FALSE
    OBVIOUS
  <2>1. Root[1] = ""
    BY DEF Root
  <2>2. PICK p \in c.files : TRUE
    BY <1>1
  <2>3. p \in P /\ Len(p) > n /\ Len(p) \in Nat /\ 1 \in 1..n
    BY <1>2, <1>3, <2>2
  <2>4. p[1] = dir[1]
    BY <1>2, <2>2, <2>3
  <2>5. p # << >>
    BY <1>3, <2>3
  <2> QED BY <2>1, <2>3, <2>4, <2>5 DEF PathsOK
<1>5. ASSUME NEW p \in c.files
      PROVE  Len(Below(c, p)) = Len(p) - n /\ Below(c, p)[1] = p[n + 1]
  <2>1. /\ IsPrefix(dir, p) /\ Len(p) > n /\ Len(p) \in Nat /\ p \in Seq(Range(p))
    BY <1>1, <1>2, <1>5 DEF Under, Listed
  <2>2. Below(c, p) = SubSeq(p, n + 1, Len(p))
    BY <2>1 DEF Below
  <2>3. SubSeq(p, n + 1, Len(p)) = [i \in 1..(Len(p) - n) |-> p[i + n]]
    BY <1>3, <2>1
  <2>4. Len(p) - n \in Nat /\ 1 \in 1..(Len(p) - n) /\ 1 + n = n + 1
    BY <1>3, <2>1
  <2> DEFINE f == [i \in 1..(Len(p) - n) |-> p[i + n]]
  <2>5. Len(f) = Len(p) - n /\ f[1] = p[1 + n]
    BY <2>4
  <2> QED BY <2>2, <2>3, <2>4, <2>5
<1> HIDE DEF n
<1>6. \A p \in c.files : Len(Below(c, p)) > 1 <=> Len(p) > n + 1
  BY <1>2, <1>3, <1>5
<1>7. \A p \in c.files : Len(Below(c, p)) = 1 <=> Len(p) = n + 1
  <2> SUFFICES ASSUME NEW p \in c.files PROVE Len(Below(c, p)) = 1 <=> Len(p) = n + 1
    OBVIOUS
  <2>1. Len(Below(c, p)) = Len(p) - n /\ Len(p) \in Nat
    BY <1>2, <1>5
  <2> QED BY <1>3, <2>1
<1>8. {f \in c.files : Len(Below(c, f)) > 1} = {f \in c.files : Len(f) > n + 1}
  BY <1>6
<1>9. SubDirs(c) = {p[n + 1] : p \in {f \in c.files : Len(f) > n + 1}}
  <2>1. \A p \in {f \in c.files : Len(f) > n + 1} : Below(c, p)[1] = p[n + 1]
    BY <1>5
  <2>2. SubDirs(c) = {Below(c, p)[1] : p \in {f \in c.files : Len(f) > n + 1}}
    BY <1>8 DEF SubDirs
  <2> QED BY <2>1, <2>2
<1>10. Leaves(c) = {p \in c.files : Len(p) = n + 1}
  BY <1>7 DEF Leaves
<1>11. \A d : InSubDir(c, d) = {p \in c.files : Len(p) > n + 1 /\ p[n + 1] = d}
  BY <1>5, <1>6 DEF InSubDir
<1>12. IsFiniteSet(SubDirs(c))
  <2> DEFINE S == {f \in c.files : Len(f) > n + 1}
             g == [p \in S |-> p[n + 1]]
  <2>1. S \in SUBSET P
    BY <1>2
  <2>2. IsFiniteSet(S)
    BY <2>1, FS_Subset DEF PathsOK
  <2>3. SubDirs(c) = {g[p] : p \in S} /\ DOMAIN g = S
    BY <1>9
  <2> HIDE DEF S, g
  <2> QED BY <2>2, <2>3, ImageFinite
<1> QED BY <1>2, <1>4, <1>9, <1>10, <1>11, <1>12 DEF n

\* A directory of one directory is followed down.
LEMMA JoinedCall ==
    ASSUME NEW P, PathsOK(P), NEW c, CallOK(P, c),
           Cardinality(SubDirs(c)) = 1, Leaves(c) = {},
           NEW only, only = CHOOSE d \in SubDirs(c) : TRUE
    PROVE  CallOK(P, Call(c.name \o <<only>>, c.parent, c.files))
<1> DEFINE dir == FullDir(c)
           x == Call(c.name \o <<only>>, c.parent, c.files)
<1>1. /\ SubDirs(c) = {p[Len(dir) + 1] : p \in {f \in c.files : Len(f) > Len(dir) + 1}}
      /\ Leaves(c) = {p \in c.files : Len(p) = Len(dir) + 1}
      /\ IsFiniteSet(SubDirs(c))
  BY CallParts
<1>2. /\ Listed(c.name) /\ Listed(c.parent) /\ Listed(dir) /\ dir # << >>
      /\ c.files = Under(P, dir) /\ c.files # {}
  BY DEF CallOK
<1>3. SubDirs(c) = {only}
  BY <1>1, FS_Singleton
<1>4. Listed(c.name \o <<only>>) /\ c.name \o <<only>> = Append(c.name, only)
  <2>1. c.name \o <<only>> = Append(c.name, only)
    BY <1>2, AppendIsConcat
  <2>2. Listed(Append(c.name, only))
    BY <1>2, ListedAppend
  <2> QED BY <2>1, <2>2
<1>5. FullDir(x) = Append(dir, only)
  <2>1. x.name = Append(c.name, only) /\ x.parent = c.parent
    BY <1>4 DEF Call
  <2>2. CASE c.parent = Root
    BY <2>1, <2>2 DEF FullDir
  <2>3. CASE c.parent # Root
    <3>1. FullDir(x) = c.parent \o Append(c.name, only) /\ dir = c.parent \o c.name
      BY <2>1, <2>3 DEF FullDir
    <3>2. c.parent \o Append(c.name, only) = Append(c.parent \o c.name, only)
      <4> DEFINE a == c.parent
                 b == c.name
      <4>1. Listed(a) /\ Listed(b)
        BY <1>2
      <4> HIDE DEF a, b, x, dir
      <4>2. a \o Append(b, only) = Append(a \o b, only)
        BY <4>1, AppendAfterConcat
      <4> QED BY <4>2 DEF a, b
    <3> QED BY <3>1, <3>2
  <2> QED BY <2>2, <2>3
<1>6. Listed(Append(dir, only)) /\ Append(dir, only) # << >>
  BY <1>2, ListedAppend
<1>7. c.files = Under(P, Append(dir, only))
  <2>1. /\ Under(P, Append(dir, only))
             = {p \in Under(P, dir) : Len(p) > Len(dir) + 1 /\ p[Len(dir) + 1] = only}
        /\ \A p \in Under(P, dir) : Len(p) \in Nat /\ Len(dir) \in Nat /\ Len(p) > Len(dir)
    <3> HIDE DEF dir
    <3>1. Listed(dir)
      BY <1>2
    <3>2. \A d : Under(P, Append(dir, d))
                   = {p \in Under(P, dir) : Len(p) > Len(dir) + 1 /\ p[Len(dir) + 1] = d}
      BY <3>1, UnderMeans
    <3>3. \A p \in Under(P, dir) : Len(p) \in Nat /\ Len(dir) \in Nat /\ Len(p) > Len(dir)
      BY <3>1, UnderMeans
    <3> QED BY <3>2, <3>3
  <2>2. ASSUME NEW p \in c.files PROVE Len(p) > Len(dir) + 1 /\ p[Len(dir) + 1] = only
    <3>1. Len(p) # Len(dir) + 1
      BY <1>1
    <3>2. Len(p) > Len(dir) + 1
      BY <1>2, <2>1, <3>1
    <3>3. p[Len(dir) + 1] \in SubDirs(c)
      BY <1>1, <3>2
    <3> QED BY <1>3, <3>2, <3>3
  <2> QED BY <1>2, <2>1, <2>2
<1>8. x.name = c.name \o <<only>> /\ x.parent = c.parent /\ x.files = c.files
  BY DEF Call
<1> QED BY <1>2, <1>4, <1>5, <1>6, <1>7, <1>8 DEF CallOK

\* One of several, or of one beside files, is a call of its own.
LEMMA ChildCall ==
    ASSUME NEW P, PathsOK(P), NEW c, CallOK(P, c), NEW d \in SubDirs(c)
    PROVE  LET x == Call(<<d>>, FullDir(c), InSubDir(c, d)) IN
           /\ CallOK(P, x) /\ x.files = InSubDir(c, d)
           /\ x.files \subseteq c.files
           /\ ~(Cardinality(SubDirs(c)) = 1 /\ Leaves(c) = {}) => x.files # c.files
<1> DEFINE dir == FullDir(c)
           x == Call(<<d>>, FullDir(c), InSubDir(c, d))
<1>1. /\ dir # Root
      /\ SubDirs(c) = {p[Len(dir) + 1] : p \in {f \in c.files : Len(f) > Len(dir) + 1}}
      /\ Leaves(c) = {p \in c.files : Len(p) = Len(dir) + 1}
      /\ InSubDir(c, d) = Under(P, Append(dir, d))
      /\ InSubDir(c, d) = {p \in c.files : Len(p) > Len(dir) + 1 /\ p[Len(dir) + 1] = d}
  BY CallParts
<1>2. Listed(dir)
  BY DEF CallOK
<1>3. x.name = <<d>> /\ x.parent = dir /\ x.files = InSubDir(c, d)
  BY DEF Call
<1>4. FullDir(x) = Append(dir, d)
  <2>1. dir \o <<d>> = Append(dir, d)
    <3> HIDE DEF dir
    <3> QED BY <1>2, AppendIsConcat
  <2>2. FullDir(x) = x.parent \o x.name
    BY <1>1, <1>3 DEF FullDir
  <2> QED BY <1>3, <2>1, <2>2
<1>5. Listed(Append(dir, d)) /\ Append(dir, d) # << >>
  BY <1>2, ListedAppend
<1>6. Listed(<<d>>)
  <2>1. <<d>> \in Seq({d})
    OBVIOUS
  <2> QED BY <2>1, ListedSeq
<1>7. InSubDir(c, d) # {}
  BY <1>1
<1>8. CallOK(P, x)
  BY <1>1, <1>2, <1>3, <1>4, <1>5, <1>6, <1>7 DEF CallOK
<1>9. ASSUME InSubDir(c, d) = c.files
      PROVE  Cardinality(SubDirs(c)) = 1 /\ Leaves(c) = {}
  <2>1. \A p \in c.files : Len(p) > Len(dir) + 1 /\ p[Len(dir) + 1] = d
    BY <1>1, <1>9
  <2>2. SubDirs(c) = {d}
    BY <1>1, <2>1
  <2>3. \A p \in c.files : Len(p) \in Nat /\ Len(dir) \in Nat
    BY <1>2, UnderMeans DEF CallOK
  <2>4. Leaves(c) = {}
    BY <1>1, <2>1, <2>3
  <2> QED BY <2>2, <2>4, FS_Singleton
<1> QED BY <1>1, <1>3, <1>8, <1>9

\* The calls for directories names, as a list.
Children(names, parent, files) == {Call(<<d>>, parent, files[d]) : d \in names}
LEMMA ChildList ==
    ASSUME NEW names, IsFiniteSet(names), NEW parent, NEW files
    PROVE  LET list == SetToSeq(Children(names, parent, files)) IN
           /\ Listed(list)
           /\ \A k \in DOMAIN list : \E d \in names : list[k] = Call(<<d>>, parent, files[d])
           /\ \A d \in names : \E k \in DOMAIN list : list[k] = Call(<<d>>, parent, files[d])
           /\ \A k, l \in DOMAIN list : k # l => list[k] # list[l]
<1> DEFINE S == Children(names, parent, files)
<1>1. IsFiniteSet(S)
  <2> DEFINE g == [d \in names |-> Call(<<d>>, parent, files[d])]
             T == {g[d] : d \in names}
  <2>1. DOMAIN g = names /\ T = S
    BY DEF Children
  <2> HIDE DEF g
  <2>2. IsFiniteSet(T)
    BY <2>1, ImageFinite
  <2> HIDE DEF T
  <2> QED BY <2>1, <2>2
<1>2. /\ \A y \in S : \E d \in names : y = Call(<<d>>, parent, files[d])
      /\ \A d \in names : Call(<<d>>, parent, files[d]) \in S
  BY DEF Children
<1> HIDE DEF S
<1>3. /\ Listed(SetToSeq(S))
      /\ \A y \in S : \E i \in DOMAIN SetToSeq(S) : SetToSeq(S)[i] = y
      /\ \A i \in DOMAIN SetToSeq(S) : SetToSeq(S)[i] \in S
      /\ \A i, j \in DOMAIN SetToSeq(S) : i # j => SetToSeq(S)[i] # SetToSeq(S)[j]
  BY <1>1, SetAsList
<1>4. LET list == SetToSeq(S) IN
      /\ Listed(list)
      /\ \A k \in DOMAIN list : \E d \in names : list[k] = Call(<<d>>, parent, files[d])
      /\ \A d \in names : \E k \in DOMAIN list : list[k] = Call(<<d>>, parent, files[d])
      /\ \A k, l \in DOMAIN list : k # l => list[k] # list[l]
  BY <1>2, <1>3
<1> QED BY <1>4 DEF S

\* Where the elements of two lists in a row, and of a list without its first,
\* come from.
LEMMA ConcatParts ==
    ASSUME NEW s, Listed(s), NEW t, Listed(t)
    PROVE  /\ \A k \in DOMAIN (s \o t) :
                 \/ k \in DOMAIN s /\ (s \o t)[k] = s[k]
                 \/ \E m \in DOMAIN t : k = Len(s) + m /\ (s \o t)[k] = t[m]
           /\ \A m \in DOMAIN t : Len(s) + m \in DOMAIN (s \o t) /\ (s \o t)[Len(s) + m] = t[m]
           /\ \A k \in DOMAIN s : k \in DOMAIN (s \o t) /\ (s \o t)[k] = s[k]
<1> DEFINE u == s \o t
<1>1. /\ Len(s) \in Nat /\ Len(t) \in Nat /\ DOMAIN s = 1..Len(s) /\ DOMAIN t = 1..Len(t)
      /\ DOMAIN u = 1..(Len(s) + Len(t))
      /\ \A i \in DOMAIN s : u[i] = s[i]
      /\ \A i \in DOMAIN t : u[Len(s) + i] = t[i]
  <2> DEFINE T == Range(s) \union Range(t)
  <2>1. s \in Seq(T) /\ t \in Seq(T)
    BY DEF Listed
  <2> HIDE DEF T
  <2>2. /\ Len(s) \in Nat /\ Len(t) \in Nat /\ DOMAIN s = 1..Len(s) /\ DOMAIN t = 1..Len(t)
        /\ u \in Seq(T) /\ Len(u) = Len(s) + Len(t)
    BY <2>1
  <2>3. /\ \A i \in DOMAIN s : u[i] = s[i]
        /\ \A i \in DOMAIN t : u[Len(s) + i] = t[i]
    BY <2>1, <2>2
  <2>4. DOMAIN u = 1..(Len(s) + Len(t))
    BY <2>2
  <2> QED BY <2>2, <2>3, <2>4
<1> HIDE DEF u
<1>2. ASSUME NEW k \in DOMAIN u, k \notin DOMAIN s
      PROVE  \E m \in DOMAIN t : k = Len(s) + m /\ u[k] = t[m]
  <2>1. k - Len(s) \in 1..Len(t) /\ k = Len(s) + (k - Len(s))
    BY <1>1, <1>2
  <2> QED BY <1>1, <2>1
<1>3. \A m \in DOMAIN t : Len(s) + m \in DOMAIN u /\ u[Len(s) + m] = t[m]
  BY <1>1
<1>4. \A k \in DOMAIN s : k \in DOMAIN u /\ u[k] = s[k]
  BY <1>1
<1>5. /\ \A k \in DOMAIN u : \/ k \in DOMAIN s /\ u[k] = s[k]
                             \/ \E m \in DOMAIN t : k = Len(s) + m /\ u[k] = t[m]
      /\ \A m \in DOMAIN t : Len(s) + m \in DOMAIN u /\ u[Len(s) + m] = t[m]
      /\ \A k \in DOMAIN s : k \in DOMAIN u /\ u[k] = s[k]
  BY <1>2, <1>3, <1>4
<1> QED BY <1>5 DEF u

LEMMA TailParts ==
    ASSUME NEW s, Listed(s), s # << >>
    PROVE  /\ Listed(Tail(s)) /\ 1 \in DOMAIN s /\ Head(s) = s[1]
           /\ \A m \in DOMAIN Tail(s) : /\ m + 1 \in DOMAIN s /\ m + 1 # 1
                                        /\ Tail(s)[m] = s[m + 1]
           /\ \A k \in DOMAIN s : k # 1 => \E m \in DOMAIN Tail(s) : k = m + 1
<1> DEFINE t == Tail(s)
<1>1. /\ Listed(t) /\ Len(s) >= 1 /\ Len(t) = Len(s) - 1 /\ Head(s) = s[1]
      /\ \A i \in DOMAIN t : i + 1 \in DOMAIN s /\ t[i] = s[i + 1]
  BY ListedTail
<1> HIDE DEF t
<1>2. Len(s) \in Nat /\ DOMAIN s = 1..Len(s) /\ DOMAIN t = 1..Len(t)
  BY <1>1 DEF Listed
<1>3. \A m \in DOMAIN t : m + 1 # 1
  BY <1>2
<1>4. ASSUME NEW k \in DOMAIN s, k # 1 PROVE \E m \in DOMAIN t : k = m + 1
  <2>1. k - 1 \in 1..Len(t) /\ k = (k - 1) + 1
    BY <1>1, <1>2, <1>4
  <2> QED BY <1>2, <2>1
<1>5. 1 \in DOMAIN s
  BY <1>1, <1>2
<1> QED BY <1>1, <1>3, <1>4, <1>5 DEF t

\* The first call gives way to calls about parts of its files, and its directory
\* is shown if these are not all of them together.
LEMMA ReplacedCalls ==
    ASSUME NEW P, NEW dirs, NEW calls, TreeSoFar(P, dirs, calls), calls # << >>,
           NEW list, Listed(list),
           \A k \in DOMAIN list : /\ CallOK(P, list[k])
                                  /\ list[k].files \subseteq Head(calls).files,
           \A k, l \in DOMAIN list : k # l => list[k].files \intersect list[l].files = {},
           NEW shown,
           \/ /\ shown = {}
              /\ \A p \in Head(calls).files : \E k \in DOMAIN list : p \in list[k].files
           \/ /\ shown = {[dir |-> FullDir(Head(calls)), files |-> Head(calls).files]}
              /\ \A k \in DOMAIN list : list[k].files # Head(calls).files
    PROVE  TreeSoFar(P, dirs \union shown, list \o Tail(calls))
<1> DEFINE c == Head(calls)
           rest == Tail(calls)
           new == list \o rest
           all == dirs \union shown
<1>1. /\ Listed(rest) /\ 1 \in DOMAIN calls /\ c = calls[1]
      /\ \A m \in DOMAIN rest : m + 1 \in DOMAIN calls /\ m + 1 # 1 /\ rest[m] = calls[m + 1]
      /\ \A k \in DOMAIN calls : k # 1 => \E m \in DOMAIN rest : k = m + 1
  BY TailParts DEF TreeSoFar
<1> HIDE DEF rest
<1>2. /\ Listed(new)
      /\ \A k \in DOMAIN new : \/ k \in DOMAIN list /\ new[k] = list[k]
                               \/ \E m \in DOMAIN rest : k = Len(list) + m /\ new[k] = rest[m]
      /\ \A m \in DOMAIN rest : Len(list) + m \in DOMAIN new /\ new[Len(list) + m] = rest[m]
      /\ \A k \in DOMAIN list : k \in DOMAIN new /\ new[k] = list[k]
  <2>1. Listed(new)
    BY <1>1, ListedConcat
  <2>2. \A k \in DOMAIN new :
           \/ k \in DOMAIN list /\ new[k] = list[k]
           \/ \E m \in DOMAIN rest : k = Len(list) + m /\ new[k] = rest[m]
    BY <1>1, ConcatParts
  <2>3. \A m \in DOMAIN rest : Len(list) + m \in DOMAIN new /\ new[Len(list) + m] = rest[m]
    BY <1>1, ConcatParts
  <2>4. \A k \in DOMAIN list : k \in DOMAIN new /\ new[k] = list[k]
    BY <1>1, ConcatParts
  <2> QED BY <2>1, <2>2, <2>3, <2>4
<1> HIDE DEF new, c
<1>3. /\ \A d \in dirs : Listed(d.dir) /\ d.files = Under(P, d.dir) /\ d.files # {}
      /\ \A k \in DOMAIN calls : CallOK(P, calls[k])
      /\ \A d, e \in dirs : d.files = e.files => d = e
      /\ \A k, l \in DOMAIN calls : k # l => calls[k].files \intersect calls[l].files = {}
      /\ \A d \in dirs : \A k \in DOMAIN calls :
            \/ d.files \intersect calls[k].files = {}
            \/ calls[k].files \subseteq d.files /\ calls[k].files # d.files
      /\ \A p \in P : Len(p) > 1 => \/ \E d \in dirs : p \in d.files
                                    \/ \E k \in DOMAIN calls : p \in calls[k].files
  BY DEF TreeSoFar
<1>4. CallOK(P, c)
  BY <1>1, <1>3
<1>5. /\ \A k \in DOMAIN list : CallOK(P, list[k]) /\ list[k].files \subseteq c.files
      /\ \A k, l \in DOMAIN list : k # l => list[k].files \intersect list[l].files = {}
  BY DEF c
<1>6. \/ shown = {} /\ \A p \in c.files : \E k \in DOMAIN list : p \in list[k].files
      \/ /\ shown = {[dir |-> FullDir(c), files |-> c.files]}
         /\ \A k \in DOMAIN list : list[k].files # c.files
  BY DEF c
<1>7. \A d \in shown : d.dir = FullDir(c) /\ d.files = c.files
  BY <1>6
<1>8. \A d \in all : Listed(d.dir) /\ d.files = Under(P, d.dir) /\ d.files # {}
  BY <1>3, <1>4, <1>7 DEF CallOK
<1>9. \A k \in DOMAIN new : CallOK(P, new[k])
  BY <1>1, <1>2, <1>3, <1>5
<1>10. \A d, e \in all : d.files = e.files => d = e
  <2>1. ASSUME NEW d \in dirs PROVE d.files # c.files
    BY <1>1, <1>3, <1>4 DEF CallOK
  <2>2. \A d, e \in shown : d = e
    BY <1>6
  <2> QED BY <1>3, <1>7, <2>1, <2>2
<1>11. \A m \in DOMAIN rest : c.files \intersect rest[m].files = {}
  BY <1>1, <1>3
<1>12. ASSUME NEW k \in DOMAIN new, NEW l \in DOMAIN new, k # l
       PROVE  new[k].files \intersect new[l].files = {}
  <2>1. CASE k \in DOMAIN list /\ new[k] = list[k] /\ l \in DOMAIN list /\ new[l] = list[l]
    BY <1>5, <1>12, <2>1
  <2>2. ASSUME NEW i \in DOMAIN list, NEW m \in DOMAIN rest
        PROVE  list[i].files \intersect rest[m].files = {}
    BY <1>5, <1>11
  <2>3. ASSUME NEW m \in DOMAIN rest, NEW n \in DOMAIN rest, m # n
        PROVE  rest[m].files \intersect rest[n].files = {}
    <3>1. m + 1 # n + 1
      <4>1. m \in Int /\ n \in Int
        BY <1>1 DEF Listed
      <4> QED BY <2>3, <4>1
    <3> QED BY <1>1, <1>3, <3>1
  <2> QED BY <1>2, <1>12, <2>1, <2>2, <2>3
<1>13. ASSUME NEW d \in all, NEW k \in DOMAIN new
       PROVE  \/ d.files \intersect new[k].files = {}
              \/ new[k].files \subseteq d.files /\ new[k].files # d.files
  <2>1. CASE k \in DOMAIN list /\ new[k] = list[k]
    <3>1. new[k].files \subseteq c.files
      BY <1>5, <2>1
    <3>2. CASE d \in dirs
      <4>1. \/ d.files \intersect c.files = {}
            \/ c.files \subseteq d.files /\ c.files # d.files
        BY <1>1, <1>3, <3>2
      <4> QED BY <3>1, <4>1
    <3>3. CASE d \in shown
      BY <1>6, <1>7, <2>1, <3>1, <3>3
    <3> QED BY <3>2, <3>3
  <2>2. CASE \E m \in DOMAIN rest : new[k] = rest[m]
    <3>1. PICK m \in DOMAIN rest : new[k] = rest[m]
      BY <2>2
    <3>2. CASE d \in dirs
      BY <1>1, <1>3, <3>1, <3>2
    <3>3. CASE d \in shown
      BY <1>7, <1>11, <3>1, <3>3
    <3> QED BY <3>2, <3>3
  <2> QED BY <1>2, <2>1, <2>2
<1>14. ASSUME NEW p \in P, Len(p) > 1
       PROVE  \/ \E d \in all : p \in d.files
              \/ \E k \in DOMAIN new : p \in new[k].files
  <2>1. CASE \E d \in dirs : p \in d.files
    BY <2>1
  <2>2. CASE p \in c.files
    <3>1. CASE \E k \in DOMAIN list : p \in list[k].files
      BY <1>2, <3>1
    <3>2. CASE shown = {[dir |-> FullDir(c), files |-> c.files]}
      <4>1. [dir |-> FullDir(c), files |-> c.files] \in all
        BY <3>2
      <4> QED BY <2>2, <4>1
    <3> QED BY <1>6, <2>2, <3>1, <3>2
  <2>3. CASE \E m \in DOMAIN rest : p \in rest[m].files
    BY <1>2, <2>3
  <2> QED BY <1>1, <1>3, <1>14, <2>1, <2>2, <2>3
<1>15. TreeSoFar(P, all, new)
  BY <1>2, <1>8, <1>9, <1>10, <1>12, <1>13, <1>14 DEF TreeSoFar
<1> QED BY <1>15 DEF new, rest

\* The first calls, about the directories at the top.
LEMMA TopParts ==
    ASSUME NEW P, PathsOK(P)
    PROVE  LET top == Call(<< >>, Root, P) IN
           /\ SubDirs(top) = {p[1] : p \in {f \in P : Len(f) > 1}}
           /\ \A d : InSubDir(top, d) = {p \in P : Len(p) > 1 /\ p[1] = d}
           /\ \A d : InSubDir(top, d) = Under(P, <<d>>)
           /\ IsFiniteSet(SubDirs(top))
<1> DEFINE top == Call(<< >>, Root, P)
<1>1. FullDir(top) = << >> /\ top.files = P
  BY DEF FullDir, Call
<1>2. ASSUME NEW p \in P PROVE Below(top, p) = p /\ Len(p) \in Nat
  <2>1. p \in Seq(Range(p)) /\ Len(p) \in Nat
    <3>1. Listed(p)
      BY DEF PathsOK
    <3> QED BY <3>1 DEF Listed
  <2>2. Below(top, p) = IF Len(p) > 0 /\ IsPrefix(<< >>, p) THEN SubSeq(p, 1, Len(p)) ELSE p
    BY <1>1 DEF Below
  <2>3. SubSeq(p, 1, Len(p)) = p
    BY <2>1
  <2> QED BY <2>1, <2>2, <2>3
<1> HIDE DEF top
<1>3. {f \in P : Len(Below(top, f)) > 1} = {f \in P : Len(f) > 1}
  BY <1>2
<1>4. SubDirs(top) = {p[1] : p \in {f \in P : Len(f) > 1}}
  <2>1. SubDirs(top) = {Below(top, p)[1] : p \in {f \in P : Len(f) > 1}}
    BY <1>1, <1>3 DEF SubDirs
  <2> QED BY <1>2, <2>1
<1>5. \A d : InSubDir(top, d) = {p \in P : Len(p) > 1 /\ p[1] = d}
  BY <1>1, <1>2 DEF InSubDir
<1>6. ASSUME NEW d PROVE {p \in P : Len(p) > 1 /\ p[1] = d} = Under(P, <<d>>)
  <2> DEFINE dir == <<d>>
  <2>1. Listed(dir) /\ Len(dir) = 1 /\ dir[1] = d
    <3>1. dir \in Seq({d}) /\ Len(dir) = 1 /\ dir[1] = d
      OBVIOUS
    <3> QED BY <3>1, ListedSeq
  <2> HIDE DEF dir
  <2>2. \A p : p \in Under(P, dir) <=>
           p \in P /\ Len(dir) < Len(p) /\ \A i \in 1..Len(dir) : p[i] = dir[i]
    BY <2>1, UnderMeans
  <2>3. \A p \in P : p \in Under(P, dir) <=> Len(p) > 1 /\ p[1] = d
    BY <1>2, <2>1, <2>2
  <2>4. {p \in P : Len(p) > 1 /\ p[1] = d} = Under(P, dir)
    BY <2>2, <2>3
  <2> QED BY <2>4 DEF dir
<1>7. IsFiniteSet(SubDirs(top))
  <2> DEFINE S == {f \in P : Len(f) > 1}
             g == [p \in S |-> p[1]]
  <2>1. S \in SUBSET P
    OBVIOUS
  <2>2. IsFiniteSet(S)
    BY <2>1, FS_Subset DEF PathsOK
  <2>3. SubDirs(top) = {g[p] : p \in S} /\ DOMAIN g = S
    BY <1>4
  <2> HIDE DEF S, g
  <2> QED BY <2>2, <2>3, ImageFinite
<1>8. \A d : InSubDir(top, d) = Under(P, <<d>>)
  BY <1>5, <1>6
<1> QED BY <1>4, <1>5, <1>7, <1>8 DEF top

LEMMA TopTree ==
    ASSUME NEW P, PathsOK(P)
    PROVE  TreeSoFar(P, {}, TopCalls(P))
<1> DEFINE top == Call(<< >>, Root, P)
           names == SubDirs(top)
           files == [d \in names |-> InSubDir(top, d)]
           calls == TopCalls(P)
<1>1. /\ names = {p[1] : p \in {f \in P : Len(f) > 1}}
      /\ \A d : InSubDir(top, d) = {p \in P : Len(p) > 1 /\ p[1] = d}
      /\ \A d : InSubDir(top, d) = Under(P, <<d>>)
      /\ IsFiniteSet(names)
  BY TopParts
<1>2. calls = SetToSeq(Children(names, Root, files))
  <2>1. {Call(<<d>>, Root, InSubDir(top, d)) : d \in SubDirs(top)}
          = Children(names, Root, files)
    BY DEF Children
  <2> QED BY <2>1 DEF TopCalls
<1>3. DOMAIN files = names /\ \A d \in names : files[d] = InSubDir(top, d)
  OBVIOUS
<1> HIDE DEF top, names, files, calls
<1>4. /\ Listed(calls)
      /\ \A k \in DOMAIN calls : \E d \in names : calls[k] = Call(<<d>>, Root, files[d])
      /\ \A d \in names : \E k \in DOMAIN calls : calls[k] = Call(<<d>>, Root, files[d])
      /\ \A k, l \in DOMAIN calls : k # l => calls[k] # calls[l]
  <2>1. IsFiniteSet(names)
    BY <1>1
  <2> QED BY <1>2, <2>1, ChildList
<1>5. ASSUME NEW d \in names
      PROVE  /\ CallOK(P, Call(<<d>>, Root, files[d]))
             /\ Call(<<d>>, Root, files[d]).files = {p \in P : Len(p) > 1 /\ p[1] = d}
  <2> DEFINE x == Call(<<d>>, Root, files[d])
  <2>1. x.name = <<d>> /\ x.parent = Root /\ x.files = files[d] /\ FullDir(x) = <<d>>
    BY DEF Call, FullDir
  <2>2. Listed(<<d>>) /\ <<d>> # << >> /\ Listed(Root)
    <3>1. <<d>> \in Seq({d}) /\ <<d>> # << >> /\ Root \in Seq({""})
      BY DEF Root
    <3> QED BY <3>1, ListedSeq
  <2>3. files[d] = Under(P, <<d>>) /\ files[d] = {p \in P : Len(p) > 1 /\ p[1] = d}
    BY <1>1, <1>3
  <2>4. files[d] # {}
    BY <1>1, <2>3
  <2> HIDE DEF x
  <2> QED BY <2>1, <2>2, <2>3, <2>4 DEF CallOK, x
<1>6. \A k \in DOMAIN calls : CallOK(P, calls[k])
  BY <1>4, <1>5
<1>7. ASSUME NEW k \in DOMAIN calls, NEW l \in DOMAIN calls, k # l
      PROVE  calls[k].files \intersect calls[l].files = {}
  <2>1. PICK d \in names : calls[k] = Call(<<d>>, Root, files[d])
    BY <1>4
  <2>2. PICK e \in names : calls[l] = Call(<<e>>, Root, files[e])
    BY <1>4
  <2>3. d # e
    BY <1>4, <1>7, <2>1, <2>2
  <2> QED BY <1>5, <2>1, <2>2, <2>3
<1>8. ASSUME NEW p \in P, Len(p) > 1 PROVE \E k \in DOMAIN calls : p \in calls[k].files
  <2>1. p[1] \in names
    BY <1>1, <1>8
  <2> QED BY <1>4, <1>5, <1>8, <2>1
<1>9. TreeSoFar(P, {}, calls)
  BY <1>4, <1>6, <1>7, <1>8 DEF TreeSoFar
<1> QED BY <1>9 DEF calls

\* A directory that is followed down, and one that is shown.
LEMMA JoinTree ==
    ASSUME NEW P, PathsOK(P), NEW dirs, NEW calls, TreeSoFar(P, dirs, calls), calls # << >>,
           NEW c, c = Head(calls), Cardinality(SubDirs(c)) = 1, Leaves(c) = {},
           NEW only, only = CHOOSE d \in SubDirs(c) : TRUE
    PROVE  TreeSoFar(P, dirs, <<Call(c.name \o <<only>>, c.parent, c.files)>> \o Tail(calls))
<1> DEFINE x == Call(c.name \o <<only>>, c.parent, c.files)
           list == <<x>>
<1>1. CallOK(P, c)
  BY TailParts DEF TreeSoFar
<1>2. CallOK(P, x)
  BY <1>1, JoinedCall
<1>3. x.files = c.files
  BY DEF Call
<1> HIDE DEF x
<1>4. Listed(list) /\ DOMAIN list = {1} /\ list[1] = x
  <2>1. list \in Seq({x}) /\ DOMAIN list = {1} /\ list[1] = x
    OBVIOUS
  <2> QED BY <2>1, ListedSeq
<1> HIDE DEF list
<1>5. TreeSoFar(P, dirs \union {}, list \o Tail(calls))
  BY <1>2, <1>3, <1>4, ReplacedCalls
<1>6. dirs \union {} = dirs
  OBVIOUS
<1> QED BY <1>5, <1>6 DEF list, x

Further(c) == SetToSeq({Call(<<d>>, FullDir(c), InSubDir(c, d)) : d \in SubDirs(c)})
LEMMA ShowTree ==
    ASSUME NEW P, PathsOK(P), NEW dirs, NEW calls, TreeSoFar(P, dirs, calls), calls # << >>,
           NEW c, c = Head(calls), ~(Cardinality(SubDirs(c)) = 1 /\ Leaves(c) = {})
    PROVE  TreeSoFar(P, dirs \union {[dir |-> FullDir(c), files |-> c.files]},
                       Further(c) \o Tail(calls))
<1> DEFINE names == SubDirs(c)
           files == [d \in names |-> InSubDir(c, d)]
           list == Further(c)
           shown == {[dir |-> FullDir(c), files |-> c.files]}
<1>1. CallOK(P, c)
  BY TailParts DEF TreeSoFar
<1>2. /\ IsFiniteSet(names)
      /\ \A d : InSubDir(c, d)
                  = {p \in c.files : Len(p) > Len(FullDir(c)) + 1 /\ p[Len(FullDir(c)) + 1] = d}
  BY <1>1, CallParts
<1>3. DOMAIN files = names /\ \A d \in names : files[d] = InSubDir(c, d)
  OBVIOUS
<1>4. list = SetToSeq(Children(names, FullDir(c), files))
  <2>1. {Call(<<d>>, FullDir(c), InSubDir(c, d)) : d \in SubDirs(c)}
          = Children(names, FullDir(c), files)
    BY DEF Children
  <2> QED BY <2>1 DEF Further
<1>5. ASSUME NEW d \in names
      PROVE  LET x == Call(<<d>>, FullDir(c), files[d]) IN
             /\ CallOK(P, x) /\ x.files = InSubDir(c, d)
             /\ x.files \subseteq c.files /\ x.files # c.files
  BY <1>1, <1>3, ChildCall
<1> HIDE DEF names, files, list
<1>6. /\ Listed(list)
      /\ \A k \in DOMAIN list : \E d \in names : list[k] = Call(<<d>>, FullDir(c), files[d])
      /\ \A k, l \in DOMAIN list : k # l => list[k] # list[l]
  BY <1>2, <1>4, ChildList
<1>7. \A k \in DOMAIN list : /\ CallOK(P, list[k])
                             /\ list[k].files \subseteq c.files /\ list[k].files # c.files
  BY <1>5, <1>6
<1>8. ASSUME NEW k \in DOMAIN list, NEW l \in DOMAIN list, k # l
      PROVE  list[k].files \intersect list[l].files = {}
  <2>1. PICK d \in names : list[k] = Call(<<d>>, FullDir(c), files[d])
    BY <1>6
  <2>2. PICK e \in names : list[l] = Call(<<e>>, FullDir(c), files[e])
    BY <1>6
  <2>3. d # e
    BY <1>6, <1>8, <2>1, <2>2
  <2>4. list[k].files = InSubDir(c, d) /\ list[l].files = InSubDir(c, e)
    BY <1>5, <2>1, <2>2
  <2> QED BY <1>2, <2>3, <2>4
<1>9. shown = {[dir |-> FullDir(Head(calls)), files |-> Head(calls).files]}
  OBVIOUS
<1>10. TreeSoFar(P, dirs \union shown, list \o Tail(calls))
  <2> HIDE DEF shown
  <2> QED BY <1>6, <1>7, <1>8, <1>9, ReplacedCalls
<1> QED BY <1>10 DEF list, shown

\* The files of the snapshots.
LEMMA PathsOfFiles ==
    ASSUME NEW row, FilesOK(row.files)
    PROVE  PathsOK(Paths(row))
<1> DEFINE files == row.files
           f == [i \in DOMAIN files |-> files[i].path]
<1>1. Len(files) \in Nat /\ DOMAIN files = 1..Len(files)
  <2>1. Listed(files)
    BY DEF FilesOK
  <2> QED BY <2>1 DEF Listed
<1>2. IsFiniteSet(DOMAIN files)
  BY <1>1, FS_Interval
<1>3. Paths(row) = {f[i] : i \in DOMAIN files} /\ DOMAIN f = DOMAIN files
  BY DEF Paths
<1>4. \A p \in Paths(row) : Listed(p) /\ (p # << >> => p[1] # "")
  BY DEF Paths, FilesOK
<1> HIDE DEF f, files
<1>5. IsFiniteSet(Paths(row))
  BY <1>2, <1>3, ImageFinite
<1> QED BY <1>4, <1>5 DEF PathsOK

\* What an upload leaves of the snapshots: those there were, those it brought,
\* and some without their files.
LEMMA UploadRows ==
    ASSUME Ordered(rows, ingests, clock), NEW u \in ingests,
           Insert(u) \/ Strip(u) \/ Trim(u)
    PROVE  /\ Parsed' \subseteq Parsed /\ req' = req
           /\ \A y \in rows' : \/ y \in rows \union Parsed
                               \/ \E x \in rows : y = [x EXCEPT !.files = << >>]
<1>1. CASE Insert(u)
  <2>1. \A v \in ingests' : \E w \in ingests : v.row = w.row
    BY <1>1, Proceeds DEF Insert
  <2>2. rows' = rows \union {u.row}
    BY <1>1 DEF Insert
  <2> QED BY <1>1, <2>1, <2>2 DEF Insert, Parsed
<1>2. CASE Strip(u)
  <2>1. \A v \in ingests' : \E w \in ingests : v.row = w.row
    BY <1>2, Proceeds DEF Strip
  <2> QED BY <1>2, <2>1 DEF Strip, Beyond, Parsed
<1>3. CASE Trim(u)
  BY <1>3 DEF Trim, Parsed
<1> QED BY <1>1, <1>2, <1>3

LEMMA UploadFiles ==
    ASSUME TreeInv, NEW u \in ingests, Insert(u) \/ Strip(u) \/ Trim(u)
    PROVE  SnapshotsOK(rows') /\ SnapshotsOK(Parsed')
<1>1. /\ Parsed' \subseteq Parsed
      /\ \A y \in rows' : \/ y \in rows \union Parsed
                          \/ \E x \in rows : y = [x EXCEPT !.files = << >>]
  BY UploadRows DEF TreeInv, ReportsInv
<1>2. FilesOK(<< >>)
  BY ListedEmpty DEF FilesOK
<1>3. ASSUME NEW x \in rows, NEW y, y = [x EXCEPT !.files = << >>]
      PROVE  "files" \in DOMAIN y /\ FilesOK(y.files)
  BY <1>2, <1>3 DEF TreeInv, SnapshotsOK
<1> QED BY <1>1, <1>3 DEF TreeInv, SnapshotsOK

LEMMA ReceiveFiles ==
    ASSUME RelativePaths, TreeInv, NEW d \in Docs, NEW format \in {d.format, Detect(d)},
           Receive(d, format)
    PROVE  rows' = rows /\ req' = req /\ SnapshotsOK(Parsed')
<1> DEFINE series == Series(d, format)
           report == Parse([d EXCEPT !.format = format])
           row == [at |-> clock + 1, target |-> series[1], source |-> series[2],
                   files |-> report.files, count |-> Len(report.files),
                   sum |-> report.sum, doc |-> d]
           new == [pc |-> "insert", row |-> row]
<1>1. /\ ingests' = ingests \union {new} /\ report # NoReport /\ format # "none"
      /\ rows' = rows /\ req' = req
  BY DEF Receive
<1>2. "files" \in DOMAIN row /\ FilesOK(row.files)
  BY <1>1 DEF RelativePaths
<1> HIDE DEF row
<1>3. Parsed' = Parsed \union {row}
  <2>1. new.row = row
    OBVIOUS
  <2> HIDE DEF new
  <2>2. \A x : x \in Parsed' <=> x \in Parsed \/ x = row
    BY <1>1, <2>1 DEF Parsed
  <2> QED BY <2>2
<1> QED BY <1>1, <1>2, <1>3 DEF TreeInv, SnapshotsOK

\* Handlers of other requests than pages.
Kept(q, x) == DOMAIN x = DOMAIN q /\ x.kind = q.kind

LEMMA KeptBy ==
    ASSUME NEW q, NEW x, Kept(q, x), "kind" \in DOMAIN q
    PROVE  /\ Kept(q, Answer(x))
           /\ \A row : Kept(q, Found(x, row))
BY DEF Kept, Answer, Found

LEMMA OtherSteps ==
    ASSUME ReportsInv, NEW r \in Readers, NEW ok \in BOOLEAN,
           \/ ListSeries(r, ok) \/ RelistSeries(r, ok) \/ CompareSeries(r, ok)
           \/ ShowSeries(r, ok) \/ ListTargets(r, ok) \/ Pick(r, ok) \/ ReadAround(r, ok)
           \/ ReadCurrent(r, ok) \/ PickBaseline(r, ok) \/ ReadBaseline(r, ok)
    PROVE  /\ req[r].kind # "page" /\ UNCHANGED <<rows, ingests>>
           /\ \E b, x : Continue(r, b, x) /\ Kept(req[r], x)
<1> DEFINE q == req[r]
           Goal == \E b, x : Continue(r, b, x) /\ Kept(q, x)
<1>1. Asked(Coming, clock, q) /\ "kind" \in DOMAIN q
  BY DEF ReportsInv, Good, Asked
<1>2. Kept(q, q) /\ Kept(q, Answer(q)) /\ \A row : Kept(q, Found(q, row))
  BY <1>1, KeptBy DEF Kept
<1>3. CASE ListSeries(r, ok)
  <2>1. Kept(q, [q EXCEPT !.pc = "show", !.todo = SetToSeq(Matching(q))])
        /\ Kept(q, [q EXCEPT !.pc = "relist"])
    BY <1>1 DEF Kept
  <2>2. Goal
    BY <1>2, <1>3, <2>1 DEF ListSeries
  <2> QED BY <1>3, <2>2 DEF ListSeries, Query, SeriesKinds
<1>4. CASE RelistSeries(r, ok)
  <2>1. Kept(q, [q EXCEPT !.pc = "compare", !.todo = SetToSeq(Matching(q))])
    BY <1>1 DEF Kept
  <2>2. Goal
    BY <1>2, <1>4, <2>1 DEF RelistSeries
  <2> QED BY <1>1, <1>4, <2>2 DEF RelistSeries, Query, SeriesKinds, Asked
<1>5. CASE CompareSeries(r, ok)
  <2>1. Kept(q, Newest(q))
    <3> DEFINE best == CHOOSE x \in Range(q.got) : \A y \in Range(q.got) : x.at >= y.at
    <3>1. Kept(q, [q EXCEPT !.pc = "show", !.got = << >>,
                            !.todo = << <<best.target, best.source>> >>])
      BY <1>1 DEF Kept
    <3> QED BY <1>2, <3>1 DEF Newest
  <2>2. \A row : Kept(q, Found([q EXCEPT !.todo = Tail(@)], row))
    <3>1. Kept(q, [q EXCEPT !.todo = Tail(@)])
      BY <1>1 DEF Kept
    <3> QED BY <1>1, <3>1, KeptBy
  <2>3. Goal
    BY <1>5, <2>1, <2>2 DEF CompareSeries
  <2> QED BY <1>1, <1>5, <2>3 DEF CompareSeries, Query, SeriesKinds, Asked
<1>6. CASE ShowSeries(r, ok)
  <2>1. \A row : Kept(q, Answer(Found(q, row)))
    BY <1>1, <1>2, KeptBy
  <2>2. Goal
    BY <1>6, <2>1 DEF ShowSeries
  <2> QED BY <1>1, <1>6, <2>2 DEF ShowSeries, Query, SeriesKinds, Asked
<1>7. CASE ListTargets(r, ok)
  <2>1. Kept(q, [q EXCEPT !.pc = IF q.current = 0 THEN "current" ELSE "picked",
                          !.todo = SetToSeq(Targets), !.shown = SetToSeq(Targets)])
    BY <1>1 DEF Kept
  <2>2. Goal
    BY <1>2, <1>7, <2>1 DEF ListTargets
  <2> QED BY <1>7, <2>2 DEF ListTargets, Query
<1>8. CASE Pick(r, ok)
  <2>1. Kept(q, [q EXCEPT !.pc = IF ok /\ Known(q.current) THEN "around" ELSE "current"])
    BY <1>1 DEF Kept
  <2>2. Goal
    BY <1>8, <2>1 DEF Pick
  <2> QED BY <1>1, <1>8, <2>2 DEF Pick, Query, Asked
<1>9. CASE ReadAround(r, ok)
  <2> DEFINE rest == [q EXCEPT !.todo = Tail(@)]
  <2>1. /\ Kept(q, [q EXCEPT !.pc = "current", !.todo = q.shown])
        /\ Kept(q, [q EXCEPT !.pc = "baseline"]) /\ Kept(q, rest)
    BY <1>1 DEF Kept
  <2>2. \A row : Kept(q, Found(rest, row))
    BY <1>1, <2>1, KeptBy
  <2>3. Goal
    BY <1>9, <2>1, <2>2 DEF ReadAround
  <2> QED BY <1>1, <1>9, <2>3 DEF ReadAround, Query, Asked
<1>10. CASE ReadCurrent(r, ok)
  <2>1. Kept(q, [q EXCEPT !.pc = "baseline"]) /\ Kept(q, [q EXCEPT !.todo = Tail(@)])
    BY <1>1 DEF Kept
  <2>2. \A row : Kept(q, Found([q EXCEPT !.todo = Tail(@)], row))
    BY <1>1, <2>1, KeptBy
  <2>3. Goal
    BY <1>2, <1>10, <2>1, <2>2 DEF ReadCurrent
  <2> QED BY <1>1, <1>10, <2>3 DEF ReadCurrent, Query, Asked
<1>11. CASE PickBaseline(r, ok)
  <2>1. Kept(q, [q EXCEPT !.pc = "before", !.todo = q.shown])
    BY <1>1 DEF Kept
  <2>2. Goal
    BY <1>2, <1>11, <2>1 DEF PickBaseline
  <2> QED BY <1>1, <1>11, <2>2 DEF PickBaseline, Query, Asked
<1>12. CASE ReadBaseline(r, ok)
  <2>1. \A x : Kept(q, [q EXCEPT !.todo = Tail(@), !.base = Append(@, x)])
    BY <1>1 DEF Kept
  <2>2. Goal
    BY <1>2, <1>12, <2>1 DEF ReadBaseline
  <2> QED BY <1>1, <1>12, <2>2 DEF ReadBaseline, Query, Asked
<1> QED BY <1>3, <1>4, <1>5, <1>6, <1>7, <1>8, <1>9, <1>10, <1>11, <1>12

-----------------------------------------------------------------------------
(* The pages, one query and one directory after the other *)

LEMMA PageContinues ==
    ASSUME DOMAIN req = Readers, \A p \in Readers : PageOK(req[p]),
           NEW r \in Readers, NEW ok, NEW q, Continue(r, ok, q), PageOK(q),
           {"kind", "got", "dirs", "calls"} \subseteq DOMAIN q
    PROVE  \A p \in Readers : PageOK(req'[p])
<1> DEFINE x == [q EXCEPT !.clean = @ /\ ok]
<1>1. req' = [req EXCEPT ![r] = x]
  BY DEF Continue
<1>2. x.kind = q.kind /\ x.got = q.got /\ x.dirs = q.dirs /\ x.calls = q.calls
  OBVIOUS
<1> HIDE DEF x
<1>3. PageOK(x)
  BY <1>2 DEF PageOK
<1> QED BY <1>1, <1>3

LEMMA OtherContinues ==
    ASSUME TreeInv, NEW r \in Readers, NEW b, NEW x, Continue(r, b, x),
           Kept(req[r], x), req[r].kind # "page"
    PROVE  \A p \in Readers : PageOK(req'[p])
<1>1. "kind" \in DOMAIN x /\ x.kind # "page" /\ DOMAIN req = Readers
  <2>1. Asked(Coming, clock, req[r])
    BY DEF TreeInv, ReportsInv, Good
  <2> QED BY <2>1 DEF Kept, TreeInv, ReportsInv, Asked
<1>2. [x EXCEPT !.clean = @ /\ b].kind # "page"
  BY <1>1
<1>3. PageOK([x EXCEPT !.clean = @ /\ b])
  BY <1>2 DEF PageOK
<1> QED BY <1>1, <1>3 DEF Continue, TreeInv

LEMMA PageAsk ==
    ASSUME TreeInv, NEW r \in Readers, NEW kind, NEW target, NEW current, NEW baseline,
           Ask(r, kind, target, current, baseline)
    PROVE  \A p \in Readers : PageOK(req'[p])
<1>1. PICK since :
        req' = [req EXCEPT ![r] =
                 [[Quiet EXCEPT !.kind = kind, !.target = target, !.current = current,
                                !.baseline = baseline] EXCEPT !.pc = "list", !.since = since]]
  BY DEF Ask
<1> DEFINE x == [[Quiet EXCEPT !.kind = kind, !.target = target, !.current = current,
                               !.baseline = baseline] EXCEPT !.pc = "list", !.since = since]
<1>2. x.got = << >> /\ x.dirs = << >> /\ x.calls = << >>
  BY DEF Quiet
<1>3. req' = [req EXCEPT ![r] = x] /\ DOMAIN req = Readers
  BY <1>1 DEF TreeInv, ReportsInv
<1> HIDE DEF x
<1>4. PageOK(x)
  BY <1>2, ListedEmpty DEF PageOK
<1> QED BY <1>3, <1>4 DEF TreeInv

LEMMA PageList ==
    ASSUME TreeInv, NEW r \in Readers, NEW ok \in BOOLEAN, ListPage(r, ok)
    PROVE  \A p \in Readers : PageOK(req'[p])
<1> DEFINE q == req[r]
           x == [q EXCEPT !.pc = "read", !.todo = IF ok THEN SetToSeq(AllSeries) ELSE << >>]
<1>1. Continue(r, ok, x) /\ DOMAIN req = Readers /\ PageOK(q) /\ Asked(Coming, clock, q)
  BY DEF ListPage, TreeInv, ReportsInv, Good
<1> HIDE DEF q
<1>2. /\ DOMAIN x = DOMAIN q /\ {"kind", "got", "dirs", "calls"} \subseteq DOMAIN x
      /\ x.kind = q.kind /\ x.got = q.got /\ x.dirs = q.dirs /\ x.calls = q.calls
  BY <1>1 DEF Asked
<1> HIDE DEF x
<1>3. PageOK(x)
  BY <1>1, <1>2 DEF PageOK
<1> QED BY <1>1, <1>2, <1>3, PageContinues DEF TreeInv

LEMMA PageShow ==
    ASSUME TreeInv, NEW r \in Readers, ShowPage(r)
    PROVE  \A p \in Readers : PageOK(req'[p])
<1> DEFINE q == req[r]
           shown == IF Len(q.got) < 2 THEN << >> ELSE <<Composite(q.got)>>
           x == [Answer(q) EXCEPT !.shown = shown]
<1>1. Continue(r, TRUE, x) /\ DOMAIN req = Readers /\ PageOK(q) /\ Asked(Coming, clock, q)
  BY DEF ShowPage, TreeInv, ReportsInv, Good
<1> HIDE DEF q, shown
<1>2. /\ DOMAIN x = DOMAIN q /\ {"kind", "got", "dirs", "calls"} \subseteq DOMAIN x
      /\ x.kind = q.kind /\ x.got = q.got /\ x.dirs = q.dirs /\ x.calls = q.calls
  BY <1>1 DEF Asked, Answer
<1> HIDE DEF x
<1>3. PageOK(x)
  BY <1>1, <1>2 DEF PageOK
<1> QED BY <1>1, <1>2, <1>3, PageContinues DEF TreeInv

\* The snapshot just read, and the first calls for its tree.
LEMMA PageRead ==
    ASSUME TreeInv, NEW r \in Readers, NEW ok \in BOOLEAN, ReadPage(r, ok)
    PROVE  \A p \in Readers : PageOK(req'[p])
<1> DEFINE q == req[r]
           row == IF ok THEN Latest(OfSeries(Head(q.todo))) ELSE NoRow
           dirs == IF row = NoRow THEN q.dirs ELSE Append(q.dirs, {})
           calls == IF row = NoRow THEN q.calls ELSE TopCalls(Paths(row))
           y == [q EXCEPT !.todo = Tail(@), !.dirs = dirs, !.calls = calls]
           x == Found(y, row)
<1>1. /\ q.kind = "page" /\ q.calls = << >> /\ Continue(r, ok, x)
      /\ DOMAIN req = Readers /\ PageOK(q) /\ Asked(Coming, clock, q)
      /\ Ordered(rows, ingests, clock)
  BY DEF ReadPage, TreeInv, ReportsInv, Good, Asked
<1> HIDE DEF q
<1>2. row = NoRow \/ row \in rows
  BY <1>1, LatestOfSeries
<1> HIDE DEF row
<1>3. CASE row = NoRow
  <2>1. /\ DOMAIN x = DOMAIN q /\ {"kind", "got", "dirs", "calls"} \subseteq DOMAIN x
        /\ x.kind = q.kind /\ x.got = q.got /\ x.dirs = q.dirs /\ x.calls = q.calls
    BY <1>1, <1>3 DEF Asked, Found
  <2> HIDE DEF x
  <2>2. PageOK(x)
    BY <1>1, <2>1 DEF PageOK
  <2> QED BY <1>1, <2>1, <2>2, PageContinues DEF TreeInv
<1>4. CASE row # NoRow
  <2>1. /\ DOMAIN x = DOMAIN q /\ {"kind", "got", "dirs", "calls"} \subseteq DOMAIN x
        /\ x.kind = q.kind /\ x.got = Append(q.got, row) /\ x.dirs = Append(q.dirs, {})
        /\ x.calls = TopCalls(Paths(row))
    BY <1>1, <1>4 DEF Asked, Found
  <2> HIDE DEF x
  <2>2. PathsOK(Paths(row))
    BY <1>2, <1>4, PathsOfFiles DEF TreeInv, SnapshotsOK
  <2>3. TreeSoFar(Paths(row), {}, TopCalls(Paths(row)))
    BY <2>2, TopTree
  <2> DEFINE n == Len(q.dirs)
  <2>4. /\ Listed(q.dirs) /\ Listed(q.got) /\ Len(q.got) = n /\ n \in Nat
        /\ DOMAIN q.dirs = 1..n /\ DOMAIN q.got = 1..n
        /\ \A i \in 1..n : /\ PathsOK(Paths(q.got[i]))
                           /\ TreeSoFar(Paths(q.got[i]), q.dirs[i], << >>)
    BY <1>1 DEF PageOK, Listed
  <2>5. /\ Listed(x.got) /\ Len(x.got) = n + 1 /\ DOMAIN x.got = 1..(n + 1)
        /\ \A i \in 1..n : x.got[i] = q.got[i]
        /\ x.got[n + 1] = row
    BY <2>1, <2>4, ListedAppend
  <2>6. /\ Listed(x.dirs) /\ Len(x.dirs) = n + 1 /\ DOMAIN x.dirs = 1..(n + 1)
        /\ \A i \in 1..n : x.dirs[i] = q.dirs[i]
        /\ x.dirs[n + 1] = {} /\ x.dirs # << >>
    BY <2>1, <2>4, ListedAppend
  <2> HIDE DEF n
  <2>7. \A i \in 1..(n + 1) : i = n + 1 \/ (i \in 1..n /\ i # n + 1)
    BY <2>4
  <2>8. \A i \in DOMAIN x.got : PathsOK(Paths(x.got[i]))
    BY <2>2, <2>4, <2>5, <2>7
  <2>9. \A i \in DOMAIN x.dirs :
           TreeSoFar(Paths(x.got[i]), x.dirs[i], IF i = Len(x.dirs) THEN x.calls ELSE << >>)
    BY <2>1, <2>3, <2>4, <2>5, <2>6, <2>7
  <2>10. PageOK(x)
    BY <2>5, <2>6, <2>8, <2>9 DEF PageOK
  <2> QED BY <1>1, <2>1, <2>10, PageContinues DEF TreeInv
<1> QED BY <1>3, <1>4

\* One directory: followed down, or shown.
LEMMA PageBuild ==
    ASSUME TreeInv, NEW r \in Readers, BuildDir(r)
    PROVE  \A p \in Readers : PageOK(req'[p])
<1> DEFINE q == req[r]
           n == Len(q.dirs)
           c == Head(q.calls)
           P == Paths(q.got[n])
           only == CHOOSE d \in SubDirs(c) : TRUE
           joined == <<Call(c.name \o <<only>>, c.parent, c.files)>> \o Tail(q.calls)
           below == Further(c) \o Tail(q.calls)
           dir == {[dir |-> FullDir(c), files |-> c.files]}
           join == [q EXCEPT !.calls = joined]
           show == [q EXCEPT !.calls = below, !.dirs[Len(q.dirs)] = @ \union dir]
<1>1. /\ q.kind = "page" /\ q.calls # << >>
      /\ DOMAIN req = Readers /\ PageOK(q) /\ Asked(Coming, clock, q)
  BY DEF BuildDir, TreeInv, ReportsInv, Good, Asked
<1>2. IF Cardinality(SubDirs(c)) = 1 /\ Leaves(c) = {}
      THEN Continue(r, TRUE, join) ELSE Continue(r, TRUE, show)
  BY DEF BuildDir, Further
<1> HIDE DEF q
<1>3. /\ Listed(q.dirs) /\ Listed(q.got) /\ n \in 1..n /\ DOMAIN q.dirs = 1..n
      /\ DOMAIN q.got = 1..n /\ n \in Nat /\ Len(q.got) = n
  <2>1. Listed(q.dirs) /\ Listed(q.got) /\ Len(q.got) = n /\ q.dirs # << >>
    BY <1>1 DEF PageOK
  <2> QED BY <2>1 DEF Listed
<1>4. /\ \A i \in 1..n : PathsOK(Paths(q.got[i]))
      /\ \A i \in 1..n : i # n => TreeSoFar(Paths(q.got[i]), q.dirs[i], << >>)
      /\ TreeSoFar(P, q.dirs[n], q.calls) /\ PathsOK(P)
  BY <1>1, <1>3 DEF PageOK
<1> HIDE DEF P
<1>5. CASE Cardinality(SubDirs(c)) = 1 /\ Leaves(c) = {}
  <2>1. TreeSoFar(P, q.dirs[n], joined)
    BY <1>1, <1>4, <1>5, JoinTree
  <2> HIDE DEF joined
  <2>2. /\ DOMAIN join = DOMAIN q /\ {"kind", "got", "dirs", "calls"} \subseteq DOMAIN join
        /\ join.kind = q.kind /\ join.got = q.got /\ join.dirs = q.dirs
        /\ join.calls = joined
    BY <1>1 DEF Asked
  <2> HIDE DEF join
  <2>3. \A i \in DOMAIN join.dirs :
           TreeSoFar(Paths(join.got[i]), join.dirs[i],
                     IF i = Len(join.dirs) THEN join.calls ELSE << >>)
    BY <1>3, <1>4, <2>1, <2>2 DEF P
  <2>4. join.dirs # << >>
    BY <1>3, <2>2
  <2>5. PageOK(join)
    BY <1>3, <1>4, <2>2, <2>3, <2>4 DEF PageOK
  <2> QED BY <1>1, <1>2, <1>5, <2>2, <2>5, PageContinues DEF TreeInv
<1>6. CASE ~(Cardinality(SubDirs(c)) = 1 /\ Leaves(c) = {})
  <2>1. TreeSoFar(P, q.dirs[n] \union dir, below)
    BY <1>1, <1>4, <1>6, ShowTree
  <2> HIDE DEF below, dir
  <2>2. /\ DOMAIN show = DOMAIN q /\ {"kind", "got", "dirs", "calls"} \subseteq DOMAIN show
        /\ show.kind = q.kind /\ show.got = q.got /\ show.calls = below
        /\ show.dirs = [q.dirs EXCEPT ![n] = @ \union dir]
    BY <1>1 DEF Asked
  <2> HIDE DEF show
  <2>3. /\ DOMAIN show.dirs = 1..n /\ show.dirs[n] = q.dirs[n] \union dir
        /\ \A i \in 1..n : i # n => show.dirs[i] = q.dirs[i]
    BY <1>3, <2>2
  <2>4. Listed(show.dirs) /\ Len(show.dirs) = n /\ show.dirs # << >>
    <3> DEFINE s == show.dirs
    <3>1. s \in Seq({s[i] : i \in 1..n}) /\ Len(s) = n
      <4>1. s = [i \in 1..n |-> s[i]]
        BY <1>3, <2>2
      <4> QED BY <1>3, <4>1
    <3> QED BY <1>3, <2>3, <3>1, ListedSeq
  <2>5. \A i \in DOMAIN show.dirs :
           TreeSoFar(Paths(show.got[i]), show.dirs[i],
                     IF i = Len(show.dirs) THEN show.calls ELSE << >>)
    BY <1>3, <1>4, <2>1, <2>2, <2>3, <2>4 DEF P
  <2>6. PageOK(show)
    BY <1>3, <1>4, <2>2, <2>4, <2>5 DEF PageOK
  <2> QED BY <1>1, <1>2, <1>6, <2>2, <2>6, PageContinues DEF TreeInv
<1> QED BY <1>5, <1>6

-----------------------------------------------------------------------------
(* The trees that are shown *)

LEMMA InitTrees == ReportsInit => TreeInv
<1> SUFFICES ASSUME ReportsInit PROVE TreeInv
  OBVIOUS
<1>1. ReportsInv
  BY InitReports
<1>2. /\ SnapshotsOK(rows) /\ SnapshotsOK(Parsed)
      /\ \A r \in Readers : PageOK(req[r])
  BY DEF ReportsInit, SnapshotsOK, Parsed, PageOK, Quiet
<1> QED BY <1>1, <1>2 DEF TreeInv

LEMMA TreesInductive ==
    ASSUME RelativePaths
    PROVE  TreeInv /\ [ReportsNext]_reportvars => TreeInv'
<1> SUFFICES ASSUME TreeInv, [ReportsNext]_reportvars PROVE TreeInv'
  OBVIOUS
<1>0. ReportsInv' /\ ReportsInv /\ SnapshotsOK(rows) /\ SnapshotsOK(Parsed)
  BY ReportsInductive DEF TreeInv
<1> DEFINE Kept2 == UNCHANGED <<rows, ingests>> /\ \A p \in Readers : PageOK(req'[p])
<1>a. Kept2 => TreeInv'
  BY <1>0 DEF TreeInv, SnapshotsOK, Parsed
<1>1. ASSUME NEW d \in Docs, NEW format \in {d.format, Detect(d)}, Receive(d, format)
      PROVE  TreeInv'
  <2>1. rows' = rows /\ req' = req /\ SnapshotsOK(Parsed')
    BY <1>1, ReceiveFiles
  <2>2. SnapshotsOK(rows') /\ \A p \in Readers : PageOK(req'[p])
    BY <2>1 DEF TreeInv
  <2> QED BY <1>0, <2>1, <2>2 DEF TreeInv
<1>b. ASSUME NEW u \in ingests, Insert(u) \/ Strip(u) \/ Trim(u) PROVE TreeInv'
  <2>1. SnapshotsOK(rows') /\ SnapshotsOK(Parsed')
    BY <1>b, UploadFiles
  <2>2. req' = req
    BY <1>b DEF Insert, Strip, Trim
  <2>3. \A p \in Readers : PageOK(req'[p])
    BY <2>2 DEF TreeInv
  <2> QED BY <1>0, <2>1, <2>3 DEF TreeInv
<1>2. ASSUME Delete PROVE TreeInv'
  <2>1. /\ rows' = {} /\ ingests' = ingests
        /\ \A r \in Readers : \E n : req'[r] = [req[r] EXCEPT !.since = n]
    BY <1>2 DEF Delete
  <2>2. SnapshotsOK(rows') /\ SnapshotsOK(Parsed')
    BY <1>0, <2>1 DEF SnapshotsOK, Parsed
  <2>3. ASSUME NEW p \in Readers PROVE PageOK(req'[p])
    <3>1. PICK x : x = req'[p] /\ \E n : x = [req[p] EXCEPT !.since = n]
      BY <2>1
    <3>2. /\ x.kind = req[p].kind /\ x.got = req[p].got /\ x.dirs = req[p].dirs
          /\ x.calls = req[p].calls
      BY <1>0, <3>1 DEF ReportsInv, Good, Asked
    <3>3. PageOK(x)
      BY <3>2 DEF TreeInv, PageOK
    <3> QED BY <3>1, <3>3
  <2> QED BY <1>0, <2>2, <2>3 DEF TreeInv
<1>3. ASSUME NEW r \in Readers, NEW kind, NEW target, NEW current, NEW baseline,
             Ask(r, kind, target, current, baseline)
      PROVE  TreeInv'
  <2>1. UNCHANGED <<rows, ingests>>
    BY <1>3 DEF Ask
  <2>2. \A p \in Readers : PageOK(req'[p])
    BY <1>3, PageAsk
  <2> QED BY <1>a, <2>1, <2>2
<1>4. ASSUME NEW r \in Readers, NEW ok \in BOOLEAN, Handle(r, ok) PROVE TreeInv'
  <2>1. CASE ListPage(r, ok)
    BY <1>a, <2>1, PageList DEF ListPage, Query
  <2>2. CASE ReadPage(r, ok)
    BY <1>a, <2>2, PageRead DEF ReadPage, Query
  <2>3. CASE ~ListPage(r, ok) /\ ~ReadPage(r, ok)
    <3>1. /\ req[r].kind # "page" /\ UNCHANGED <<rows, ingests>>
          /\ \E b, x : Continue(r, b, x) /\ Kept(req[r], x)
      BY <1>0, <1>4, <2>3, OtherSteps DEF Handle
    <3>2. \A p \in Readers : PageOK(req'[p])
      BY <3>1, OtherContinues
    <3> QED BY <1>a, <3>1, <3>2
  <2> QED BY <2>1, <2>2, <2>3
<1>5. ASSUME NEW r \in Readers, BuildDir(r) PROVE TreeInv'
  BY <1>5, <1>a, PageBuild DEF BuildDir, Query
<1>6. ASSUME NEW r \in Readers, ShowPage(r) PROVE TreeInv'
  BY <1>6, <1>a, PageShow DEF ShowPage, Query
<1>7. CASE UNCHANGED reportvars
  <2>1. UNCHANGED <<rows, ingests>> /\ req' = req
    BY <1>7 DEF reportvars
  <2>2. \A p \in Readers : PageOK(req'[p])
    BY <2>1 DEF TreeInv
  <2> QED BY <1>a, <2>1, <2>2
<1> QED BY <1>1, <1>b, <1>2, <1>3, <1>4, <1>5, <1>6, <1>7 DEF ReportsNext

LEMMA DeepestShown ==
    ASSUME NEW P, PathsOK(P), NEW dirs, TreeSoFar(P, dirs, << >>), NEW p \in P, Len(p) > 1
    PROVE  \E d \in dirs : p \in d.files /\ \A e \in dirs :
              p \in e.files => Len(e.dir) <= Len(d.dir)
<1> DEFINE around == {d \in dirs : p \in d.files}
           S == {Len(p) - Len(d.dir) : d \in around}
<1>1. around # {}
  BY DEF TreeSoFar
<1>2. ASSUME NEW d \in around PROVE Len(p) \in Nat /\ Len(d.dir) \in Nat /\ Len(p) > Len(d.dir)
  <2>1. Listed(d.dir) /\ p \in Under(P, d.dir)
    BY DEF TreeSoFar
  <2> QED BY <2>1, UnderMeans
<1>3. S \subseteq Nat /\ S # {}
  BY <1>1, <1>2
<1>4. PICK m \in S : \A k \in S : m <= k
  BY <1>3, LeastNumber
<1>5. PICK d \in around : m = Len(p) - Len(d.dir)
  BY <1>4
<1>6. ASSUME NEW e \in around PROVE Len(e.dir) <= Len(d.dir)
  <2>1. Len(p) - Len(d.dir) <= Len(p) - Len(e.dir)
    BY <1>4, <1>5
  <2> QED BY <1>2, <2>1
<1> QED BY <1>5, <1>6

\* The trees of a page have every file below each of their directories, no two
\* directories with the same files, and a directory for every file that is in
\* one (build_file_tree, build_dir_node), if no document reports an absolute
\* path.
THEOREM TreesAreComplete ==
    ASSUME RelativePaths
    PROVE  ReportsSpec => []TreeComplete
<1>1. TreeInv => TreeComplete
  <2> SUFFICES ASSUME TreeInv, NEW r \in Readers, req[r].kind = "page",
                      req[r].calls = << >>, NEW i \in DOMAIN req[r].dirs
               PROVE  LET q == req[r]
                          paths == Paths(q.got[i])
                      IN  /\ \A d \in q.dirs[i] :
                               d.files = {p \in paths : IsPrefix(d.dir, p) /\ p # d.dir}
                          /\ \A d, e \in q.dirs[i] : d.files = e.files => d = e
                          /\ \A p \in paths : Len(p) > 1 =>
                               \E d \in q.dirs[i] : p \in d.files /\ \A e \in q.dirs[i] :
                                  p \in e.files => Len(e.dir) <= Len(d.dir)
    BY DEF TreeComplete
  <2> DEFINE q == req[r]
             P == Paths(q.got[i])
             dirs == q.dirs[i]
  <2>1. PageOK(q) /\ q.kind = "page" /\ q.calls = << >> /\ i \in DOMAIN q.dirs
    BY DEF TreeInv
  <2> HIDE DEF q
  <2>2. TreeSoFar(P, dirs, << >>) /\ i \in DOMAIN q.got
    BY <2>1 DEF PageOK, Listed
  <2>3. PathsOK(P)
    BY <2>1, <2>2 DEF PageOK
  <2> HIDE DEF P, dirs
  <2>4. \A d \in dirs : d.files = {p \in P : IsPrefix(d.dir, p) /\ p # d.dir}
    BY <2>2 DEF TreeSoFar, Under
  <2>5. \A d, e \in dirs : d.files = e.files => d = e
    BY <2>2 DEF TreeSoFar
  <2>6. \A p \in P : Len(p) > 1 =>
           \E d \in dirs : p \in d.files /\ \A e \in dirs :
              p \in e.files => Len(e.dir) <= Len(d.dir)
    BY <2>2, <2>3, DeepestShown
  <2> QED BY <2>4, <2>5, <2>6 DEF q, P, dirs
<1>2. TreeInv /\ [ReportsNext]_reportvars => TreeInv'
  BY TreesInductive
<1> QED BY <1>1, <1>2, InitTrees, PTL DEF ReportsSpec

-----------------------------------------------------------------------------
(* The snapshots are as their documents report, and the page is their union *)

\* A snapshot as it is stored, with its lines or after retention took them.
RowOK(row) ==
    /\ {"files", "sum", "doc"} \subseteq DOMAIN row
    /\ row.files \in Seq(FileRecords) /\ row.sum \in Sums
    /\ AsReported(row)

\* A page has such snapshots, and shows their union when it is answered.
ShownOK(q) ==
    q.kind = "page" =>
        /\ \A k \in DOMAIN q.got : RowOK(q.got[k])
        /\ q.pc = "answered" => q.shown \in {<< >>, <<Composite(q.got)>>}

StoredInv ==
    /\ ReportsInv
    /\ \A x \in rows \union Parsed : RowOK(x)
    /\ \A r \in Readers : ShownOK(req[r])

\* Retention takes the lines of a snapshot, and nothing is said of it any more.
LEMMA PrunedRow ==
    ASSUME NEW row, RowOK(row)
    PROVE  RowOK([row EXCEPT !.files = << >>])
<1> DEFINE new == [row EXCEPT !.files = << >>]
<1>1. DOMAIN new = DOMAIN row /\ new.files = << >> /\ new.sum = row.sum
  BY DEF RowOK
<1> HIDE DEF new
<1>2. AsReported(new)
  BY <1>1 DEF AsReported
<1>3. << >> \in Seq(FileRecords)
  OBVIOUS
<1>4. RowOK(new)
  BY <1>1, <1>2, <1>3 DEF RowOK
<1> QED BY <1>4 DEF new

\* What an upload stores.
LEMMA UploadedRow ==
    ASSUME NEW d \in Docs, NEW format \in {d.format, Detect(d)} \ {"none"}, NEW at, NEW series,
           NEW report, report = Parse([d EXCEPT !.format = format]), report # NoReport
    PROVE  RowOK([at |-> at, target |-> series[1], source |-> series[2],
                  files |-> report.files, count |-> Len(report.files),
                  sum |-> report.sum, doc |-> d])
<1> DEFINE new == [at |-> at, target |-> series[1], source |-> series[2],
                   files |-> report.files, count |-> Len(report.files),
                   sum |-> report.sum, doc |-> d]
<1>1. /\ {"files", "sum", "doc"} \subseteq DOMAIN new
      /\ new.files = report.files /\ new.sum = report.sum /\ new.doc = d
  OBVIOUS
<1> HIDE DEF new
<1>2. d \in Documents
  BY ReportsAssumption
<1>3. /\ report.files \in Seq(FileRecords) /\ report.sum \in Sums
      /\ AsReported(new)
  BY <1>1, <1>2, ParsedIs
<1>4. RowOK(new)
  BY <1>1, <1>3 DEF RowOK
<1> QED BY <1>4 DEF new

LEMMA ReceivedRow ==
    ASSUME NEW d \in Docs, NEW format \in {d.format, Detect(d)}, Receive(d, format)
    PROVE  /\ rows' = rows /\ req' = req
           /\ \E row : RowOK(row) /\ Parsed' = Parsed \union {row}
<1> DEFINE series == Series(d, format)
           report == Parse([d EXCEPT !.format = format])
           row == [at |-> clock + 1, target |-> series[1], source |-> series[2],
                   files |-> report.files, count |-> Len(report.files),
                   sum |-> report.sum, doc |-> d]
           new == [pc |-> "insert", row |-> row]
<1>1. /\ ingests' = ingests \union {new} /\ report # NoReport /\ format # "none"
      /\ rows' = rows /\ req' = req
  BY DEF Receive
<1>2. RowOK(row)
  <2> HIDE DEF series
  <2>1. PICK u : u = report
    OBVIOUS
  <2>2. RowOK([at |-> clock + 1, target |-> series[1], source |-> series[2],
               files |-> u.files, count |-> Len(u.files), sum |-> u.sum, doc |-> d])
    BY <1>1, <2>1, UploadedRow
  <2> HIDE DEF report
  <2> QED BY <2>1, <2>2
<1> HIDE DEF row
<1>3. Parsed' = Parsed \union {row}
  <2>1. new.row = row
    OBVIOUS
  <2> HIDE DEF new
  <2>2. \A x : x \in Parsed' <=> x \in Parsed \/ x = row
    BY <1>1, <2>1 DEF Parsed
  <2> QED BY <2>2
<1> QED BY <1>1, <1>2, <1>3

LEMMA UploadStored ==
    ASSUME StoredInv, NEW u \in ingests, Insert(u) \/ Strip(u) \/ Trim(u)
    PROVE  req' = req /\ \A x \in rows' \union Parsed' : RowOK(x)
<1>1. /\ Parsed' \subseteq Parsed /\ req' = req
      /\ \A y \in rows' : \/ y \in rows \union Parsed
                          \/ \E x \in rows : y = [x EXCEPT !.files = << >>]
  BY UploadRows DEF StoredInv, ReportsInv
<1>2. \A x \in rows : RowOK([x EXCEPT !.files = << >>])
  BY PrunedRow DEF StoredInv
<1> QED BY <1>1, <1>2 DEF StoredInv

LEMMA ShownContinues ==
    ASSUME DOMAIN req = Readers, \A p \in Readers : ShownOK(req[p]),
           NEW r \in Readers, NEW ok, NEW q, Continue(r, ok, q), ShownOK(q),
           {"kind", "pc", "got", "shown"} \subseteq DOMAIN q
    PROVE  \A p \in Readers : ShownOK(req'[p])
<1> DEFINE x == [q EXCEPT !.clean = @ /\ ok]
<1>1. req' = [req EXCEPT ![r] = x]
  BY DEF Continue
<1>2. x.kind = q.kind /\ x.pc = q.pc /\ x.got = q.got /\ x.shown = q.shown
  OBVIOUS
<1> HIDE DEF x
<1>3. ShownOK(x)
  BY <1>2 DEF ShownOK
<1> QED BY <1>1, <1>3

LEMMA OtherShown ==
    ASSUME StoredInv, NEW r \in Readers, NEW b, NEW x, Continue(r, b, x),
           Kept(req[r], x), req[r].kind # "page"
    PROVE  \A p \in Readers : ShownOK(req'[p])
<1>1. /\ {"kind", "pc", "got", "shown"} \subseteq DOMAIN x /\ x.kind # "page"
      /\ DOMAIN req = Readers
  <2>1. Asked(Coming, clock, req[r])
    BY DEF StoredInv, ReportsInv, Good
  <2> QED BY <2>1 DEF Kept, StoredInv, ReportsInv, Asked
<1>2. ShownOK(x)
  BY <1>1 DEF ShownOK
<1> QED BY <1>1, <1>2, ShownContinues DEF StoredInv

LEMMA AskShown ==
    ASSUME StoredInv, NEW r \in Readers, NEW kind, NEW target, NEW current, NEW baseline,
           Ask(r, kind, target, current, baseline)
    PROVE  \A p \in Readers : ShownOK(req'[p])
<1>1. PICK since :
        req' = [req EXCEPT ![r] =
                 [[Quiet EXCEPT !.kind = kind, !.target = target, !.current = current,
                                !.baseline = baseline] EXCEPT !.pc = "list", !.since = since]]
  BY DEF Ask
<1> DEFINE x == [[Quiet EXCEPT !.kind = kind, !.target = target, !.current = current,
                               !.baseline = baseline] EXCEPT !.pc = "list", !.since = since]
<1>2. x.got = << >> /\ x.pc = "list"
  BY DEF Quiet
<1>3. req' = [req EXCEPT ![r] = x] /\ DOMAIN req = Readers
  BY <1>1 DEF StoredInv, ReportsInv
<1> HIDE DEF x
<1>4. ShownOK(x)
  BY <1>2 DEF ShownOK
<1> QED BY <1>3, <1>4 DEF StoredInv

LEMMA ListShown ==
    ASSUME StoredInv, NEW r \in Readers, NEW ok \in BOOLEAN, ListPage(r, ok)
    PROVE  \A p \in Readers : ShownOK(req'[p])
<1> DEFINE q == req[r]
           x == [q EXCEPT !.pc = "read", !.todo = IF ok THEN SetToSeq(AllSeries) ELSE << >>]
<1>1. Continue(r, ok, x) /\ DOMAIN req = Readers /\ ShownOK(q) /\ Asked(Coming, clock, q)
  BY DEF ListPage, StoredInv, ReportsInv, Good
<1> HIDE DEF q
<1>2. /\ DOMAIN x = DOMAIN q /\ {"kind", "pc", "got", "shown"} \subseteq DOMAIN x
      /\ x.kind = q.kind /\ x.pc = "read" /\ x.got = q.got
  BY <1>1 DEF Asked
<1> HIDE DEF x
<1>3. ShownOK(x)
  BY <1>1, <1>2 DEF ShownOK
<1> QED BY <1>1, <1>2, <1>3, ShownContinues DEF StoredInv

LEMMA ReadShown ==
    ASSUME StoredInv, NEW r \in Readers, NEW ok \in BOOLEAN, ReadPage(r, ok)
    PROVE  \A p \in Readers : ShownOK(req'[p])
<1> DEFINE q == req[r]
           row == IF ok THEN Latest(OfSeries(Head(q.todo))) ELSE NoRow
           dirs == IF row = NoRow THEN q.dirs ELSE Append(q.dirs, {})
           calls == IF row = NoRow THEN q.calls ELSE TopCalls(Paths(row))
           y == [q EXCEPT !.todo = Tail(@), !.dirs = dirs, !.calls = calls]
           x == Found(y, row)
<1>1. /\ q.kind = "page" /\ q.pc = "read" /\ Continue(r, ok, x)
      /\ DOMAIN req = Readers /\ ShownOK(q) /\ Asked(Coming, clock, q)
      /\ Ordered(rows, ingests, clock)
  BY DEF ReadPage, StoredInv, ReportsInv, Good, Asked
<1> HIDE DEF q
<1>2. row = NoRow \/ RowOK(row)
  <2>1. row = NoRow \/ row \in rows
    BY <1>1, LatestOfSeries
  <2> QED BY <2>1 DEF StoredInv
<1> HIDE DEF row, dirs, calls
<1>3. /\ DOMAIN x = DOMAIN q /\ {"kind", "pc", "got", "shown"} \subseteq DOMAIN x
      /\ x.kind = q.kind /\ x.pc = "read"
      /\ x.got = IF row = NoRow THEN q.got ELSE Append(q.got, row)
  BY <1>1 DEF Asked, Found
<1> HIDE DEF x
<1>4. \A k \in DOMAIN x.got : RowOK(x.got[k])
  <2>1. CASE row = NoRow
    BY <1>1, <1>3, <2>1 DEF ShownOK
  <2>2. CASE row # NoRow
    <3> DEFINE n == Len(q.got)
    <3>1. /\ n \in Nat /\ DOMAIN q.got = 1..n /\ DOMAIN x.got = 1..(n + 1)
          /\ \A k \in DOMAIN q.got : x.got[k] = q.got[k]
          /\ x.got[n + 1] = row
      BY <1>1, <1>3, <2>2, ListedAppend DEF Asked, Listed
    <3> HIDE DEF n
    <3>2. \A k \in 1..(n + 1) : k = n + 1 \/ k \in 1..n
      BY <3>1
    <3> QED BY <1>1, <1>2, <2>2, <3>1, <3>2 DEF ShownOK
  <2> QED BY <2>1, <2>2
<1>5. ShownOK(x)
  BY <1>3, <1>4 DEF ShownOK
<1> QED BY <1>1, <1>3, <1>5, ShownContinues DEF StoredInv

LEMMA BuildShown ==
    ASSUME StoredInv, NEW r \in Readers, BuildDir(r)
    PROVE  \A p \in Readers : ShownOK(req'[p])
<1> DEFINE q == req[r]
           c == Head(q.calls)
           only == CHOOSE d \in SubDirs(c) : TRUE
           joined == <<Call(c.name \o <<only>>, c.parent, c.files)>> \o Tail(q.calls)
           below == Further(c) \o Tail(q.calls)
           dir == {[dir |-> FullDir(c), files |-> c.files]}
           join == [q EXCEPT !.calls = joined]
           show == [q EXCEPT !.calls = below, !.dirs[Len(q.dirs)] = @ \union dir]
<1>1. Continue(r, TRUE, join) \/ Continue(r, TRUE, show)
  BY DEF BuildDir, Further
<1>2. DOMAIN req = Readers /\ ShownOK(q) /\ Asked(Coming, clock, q)
  BY DEF StoredInv, ReportsInv, Good
<1> HIDE DEF q, joined, below, dir
<1>3. ASSUME NEW x \in {join, show}
      PROVE  ShownOK(x) /\ {"kind", "pc", "got", "shown"} \subseteq DOMAIN x
  <2>1. /\ DOMAIN x = DOMAIN q /\ {"kind", "pc", "got", "shown"} \subseteq DOMAIN x
        /\ x.kind = q.kind /\ x.pc = q.pc /\ x.got = q.got /\ x.shown = q.shown
    BY <1>2 DEF Asked
  <2> HIDE DEF join, show
  <2> QED BY <1>2, <2>1 DEF ShownOK
<1> HIDE DEF join, show
<1> QED BY <1>1, <1>2, <1>3, ShownContinues DEF StoredInv

LEMMA ShowShown ==
    ASSUME StoredInv, NEW r \in Readers, ShowPage(r)
    PROVE  \A p \in Readers : ShownOK(req'[p])
<1> DEFINE q == req[r]
           shown == IF Len(q.got) < 2 THEN << >> ELSE <<Composite(q.got)>>
           x == [Answer(q) EXCEPT !.shown = shown]
<1>1. Continue(r, TRUE, x) /\ DOMAIN req = Readers /\ ShownOK(q) /\ Asked(Coming, clock, q)
  BY DEF ShowPage, StoredInv, ReportsInv, Good
<1>2. shown \in {<< >>, <<Composite(q.got)>>}
  OBVIOUS
<1> HIDE DEF q, shown
<1>3. /\ DOMAIN x = DOMAIN q /\ {"kind", "pc", "got", "shown"} \subseteq DOMAIN x
      /\ x.kind = q.kind /\ x.got = q.got /\ x.shown = shown
  BY <1>1 DEF Asked, Answer
<1> HIDE DEF x
<1>4. ShownOK(x)
  BY <1>1, <1>2, <1>3 DEF ShownOK
<1> QED BY <1>1, <1>3, <1>4, ShownContinues DEF StoredInv

LEMMA InitStored == ReportsInit => StoredInv
<1> SUFFICES ASSUME ReportsInit PROVE StoredInv
  OBVIOUS
<1>1. ReportsInv
  BY InitReports
<1>2. rows = {} /\ Parsed = {} /\ \A r \in Readers : ShownOK(req[r])
  BY DEF ReportsInit, Parsed, ShownOK, Quiet
<1> QED BY <1>1, <1>2 DEF StoredInv

LEMMA StoredInductive == StoredInv /\ [ReportsNext]_reportvars => StoredInv'
<1> SUFFICES ASSUME StoredInv, [ReportsNext]_reportvars PROVE StoredInv'
  OBVIOUS
<1>0. ReportsInv' /\ ReportsInv /\ \A x \in rows \union Parsed : RowOK(x)
  BY ReportsInductive DEF StoredInv
<1>a. UNCHANGED <<rows, ingests>> /\ (\A p \in Readers : ShownOK(req'[p])) => StoredInv'
  BY <1>0 DEF StoredInv, Parsed
<1>1. ASSUME NEW d \in Docs, NEW format \in {d.format, Detect(d)}, Receive(d, format)
      PROVE  StoredInv'
  <2>1. rows' = rows /\ req' = req /\ \A x \in Parsed' : RowOK(x)
    BY <1>0, <1>1, ReceivedRow
  <2>2. \A p \in Readers : ShownOK(req'[p])
    BY <2>1 DEF StoredInv
  <2> QED BY <1>0, <2>1, <2>2 DEF StoredInv
<1>b. ASSUME NEW u \in ingests, Insert(u) \/ Strip(u) \/ Trim(u) PROVE StoredInv'
  <2>1. req' = req /\ \A x \in rows' \union Parsed' : RowOK(x)
    BY <1>b, UploadStored
  <2>2. \A p \in Readers : ShownOK(req'[p])
    BY <2>1 DEF StoredInv
  <2> QED BY <1>0, <2>1, <2>2 DEF StoredInv
<1>2. ASSUME Delete PROVE StoredInv'
  <2>1. /\ rows' = {} /\ ingests' = ingests
        /\ \A r \in Readers : \E n : req'[r] = [req[r] EXCEPT !.since = n]
    BY <1>2 DEF Delete
  <2>2. \A x \in rows' \union Parsed' : RowOK(x)
    BY <1>0, <2>1 DEF Parsed
  <2>3. ASSUME NEW p \in Readers PROVE ShownOK(req'[p])
    <3>1. PICK x : x = req'[p] /\ \E n : x = [req[p] EXCEPT !.since = n]
      BY <2>1
    <3>2. /\ x.kind = req[p].kind /\ x.got = req[p].got /\ x.pc = req[p].pc
          /\ x.shown = req[p].shown
      BY <1>0, <3>1 DEF ReportsInv, Good, Asked
    <3>3. ShownOK(x)
      BY <3>2 DEF StoredInv, ShownOK
    <3> QED BY <3>1, <3>3
  <2> QED BY <1>0, <2>2, <2>3 DEF StoredInv
<1>3. ASSUME NEW r \in Readers, NEW kind, NEW target, NEW current, NEW baseline,
             Ask(r, kind, target, current, baseline)
      PROVE  StoredInv'
  <2>1. UNCHANGED <<rows, ingests>>
    BY <1>3 DEF Ask
  <2>2. \A p \in Readers : ShownOK(req'[p])
    BY <1>3, AskShown
  <2> QED BY <1>a, <2>1, <2>2
<1>4. ASSUME NEW r \in Readers, NEW ok \in BOOLEAN, Handle(r, ok) PROVE StoredInv'
  <2>1. CASE ListPage(r, ok)
    BY <1>a, <2>1, ListShown DEF ListPage, Query
  <2>2. CASE ReadPage(r, ok)
    BY <1>a, <2>2, ReadShown DEF ReadPage, Query
  <2>3. CASE ~ListPage(r, ok) /\ ~ReadPage(r, ok)
    <3>1. /\ req[r].kind # "page" /\ UNCHANGED <<rows, ingests>>
          /\ \E b, x : Continue(r, b, x) /\ Kept(req[r], x)
      BY <1>0, <1>4, <2>3, OtherSteps DEF Handle
    <3>2. \A p \in Readers : ShownOK(req'[p])
      BY <3>1, OtherShown
    <3> QED BY <1>a, <3>1, <3>2
  <2> QED BY <2>1, <2>2, <2>3
<1>5. ASSUME NEW r \in Readers, BuildDir(r) PROVE StoredInv'
  BY <1>5, <1>a, BuildShown DEF BuildDir, Query
<1>6. ASSUME NEW r \in Readers, ShowPage(r) PROVE StoredInv'
  BY <1>6, <1>a, ShowShown DEF ShowPage, Query
<1>7. CASE UNCHANGED reportvars
  <2>1. UNCHANGED <<rows, ingests>> /\ req' = req
    BY <1>7 DEF reportvars
  <2>2. \A p \in Readers : ShownOK(req'[p])
    BY <2>1 DEF StoredInv
  <2> QED BY <1>a, <2>1, <2>2
<1> QED BY <1>1, <1>b, <1>2, <1>3, <1>4, <1>5, <1>6, <1>7 DEF ReportsNext

LEMMA StoredInvariant == ReportsSpec => []StoredInv
BY InitStored, StoredInductive, PTL DEF ReportsSpec

\* A stored snapshot has the lines its document reports and could have, each
\* executed if and only if some record says so, and the totals of what is left
\* when a record was dropped (the parsers, drop_implausible_lines).
THEOREM SnapshotsAreAsReported == ReportsSpec => []StoredAsReported
<1>1. StoredInv => StoredAsReported
  BY DEF StoredInv, RowOK, StoredAsReported
<1> QED BY <1>1, StoredInvariant, PTL

-----------------------------------------------------------------------------
(* The row "all targets" *)

\* What it counts, of n snapshots.
LEMMA CompositeIs ==
    ASSUME NEW n \in Nat, NEW got, DOMAIN got = 1..n, \A i \in 1..n : RowOK(got[i])
    PROVE  LET all == UNION {Stored(got[i]) : i \in DOMAIN got}
               without == {i \in DOMAIN got : Stored(got[i]) = {}}
           IN  /\ Composite(got).lt = Cardinality({e.line : e \in all})
                    + SumFunctionOnSet([i \in DOMAIN got |-> got[i].sum.lt], without)
               /\ Composite(got).lc = Cardinality({e.line : e \in {x \in all : x.hit}})
                    + SumFunctionOnSet([i \in DOMAIN got |-> got[i].sum.lc], without)
<1> DEFINE all == UNION {Stored(got[i]) : i \in DOMAIN got}
           without == {i \in DOMAIN got : Stored(got[i]) = {}}
           with == {i \in DOMAIN got : HasLines(got[i])}
           union == FoldLeft(EnterRow, << >>, got)
           lts == [i \in DOMAIN got |-> got[i].sum.lt]
           lcs == [i \in DOMAIN got |-> got[i].sum.lc]
           Left(numbers) == [i \in DOMAIN got |-> IF i \in with THEN 0 ELSE numbers[i]]
<1>1. Has(union, LinesUpTo(got, n), HitsUpTo(got, n))
  BY EnterRowsIs DEF RowOK
<1>2. SaidLines(all) = LinesUpTo(got, n)
  <2>1. \A i \in 1..n : SaidLines(Stored(got[i])) = LinesIn(got[i].files)
    BY StoredSays
  <2>2. SaidLines(all) = UNION {SaidLines(Stored(got[i])) : i \in 1..n}
    BY DEF SaidLines
  <2> QED BY <2>1, <2>2 DEF LinesUpTo
<1>3. SaidHits(all) = HitsUpTo(got, n)
  <2>1. \A i \in 1..n : SaidHits(Stored(got[i])) = HitsIn(got[i].files)
    BY StoredSays
  <2>2. SaidHits(all) = UNION {SaidHits(Stored(got[i])) : i \in 1..n}
    BY DEF SaidHits
  <2> QED BY <2>1, <2>2 DEF HitsUpTo
<1>4. \A i \in 1..n : i \in with <=> i \notin without
  <2>1. Has(<< >>, {}, {})
    <3>1. << >> \in [{} -> BOOLEAN] /\ DOMAIN << >> = {}
      OBVIOUS
    <3> QED BY <3>1 DEF Has, Unions
  <2>2. ASSUME NEW i \in 1..n PROVE HasLines(got[i]) <=> Stored(got[i]) # {}
    <3>1. PICK row : row = got[i] /\ row.files \in Seq(FileRecords)
      BY DEF RowOK
    <3>2. HasLines(row) <=> Stored(row) # {}
      BY <2>1, <3>1, EnterRowIs
    <3> QED BY <3>1, <3>2
  <2> QED BY <2>2
<1>5. \A i \in 1..n : lts[i] \in Int /\ lcs[i] \in Int
  BY DEF RowOK, Sums
<1>6. without \in SUBSET (1..n)
  OBVIOUS
<1> HIDE DEF all, without, with, lts, lcs, union
<1>7. Left(lts) = Masked(lts, n, without) /\ Left(lcs) = Masked(lcs, n, without)
  BY <1>4 DEF Masked
<1> HIDE DEF Left
<1>8. /\ Total(Left(lts)) = SumFunctionOnSet(lts, without)
      /\ Total(Left(lcs)) = SumFunctionOnSet(lcs, without)
  <2>1. SumFunctionOnSet(lts, without) = Total(Masked(lts, n, without))
    BY <1>5, <1>6, SetSumIs
  <2>2. SumFunctionOnSet(lcs, without) = Total(Masked(lcs, n, without))
    BY <1>5, <1>6, SetSumIs
  <2> QED BY <1>7, <2>1, <2>2
<1>9. /\ Composite(got).lt = Cardinality(DOMAIN union) + Total(Left(lts))
       /\ Composite(got).lc = Cardinality({x \in DOMAIN union : union[x]}) + Total(Left(lcs))
  BY DEF Composite, Left, with, union, lts, lcs
<1>10. /\ Cardinality(DOMAIN union) = Cardinality({e.line : e \in all})
       /\ Cardinality({x \in DOMAIN union : union[x]})
            = Cardinality({e.line : e \in {x \in all : x.hit}})
  BY <1>1, <1>2, <1>3 DEF Has, SaidLines, SaidHits
<1> QED BY <1>8, <1>9, <1>10 DEF all, without, lts, lcs

\* The row "all targets" of the project page counts each line of each path once,
\* as executed if a snapshot shown has it executed, and adds the totals of the
\* snapshots that lost their lines (compute_composite).
THEOREM CompositesAreUnions == ReportsSpec => []CompositeIsUnion
<1>1. StoredInv => CompositeIsUnion
  <2> SUFFICES ASSUME StoredInv, NEW r \in Readers, req[r].kind = "page",
                      req[r].pc = "answered", req[r].shown # << >>
               PROVE  LET q == req[r]
                          all == UNION {Stored(q.got[i]) : i \in DOMAIN q.got}
                          without == {i \in DOMAIN q.got : Stored(q.got[i]) = {}}
                      IN  /\ q.shown[1].lt = Cardinality({e.line : e \in all})
                               + SumFunctionOnSet([i \in DOMAIN q.got |-> q.got[i].sum.lt], without)
                          /\ q.shown[1].lc = Cardinality({e.line : e \in {x \in all : x.hit}})
                               + SumFunctionOnSet([i \in DOMAIN q.got |-> q.got[i].sum.lc], without)
    BY DEF CompositeIsUnion
  <2> DEFINE q == req[r]
  <2>1. ShownOK(q) /\ Asked(Coming, clock, q)
    BY DEF StoredInv, ReportsInv, Good
  <2>2. PICK got : got = q.got
    OBVIOUS
  <2>3. q.shown[1] = Composite(got) /\ \A k \in DOMAIN got : RowOK(got[k])
    BY <2>1, <2>2 DEF ShownOK
  <2>4. Len(got) \in Nat /\ DOMAIN got = 1..Len(got)
    BY <2>1, <2>2 DEF Asked, Listed
  <2>5. PICK n \in Nat : DOMAIN got = 1..n
    BY <2>4
  <2> QED BY <2>2, <2>3, <2>5, CompositeIs
<1> QED BY <1>1, StoredInvariant, PTL
=============================================================================
